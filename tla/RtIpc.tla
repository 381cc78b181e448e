-------------------------------- MODULE RtIpc --------------------------------
(***************************************************************************)
(* The kernel services behind the watch: a mutex with priority inheritance *)
(* and a semaphore (src/ipc.c), sleeping and timed waits (src/thread.c),   *)
(* the tick (src/clock.c) and priority scheduling (src/scheduler.c), for   *)
(* any threads that call them in any order with any timeouts.              *)
(*                                                                         *)
(* Every step is a section with interrupts disabled.  A call that waits is *)
(* three steps: the section that suspends the caller, the rt_schedule that *)
(* follows it with interrupts enabled, and what is left of the call when   *)
(* the caller runs again.  The lists of waiters are in the order of        *)
(* RT_IPC_FLAG_PRIO, as those of every mutex and of the heap's semaphore.  *)
(***************************************************************************)
EXTENDS RtTimer, Integers, FiniteSets

CONSTANTS
    Thread,         \* the threads that use the mutex and the semaphore
    Idle,           \* the idle thread, below all of them
    NoThread,       \* RT_NULL as the owner
    Base,           \* priority of each thread at creation; lower numbers run first
    WaitTicks,      \* the time limits given to rt_sem_take and rt_mutex_take, in ticks
    SleepTicks,     \* the times given to rt_thread_sleep
    HoldMax,        \* RT_MUTEX_HOLD_MAX, 255 in the build
    SemMax          \* RT_SEM_VALUE_MAX, 65535 in the build

ASSUME IpcAssumption ==
    /\ IsFiniteSet(Thread)
    /\ Idle \notin Thread /\ NoThread \notin Thread \cup {Idle}
    /\ Base \in [Thread -> Nat]
    /\ WaitTicks \subseteq 1 .. HalfRange - 1
    /\ SleepTicks \subseteq 0 .. HalfRange - 1
    /\ HoldMax \in Nat \ {0}
    /\ SemMax \in Nat \ {0}

VARIABLES
    current,        \* rt_current_thread
    suspended,      \* threads with stat RT_THREAD_SUSPEND
    prio,           \* current_priority of each thread
    error,          \* thread->error, kept while the thread is in a waiting call:
                    \* outside of one it is written again before it is read
    at,             \* "run", or the step of the waiting call the thread is in
    call,           \* the waiting call it is in
    waiters,        \* suspend_thread lists of the mutex and the semaphore
    mutex,          \* value, owner, hold, original_priority
    value,          \* the semaphore's value
    tick,           \* rt_tick
    timers,         \* rt_timer_list: the activated thread_timers; the field left
                    \* is history, the ticks that the timer has still to go
    balance         \* history: releases of the semaphore that took effect minus
                    \* takes that succeeded

vars == <<current, suspended, prio, error, at, call, waiters, mutex, value, tick,
          timers, balance>>

Forever == -1           \* RT_WAITING_FOREVER
NoWait == 0             \* RT_WAITING_NO
NoPriority == 255       \* 0xff
Object == {"mutex", "sem"}

-----------------------------------------------------------------------------
(* The scheduler *)

Ready == Thread \ suspended

Highest == {t \in Ready : \A u \in Ready : prio[t] <= prio[u]}

\* rt_schedule: the highest-priority ready thread runs; among equals the time
\* slice decides.
Reschedule == current' \in (IF Highest' = {} THEN {Idle} ELSE Highest')

Runs(t) == current = t /\ at[t] = "run"

-----------------------------------------------------------------------------
(* rt_ipc_list_suspend, rt_thread_resume *)

\* RT_IPC_FLAG_PRIO: before the first thread of lower priority.
Queued(list, t) ==
    LET worse == {i \in 1 .. Len(list) : prio[t] < prio[list[i]]}
        place == IF worse = {} THEN Len(list) + 1
                               ELSE CHOOSE i \in worse : \A j \in worse : i <= j
    IN  InsertAt(list, place, t)

\* rt_thread_suspend of the caller, which also stops its timer, and
\* rt_timer_start when there is a time limit.  The caller has not yet called
\* rt_schedule.  A time of 0 only comes from rt_thread_sleep.
SuspendSelf(t, service, time) ==
    /\ error' = [error EXCEPT ![t] = "EOK"]
    /\ suspended' = suspended \cup {t}
    /\ at' = [at EXCEPT ![t] = "schedule"]
    /\ call' = [call EXCEPT ![t] = service]
    /\ timers' = IF time = Forever
                   THEN TimerRemove(timers, t)
                   ELSE TimerStart(timers, [thread   |-> t,
                                            deadline |-> (tick + time) % TickMod,
                                            left     |-> IF time = 0 THEN 1 ELSE time])
    /\ UNCHANGED <<current, tick>>

\* Variant: the thread's timer is left running.
Resume_KeepTimer(object) ==
    LET t == Head(waiters[object])
    IN  /\ waiters' = [waiters EXCEPT ![object] = Tail(@)]
        /\ suspended' = suspended \ {t}
        /\ UNCHANGED timers
        /\ Reschedule

\* rt_ipc_list_resume: the first waiter is taken off the list, its timer is
\* stopped and it is ready; then rt_schedule.
Resume(object) ==
    LET t == Head(waiters[object])
    IN  /\ waiters' = [waiters EXCEPT ![object] = Tail(@)]
        /\ suspended' = suspended \ {t}
        /\ timers' = TimerRemove(timers, t)
        /\ Reschedule

-----------------------------------------------------------------------------
(* Mutex *)

\* Variant: the nesting limit is not tested.
MutexTakeNow_NoLimit(t) ==
    /\ Runs(t)
    /\ mutex.owner = t \/ mutex.value > 0
    /\ mutex' = [mutex EXCEPT !.value = 0, !.owner = t, !.hold = @ + 1, !.original = prio[t]]
    /\ UNCHANGED <<current, suspended, prio, error, at, call, waiters, value, timers,
                   tick, balance>>

\* rt_mutex_take when it does not wait: once more by the owner, or of a free
\* mutex.  Without one and with no time to wait it returns -RT_ETIMEOUT.
MutexTakeNow(t) ==
    /\ Runs(t)
    /\ \/ /\ mutex.owner = t
          /\ mutex.hold < HoldMax
          /\ mutex' = [mutex EXCEPT !.hold = @ + 1]
       \/ /\ mutex.owner # t
          /\ mutex.value > 0
          /\ mutex' = [value |-> mutex.value - 1, owner |-> t,
                       hold |-> mutex.hold + 1, original |-> prio[t]]
    /\ UNCHANGED <<current, suspended, prio, error, at, call, waiters, value, timers,
                   tick, balance>>

\* Variant: the owner keeps its priority.
Inherit_None(t) == UNCHANGED prio

\* RT_THREAD_CTRL_CHANGE_PRIORITY of the owner, if the caller outranks it.
Inherit(t) == prio' = [prio EXCEPT ![mutex.owner] = IF prio[t] < @ THEN prio[t] ELSE @]

\* rt_mutex_take when it waits: the owner inherits the caller's priority.
MutexTakeWait(t, time) ==
    /\ Runs(t)
    /\ mutex.owner # t /\ mutex.value = 0 /\ time # NoWait
    /\ Inherit(t)
    /\ waiters' = [waiters EXCEPT !["mutex"] = Queued(@, t)]
    /\ SuspendSelf(t, "mutex", time)
    /\ UNCHANGED <<mutex, value, balance>>

\* Variant: the old owner goes on with the priority it has inherited.
Restored_Never == UNCHANGED prio

\* The releasing owner gets back the priority it had when it took the mutex.
Restored == prio' = [prio EXCEPT ![mutex.owner] = mutex.original]

\* The mutex as rt_mutex_release hands it over to the first waiter.
Handover == LET t == Head(waiters["mutex"])
            IN  [mutex EXCEPT !.owner = t, !.original = prio[t], !.hold = 1]

\* rt_mutex_release by the owner (for any other thread it fails): an inner
\* release, or the last one, which hands the mutex over or frees it.
MutexRelease(t) ==
    /\ Runs(t)
    /\ mutex.owner = t
    /\ \/ /\ mutex.hold > 1
          /\ mutex' = [mutex EXCEPT !.hold = @ - 1]
          /\ UNCHANGED <<current, suspended, prio, waiters, timers>>
       \/ /\ mutex.hold = 1
          /\ Restored
          /\ \/ /\ waiters["mutex"] # << >>
                /\ mutex' = Handover
                /\ Resume("mutex")
             \/ /\ waiters["mutex"] = << >>
                /\ mutex' = [value |-> mutex.value + 1, owner |-> NoThread,
                             hold |-> 0, original |-> NoPriority]
                /\ UNCHANGED <<current, suspended, waiters, timers>>
    /\ UNCHANGED <<error, at, call, value, tick, balance>>

-----------------------------------------------------------------------------
(* Semaphore *)

\* rt_sem_take of an available semaphore.  Without one and with no time to wait
\* it returns and changes nothing.
SemTakeNow(t) ==
    /\ Runs(t)
    /\ value > 0
    /\ value' = value - 1
    /\ balance' = balance - 1
    /\ UNCHANGED <<current, suspended, prio, error, at, call, waiters, mutex,
                   timers, tick>>

\* rt_sem_take when it waits.
SemTakeWait(t, time) ==
    /\ Runs(t)
    /\ value = 0 /\ time # NoWait
    /\ waiters' = [waiters EXCEPT !["sem"] = Queued(@, t)]
    /\ SuspendSelf(t, "sem", time)
    /\ UNCHANGED <<prio, mutex, value, balance>>

\* rt_sem_release, by the current thread or by an interrupt handler: the first
\* waiter is resumed without touching the value, or the value goes up, or the
\* call fails with -RT_EFULL and changes nothing.
SemRelease ==
    /\ UNCHANGED <<prio, error, at, call, mutex, tick>>
    /\ \/ /\ waiters["sem"] # << >>
          /\ Resume("sem")
          /\ balance' = balance + 1
          /\ UNCHANGED value
       \/ /\ waiters["sem"] = << >> /\ value < SemMax
          /\ value' = value + 1
          /\ balance' = balance + 1
          /\ UNCHANGED <<current, suspended, waiters, timers>>

-----------------------------------------------------------------------------
(* Waiting and time *)

\* rt_thread_sleep
Sleep(t, ticks) ==
    /\ Runs(t)
    /\ SuspendSelf(t, "sleep", ticks)
    /\ UNCHANGED <<prio, waiters, mutex, value, balance>>

\* The rt_schedule of a call that waits.  An interrupt may have resumed the
\* caller in the meantime.
Schedule(t) ==
    /\ current = t /\ at[t] = "schedule"
    /\ at' = [at EXCEPT ![t] = "return"]
    /\ UNCHANGED <<suspended, prio>>
    /\ Reschedule
    /\ UNCHANGED <<error, call, waiters, mutex, value, timers, tick, balance>>

\* What is left of the call when the thread runs again: rt_sem_take and
\* rt_mutex_take return thread->error, rt_thread_sleep clears it.
Return(t) ==
    /\ current = t /\ at[t] = "return"
    /\ at' = [at EXCEPT ![t] = "run"]
    /\ call' = [call EXCEPT ![t] = "none"]
    /\ error' = [error EXCEPT ![t] = "EOK"]
    /\ balance' = IF call[t] = "sem" /\ error[t] = "EOK" THEN balance - 1 ELSE balance
    /\ UNCHANGED <<current, suspended, prio, waiters, mutex, value, timers, tick>>

\* Variant: a thread that times out stays on the list of the object.
WithoutTimedOut_Stay(list, fired) == list

\* rt_list_remove(&(thread->tlist)) of the threads that time out.
WithoutTimedOut(list, fired) == Kept(list, {i \in 1 .. Len(list) : list[i] \notin fired})

\* SysTick_Handler -> rt_tick_increase: the tick goes up, perhaps the time
\* slice ends, and rt_timer_check calls rt_thread_timeout for every timer that
\* is due.
Tick ==
    LET now   == (tick + 1) % TickMod
        n     == TimersDue(timers, now)
        fired == {timers[i].thread : i \in 1 .. n}
    IN  /\ tick' = now
        /\ timers' = [i \in 1 .. Len(timers) - n |->
                         [timers[n + i] EXCEPT !.left = @ - 1]]
        /\ error' = [t \in Thread |-> IF t \in fired THEN "ETIMEOUT" ELSE error[t]]
        /\ waiters' = [o \in Object |-> WithoutTimedOut(waiters[o], fired)]
        /\ suspended' = suspended \ fired
        /\ UNCHANGED prio
        /\ \/ Reschedule
           \/ fired = {} /\ UNCHANGED current
        /\ UNCHANGED <<at, call, mutex, value, balance>>

-----------------------------------------------------------------------------

Init ==
    /\ suspended = {}
    /\ prio = Base
    /\ current \in Highest
    /\ error = [t \in Thread |-> "EOK"]
    /\ at = [t \in Thread |-> "run"]
    /\ call = [t \in Thread |-> "none"]
    /\ waiters = [o \in Object |-> << >>]
    /\ mutex = [value |-> 1, owner |-> NoThread, hold |-> 0, original |-> NoPriority]
    /\ value = 0
    /\ tick = 0
    /\ timers = << >>
    /\ balance = 0

Call(t) ==
    \/ MutexTakeNow(t)
    \/ \E time \in WaitTicks \cup {Forever} :
          \/ MutexTakeWait(t, time)
          \/ SemTakeWait(t, time)
    \/ \E ticks \in SleepTicks : Sleep(t, ticks)
    \/ SemTakeNow(t)
    \/ MutexRelease(t)

Next ==
    \/ \E t \in Thread : Call(t) \/ Schedule(t) \/ Return(t)
    \/ SemRelease
    \/ Tick

Spec == Init /\ [][Next]_vars

-----------------------------------------------------------------------------
(* Safety *)

Armed(t) == \E i \in 1 .. Len(timers) : timers[i].thread = t
Waits(t, object) == \E i \in 1 .. Len(waiters[object]) : waiters[object][i] = t

Service == {"none", "mutex", "sem", "sleep"}

TypeOK ==
    /\ current \in Thread \cup {Idle}
    /\ suspended \subseteq Thread
    /\ prio \in [Thread -> {Base[t] : t \in Thread}]
    /\ error \in [Thread -> {"EOK", "ETIMEOUT"}]
    /\ at \in [Thread -> {"run", "schedule", "return"}]
    /\ call \in [Thread -> Service]
    /\ waiters \in [Object -> Seq(Thread)]
    /\ mutex \in [value : 0 .. 1, owner : Thread \cup {NoThread}, hold : 0 .. HoldMax,
                  original : {Base[t] : t \in Thread} \cup {NoPriority}]
    /\ value \in 0 .. SemMax
    /\ tick \in Ticks
    /\ timers \in Seq([thread : Thread, deadline : Ticks, left : Nat])
    /\ balance \in Nat

\* A thread is suspended for exactly one reason, and can get out of it: it is
\* on the list of the object it waits for (once), or it sleeps, and then its
\* timer runs.  A thread that is not suspended is on no list and its timer is
\* stopped, so rt_thread_timeout never hits a running thread.
SuspendedOnce ==
    /\ \A o \in Object : IsInjective(waiters[o])
    /\ \A t \in Thread :
         /\ t \in suspended => /\ at[t] \in {"schedule", "return"}
                               /\ \A o \in Object : Waits(t, o) <=> call[t] = o
                               /\ call[t] = "sleep" => Armed(t)
         /\ t \notin suspended => ~Armed(t) /\ \A o \in Object : ~Waits(t, o)

\* The mutex is free, with no waiter and no owner, or it has an owner that
\* holds it at least once and does not wait for it.
MutexConsistent ==
    \/ /\ mutex = [value |-> 1, owner |-> NoThread, hold |-> 0, original |-> NoPriority]
       /\ waiters["mutex"] = << >>
    \/ /\ mutex.value = 0 /\ mutex.owner \in Thread /\ mutex.hold >= 1
       /\ ~Waits(mutex.owner, "mutex")

\* However a timeout and a release race, the mutex stays consistent, whoever
\* comes back from a wait for it without an error owns it, and whoever comes back
\* with one does not.
TakeOutcome ==
    /\ MutexConsistent
    /\ \A t \in Thread \ suspended :
         at[t] \in {"schedule", "return"} /\ call[t] = "mutex" =>
             (error[t] = "EOK" <=> mutex.owner = t)

\* No priority inversion: while a thread waits for the mutex and the owner could
\* run, nothing of lower priority than the waiter runs in its place.
NoInversion ==
    \A t \in Thread :
        Waits(t, "mutex") /\ mutex.owner \notin suspended =>
            current # Idle /\ prio[current] <= prio[t]

\* An inherited priority ends with the mutex: no other thread runs at a
\* priority that is not its own.
PriorityReturned == \A t \in Thread : t # mutex.owner => prio[t] = Base[t]

\* Every release of the semaphore is kept as a value or given to one thread
\* that will come back without an error; none is lost to a timeout and none is
\* used twice.
TokensConserved ==
    balance = value + Cardinality({t \in Thread \ suspended :
                                     /\ at[t] \in {"schedule", "return"}
                                     /\ call[t] = "sem"
                                     /\ error[t] = "EOK"})

\* Every running timer is due in exactly the ticks that are left of the time it
\* was started with (a sleep of 0 ticks lasts until the next one), and never
\* overdue, across the wrap of the tick.
TimersOnTime ==
    \A i \in 1 .. Len(timers) :
        /\ timers[i].left > 0
        /\ \/ TickDiff(timers[i].deadline, tick) = timers[i].left
           \/ timers[i].deadline = tick /\ timers[i].left = 1
=============================================================================
