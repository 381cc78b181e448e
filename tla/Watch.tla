-------------------------------- MODULE Watch --------------------------------
(***************************************************************************)
(* The threads of the watch (applications/watch.c) on the RT-Thread        *)
(* kernel: main starts them; Get samples the sensors and posts a           *)
(* semaphore; Show waits for it and draws a frame; serial reads theme      *)
(* commands from uart1 and "waits" on a mutex that the receive interrupt   *)
(* releases.  One CPU, fixed distinct priorities, preemption by SysTick    *)
(* and by rt_schedule, and a UART interrupt that may come between any two  *)
(* steps.                                                                  *)
(*                                                                         *)
(* A step is a piece of code in which no interrupt changes what the step   *)
(* reads: a section with interrupts disabled, or straight-line code around *)
(* one access to a shared variable.  Sleeping is counted in ticks.         *)
(***************************************************************************)
EXTENDS Naturals, Sequences, FiniteSets

CONSTANTS
    Colour,         \* the theme letters R G B Y C M O W and their colours
    Green,          \* LCD_DISP_GREEN, the initial theme
    Plain,          \* bytes that are no theme letter
    RxByte,         \* the bytes the peer sends in this instance
    RxInTake,       \* may a UART interrupt come while Show is the current thread
                    \* and is inside rt_sem_take
    AllocMayFail,   \* may rt_*_create run out of memory
    FifoCap,        \* unread bytes the serial FIFO keeps: bufsz - 1, 63 in the build
    SemMax,         \* RT_SEM_VALUE_MAX, 65535 in the build
    HoldMax,        \* RT_MUTEX_HOLD_MAX, 255 in the build
    StepTimeout,    \* ticks Get sleeps after a step, 500 in the build
    DrawTicks       \* ticks Show sleeps for one item it draws: 22 for each character
                    \* (lcd_SendBytes sleeps twice for each of the 11 bytes that
                    \* LCD_SetWindows sends) and 1 after the item

ASSUME ConstantsAssumption ==
    /\ Green \in Colour
    /\ RxByte \subseteq Colour \cup Plain
    /\ RxInTake \in BOOLEAN
    /\ AllocMayFail \in BOOLEAN
    /\ FifoCap \in Nat \ {0}
    /\ SemMax \in Nat \ {0}
    /\ HoldMax \in Nat \ {0}
    /\ StepTimeout \in Nat \ {0}
    /\ DrawTicks \in Nat \ {0}

VARIABLES
    current,        \* rt_current_thread
    pc,             \* where each thread is; "none" before rt_thread_create
    delay,          \* ticks until the thread's timer fires, 0 when it is not sleeping
    waiting,        \* the threads on a suspend list: Show on dynamic_sem's,
                    \* serial on dynamic_mutex's
    sem,            \* dynamic_sem->value
    semLive,        \* dynamic_sem points to a semaphore object
    corrupt,        \* rt_sem_release was applied to freed memory
    error,          \* Show's thread->error (-RT_ETIMEOUT is folded into EOK)
    mutex,          \* dynamic_mutex: value, owner, hold
    attached,       \* uart1's rx_indicate is uart_input
    fifo,           \* unread bytes of uart1 (module SerialFifo)
    ch,             \* serial's local ch
    Theme, themeChanged,
    icon,           \* colours in which "%" and the steps symbol were last drawn
    unseen,         \* history: themeChanged was set during the latest redraw of them
    draws,          \* items of the current frame that Show has still to draw
    defunct         \* _rt_thread_defunct

sched == <<current, pc, delay>>
semvars == <<waiting, sem, semLive, corrupt>>
uart == <<attached, fifo>>
theme == <<Theme, themeChanged, icon, unseen>>
vars == <<current, pc, delay, waiting, sem, semLive, corrupt, error, mutex,
          attached, fifo, ch, Theme, themeChanged, icon, unseen, draws, defunct>>

-----------------------------------------------------------------------------
(* The scheduler *)

Thread == {"main", "Show", "Get", "serial", "idle"}

\* Priorities given at creation; a lower number runs first.
Prio == [t \in Thread |->
           CASE t = "main"   -> 5     \* RT_MAIN_THREAD_PRIORITY
             [] t = "Show"   -> 20    \* THREAD_PRIORITY_HIGH
             [] t = "Get"    -> 25    \* THREAD_PRIORITY_MED
             [] t = "serial" -> 30    \* THREAD_PRIORITY_LOW
             [] t = "idle"   -> 31]

NoThread == "nobody"

\* The thread is running or on a ready list.
Ready(t) ==
    /\ pc[t] \notin {"none", "closed"}
    /\ delay[t] = 0
    /\ t \notin waiting

\* _get_highest_priority_thread
IsHighest(t) == Ready(t) /\ \A u \in Thread : Ready(u) => Prio[t] <= Prio[u]

\* Variant: a woken thread does not preempt the running one.
Reschedule_NoPreempt ==
    current' \in {t \in Thread :
        IF pc'[current] = "closed" \/ delay'[current] > 0 \/ current \in waiting'
          THEN IsHighest(t)' ELSE t = current}

\* rt_schedule: the highest-priority ready thread becomes current.
Reschedule == current' \in {t \in Thread : IsHighest(t)'}

Goto(t, label) == pc' = [pc EXCEPT ![t] = label]

\* rt_thread_mdelay: suspend the caller, start its timer, schedule.
Sleep(t, ticks, label) ==
    /\ Goto(t, label)
    /\ delay' = [delay EXCEPT ![t] = ticks]
    /\ UNCHANGED waiting
    /\ Reschedule

\* _rt_thread_exit: the thread is closed and left to the idle thread.
Exit(t) ==
    /\ Goto(t, "closed")
    /\ defunct' = defunct \cup {t}
    /\ UNCHANGED <<delay, waiting>>
    /\ Reschedule

Runs(t, label) == current = t /\ pc[t] = label

-----------------------------------------------------------------------------
(* Main_Threads, in the main thread *)

Init ==
    /\ current = "main"
    /\ pc = [t \in Thread |-> CASE t = "main" -> "ipc"
                                [] t = "idle" -> "loop"
                                [] OTHER      -> "none"]
    /\ delay = [t \in Thread |-> 0]
    /\ waiting = {}
    /\ sem = 0
    /\ semLive = FALSE
    /\ corrupt = FALSE
    /\ error = "EOK"
    /\ mutex = [value |-> 1, owner |-> NoThread, hold |-> 0]
    /\ attached = FALSE
    /\ fifo = << >>
    /\ ch \in Plain
    /\ Theme = Green
    /\ themeChanged = FALSE
    /\ unseen = FALSE
    /\ icon = [pct |-> Green, steps |-> Green]
    /\ draws = 0
    /\ defunct = {}

\* The mutex and the semaphore are created, or Main_Threads returns at once.
MainCreateIpc ==
    /\ Runs("main", "ipc")
    /\ \/ /\ semLive' = TRUE
          /\ Goto("main", "open")
          /\ UNCHANGED <<current, delay, waiting, defunct>>
       \/ /\ AllocMayFail
          /\ Exit("main")
          /\ UNCHANGED semLive
    /\ UNCHANGED <<sem, corrupt, error, mutex, uart, ch, theme, draws>>

\* rt_device_open and rt_device_set_rx_indicate(serial, uart_input).
MainOpenUart ==
    /\ Runs("main", "open")
    /\ attached' = TRUE
    /\ Goto("main", "serial")
    /\ UNCHANGED <<current, delay, semvars, error, mutex, fifo, ch, theme, draws, defunct>>

\* rt_thread_create and rt_thread_startup of thread t; when there is no memory
\* the thread is skipped and Main_Threads goes on.  main keeps the CPU.
MainStart(t, entry, next) ==
    /\ Runs("main", t)
    /\ \/ pc' = [pc EXCEPT !["main"] = next, ![t] = entry]
       \/ AllocMayFail /\ Goto("main", next)
    /\ UNCHANGED <<current, delay, semvars, error, mutex, uart, ch, theme, draws, defunct>>

\* Main_Threads and main return.
MainReturn ==
    /\ Runs("main", "return")
    /\ Exit("main")
    /\ UNCHANGED <<sem, semLive, corrupt, error, mutex, uart, ch, theme, draws>>

Main ==
    \/ MainCreateIpc
    \/ MainOpenUart
    \/ MainStart("serial", "read", "Get")
    \/ MainStart("Get", "sample", "Show")
    \/ MainStart("Show", "icon1", "return")
    \/ MainReturn

-----------------------------------------------------------------------------
(* Interrupts *)

\* The FIFO after byte c: the oldest byte goes when there is no room.
FifoPush(q, c) == IF Len(q) = FifoCap THEN Append(Tail(q), c) ELSE Append(q, c)

\* Variant: the owner test is forgotten, so any interrupted thread releases.
MutexRelease_AnyThread ==
    /\ mutex' = IF mutex.hold > 1
                  THEN [mutex EXCEPT !.hold = @ - 1]
                  ELSE [value |-> mutex.value + 1, owner |-> NoThread, hold |-> 0]
    /\ UNCHANGED <<current, pc, delay, waiting, error>>

\* rt_mutex_release as the interrupt calls it: rt_thread_self() is the thread
\* that was interrupted.  If it is not the owner, its thread->error is set.
\* The last release hands the mutex to a waiting thread or makes it free.
MutexRelease ==
    LET handover == mutex.hold = 1 /\ "serial" \in waiting
    IN  /\ UNCHANGED <<pc, delay>>
        /\ \/ /\ current # mutex.owner
              /\ error' = IF current = "Show" THEN "ERROR" ELSE error
              /\ UNCHANGED <<current, waiting, mutex>>
           \/ /\ current = mutex.owner
              /\ mutex' = CASE handover       -> [mutex EXCEPT !.owner = "serial"]
                           [] mutex.hold > 1 -> [mutex EXCEPT !.hold = @ - 1]
                           [] OTHER          -> [value |-> mutex.value + 1,
                                                 owner |-> NoThread, hold |-> 0]
              /\ waiting' = IF handover THEN waiting \ {"serial"} ELSE waiting
              /\ IF handover THEN Reschedule ELSE UNCHANGED current
              /\ UNCHANGED error

\* USART1_IRQHandler -> rt_hw_serial_isr -> uart_input -> rt_mutex_release.
UartRx(c) ==
    /\ attached
    /\ RxInTake \/ ~(current = "Show" /\ pc["Show"] \in {"suspended", "resumed"})
    /\ fifo' = FifoPush(fifo, c)
    /\ MutexRelease
    /\ UNCHANGED <<sem, semLive, corrupt, attached, ch, theme, draws, defunct>>

\* SysTick_Handler -> rt_tick_increase -> rt_timer_check: timers count down,
\* threads whose timer fires become ready (rt_thread_timeout; the error it
\* leaves is cleared when rt_thread_sleep resumes), and the scheduler runs.
\* Without a wake-up it runs only when the time slice is used up.
Tick ==
    LET woken == {t \in Thread : delay[t] = 1}
    IN  /\ delay' = [t \in Thread |-> IF delay[t] = 0 THEN 0 ELSE delay[t] - 1]
        /\ error' = IF "Show" \in woken THEN "EOK" ELSE error
        /\ UNCHANGED <<pc, waiting>>
        /\ Reschedule \/ (woken = {} /\ UNCHANGED current)
        /\ UNCHANGED <<sem, semLive, corrupt, mutex, uart, ch, theme, draws, defunct>>

-----------------------------------------------------------------------------
(* serial_thread_entry *)

\* rt_device_read(serial, -1, &ch, 1)
SerialRead ==
    /\ Runs("serial", "read")
    /\ \/ /\ fifo = << >>
          /\ Goto("serial", "take")
          /\ UNCHANGED <<fifo, ch>>
       \/ /\ fifo # << >>
          /\ ch' = Head(fifo)
          /\ fifo' = Tail(fifo)
          /\ Goto("serial", "echo")
    /\ UNCHANGED <<current, delay, semvars, error, mutex, attached, theme, draws, defunct>>

\* Variant: a mutex the caller owns already suspends it.
SerialTake_NotRecursive ==
    LET free == mutex.value > 0
    IN  /\ Runs("serial", "take")
        /\ mutex' = IF free THEN [value |-> 0, owner |-> "serial", hold |-> 1]
                            ELSE mutex
        /\ waiting' = IF free THEN waiting ELSE waiting \cup {"serial"}
        /\ Goto("serial", "read")
        /\ UNCHANGED delay
        /\ Reschedule
        /\ UNCHANGED <<sem, semLive, corrupt, error, uart, ch, theme, draws, defunct>>

\* rt_mutex_take(dynamic_mutex, RT_WAITING_FOREVER); the result is ignored.
\* A mutex the caller owns already is taken once more, up to HoldMax, and then
\* the call fails with -RT_EFULL; a free one is taken; for one that another
\* thread owns the caller is suspended.
SerialTake ==
    LET mine == mutex.owner = "serial"
        free == mutex.value > 0
    IN  /\ Runs("serial", "take")
        /\ mutex' = IF mine
                      THEN [mutex EXCEPT !.hold = IF @ < HoldMax THEN @ + 1 ELSE @]
                      ELSE IF free THEN [value |-> mutex.value - 1,
                                         owner |-> "serial", hold |-> mutex.hold + 1]
                                   ELSE mutex
        /\ waiting' = IF mine \/ free THEN waiting ELSE waiting \cup {"serial"}
        /\ Goto("serial", "read")
        /\ UNCHANGED delay
        /\ IF mine \/ free THEN UNCHANGED current ELSE Reschedule
        /\ UNCHANGED <<sem, semLive, corrupt, error, uart, ch, theme, draws, defunct>>

\* The byte is echoed; a theme letter sets Theme, any other byte is answered.
SerialCommand ==
    /\ Runs("serial", "echo")
    /\ \/ /\ ch \in Colour
          /\ Theme' = ch
          /\ Goto("serial", "flag")
       \/ /\ ch \notin Colour
          /\ Goto("serial", "read")
          /\ UNCHANGED Theme
    /\ UNCHANGED <<current, delay, semvars, error, mutex, uart, ch, themeChanged,
                   icon, unseen, draws, defunct>>

\* Show has drawn the first symbol of a redraw and not yet cleared the flag.
Redrawing == pc["Show"] \in {"steps", "clear"}

\* themeChanged = 1
SerialFlag ==
    /\ Runs("serial", "flag")
    /\ themeChanged' = TRUE
    /\ unseen' = (unseen \/ Redrawing)
    /\ Goto("serial", "read")
    /\ UNCHANGED <<current, delay, semvars, error, mutex, uart, ch, Theme, icon,
                   draws, defunct>>

Serial == SerialRead \/ SerialTake \/ SerialCommand \/ SerialFlag

-----------------------------------------------------------------------------
(* getValues_entry *)

\* time, ctime, accelerometer, rt_thread_mdelay(3)
GetSample ==
    /\ Runs("Get", "sample")
    /\ Sleep("Get", 3, "vector")
    /\ UNCHANGED <<sem, semLive, corrupt, error, mutex, uart, ch, theme, draws, defunct>>

\* A step was seen, and Get sleeps for the step timeout, or none was.
GetVector ==
    /\ Runs("Get", "vector")
    /\ \/ Sleep("Get", StepTimeout, "batt")
       \/ Goto("Get", "batt") /\ UNCHANGED <<current, delay, waiting>>
    /\ UNCHANGED <<sem, semLive, corrupt, error, mutex, uart, ch, theme, draws, defunct>>

\* Battery measurement, rt_thread_mdelay(2)
GetBatt ==
    /\ Runs("Get", "batt")
    /\ Sleep("Get", 2, "post")
    /\ UNCHANGED <<sem, semLive, corrupt, error, mutex, uart, ch, theme, draws, defunct>>

\* Variant: the value is incremented although a thread is suspended.
GetPost_NoResume ==
    /\ Runs("Get", "post")
    /\ semLive
    /\ sem' = IF sem < SemMax THEN sem + 1 ELSE sem
    /\ Goto("Get", "sample")
    /\ UNCHANGED <<current, delay, waiting, semLive, corrupt, error, mutex, uart,
                   ch, theme, draws, defunct>>

\* rt_sem_release(dynamic_sem): resume the waiter and schedule, or count up to
\* SemMax, beyond which the call fails with -RT_EFULL and Get goes on.  When
\* Show has deleted the semaphore the call works on freed memory.
GetPost ==
    /\ Runs("Get", "post")
    /\ Goto("Get", "sample")
    /\ \/ /\ semLive /\ "Show" \in waiting
          /\ waiting' = waiting \ {"Show"}
          /\ UNCHANGED <<delay, sem, corrupt>>
          /\ Reschedule
       \/ /\ semLive /\ "Show" \notin waiting
          /\ sem' = IF sem < SemMax THEN sem + 1 ELSE sem
          /\ UNCHANGED <<current, delay, waiting, corrupt>>
       \/ /\ ~semLive
          /\ corrupt' = TRUE
          /\ UNCHANGED <<current, delay, waiting, sem>>
    /\ UNCHANGED <<semLive, error, mutex, uart, ch, theme, draws, defunct>>

Get == GetSample \/ GetVector \/ GetBatt \/ GetPost

-----------------------------------------------------------------------------
(* showValues_entry *)

\* WriteString of one symbol in the current theme, which Show passes by value and
\* sleeps while it draws, then rt_thread_mdelay(1).
ShowSymbol(from, symbol, to) ==
    /\ Runs("Show", from)
    /\ icon' = [icon EXCEPT ![symbol] = Theme]
    /\ Sleep("Show", DrawTicks, to)
    /\ UNCHANGED <<sem, semLive, corrupt, error, mutex, uart, ch, Theme,
                   themeChanged, unseen, draws, defunct>>

\* Variant: the thread joins the suspend list without clearing its error.
ShowTake_KeepError ==
    /\ Runs("Show", "take")
    /\ \/ /\ sem > 0
          /\ sem' = sem - 1
          /\ Goto("Show", "theme")
          /\ UNCHANGED waiting
       \/ /\ sem = 0
          /\ waiting' = waiting \cup {"Show"}
          /\ Goto("Show", "suspended")
          /\ UNCHANGED sem
    /\ UNCHANGED <<current, delay, semLive, corrupt, error, mutex, uart, ch, theme,
                   draws, defunct>>

\* rt_sem_take(dynamic_sem, RT_WAITING_FOREVER), up to the end of the section
\* with interrupts disabled: Show is still the current thread.
ShowTake ==
    /\ Runs("Show", "take")
    /\ \/ /\ sem > 0
          /\ sem' = sem - 1
          /\ Goto("Show", "theme")
          /\ UNCHANGED <<waiting, error>>
       \/ /\ sem = 0
          /\ error' = "EOK"
          /\ waiting' = waiting \cup {"Show"}
          /\ Goto("Show", "suspended")
          /\ UNCHANGED sem
    /\ UNCHANGED <<current, delay, semLive, corrupt, mutex, uart, ch, theme, draws,
                   defunct>>

\* The rt_schedule call in rt_sem_take.
ShowSchedule ==
    /\ Runs("Show", "suspended")
    /\ Goto("Show", "resumed")
    /\ UNCHANGED <<delay, waiting>>
    /\ Reschedule
    /\ UNCHANGED <<sem, semLive, corrupt, error, mutex, uart, ch, theme, draws, defunct>>

\* rt_sem_take returns thread->error; on an error Show deletes the semaphore.
ShowResume ==
    /\ Runs("Show", "resumed")
    /\ \/ /\ error = "EOK"
          /\ Goto("Show", "theme")
          /\ UNCHANGED semLive
       \/ /\ error # "EOK"
          /\ semLive' = FALSE
          /\ Goto("Show", "return")
    /\ UNCHANGED <<current, delay, waiting, sem, corrupt, error, mutex, uart, ch,
                   theme, draws, defunct>>

\* showValues_entry returns.
ShowReturn ==
    /\ Runs("Show", "return")
    /\ Exit("Show")
    /\ UNCHANGED <<sem, semLive, corrupt, error, mutex, uart, ch, theme, draws>>

\* Variant: only the steps symbol is drawn again.
ShowBranch_StepsOnly ==
    /\ Runs("Show", "theme")
    /\ \/ themeChanged /\ Goto("Show", "steps") /\ unseen' = FALSE /\ UNCHANGED draws
       \/ ~themeChanged /\ Goto("Show", "draw") /\ draws' \in 1 .. 4 /\ UNCHANGED unseen
    /\ UNCHANGED <<current, delay, semvars, error, mutex, uart, ch, Theme, themeChanged,
                   icon, defunct>>

\* The test of themeChanged, and the switch on menu_index: every case of it
\* draws between one and four items, each followed by rt_thread_mdelay(1), and
\* sleeps for every character of an item.
ShowBranch ==
    /\ Runs("Show", "theme")
    /\ \/ themeChanged /\ Goto("Show", "pct") /\ unseen' = FALSE /\ UNCHANGED draws
       \/ ~themeChanged /\ Goto("Show", "draw") /\ draws' \in 1 .. 4 /\ UNCHANGED unseen
    /\ UNCHANGED <<current, delay, semvars, error, mutex, uart, ch, Theme, themeChanged,
                   icon, defunct>>

\* themeChanged = 0, after both symbols were drawn.
ShowClear ==
    /\ Runs("Show", "clear")
    /\ themeChanged' = FALSE
    /\ Goto("Show", "draw")
    /\ draws' \in 1 .. 4
    /\ UNCHANGED <<current, delay, semvars, error, mutex, uart, ch, Theme, icon,
                   unseen, defunct>>

ShowDraw ==
    /\ Runs("Show", "draw")
    /\ draws' = draws - 1
    /\ Sleep("Show", DrawTicks, IF draws = 1 THEN "take" ELSE "draw")
    /\ UNCHANGED <<sem, semLive, corrupt, error, mutex, uart, ch, theme, defunct>>

Show ==
    \/ ShowSymbol("icon1", "pct", "icon2")
    \/ ShowSymbol("icon2", "steps", "take")
    \/ ShowTake
    \/ ShowSchedule
    \/ ShowResume
    \/ ShowReturn
    \/ ShowBranch
    \/ ShowSymbol("pct", "pct", "steps")
    \/ ShowSymbol("steps", "steps", "clear")
    \/ ShowClear
    \/ ShowDraw

-----------------------------------------------------------------------------
(* rt_thread_idle_entry -> rt_defunct_execute *)

\* Variant: a list with a single thread is taken for empty.
IdleReclaim_KeepLast ==
    /\ Runs("idle", "loop")
    /\ Cardinality(defunct) > 1
    /\ \E t \in defunct : defunct' = defunct \ {t}
    /\ UNCHANGED <<sched, semvars, error, mutex, uart, ch, theme, draws>>

\* One exited thread is dequeued and its stack and object are freed.
IdleReclaim ==
    /\ Runs("idle", "loop")
    /\ \E t \in defunct : defunct' = defunct \ {t}
    /\ UNCHANGED <<sched, semvars, error, mutex, uart, ch, theme, draws>>

Next ==
    \/ Main
    \/ \E c \in RxByte : UartRx(c)
    \/ Tick
    \/ Serial
    \/ Get
    \/ Show
    \/ IdleReclaim

Spec == Init /\ [][Next]_vars

\* The hardware timer keeps ticking and the CPU never stops executing, so the
\* steps of main and Show, which nothing outranks for long, are weakly fair.
\* Get, serial and idle run in what Show and each other leave of every tick:
\* all of these sleep again and again, so a thread that is current again and
\* again is assumed to get on (strong fairness).
Fairness ==
    /\ WF_vars(Tick)
    /\ WF_vars(Main)
    /\ WF_vars(Show)
    /\ SF_vars(Get)
    /\ SF_vars(Serial)
    /\ SF_vars(IdleReclaim)

FairSpec == Spec /\ Fairness

-----------------------------------------------------------------------------
(* Safety *)

Label == {"none", "closed", "loop",
          "ipc", "open", "serial", "Get", "Show", "return",
          "read", "take", "echo", "flag",
          "sample", "vector", "batt", "post",
          "icon1", "icon2", "suspended", "resumed", "theme",
          "pct", "steps", "clear", "draw"}

TypeOK ==
    /\ current \in Thread
    /\ pc \in [Thread -> Label]
    /\ delay \in [Thread -> Nat]
    /\ waiting \subseteq {"Show", "serial"}
    /\ sem \in 0 .. SemMax
    /\ semLive \in BOOLEAN
    /\ corrupt \in BOOLEAN
    /\ error \in {"EOK", "ERROR"}
    /\ mutex \in [value : 0 .. 1, owner : {"serial", NoThread}, hold : 0 .. HoldMax]
    /\ attached \in BOOLEAN
    /\ fifo \in Seq(Colour \cup Plain) /\ Len(fifo) <= FifoCap
    /\ ch \in Colour \cup Plain
    /\ Theme \in Colour
    /\ themeChanged \in BOOLEAN
    /\ unseen \in BOOLEAN
    /\ icon \in [pct : Colour, steps : Colour]
    /\ draws \in 0 .. 4
    /\ defunct \subseteq {"main", "Show"}

\* The mutex is free or held by serial, never half-released: value, owner and
\* hold agree although takes come from the thread and releases from an
\* interrupt that acts in the name of whichever thread it interrupted.  In
\* particular rt_mutex_take never finds it held by another thread.
MutexConsistent ==
    \/ mutex = [value |-> 1, owner |-> NoThread, hold |-> 0]
    \/ mutex.value = 0 /\ mutex.owner = "serial" /\ mutex.hold >= 1

\* No wake-up of Show is lost: while it is on the suspend list the semaphore
\* has nothing to take, still exists, and Show is inside rt_sem_take.
NoLostWakeup ==
    "Show" \in waiting => /\ sem = 0
                          /\ semLive
                          /\ pc["Show"] \in {"suspended", "resumed"}

\* The CPU is always with the highest-priority ready thread; the only time the
\* current thread is not ready is Show between joining the suspend list and
\* its own rt_schedule in rt_sem_take.
HighestRuns ==
    \/ IsHighest(current)
    \/ current = "Show" /\ pc["Show"] = "suspended" /\ "Show" \in waiting

\* Once the serial thread has been created it never leaves the ready list, so
\* the idle thread, one priority below it, never gets the CPU back and what it
\* has not reclaimed by then stays allocated.
SerialKeepsCpu == pc["serial"] # "none" => Ready("serial") /\ current # "idle"

\* The semaphore Get and Show share is never deleted under them.  Show deletes
\* it when rt_sem_take fails, so this says that a wait forever does not fail.
SemaphoreSurvives == attached => semLive /\ ~corrupt

SymbolsIn(c) == icon = [pct |-> c, steps |-> c]

Drawn == pc["Show"] \in {"take", "suspended", "resumed", "theme", "pct", "draw"}

\* Theme and themeChanged are written by serial and read by Show at different
\* moments, and Show clears the flag two sleeps after it read Theme.  Still, once
\* the symbols are drawn they have the colour of the theme, or the flag for another
\* redraw is set or about to be; the only commands that are lost are those that set
\* the flag during a redraw, and the next command outside one ends the loss.
ThemeNotLost ==
    Drawn /\ ~unseen => themeChanged \/ pc["serial"] = "flag" \/ SymbolsIn(Theme)

-----------------------------------------------------------------------------
(* Liveness *)

Created(T) == \A t \in T : pc[t] # "none"

\* Show comes back to the semaphore for another frame again and again, once Get
\* and Show could be created: no wake-up is lost whatever serial does.
FramesForever == Created({"Get", "Show"}) ~> []<>(pc["Show"] = "take")

\* A byte in the FIFO is eventually read by the serial thread, or pushed out by
\* newer ones, when serial was created; either way serial reads one.
CommandsRead == fifo # << >> /\ Created({"serial"}) ~> pc["serial"] = "echo"

\* What exited is reclaimed when the serial thread could not be created.
DefunctReclaimed ==
    pc["main"] = "closed" /\ pc["serial"] = "none" ~> "main" \notin defunct
=============================================================================
