----------------------------- MODULE WatchProofs -----------------------------
(***************************************************************************)
(* Proofs about module Watch, for every theme, byte alphabet, FIFO size,   *)
(* semaphore and nesting limit and step timeout.                           *)
(***************************************************************************)
EXTENDS Watch, SequenceTheorems, TLAPS

(* The inductive invariant *)

\* A drawing Show has something to draw; while it has not given up, and while
\* main is on its way to start it, the semaphore exists.
ShowOK ==
    /\ pc["Show"] = "draw" => draws >= 1
    /\ pc["Show"] \notin {"none", "return", "closed"} => semLive
    /\ pc["main"] \in {"ipc", "open", "serial", "Get", "Show"} => pc["Show"] = "none"
    /\ pc["main"] \in {"open", "serial", "Get", "Show"} => semLive

\* The serial thread never sleeps, exits or waits.
SerialOK ==
    /\ pc["serial"] \in {"none", "read", "take", "echo", "flag"}
    /\ delay["serial"] = 0
    /\ "serial" \notin waiting

IInv == TypeOK /\ MutexConsistent /\ NoLostWakeup /\ HighestRuns /\ ShowOK /\ SerialOK

-----------------------------------------------------------------------------
(* The scheduler *)

\* rt_schedule leaves the CPU with a ready thread that nobody outranks.
LEMMA Rescheduled == Reschedule => current' \in Thread /\ IsHighest(current)'
<1>. SUFFICES ASSUME Reschedule PROVE current' \in Thread /\ IsHighest(current)'
  OBVIOUS
<1>1. current' \in Thread
  BY DEF Reschedule
<1>2. IsHighest(current)'
  BY DEF Reschedule, IsHighest, Ready
<1>. QED BY <1>1, <1>2

\* A step that leaves the CPU where it is and the ready threads as they are
\* disturbs nothing.
LEMMA Undisturbed ==
    ASSUME HighestRuns, current' = current,
           \A t \in Thread : Ready(t)' = Ready(t),
           (current = "Show" /\ pc["Show"] = "suspended" /\ "Show" \in waiting)
             => (pc'["Show"] = "suspended" /\ "Show" \in waiting'),
           current \in Thread
    PROVE  HighestRuns'
<1>1. CASE IsHighest(current)
  <2>1. IsHighest(current)'
    BY <1>1 DEF IsHighest
  <2>. QED BY <2>1 DEF HighestRuns
<1>2. CASE current = "Show" /\ pc["Show"] = "suspended" /\ "Show" \in waiting
  BY <1>2 DEF HighestRuns
<1>. QED BY <1>1, <1>2 DEF HighestRuns

\* main outranks every other thread, and the serial thread outranks idle.
LEMMA Ranks == /\ \A t \in Thread : Prio["main"] <= Prio[t]
               /\ ~(Prio["idle"] <= Prio["serial"])
  BY DEF Prio, Thread

\* A thread that executes a step of its own is ready, except Show between the
\* suspend list and rt_schedule.
LEMMA RunnerReady ==
    ASSUME HighestRuns, NEW t, NEW label, Runs(t, label), label # "suspended"
    PROVE  IsHighest(t) /\ Ready(t)
  BY DEF HighestRuns, Runs, IsHighest

-----------------------------------------------------------------------------
(* Steps of the threads *)

\* Main_Threads preserves the invariant.
LEMMA MainStep == IInv /\ Main => IInv'
<1>. SUFFICES ASSUME IInv, Main PROVE IInv'
  OBVIOUS
<1>. USE DEF IInv, Goto, Runs, sched, semvars, uart, theme
<1>1. CASE MainCreateIpc
  <2>1. TypeOK'
    <3>1. current' \in Thread
      BY ConstantsAssumption, <1>1, Rescheduled DEF
           TypeOK, MainCreateIpc, Exit, Thread, NoThread, Label
    <3>2. pc' \in [Thread -> Label]
      BY ConstantsAssumption, <1>1, Rescheduled DEF
           TypeOK, MainCreateIpc, Exit, Thread, NoThread, Label
    <3>3. semLive' \in BOOLEAN
      BY ConstantsAssumption, <1>1, Rescheduled DEF
           TypeOK, MainCreateIpc, Exit, Thread, NoThread, Label
    <3>4. defunct' \subseteq {"main", "Show"}
      BY ConstantsAssumption, <1>1, Rescheduled DEF
           TypeOK, MainCreateIpc, Exit, Thread, NoThread, Label
    <3>. QED BY <1>1, <3>1, <3>2, <3>3, <3>4 DEF TypeOK, MainCreateIpc, Exit
  <2>2. MutexConsistent'
    BY <1>1 DEF TypeOK, MutexConsistent, MainCreateIpc, Exit
  <2>3. NoLostWakeup'
    BY <1>1, RunnerReady DEF
         TypeOK, NoLostWakeup, ShowOK, Ready, MainCreateIpc, Exit, Thread, NoThread,
         Label
  <2>4. HighestRuns'
    BY <1>1, Rescheduled, Undisturbed DEF
         TypeOK, Ready, HighestRuns, MainCreateIpc, Exit, Thread, NoThread, Label
  <2>5. ShowOK'
    BY <1>1 DEF TypeOK, ShowOK, MainCreateIpc, Exit, Thread, NoThread, Label
  <2>6. SerialOK'
    BY <1>1 DEF
         TypeOK, MutexConsistent, SerialOK, MainCreateIpc, Exit, Thread, NoThread,
         Label
  <2>. QED BY <2>1, <2>2, <2>3, <2>4, <2>5, <2>6
<1>2. CASE MainOpenUart
  <2>1. TypeOK'
    BY ConstantsAssumption, <1>2 DEF
         TypeOK, MutexConsistent, ShowOK, MainOpenUart, Thread, NoThread, Label
  <2>2. MutexConsistent'
    BY <1>2 DEF TypeOK, MutexConsistent, MainOpenUart
  <2>3. NoLostWakeup'
    BY <1>2, RunnerReady DEF
         TypeOK, NoLostWakeup, ShowOK, Ready, MainOpenUart, Thread, NoThread, Label
  <2>4. HighestRuns'
    BY <1>2, Undisturbed, RunnerReady, Zenon DEF
         TypeOK, MutexConsistent, SerialOK, Ready, MainOpenUart, Thread, NoThread,
         Label
  <2>5. ShowOK'
    BY <1>2 DEF TypeOK, ShowOK, MainOpenUart, Thread, NoThread, Label
  <2>6. SerialOK'
    BY <1>2 DEF TypeOK, MutexConsistent, SerialOK, MainOpenUart, Thread, NoThread, Label
  <2>. QED BY <2>1, <2>2, <2>3, <2>4, <2>5, <2>6
<1>3. CASE MainStart("serial", "read", "Get")
  <2>1. TypeOK'
    BY ConstantsAssumption, <1>3 DEF
         TypeOK, MutexConsistent, ShowOK, MainStart, Thread, NoThread, Label
  <2>2. MutexConsistent'
    BY <1>3 DEF TypeOK, MutexConsistent, MainStart
  <2>3. NoLostWakeup'
    BY <1>3, RunnerReady DEF
         TypeOK, NoLostWakeup, ShowOK, Ready, MainStart, Thread, NoThread, Label
  <2>4. HighestRuns'
    BY <1>3, RunnerReady, Ranks DEF
         TypeOK, Ready, IsHighest, HighestRuns, MainStart, Thread, NoThread, Label
  <2>5. ShowOK'
    BY <1>3 DEF TypeOK, ShowOK, MainStart, Thread, NoThread, Label
  <2>6. SerialOK'
    BY <1>3 DEF TypeOK, MutexConsistent, SerialOK, MainStart, Thread, NoThread, Label
  <2>. QED BY <2>1, <2>2, <2>3, <2>4, <2>5, <2>6
<1>4. CASE MainStart("Get", "sample", "Show")
  <2>1. TypeOK'
    BY ConstantsAssumption, <1>4 DEF
         TypeOK, MutexConsistent, ShowOK, MainStart, Thread, NoThread, Label
  <2>2. MutexConsistent'
    BY <1>4 DEF TypeOK, MutexConsistent, MainStart
  <2>3. NoLostWakeup'
    BY <1>4, RunnerReady DEF
         TypeOK, NoLostWakeup, ShowOK, Ready, MainStart, Thread, NoThread, Label
  <2>4. HighestRuns'
    BY <1>4, RunnerReady, Ranks DEF
         TypeOK, Ready, IsHighest, HighestRuns, MainStart, Thread, NoThread, Label
  <2>5. ShowOK'
    BY <1>4 DEF TypeOK, ShowOK, MainStart, Thread, NoThread, Label
  <2>6. SerialOK'
    BY <1>4 DEF TypeOK, MutexConsistent, SerialOK, MainStart, Thread, NoThread, Label
  <2>. QED BY <2>1, <2>2, <2>3, <2>4, <2>5, <2>6
<1>5. CASE MainStart("Show", "icon1", "return")
  <2>1. TypeOK'
    BY ConstantsAssumption, <1>5 DEF
         TypeOK, MutexConsistent, ShowOK, MainStart, Thread, NoThread, Label
  <2>2. MutexConsistent'
    BY <1>5 DEF TypeOK, MutexConsistent, MainStart
  <2>3. NoLostWakeup'
    BY <1>5, RunnerReady DEF
         TypeOK, NoLostWakeup, ShowOK, Ready, MainStart, Thread, NoThread, Label
  <2>4. HighestRuns'
    BY <1>5, RunnerReady, Ranks DEF
         TypeOK, Ready, IsHighest, HighestRuns, MainStart, Thread, NoThread, Label
  <2>5. ShowOK'
    BY <1>5 DEF TypeOK, ShowOK, MainStart, Thread, NoThread, Label
  <2>6. SerialOK'
    BY <1>5 DEF TypeOK, MutexConsistent, SerialOK, MainStart, Thread, NoThread, Label
  <2>. QED BY <2>1, <2>2, <2>3, <2>4, <2>5, <2>6
<1>6. CASE MainReturn
  <2>1. TypeOK'
    BY ConstantsAssumption, <1>6, Rescheduled DEF
         TypeOK, MutexConsistent, ShowOK, MainReturn, Exit, Thread, NoThread, Label
  <2>2. MutexConsistent'
    BY <1>6 DEF TypeOK, MutexConsistent, MainReturn, Exit
  <2>3. NoLostWakeup'
    BY <1>6, RunnerReady DEF
         TypeOK, NoLostWakeup, ShowOK, Ready, MainReturn, Exit, Thread, NoThread,
         Label
  <2>4. HighestRuns'
    BY <1>6, Rescheduled DEF HighestRuns, MainReturn, Exit
  <2>5. ShowOK'
    BY <1>6 DEF TypeOK, ShowOK, MainReturn, Exit, Thread, NoThread, Label
  <2>6. SerialOK'
    BY <1>6 DEF
         TypeOK, MutexConsistent, SerialOK, MainReturn, Exit, Thread, NoThread, Label
  <2>. QED BY <2>1, <2>2, <2>3, <2>4, <2>5, <2>6
<1>. QED BY <1>1, <1>2, <1>3, <1>4, <1>5, <1>6 DEF Main

\* The serial thread preserves the invariant: because it owns the mutex or finds
\* it free, it never comes to wait for it.
LEMMA SerialStep == IInv /\ Serial => IInv'
<1>. SUFFICES ASSUME IInv, Serial PROVE IInv'
  OBVIOUS
<1>. USE DEF IInv, Goto, Runs, sched, semvars, uart, theme
<1>1. CASE SerialRead
  <2>1. TypeOK'
    <3>1. pc' \in [Thread -> Label]
      BY ConstantsAssumption, HeadTailProperties, <1>1 DEF
           TypeOK, SerialRead, Thread, NoThread, Label
    <3>2. ch' \in Colour \cup Plain
      BY ConstantsAssumption, HeadTailProperties, <1>1 DEF
           TypeOK, SerialRead, Thread, NoThread, Label
    <3>3. fifo' \in Seq(Colour \cup Plain) /\ Len(fifo') <= FifoCap
      <4>1. CASE fifo = << >>
        BY <1>1, <4>1 DEF TypeOK, SerialRead
      <4>2. CASE fifo # << >>
        <5>1. fifo' = Tail(fifo)
          BY <1>1, <4>2 DEF SerialRead
        <5>2. Tail(fifo) \in Seq(Colour \cup Plain) /\ Len(Tail(fifo)) = Len(fifo) - 1
          BY <4>2, HeadTailProperties DEF TypeOK
        <5>. QED BY <5>1, <5>2, ConstantsAssumption DEF TypeOK
      <4>. QED BY <4>1, <4>2
    <3>. QED BY <1>1, <3>1, <3>2, <3>3 DEF TypeOK, SerialRead
  <2>2. MutexConsistent'
    BY <1>1 DEF TypeOK, MutexConsistent, SerialRead
  <2>3. NoLostWakeup'
    BY <1>1, RunnerReady DEF
         TypeOK, NoLostWakeup, ShowOK, Ready, SerialRead, Thread, NoThread, Label
  <2>4. HighestRuns'
    BY <1>1, Undisturbed, RunnerReady, Zenon DEF
         TypeOK, MutexConsistent, SerialOK, Ready, SerialRead, Thread, NoThread,
         Label
  <2>5. ShowOK'
    BY <1>1 DEF TypeOK, ShowOK, SerialRead, Thread, NoThread, Label
  <2>6. SerialOK'
    BY <1>1 DEF TypeOK, MutexConsistent, SerialOK, SerialRead, Thread, NoThread, Label
  <2>. QED BY <2>1, <2>2, <2>3, <2>4, <2>5, <2>6
<1>2. CASE SerialTake
  <2>1. TypeOK'
    <3>1. mutex.owner = "serial" \/ mutex.value > 0
      BY DEF MutexConsistent
    <3>2. current' = current /\ waiting' = waiting /\ delay' = delay
      BY <1>2, <3>1 DEF SerialTake
    <3>3. mutex' \in [value : 0 .. 1, owner : {"serial", NoThread}, hold : 0 .. HoldMax]
      <4>1. CASE mutex.owner = "serial"
        <5>1. mutex' = [mutex EXCEPT !.hold = IF @ < HoldMax THEN @ + 1 ELSE @]
          BY <1>2, <4>1 DEF SerialTake
        <5>2. (IF mutex.hold < HoldMax THEN mutex.hold + 1 ELSE mutex.hold) \in 0 .. HoldMax
          BY ConstantsAssumption DEF TypeOK
        <5>. QED BY <5>1, <5>2 DEF TypeOK
      <4>2. CASE mutex.owner # "serial"
        <5>1. mutex = [value |-> 1, owner |-> NoThread, hold |-> 0]
          BY <4>2 DEF MutexConsistent
        <5>2. mutex' = [value |-> 0, owner |-> "serial", hold |-> 1]
          BY <1>2, <4>2, <5>1 DEF SerialTake, NoThread
        <5>. QED BY <5>2, ConstantsAssumption
      <4>. QED BY <4>1, <4>2
    <3>4. pc' \in [Thread -> Label]
      BY <1>2 DEF TypeOK, SerialTake, Goto, Label
    <3>. QED BY <1>2, <3>2, <3>3, <3>4 DEF TypeOK, SerialTake
  <2>2. MutexConsistent'
    BY ConstantsAssumption, <1>2 DEF TypeOK, MutexConsistent, SerialTake, NoThread
  <2>3. NoLostWakeup'
    BY <1>2, RunnerReady DEF
         TypeOK, NoLostWakeup, ShowOK, Ready, SerialTake, Thread, NoThread, Label
  <2>4. HighestRuns'
    <3>1. mutex.owner = "serial" \/ mutex.value > 0
      BY DEF MutexConsistent
    <3>2. current' = current /\ waiting' = waiting /\ delay' = delay
      BY <1>2, <3>1 DEF SerialTake
    <3>. QED BY <1>2, <3>2, Undisturbed, RunnerReady, Zenon DEF
         TypeOK, Ready, SerialTake, Thread, NoThread, Label
  <2>5. ShowOK'
    BY <1>2 DEF TypeOK, ShowOK, SerialTake, Thread, NoThread, Label
  <2>6. SerialOK'
    BY <1>2 DEF TypeOK, MutexConsistent, SerialOK, SerialTake, Thread, NoThread, Label
  <2>. QED BY <2>1, <2>2, <2>3, <2>4, <2>5, <2>6
<1>3. CASE SerialCommand
  <2>1. TypeOK'
    BY ConstantsAssumption, <1>3 DEF
         TypeOK, MutexConsistent, ShowOK, SerialCommand, Thread, NoThread, Label
  <2>2. MutexConsistent'
    BY <1>3 DEF TypeOK, MutexConsistent, SerialCommand
  <2>3. NoLostWakeup'
    BY <1>3, RunnerReady DEF
         TypeOK, NoLostWakeup, ShowOK, Ready, SerialCommand, Thread, NoThread, Label
  <2>4. HighestRuns'
    BY <1>3, Undisturbed, RunnerReady, Zenon DEF
         TypeOK, MutexConsistent, SerialOK, Ready, SerialCommand, Thread, NoThread,
         Label
  <2>5. ShowOK'
    BY <1>3 DEF TypeOK, ShowOK, SerialCommand, Thread, NoThread, Label
  <2>6. SerialOK'
    BY <1>3 DEF
         TypeOK, MutexConsistent, SerialOK, SerialCommand, Thread, NoThread, Label
  <2>. QED BY <2>1, <2>2, <2>3, <2>4, <2>5, <2>6
<1>4. CASE SerialFlag
  <2>1. TypeOK'
    BY ConstantsAssumption, <1>4 DEF
         TypeOK, MutexConsistent, ShowOK, SerialFlag, Thread, NoThread, Label
  <2>2. MutexConsistent'
    BY <1>4 DEF TypeOK, MutexConsistent, SerialFlag
  <2>3. NoLostWakeup'
    BY <1>4, RunnerReady DEF
         TypeOK, NoLostWakeup, ShowOK, Ready, SerialFlag, Thread, NoThread, Label
  <2>4. HighestRuns'
    BY <1>4, Undisturbed, RunnerReady, Zenon DEF
         TypeOK, MutexConsistent, SerialOK, Ready, SerialFlag, Thread, NoThread,
         Label
  <2>5. ShowOK'
    BY <1>4 DEF TypeOK, ShowOK, SerialFlag, Thread, NoThread, Label
  <2>6. SerialOK'
    BY <1>4 DEF TypeOK, MutexConsistent, SerialOK, SerialFlag, Thread, NoThread, Label
  <2>. QED BY <2>1, <2>2, <2>3, <2>4, <2>5, <2>6
<1>. QED BY <1>1, <1>2, <1>3, <1>4 DEF Serial

\* The Get thread preserves the invariant.
LEMMA GetStep == IInv /\ Get => IInv'
<1>. SUFFICES ASSUME IInv, Get PROVE IInv'
  OBVIOUS
<1>. USE DEF IInv, Goto, Runs, sched, semvars, uart, theme
<1>1. CASE GetSample
  <2>1. TypeOK'
    BY ConstantsAssumption, <1>1, Rescheduled DEF
         TypeOK, MutexConsistent, ShowOK, GetSample, Sleep, Thread, NoThread, Label
  <2>2. MutexConsistent'
    BY <1>1 DEF TypeOK, MutexConsistent, GetSample, Sleep
  <2>3. NoLostWakeup'
    BY <1>1, RunnerReady DEF
         TypeOK, NoLostWakeup, ShowOK, Ready, GetSample, Sleep, Thread, NoThread,
         Label
  <2>4. HighestRuns'
    BY <1>1, Rescheduled DEF HighestRuns, GetSample, Sleep
  <2>5. ShowOK'
    BY <1>1 DEF TypeOK, ShowOK, GetSample, Sleep, Thread, NoThread, Label
  <2>6. SerialOK'
    BY <1>1 DEF
         TypeOK, MutexConsistent, SerialOK, GetSample, Sleep, Thread, NoThread, Label
  <2>. QED BY <2>1, <2>2, <2>3, <2>4, <2>5, <2>6
<1>2. CASE GetVector
  <2>1. TypeOK'
    <3>1. current' \in Thread
      BY ConstantsAssumption, <1>2, Rescheduled DEF
           TypeOK, GetVector, Sleep, Thread, NoThread, Label
    <3>2. pc' \in [Thread -> Label]
      BY ConstantsAssumption, <1>2, Rescheduled DEF
           TypeOK, GetVector, Sleep, Thread, NoThread, Label
    <3>3. delay' \in [Thread -> Nat]
      BY ConstantsAssumption, <1>2, Rescheduled DEF
           TypeOK, GetVector, Sleep, Thread, NoThread, Label
    <3>. QED BY <1>2, <3>1, <3>2, <3>3 DEF TypeOK, GetVector, Sleep
  <2>2. MutexConsistent'
    BY <1>2 DEF TypeOK, MutexConsistent, GetVector, Sleep
  <2>3. NoLostWakeup'
    BY <1>2, RunnerReady DEF
         TypeOK, NoLostWakeup, ShowOK, Ready, GetVector, Sleep, Thread, NoThread,
         Label
  <2>4. HighestRuns'
    BY <1>2, Rescheduled, Undisturbed DEF
         TypeOK, Ready, HighestRuns, GetVector, Sleep, Thread, NoThread, Label
  <2>5. ShowOK'
    BY <1>2 DEF TypeOK, ShowOK, GetVector, Sleep, Thread, NoThread, Label
  <2>6. SerialOK'
    BY <1>2 DEF
         TypeOK, MutexConsistent, SerialOK, GetVector, Sleep, Thread, NoThread, Label
  <2>. QED BY <2>1, <2>2, <2>3, <2>4, <2>5, <2>6
<1>3. CASE GetBatt
  <2>1. TypeOK'
    BY ConstantsAssumption, <1>3, Rescheduled DEF
         TypeOK, MutexConsistent, ShowOK, GetBatt, Sleep, Thread, NoThread, Label
  <2>2. MutexConsistent'
    BY <1>3 DEF TypeOK, MutexConsistent, GetBatt, Sleep
  <2>3. NoLostWakeup'
    BY <1>3, RunnerReady DEF
         TypeOK, NoLostWakeup, ShowOK, Ready, GetBatt, Sleep, Thread, NoThread, Label
  <2>4. HighestRuns'
    BY <1>3, Rescheduled DEF HighestRuns, GetBatt, Sleep
  <2>5. ShowOK'
    BY <1>3 DEF TypeOK, ShowOK, GetBatt, Sleep, Thread, NoThread, Label
  <2>6. SerialOK'
    BY <1>3 DEF
         TypeOK, MutexConsistent, SerialOK, GetBatt, Sleep, Thread, NoThread, Label
  <2>. QED BY <2>1, <2>2, <2>3, <2>4, <2>5, <2>6
<1>4. CASE GetPost
  <2>1. TypeOK'
    <3>1. current' \in Thread
      BY ConstantsAssumption, <1>4, Rescheduled DEF
           TypeOK, GetPost, Thread, NoThread, Label
    <3>2. pc' \in [Thread -> Label]
      BY ConstantsAssumption, <1>4, Rescheduled DEF
           TypeOK, GetPost, Thread, NoThread, Label
    <3>3. sem' \in 0 .. SemMax
      BY ConstantsAssumption, <1>4, Rescheduled DEF
           TypeOK, GetPost, Thread, NoThread, Label
    <3>4. corrupt' \in BOOLEAN
      BY ConstantsAssumption, <1>4, Rescheduled DEF
           TypeOK, GetPost, Thread, NoThread, Label
    <3>. QED BY <1>4, <3>1, <3>2, <3>3, <3>4 DEF TypeOK, GetPost
  <2>2. MutexConsistent'
    BY <1>4 DEF TypeOK, MutexConsistent, GetPost
  <2>3. NoLostWakeup'
    BY <1>4, RunnerReady DEF
         TypeOK, NoLostWakeup, ShowOK, Ready, GetPost, Thread, NoThread, Label
  <2>4. HighestRuns'
    BY <1>4, Rescheduled, Undisturbed DEF
         TypeOK, Ready, HighestRuns, GetPost, Thread, NoThread, Label
  <2>5. ShowOK'
    BY <1>4 DEF TypeOK, ShowOK, GetPost, Thread, NoThread, Label
  <2>6. SerialOK'
    BY <1>4 DEF TypeOK, MutexConsistent, SerialOK, GetPost, Thread, NoThread, Label
  <2>. QED BY <2>1, <2>2, <2>3, <2>4, <2>5, <2>6
<1>. QED BY <1>1, <1>2, <1>3, <1>4 DEF Get

\* The Show thread preserves the invariant.
LEMMA ShowStep == IInv /\ Show => IInv'
<1>. SUFFICES ASSUME IInv, Show PROVE IInv'
  OBVIOUS
<1>. USE DEF IInv, Goto, Runs, sched, semvars, uart, theme
<1>1. CASE ShowSymbol("icon1", "pct", "icon2")
  <2>1. TypeOK'
    BY ConstantsAssumption, <1>1, Rescheduled DEF
         TypeOK, MutexConsistent, ShowOK, ShowSymbol, Sleep, Thread, NoThread, Label
  <2>2. MutexConsistent'
    BY <1>1 DEF TypeOK, MutexConsistent, ShowSymbol, Sleep
  <2>3. NoLostWakeup'
    BY <1>1, RunnerReady DEF
         TypeOK, NoLostWakeup, ShowOK, Ready, ShowSymbol, Sleep, Thread, NoThread,
         Label
  <2>4. HighestRuns'
    BY <1>1, Rescheduled DEF HighestRuns, ShowSymbol, Sleep
  <2>5. ShowOK'
    BY <1>1 DEF TypeOK, ShowOK, ShowSymbol, Sleep, Thread, NoThread, Label
  <2>6. SerialOK'
    BY <1>1 DEF
         TypeOK, MutexConsistent, SerialOK, ShowSymbol, Sleep, Thread, NoThread,
         Label
  <2>. QED BY <2>1, <2>2, <2>3, <2>4, <2>5, <2>6
<1>2. CASE ShowSymbol("icon2", "steps", "take")
  <2>1. TypeOK'
    BY ConstantsAssumption, <1>2, Rescheduled DEF
         TypeOK, MutexConsistent, ShowOK, ShowSymbol, Sleep, Thread, NoThread, Label
  <2>2. MutexConsistent'
    BY <1>2 DEF TypeOK, MutexConsistent, ShowSymbol, Sleep
  <2>3. NoLostWakeup'
    BY <1>2, RunnerReady DEF
         TypeOK, NoLostWakeup, ShowOK, Ready, ShowSymbol, Sleep, Thread, NoThread,
         Label
  <2>4. HighestRuns'
    BY <1>2, Rescheduled DEF HighestRuns, ShowSymbol, Sleep
  <2>5. ShowOK'
    BY <1>2 DEF TypeOK, ShowOK, ShowSymbol, Sleep, Thread, NoThread, Label
  <2>6. SerialOK'
    BY <1>2 DEF
         TypeOK, MutexConsistent, SerialOK, ShowSymbol, Sleep, Thread, NoThread,
         Label
  <2>. QED BY <2>1, <2>2, <2>3, <2>4, <2>5, <2>6
<1>3. CASE ShowTake
  <2>1. TypeOK'
    <3>1. pc' \in [Thread -> Label]
      BY ConstantsAssumption, <1>3 DEF TypeOK, ShowTake, Thread, NoThread, Label
    <3>2. sem' \in 0 .. SemMax
      BY ConstantsAssumption, <1>3 DEF TypeOK, ShowTake, Thread, NoThread, Label
    <3>3. error' \in {"EOK", "ERROR"}
      BY ConstantsAssumption, <1>3 DEF TypeOK, ShowTake, Thread, NoThread, Label
    <3>4. waiting' \subseteq {"Show", "serial"}
      BY ConstantsAssumption, <1>3 DEF TypeOK, ShowTake, Thread, NoThread, Label
    <3>. QED BY <1>3, <3>1, <3>2, <3>3, <3>4 DEF TypeOK, ShowTake
  <2>2. MutexConsistent'
    BY <1>3 DEF TypeOK, MutexConsistent, ShowTake
  <2>3. NoLostWakeup'
    BY <1>3, RunnerReady DEF
         TypeOK, NoLostWakeup, ShowOK, Ready, ShowTake, Thread, NoThread, Label
  <2>4. HighestRuns'
    BY <1>3, Undisturbed DEF
         TypeOK, Ready, HighestRuns, ShowTake, Thread, NoThread, Label
  <2>5. ShowOK'
    BY <1>3 DEF TypeOK, ShowOK, ShowTake, Thread, NoThread, Label
  <2>6. SerialOK'
    BY <1>3 DEF TypeOK, MutexConsistent, SerialOK, ShowTake, Thread, NoThread, Label
  <2>. QED BY <2>1, <2>2, <2>3, <2>4, <2>5, <2>6
<1>4. CASE ShowSchedule
  <2>1. TypeOK'
    BY ConstantsAssumption, <1>4, Rescheduled DEF
         TypeOK, MutexConsistent, ShowOK, ShowSchedule, Thread, NoThread, Label
  <2>2. MutexConsistent'
    BY <1>4 DEF TypeOK, MutexConsistent, ShowSchedule
  <2>3. NoLostWakeup'
    BY <1>4, RunnerReady DEF
         TypeOK, NoLostWakeup, ShowOK, Ready, ShowSchedule, Thread, NoThread, Label
  <2>4. HighestRuns'
    BY <1>4, Rescheduled DEF HighestRuns, ShowSchedule
  <2>5. ShowOK'
    BY <1>4 DEF TypeOK, ShowOK, ShowSchedule, Thread, NoThread, Label
  <2>6. SerialOK'
    BY <1>4 DEF TypeOK, MutexConsistent, SerialOK, ShowSchedule, Thread, NoThread, Label
  <2>. QED BY <2>1, <2>2, <2>3, <2>4, <2>5, <2>6
<1>5. CASE ShowResume
  <2>1. TypeOK'
    <3>1. pc' \in [Thread -> Label]
      BY ConstantsAssumption, <1>5 DEF TypeOK, ShowResume, Thread, NoThread, Label
    <3>2. semLive' \in BOOLEAN
      BY ConstantsAssumption, <1>5 DEF TypeOK, ShowResume, Thread, NoThread, Label
    <3>. QED BY <1>5, <3>1, <3>2 DEF TypeOK, ShowResume
  <2>2. MutexConsistent'
    BY <1>5 DEF TypeOK, MutexConsistent, ShowResume
  <2>3. NoLostWakeup'
    BY <1>5, RunnerReady DEF
         TypeOK, NoLostWakeup, ShowOK, Ready, ShowResume, Thread, NoThread, Label
  <2>4. HighestRuns'
    BY <1>5, Undisturbed, RunnerReady, Zenon DEF
         TypeOK, MutexConsistent, SerialOK, Ready, ShowResume, Thread, NoThread,
         Label
  <2>5. ShowOK'
    BY <1>5 DEF TypeOK, ShowOK, ShowResume, Thread, NoThread, Label
  <2>6. SerialOK'
    BY <1>5 DEF TypeOK, MutexConsistent, SerialOK, ShowResume, Thread, NoThread, Label
  <2>. QED BY <2>1, <2>2, <2>3, <2>4, <2>5, <2>6
<1>6. CASE ShowReturn
  <2>1. TypeOK'
    BY ConstantsAssumption, <1>6, Rescheduled DEF
         TypeOK, MutexConsistent, ShowOK, ShowReturn, Exit, Thread, NoThread, Label
  <2>2. MutexConsistent'
    BY <1>6 DEF TypeOK, MutexConsistent, ShowReturn, Exit
  <2>3. NoLostWakeup'
    BY <1>6, RunnerReady DEF
         TypeOK, NoLostWakeup, ShowOK, Ready, ShowReturn, Exit, Thread, NoThread,
         Label
  <2>4. HighestRuns'
    BY <1>6, Rescheduled DEF HighestRuns, ShowReturn, Exit
  <2>5. ShowOK'
    BY <1>6 DEF TypeOK, ShowOK, ShowReturn, Exit, Thread, NoThread, Label
  <2>6. SerialOK'
    BY <1>6 DEF
         TypeOK, MutexConsistent, SerialOK, ShowReturn, Exit, Thread, NoThread, Label
  <2>. QED BY <2>1, <2>2, <2>3, <2>4, <2>5, <2>6
<1>7. CASE ShowBranch
  <2>1. TypeOK'
    <3>1. pc' \in [Thread -> Label]
      BY <1>7 DEF TypeOK, ShowBranch, Thread, Label
    <3>2. draws' \in 0 .. 4
      BY <1>7 DEF TypeOK, ShowBranch
    <3>3. unseen' \in BOOLEAN
      BY <1>7 DEF TypeOK, ShowBranch
    <3>. QED BY <1>7, <3>1, <3>2, <3>3 DEF TypeOK, ShowBranch
  <2>2. MutexConsistent'
    BY <1>7 DEF TypeOK, MutexConsistent, ShowBranch
  <2>3. NoLostWakeup'
    BY <1>7, RunnerReady DEF
         TypeOK, NoLostWakeup, ShowOK, Ready, ShowBranch, Thread, NoThread, Label
  <2>4. HighestRuns'
    BY <1>7, Undisturbed, RunnerReady, Zenon DEF
         TypeOK, MutexConsistent, SerialOK, Ready, ShowBranch, Thread, NoThread,
         Label
  <2>5. ShowOK'
    BY <1>7 DEF TypeOK, ShowOK, ShowBranch, Thread, NoThread, Label
  <2>6. SerialOK'
    BY <1>7 DEF TypeOK, MutexConsistent, SerialOK, ShowBranch, Thread, NoThread, Label
  <2>. QED BY <2>1, <2>2, <2>3, <2>4, <2>5, <2>6
<1>8. CASE ShowSymbol("pct", "pct", "steps")
  <2>1. TypeOK'
    BY ConstantsAssumption, <1>8, Rescheduled DEF
         TypeOK, MutexConsistent, ShowOK, ShowSymbol, Sleep, Thread, NoThread, Label
  <2>2. MutexConsistent'
    BY <1>8 DEF TypeOK, MutexConsistent, ShowSymbol, Sleep
  <2>3. NoLostWakeup'
    BY <1>8, RunnerReady DEF
         TypeOK, NoLostWakeup, ShowOK, Ready, ShowSymbol, Sleep, Thread, NoThread,
         Label
  <2>4. HighestRuns'
    BY <1>8, Rescheduled DEF HighestRuns, ShowSymbol, Sleep
  <2>5. ShowOK'
    BY <1>8 DEF TypeOK, ShowOK, ShowSymbol, Sleep, Thread, NoThread, Label
  <2>6. SerialOK'
    BY <1>8 DEF
         TypeOK, MutexConsistent, SerialOK, ShowSymbol, Sleep, Thread, NoThread,
         Label
  <2>. QED BY <2>1, <2>2, <2>3, <2>4, <2>5, <2>6
<1>9. CASE ShowSymbol("steps", "steps", "clear")
  <2>1. TypeOK'
    BY ConstantsAssumption, <1>9, Rescheduled DEF
         TypeOK, MutexConsistent, ShowOK, ShowSymbol, Sleep, Thread, NoThread, Label
  <2>2. MutexConsistent'
    BY <1>9 DEF TypeOK, MutexConsistent, ShowSymbol, Sleep
  <2>3. NoLostWakeup'
    BY <1>9, RunnerReady DEF
         TypeOK, NoLostWakeup, ShowOK, Ready, ShowSymbol, Sleep, Thread, NoThread,
         Label
  <2>4. HighestRuns'
    BY <1>9, Rescheduled DEF HighestRuns, ShowSymbol, Sleep
  <2>5. ShowOK'
    BY <1>9 DEF TypeOK, ShowOK, ShowSymbol, Sleep, Thread, NoThread, Label
  <2>6. SerialOK'
    BY <1>9 DEF
         TypeOK, MutexConsistent, SerialOK, ShowSymbol, Sleep, Thread, NoThread,
         Label
  <2>. QED BY <2>1, <2>2, <2>3, <2>4, <2>5, <2>6
<1>10. CASE ShowClear
  <2>1. TypeOK'
    <3>1. pc' \in [Thread -> Label]
      BY ConstantsAssumption, <1>10 DEF TypeOK, ShowClear, Thread, NoThread, Label
    <3>2. draws' \in 0 .. 4
      BY ConstantsAssumption, <1>10 DEF TypeOK, ShowClear, Thread, NoThread, Label
    <3>3. themeChanged' \in BOOLEAN
      BY ConstantsAssumption, <1>10 DEF TypeOK, ShowClear, Thread, NoThread, Label
    <3>. QED BY <1>10, <3>1, <3>2, <3>3 DEF TypeOK, ShowClear
  <2>2. MutexConsistent'
    BY <1>10 DEF TypeOK, MutexConsistent, ShowClear
  <2>3. NoLostWakeup'
    BY <1>10, RunnerReady DEF
         TypeOK, NoLostWakeup, ShowOK, Ready, ShowClear, Thread, NoThread, Label
  <2>4. HighestRuns'
    BY <1>10, Undisturbed, RunnerReady, Zenon DEF
         TypeOK, MutexConsistent, SerialOK, Ready, ShowClear, Thread, NoThread, Label
  <2>5. ShowOK'
    BY <1>10 DEF TypeOK, ShowOK, ShowClear, Thread, NoThread, Label
  <2>6. SerialOK'
    BY <1>10 DEF TypeOK, MutexConsistent, SerialOK, ShowClear, Thread, NoThread, Label
  <2>. QED BY <2>1, <2>2, <2>3, <2>4, <2>5, <2>6
<1>11. CASE ShowDraw
  <2>1. TypeOK'
    BY ConstantsAssumption, <1>11, Rescheduled DEF
         TypeOK, MutexConsistent, ShowOK, ShowDraw, Sleep, Thread, NoThread, Label
  <2>2. MutexConsistent'
    BY <1>11 DEF TypeOK, MutexConsistent, ShowDraw, Sleep
  <2>3. NoLostWakeup'
    BY <1>11, RunnerReady DEF
         TypeOK, NoLostWakeup, ShowOK, Ready, ShowDraw, Sleep, Thread, NoThread,
         Label
  <2>4. HighestRuns'
    BY <1>11, Rescheduled DEF HighestRuns, ShowDraw, Sleep
  <2>5. ShowOK'
    BY <1>11 DEF TypeOK, ShowOK, ShowDraw, Sleep, Thread, NoThread, Label
  <2>6. SerialOK'
    BY <1>11 DEF
         TypeOK, MutexConsistent, SerialOK, ShowDraw, Sleep, Thread, NoThread, Label
  <2>. QED BY <2>1, <2>2, <2>3, <2>4, <2>5, <2>6
<1>. QED BY <1>1, <1>2, <1>3, <1>4, <1>5, <1>6, <1>7, <1>8, <1>9, <1>10, <1>11 DEF Show

-----------------------------------------------------------------------------
(* Interrupts and the idle thread *)

\* A byte stored in a FIFO of legal length leaves one of legal length.
LEMMA FifoPushType ==
    ASSUME NEW S, NEW q \in Seq(S), NEW c \in S, Len(q) <= FifoCap
    PROVE  FifoPush(q, c) \in Seq(S) /\ Len(FifoPush(q, c)) <= FifoCap
<1>1. CASE Len(q) = FifoCap
  <2>1. q # << >>
    BY <1>1, ConstantsAssumption
  <2>2. Tail(q) \in Seq(S) /\ Len(Tail(q)) = Len(q) - 1
    BY <2>1, HeadTailProperties
  <2>3. Append(Tail(q), c) \in Seq(S) /\ Len(Append(Tail(q), c)) = Len(Tail(q)) + 1
    BY <2>2, AppendProperties
  <2>. QED BY <1>1, <2>2, <2>3, ConstantsAssumption DEF FifoPush
<1>2. CASE Len(q) # FifoCap
  <2>1. Append(q, c) \in Seq(S) /\ Len(Append(q, c)) = Len(q) + 1
    BY AppendProperties
  <2>2. Len(q) \in Nat
    OBVIOUS
  <2>. QED BY <1>2, <2>1, <2>2, ConstantsAssumption DEF FifoPush
<1>. QED BY <1>1, <1>2

\* The receive interrupt preserves the invariant, whichever thread it finds
\* running: nobody waits for the mutex, so it hands the CPU to nobody.
LEMMA UartStep == ASSUME IInv, NEW c \in RxByte, UartRx(c) PROVE IInv'
<1>. USE DEF IInv
<1>1. /\ UNCHANGED <<current, pc, delay, waiting, sem, semLive, corrupt, attached, ch,
                     Theme, themeChanged, icon, unseen, draws, defunct>>
      /\ fifo' = FifoPush(fifo, c)
  BY DEF UartRx, MutexRelease, theme, SerialOK
<1>2. fifo' \in Seq(Colour \cup Plain) /\ Len(fifo') <= FifoCap
  BY <1>1, FifoPushType, ConstantsAssumption DEF TypeOK
<1>3. /\ mutex' \in [value : 0 .. 1, owner : {"serial", NoThread}, hold : 0 .. HoldMax]
      /\ MutexConsistent'
  <2>1. CASE current # mutex.owner
    BY <2>1 DEF UartRx, MutexRelease, MutexConsistent, TypeOK
  <2>2. CASE current = mutex.owner
    <3>1. mutex.value = 0 /\ mutex.owner = "serial" /\ mutex.hold >= 1
      BY <2>2 DEF MutexConsistent, TypeOK, NoThread, Thread
    <3>2. CASE mutex.hold > 1
      <4>1. mutex' = [mutex EXCEPT !.hold = @ - 1]
        BY <2>2, <3>2 DEF UartRx, MutexRelease, TypeOK
      <4>2. mutex.hold - 1 \in 1 .. HoldMax
        BY <3>2, ConstantsAssumption DEF TypeOK
      <4>3. mutex = [value |-> mutex.value, owner |-> mutex.owner, hold |-> mutex.hold]
        BY DEF TypeOK
      <4>4. mutex' = [value |-> mutex.value, owner |-> mutex.owner, hold |-> mutex.hold - 1]
        BY <4>1, <4>3
      <4>. QED BY <3>1, <4>2, <4>4, ConstantsAssumption DEF MutexConsistent
    <3>3. CASE mutex.hold = 1
      <4>1. mutex' = [value |-> mutex.value + 1, owner |-> NoThread, hold |-> 0]
        BY <2>2, <3>3 DEF UartRx, MutexRelease, SerialOK
      <4>. QED BY <3>1, <4>1, ConstantsAssumption DEF MutexConsistent
    <3>. QED BY <3>1, <3>2, <3>3 DEF TypeOK
  <2>. QED BY <2>1, <2>2
<1>4. error' \in {"EOK", "ERROR"}
  BY DEF UartRx, MutexRelease, TypeOK
<1>5. TypeOK'
  BY <1>1, <1>2, <1>3, <1>4 DEF TypeOK
<1>6. HighestRuns'
  BY <1>1 DEF HighestRuns, IsHighest, Ready
<1>7. NoLostWakeup' /\ ShowOK' /\ SerialOK'
  BY <1>1 DEF NoLostWakeup, ShowOK, SerialOK
<1>. QED BY <1>3, <1>5, <1>6, <1>7

\* The tick preserves the invariant: it schedules whenever a thread wakes up.
LEMMA TickStep == IInv /\ Tick => IInv'
<1>. SUFFICES ASSUME IInv, Tick PROVE IInv'
  OBVIOUS
<1>. USE DEF IInv
<1>1. UNCHANGED <<pc, waiting, sem, semLive, corrupt, mutex, attached, fifo, ch, Theme,
                  themeChanged, icon, unseen, draws, defunct>>
  BY DEF Tick, uart, theme
<1>2. delay' \in [Thread -> Nat]
  BY DEF Tick, TypeOK
<1>3. error' \in {"EOK", "ERROR"}
  BY DEF Tick, TypeOK
<1>4. current' \in Thread
  BY Rescheduled DEF Tick, TypeOK
<1>5. TypeOK'
  BY <1>1, <1>2, <1>3, <1>4 DEF TypeOK
<1>6. HighestRuns'
  <2>1. CASE Reschedule
    BY <2>1, Rescheduled DEF HighestRuns
  <2>2. CASE ~Reschedule
    <3>1. current' = current /\ {t \in Thread : delay[t] = 1} = {}
      BY <2>2 DEF Tick
    <3>2. \A t \in Thread : (delay'[t] = 0) = (delay[t] = 0)
      BY <3>1 DEF Tick, TypeOK
    <3>3. \A t \in Thread : Ready(t)' = Ready(t)
      BY <1>1, <3>2 DEF Ready
    <3>. QED BY <1>1, <3>1, <3>3, Undisturbed DEF TypeOK
  <2>. QED BY <2>1, <2>2
<1>7. SerialOK'
  BY <1>1 DEF Tick, SerialOK, TypeOK, Thread
<1>8. MutexConsistent' /\ NoLostWakeup' /\ ShowOK'
  BY <1>1 DEF MutexConsistent, NoLostWakeup, ShowOK
<1>. QED BY <1>5, <1>6, <1>7, <1>8

\* Reclaiming threads touches nothing else.
LEMMA IdleStep == IInv /\ IdleReclaim => IInv'
  BY DEF IInv, IdleReclaim, sched, semvars, uart, theme, TypeOK, MutexConsistent,
         NoLostWakeup, HighestRuns, IsHighest, Ready, ShowOK, SerialOK

-----------------------------------------------------------------------------
(* The invariant *)

\* The invariant holds when main starts.
LEMMA InitIInv == Init => IInv
<1>. SUFFICES ASSUME Init PROVE IInv
  OBVIOUS
<1>1. TypeOK
  <2>1. fifo \in Seq(Colour \cup Plain) /\ Len(fifo) <= FifoCap
    BY ConstantsAssumption DEF Init
  <2>2. pc \in [Thread -> Label] /\ current \in Thread
    BY DEF Init, Thread, Label
  <2>3. /\ delay \in [Thread -> Nat]
        /\ sem \in 0 .. SemMax
        /\ draws \in 0 .. 4
        /\ mutex \in [value : 0 .. 1, owner : {"serial", NoThread}, hold : 0 .. HoldMax]
    BY ConstantsAssumption DEF Init
  <2>4. /\ semLive \in BOOLEAN /\ corrupt \in BOOLEAN
        /\ attached \in BOOLEAN /\ themeChanged \in BOOLEAN /\ unseen \in BOOLEAN
    BY DEF Init
  <2>5. /\ ch \in Colour \cup Plain /\ Theme \in Colour
        /\ icon \in [pct : Colour, steps : Colour]
    BY ConstantsAssumption DEF Init
  <2>. QED BY <2>1, <2>2, <2>3, <2>4, <2>5 DEF Init, TypeOK
<1>2. HighestRuns
  BY Ranks DEF Init, HighestRuns, IsHighest, Ready, Thread
<1>3. MutexConsistent /\ NoLostWakeup /\ ShowOK /\ SerialOK
  BY DEF Init, MutexConsistent, NoLostWakeup, ShowOK, SerialOK, Thread
<1>. QED BY <1>1, <1>2, <1>3 DEF IInv

\* Every step of every thread and interrupt preserves the invariant.
LEMMA NextIInv == IInv /\ [Next]_vars => IInv'
<1>. SUFFICES ASSUME IInv, [Next]_vars PROVE IInv'
  OBVIOUS
<1>1. CASE \E c \in RxByte : UartRx(c)
  BY <1>1, UartStep
<1>2. CASE UNCHANGED vars
  BY <1>2 DEF vars, IInv, TypeOK, MutexConsistent, NoLostWakeup, HighestRuns, IsHighest,
              Ready, ShowOK, SerialOK
<1>. QED
  BY <1>1, <1>2, MainStep, TickStep, SerialStep, GetStep, ShowStep, IdleStep DEF Next

\* So the invariant always holds.
LEMMA AlwaysIInv == Spec => []IInv
  BY InitIInv, NextIInv, PTL DEF Spec

\* Types, the mutex that is free or serial's, no lost wake-up of Show, and the
\* CPU always with the highest-priority ready thread.
THEOREM WatchInvariant ==
    Spec => [](TypeOK /\ MutexConsistent /\ NoLostWakeup /\ HighestRuns)
<1>1. IInv => TypeOK /\ MutexConsistent /\ NoLostWakeup /\ HighestRuns
  BY DEF IInv
<1>. QED BY <1>1, AlwaysIInv, PTL

\* dynamic_mutex is never half-released, however many bytes arrive and however
\* often serial takes it, for every nesting limit.
THEOREM MutexNeverTorn == Spec => []MutexConsistent
BY WatchInvariant, PTL

\* rt_schedule, the tick and the releases always leave the CPU with the
\* highest-priority ready thread.
THEOREM HighestAlwaysRuns == Spec => []HighestRuns
BY WatchInvariant, PTL

\* The serial thread, once created, is ready for ever and starves idle.
THEOREM SerialStarvesIdle == Spec => []SerialKeepsCpu
<1>1. IInv => SerialKeepsCpu
  <2>. SUFFICES ASSUME IInv, pc["serial"] # "none"
                PROVE  Ready("serial") /\ current # "idle"
    BY DEF SerialKeepsCpu
  <2>1. Ready("serial")
    BY DEF IInv, SerialOK, Ready
  <2>2. current # "idle"
    BY <2>1, Ranks DEF IInv, HighestRuns, IsHighest, Thread
  <2>. QED BY <2>1, <2>2
<1>. QED BY <1>1, AlwaysIInv, PTL


-----------------------------------------------------------------------------
(* The semaphore survives if no interrupt comes inside rt_sem_take *)

\* The wait of Show ends without an error, so Show never gives up; Get and the
\* receive interrupt exist only together with the semaphore.
ShowWaitsCleanly ==
    /\ pc["Show"] \in {"suspended", "resumed"} => error = "EOK"
    /\ pc["Show"] \notin {"return", "closed"}
    /\ attached => semLive
    /\ pc["Get"] # "none" => semLive
    /\ ~corrupt

\* Every step keeps it so, if no interrupt comes inside rt_sem_take.
LEMMA ShowWaitsCleanlyStep ==
    ASSUME RxInTake = FALSE, IInv, ShowWaitsCleanly, [Next]_vars
    PROVE  ShowWaitsCleanly'
<1>. USE DEF ShowWaitsCleanly, IInv, TypeOK, Goto, Runs, sched, semvars, uart, theme
<1>1. CASE MainCreateIpc
  BY <1>1 DEF MainCreateIpc, Exit, ShowOK, Thread
<1>2. CASE MainOpenUart
  BY <1>2 DEF MainOpenUart, ShowOK, Thread
<1>3. CASE MainStart("serial", "read", "Get")
  BY <1>3 DEF MainStart, ShowOK, Thread
<1>4. CASE MainStart("Get", "sample", "Show")
  BY <1>4 DEF MainStart, ShowOK, Thread
<1>5. CASE MainStart("Show", "icon1", "return")
  BY <1>5 DEF MainStart, ShowOK, Thread
<1>6. CASE MainReturn
  BY <1>6 DEF MainReturn, Exit, ShowOK, Thread
<1>7. CASE SerialRead
  BY <1>7 DEF SerialRead, ShowOK, Thread
<1>8. CASE SerialTake
  BY <1>8 DEF SerialTake, ShowOK, Thread
<1>9. CASE SerialCommand
  BY <1>9 DEF SerialCommand, ShowOK, Thread
<1>10. CASE SerialFlag
  BY <1>10 DEF SerialFlag, ShowOK, Thread
<1>11. CASE GetSample
  BY <1>11 DEF GetSample, Sleep, ShowOK, Thread
<1>12. CASE GetVector
  BY <1>12 DEF GetVector, Sleep, ShowOK, Thread
<1>13. CASE GetBatt
  BY <1>13 DEF GetBatt, Sleep, ShowOK, Thread
<1>14. CASE GetPost
  BY <1>14 DEF GetPost, ShowOK, Thread
<1>15. CASE ShowSymbol("icon1", "pct", "icon2")
  BY <1>15 DEF ShowSymbol, Sleep, ShowOK, Thread
<1>16. CASE ShowSymbol("icon2", "steps", "take")
  BY <1>16 DEF ShowSymbol, Sleep, ShowOK, Thread
<1>17. CASE ShowTake
  BY <1>17 DEF ShowTake, ShowOK, Thread
<1>18. CASE ShowSchedule
  BY <1>18 DEF ShowSchedule, ShowOK, Thread
<1>19. CASE ShowResume
  BY <1>19 DEF ShowResume, ShowOK, Thread
<1>20. CASE ShowReturn
  BY <1>20 DEF ShowReturn, Exit, ShowOK, Thread
<1>21. CASE ShowBranch
  BY <1>21 DEF ShowBranch, ShowOK, Thread
<1>22. CASE ShowSymbol("pct", "pct", "steps")
  BY <1>22 DEF ShowSymbol, Sleep, ShowOK, Thread
<1>23. CASE ShowSymbol("steps", "steps", "clear")
  BY <1>23 DEF ShowSymbol, Sleep, ShowOK, Thread
<1>24. CASE ShowClear
  BY <1>24 DEF ShowClear, ShowOK, Thread
<1>25. CASE ShowDraw
  BY <1>25 DEF ShowDraw, Sleep, ShowOK, Thread
<1>26. CASE \E c \in RxByte : UartRx(c)
  BY <1>26 DEF UartRx, MutexRelease
<1>27. CASE Tick
  BY <1>27 DEF Tick
<1>28. CASE IdleReclaim
  BY <1>28 DEF IdleReclaim
<1>29. CASE UNCHANGED vars
  BY <1>29 DEF vars
<1>. QED BY <1>1, <1>2, <1>3, <1>4, <1>5, <1>6, <1>7, <1>8, <1>9, <1>10, <1>11,
           <1>12, <1>13, <1>14, <1>15, <1>16, <1>17, <1>18, <1>19, <1>20, <1>21,
           <1>22, <1>23, <1>24, <1>25, <1>26, <1>27, <1>28, <1>29 DEF Next, Main,
           Serial, Get, Show

\* If no UART interrupt comes while Show is the current thread inside
\* rt_sem_take, Show never deletes the semaphore and Get never releases a
\* freed one.  Without that condition TLC finds a counterexample.
THEOREM SemaphoreSurvivesQuietTakes ==
    ASSUME RxInTake = FALSE
    PROVE  Spec => []SemaphoreSurvives
<1>1. Init => ShowWaitsCleanly
  BY DEF Init, ShowWaitsCleanly, Thread
<1>2. IInv /\ ShowWaitsCleanly /\ [Next]_vars => ShowWaitsCleanly'
  BY ShowWaitsCleanlyStep
<1>3. ShowWaitsCleanly => SemaphoreSurvives
  BY DEF ShowWaitsCleanly, SemaphoreSurvives
<1>. QED BY <1>1, <1>2, <1>3, AlwaysIInv, PTL DEF Spec

-----------------------------------------------------------------------------
(* The theme *)

\* How far a drawing or redrawing of the symbols has got: what it has drawn is in the
\* colour of the theme, unless serial has set a theme since, and then serial sets or
\* has set the flag.
ThemeOK ==
    /\ pc["Show"] = "icon2" => \/ themeChanged \/ pc["serial"] = "flag"
                               \/ icon.pct = Theme
    /\ pc["Show"] = "pct" => themeChanged
    /\ pc["Show"] = "steps" /\ ~unseen => pc["serial"] = "flag" \/ icon.pct = Theme
    /\ pc["Show"] = "clear" /\ ~unseen => pc["serial"] = "flag" \/ SymbolsIn(Theme)

\* Every step keeps track of the theme.
LEMMA ThemeStep ==
    ASSUME IInv, ThemeOK, ThemeNotLost, [Next]_vars
    PROVE  ThemeOK' /\ ThemeNotLost'
<1>. USE DEF ThemeOK, ThemeNotLost, Drawn, SymbolsIn, IInv, TypeOK, Goto, Runs, sched,
             semvars, uart, theme
<1>1. CASE MainCreateIpc
  BY <1>1 DEF MainCreateIpc, Exit, ShowOK, Thread
<1>2. CASE MainOpenUart
  BY <1>2 DEF MainOpenUart, ShowOK, Thread
<1>3. CASE MainStart("serial", "read", "Get")
  BY <1>3 DEF MainStart, ShowOK, Thread
<1>4. CASE MainStart("Get", "sample", "Show")
  BY <1>4 DEF MainStart, ShowOK, Thread
<1>5. CASE MainStart("Show", "icon1", "return")
  BY <1>5 DEF MainStart, ShowOK, Thread
<1>6. CASE MainReturn
  BY <1>6 DEF MainReturn, Exit, ShowOK, Thread
<1>7. CASE SerialRead
  BY <1>7 DEF SerialRead, ShowOK, Thread
<1>8. CASE SerialTake
  BY <1>8 DEF SerialTake, ShowOK, Thread
<1>9. CASE SerialCommand
  BY <1>9 DEF SerialCommand, ShowOK, Thread
<1>10. CASE SerialFlag
  BY <1>10 DEF SerialFlag, Redrawing, ShowOK, Thread
<1>11. CASE GetSample
  BY <1>11 DEF GetSample, Sleep, ShowOK, Thread
<1>12. CASE GetVector
  BY <1>12 DEF GetVector, Sleep, ShowOK, Thread
<1>13. CASE GetBatt
  BY <1>13 DEF GetBatt, Sleep, ShowOK, Thread
<1>14. CASE GetPost
  BY <1>14 DEF GetPost, ShowOK, Thread
<1>15. CASE ShowSymbol("icon1", "pct", "icon2")
  BY <1>15 DEF ShowSymbol, Sleep, ShowOK, Thread
<1>16. CASE ShowSymbol("icon2", "steps", "take")
  BY <1>16 DEF ShowSymbol, Sleep, ShowOK, Thread
<1>17. CASE ShowTake
  BY <1>17 DEF ShowTake, ShowOK, Thread
<1>18. CASE ShowSchedule
  BY <1>18 DEF ShowSchedule, ShowOK, Thread
<1>19. CASE ShowResume
  BY <1>19 DEF ShowResume, ShowOK, Thread
<1>20. CASE ShowReturn
  BY <1>20 DEF ShowReturn, Exit, ShowOK, Thread
<1>21. CASE ShowBranch
  BY <1>21 DEF ShowBranch, ShowOK, Thread
<1>22. CASE ShowSymbol("pct", "pct", "steps")
  BY <1>22 DEF ShowSymbol, Sleep, ShowOK, Thread
<1>23. CASE ShowSymbol("steps", "steps", "clear")
  BY <1>23 DEF ShowSymbol, Sleep, ShowOK, Thread
<1>24. CASE ShowClear
  BY <1>24 DEF ShowClear, ShowOK, Thread
<1>25. CASE ShowDraw
  BY <1>25 DEF ShowDraw, Sleep, ShowOK, Thread
<1>26. CASE \E c \in RxByte : UartRx(c)
  BY <1>26 DEF UartRx, MutexRelease
<1>27. CASE Tick
  BY <1>27 DEF Tick
<1>28. CASE IdleReclaim
  BY <1>28 DEF IdleReclaim
<1>29. CASE UNCHANGED vars
  BY <1>29 DEF vars
<1>. QED BY <1>1, <1>2, <1>3, <1>4, <1>5, <1>6, <1>7, <1>8, <1>9, <1>10, <1>11,
           <1>12, <1>13, <1>14, <1>15, <1>16, <1>17, <1>18, <1>19, <1>20, <1>21,
           <1>22, <1>23, <1>24, <1>25, <1>26, <1>27, <1>28, <1>29 DEF Next, Main,
           Serial, Get, Show

\* A theme command is lost only if it sets themeChanged while Show redraws the
\* symbols: otherwise they have the colour of Theme, or are about to get it.
THEOREM ThemeNeverLost == Spec => []ThemeNotLost
<1>1. Init => ThemeOK /\ ThemeNotLost
  BY DEF Init, ThemeOK, ThemeNotLost, Drawn, Thread
<1>2. IInv /\ ThemeOK /\ ThemeNotLost /\ [Next]_vars => ThemeOK' /\ ThemeNotLost'
  BY ThemeStep
<1>. QED BY <1>1, <1>2, AlwaysIInv, PTL DEF Spec

=============================================================================
