---------------------------- MODULE ConsoleProofs ----------------------------
(***************************************************************************)
(* Proofs about module Console, for every size of the FIFO, every limit of *)
(* the semaphore and any number of bytes.                                  *)
(***************************************************************************)
EXTENDS Console, TLAPS

-----------------------------------------------------------------------------
(* The inductive invariant *)

\* How far main is: nobody has a callback before the components are
\* initialised, the mutex exists from the creation on, uart_input comes after
\* it and the serial thread after uart_input.
MainOK ==
    /\ pc["main"] \in {"components", "drivers", "ipc", "open", "indicate", "serial", "closed"}
    /\ pc["main"] = "components" => pc["tshell"] = "none" /\ rx_indicate = "none"
    /\ pc["main"] \in {"open", "indicate", "serial"} => dynamic_mutex
    /\ pc["main"] = "serial" => rx_indicate = "uart_input"
    /\ rx_indicate = "uart_input" => pc["main"] \in {"serial", "closed"} /\ dynamic_mutex
    /\ pc["serial"] \in {"none", "read", "take", "echo"}
    /\ pc["serial"] # "none" => pc["main"] = "closed" /\ rx_indicate = "uart_input"
    /\ asleep = {"main"} => pc["main"] = "ipc"

\* How far the shell is: it has opened the device before main goes on from its
\* sleep, it waits only in finsh_getchar, and on the way into the wait every
\* byte that it has not seen was counted.
ShellOK ==
    /\ pc["tshell"] \in {"none", "open", "indicate", "read", "take", "key"}
    /\ pc["tshell"] \in {"open", "indicate"} =>
         \/ pc["main"] = "drivers"
         \/ pc["main"] = "ipc" /\ asleep = {"main"}
    /\ rx_indicate = "finsh_rx_ind" => pc["tshell"] \in {"read", "take", "key"}
    /\ rx_sem.waiter => pc["tshell"] = "read"
    /\ pc["tshell"] = "take" /\ rx_indicate = "finsh_rx_ind" /\ fifo # << >>
         => rx_sem.value > 0

\* From the first byte that serial reads on, the shell does not run.
HandedOver ==
    (\E i \in 1 .. Len(log) : log[i].by = "serial") =>
        /\ pc["serial"] # "none"
        /\ rx_sem.waiter \/ pc["tshell"] = "none"

IInv ==
    /\ TypeOK
    /\ MainOK
    /\ ShellOK
    /\ ShellSeesInput
    /\ HandedOver
    /\ CommandsWhole

-----------------------------------------------------------------------------

LEMMA InitInv == Init => IInv
<1> SUFFICES ASSUME Init PROVE IInv
  OBVIOUS
<1>1. rx_sem \in [value : 0 .. SemMax, waiter : BOOLEAN] /\ rx_sem.waiter = FALSE
  BY ConsoleAssumption DEF Init
<1>2. TypeOK
  <2>1. pc \in [Thread -> {"none", "closed", "components", "drivers", "ipc", "open",
                           "indicate", "serial", "read", "take", "key", "echo"}]
    BY DEF Init, Thread
  <2>2. /\ arrived \in 0 .. BytesMax
        /\ fifo \in Seq(1 .. BytesMax) /\ Len(fifo) <= FifoCap
        /\ log \in Seq([by : Thread, byte : 1 .. BytesMax])
    BY ConsoleAssumption DEF Init
  <2>3. /\ asleep \subseteq {"main"} /\ intRx \in BOOLEAN /\ dynamic_mutex \in BOOLEAN
        /\ rx_indicate \in {"none", "finsh_rx_ind", "uart_input"}
    BY DEF Init
  <2>. QED BY <1>1, <2>1, <2>2, <2>3 DEF TypeOK
<1>3. MainOK /\ ShellOK /\ ShellSeesInput
  BY <1>1 DEF Init, MainOK, ShellOK, ShellSeesInput
<1>4. HandedOver /\ CommandsWhole
  BY DEF Init, HandedOver, CommandsWhole
<1>. QED BY <1>2, <1>3, <1>4 DEF IInv

\* What a read does to the FIFO and the log, in terms of their types.
LEMMA ReadTypes ==
    ASSUME TypeOK, NEW t \in Thread, fifo # << >>
    PROVE  /\ Tail(fifo) \in Seq(1 .. BytesMax) /\ Len(Tail(fifo)) <= FifoCap
           /\ Append(log, [by |-> t, byte |-> Head(fifo)])
                \in Seq([by : Thread, byte : 1 .. BytesMax])
BY ConsoleAssumption DEF TypeOK

\* What the shell's callback does to its semaphore.
LEMMA CallbackTypes ==
    ASSUME TypeOK, finsh_rx_ind
    PROVE  /\ rx_sem' \in [value : 0 .. SemMax, waiter : BOOLEAN]
           /\ rx_sem'.waiter = FALSE
           /\ rx_sem.waiter = TRUE  => rx_sem'.value = rx_sem.value
           /\ rx_sem.waiter = FALSE => rx_sem'.value > 0
<1>1. CASE rx_sem.waiter = TRUE
  BY <1>1, ConsoleAssumption DEF TypeOK, finsh_rx_ind
<1>2. CASE rx_sem.waiter = FALSE
  BY <1>2, ConsoleAssumption DEF TypeOK, finsh_rx_ind
<1>. QED BY <1>1, <1>2 DEF TypeOK

\* Types, one case per action.
LEMMA TypeStep == IInv /\ [Next]_vars => TypeOK'
<1> SUFFICES ASSUME IInv, [Next]_vars PROVE TypeOK'
  OBVIOUS
<1> USE ConsoleAssumption DEF IInv, TypeOK, device, input, Goto, Runs
<1>1. CASE finsh_system_init
  BY <1>1 DEF finsh_system_init, Thread
<1>2. CASE MainDrivers
  BY <1>2 DEF MainDrivers, Thread
<1>3. CASE MainCreateIpc
  <2>1. dynamic_mutex' \in BOOLEAN
    BY <1>3 DEF MainCreateIpc
  <2>2. pc' = [pc EXCEPT !["main"] = "open"] \/ pc' = [pc EXCEPT !["main"] = "closed"]
    BY <1>3 DEF MainCreateIpc
  <2>. QED BY <1>3, <2>1, <2>2 DEF MainCreateIpc, Thread
<1>4. CASE MainOpen
  BY <1>4 DEF MainOpen, Thread, rt_device_open
<1>5. CASE MainIndicate
  BY <1>5 DEF MainIndicate, Thread
<1>6. CASE MainStart
  BY <1>6 DEF MainStart, Thread
<1>7. CASE MainWakes
  BY <1>7 DEF MainWakes
<1>8. CASE UartRx
  <2>1. rx_sem' \in [value : 0 .. SemMax, waiter : BOOLEAN]
    BY <1>8, CallbackTypes DEF UartRx
  <2>2. /\ arrived' \in 0 .. BytesMax
        /\ fifo' \in Seq(1 .. BytesMax) /\ Len(fifo') <= FifoCap
    <3>1. arrived' \in 0 .. BytesMax /\ arrived + 1 \in 1 .. BytesMax
      BY <1>8 DEF UartRx
    <3>2. CASE Len(fifo) = FifoCap
      <4>1. Tail(fifo) \in Seq(1 .. BytesMax) /\ Len(Tail(fifo)) = FifoCap - 1
        BY <3>2
      <4>2. fifo' = Append(Tail(fifo), arrived + 1)
        BY <1>8, <3>2 DEF UartRx
      <4>. QED BY <3>1, <4>1, <4>2
    <3>3. CASE Len(fifo) # FifoCap
      <4>1. fifo' = Append(fifo, arrived + 1)
        BY <1>8, <3>3 DEF UartRx
      <4>. QED BY <3>1, <3>3, <4>1
    <3>. QED BY <3>1, <3>2, <3>3
  <2>. QED BY <1>8, <2>1, <2>2 DEF UartRx
<1>9. CASE ShellOpen
  BY <1>9 DEF ShellOpen, Thread, rt_device_open
<1>10. CASE ShellIndicate
  BY <1>10 DEF ShellIndicate, Thread
<1>11. CASE ShellRead
  BY <1>11, ReadTypes DEF ShellRead, Read, Thread
<1>12. CASE ShellTake
  <2>1. rx_sem' \in [value : 0 .. SemMax, waiter : BOOLEAN]
    <3>1. CASE rx_sem.value > 0
      BY <1>12, <3>1 DEF ShellTake
    <3>2. CASE ~(rx_sem.value > 0)
      BY <1>12, <3>2 DEF ShellTake
    <3>. QED BY <3>1, <3>2
  <2>. QED BY <1>12, <2>1 DEF ShellTake, Thread
<1>13. CASE ShellKey
  BY <1>13 DEF ShellKey, Thread
<1>14. CASE SerialRead
  BY <1>14, ReadTypes DEF SerialRead, Read, Thread
<1>15. CASE SerialGoOn
  BY <1>15 DEF SerialGoOn, Thread
<1>16. CASE UNCHANGED vars
  BY <1>16 DEF vars
<1>. QED
  BY <1>1, <1>2, <1>3, <1>4, <1>5, <1>6, <1>7, <1>8, <1>9, <1>10, <1>11, <1>12, <1>13,
     <1>14, <1>15, <1>16 DEF Next, Main, Shell, Serial

\* The progress of main, one case per action.
LEMMA MainStep == IInv /\ [Next]_vars => MainOK'
<1> SUFFICES ASSUME IInv, [Next]_vars PROVE MainOK'
  OBVIOUS
<1> USE DEF IInv, device, input, Goto, Runs, MainOK
<1>1. CASE finsh_system_init
  BY <1>1 DEF TypeOK, Thread, finsh_system_init
<1>2. CASE MainDrivers
  BY <1>2 DEF TypeOK, Thread, MainDrivers
<1>3. CASE MainCreateIpc
  <2>1. \/ pc' = [pc EXCEPT !["main"] = "open"] /\ dynamic_mutex' = TRUE
        \/ pc' = [pc EXCEPT !["main"] = "closed"]
    BY <1>3 DEF MainCreateIpc
  <2>2. /\ pc["main"] = "ipc" /\ asleep # {"main"}
        /\ UNCHANGED <<asleep, intRx, rx_indicate, rx_sem, fifo, arrived, log>>
    BY <1>3 DEF MainCreateIpc, Ready
  <2>. QED BY <2>1, <2>2 DEF TypeOK, Thread
<1>4. CASE MainOpen
  BY <1>4 DEF TypeOK, Thread, MainOpen, rt_device_open
<1>5. CASE MainIndicate
  BY <1>5 DEF TypeOK, Thread, MainIndicate
<1>6. CASE MainStart
  <2>1. PICK label \in {"none", "read"} :
          pc' = [pc EXCEPT !["main"] = "closed", !["serial"] = label]
    BY <1>6 DEF MainStart
  <2>2. /\ pc["main"] = "serial"
        /\ UNCHANGED <<asleep, rx_indicate, dynamic_mutex>>
    BY <1>6 DEF MainStart
  <2>. QED BY <2>1, <2>2 DEF TypeOK, Thread
<1>7. CASE MainWakes
  BY <1>7 DEF TypeOK, Thread, MainWakes
<1>8. CASE UartRx
  BY <1>8 DEF TypeOK, Thread, UartRx
<1>9. CASE ShellOpen
  BY <1>9 DEF TypeOK, Thread, ShellOpen, rt_device_open
<1>10. CASE ShellIndicate
  BY <1>10 DEF TypeOK, Thread, ShellOK, ShellIndicate
<1>11. CASE ShellRead
  BY <1>11 DEF TypeOK, Thread, ShellRead, Read
<1>12. CASE ShellTake
  BY <1>12 DEF TypeOK, Thread, ShellTake
<1>13. CASE ShellKey
  BY <1>13 DEF TypeOK, Thread, ShellKey
<1>14. CASE SerialRead
  BY <1>14 DEF TypeOK, Thread, SerialRead, Read
<1>15. CASE SerialGoOn
  BY <1>15 DEF TypeOK, Thread, SerialGoOn
<1>16. CASE UNCHANGED vars
  BY <1>16 DEF vars
<1>. QED
  BY <1>1, <1>2, <1>3, <1>4, <1>5, <1>6, <1>7, <1>8, <1>9, <1>10, <1>11, <1>12, <1>13,
     <1>14, <1>15, <1>16 DEF Next, Main, Shell, Serial

\* The progress of the shell, one case per action.
LEMMA ShellStep == IInv /\ [Next]_vars => ShellOK' /\ ShellSeesInput'
<1> SUFFICES ASSUME IInv, [Next]_vars PROVE ShellOK' /\ ShellSeesInput'
  OBVIOUS
<1> USE DEF IInv, device, input, Goto, Runs, MainOK, ShellOK, ShellSeesInput
<1>1. CASE finsh_system_init
  BY <1>1 DEF TypeOK, Thread, finsh_system_init
<1>2. CASE MainDrivers
  BY <1>2 DEF TypeOK, Thread, MainDrivers
<1>3. CASE MainCreateIpc
  <2>1. \/ pc' = [pc EXCEPT !["main"] = "open"] /\ dynamic_mutex' = TRUE
        \/ pc' = [pc EXCEPT !["main"] = "closed"]
    BY <1>3 DEF MainCreateIpc
  <2>2. /\ pc["main"] = "ipc" /\ asleep # {"main"}
        /\ UNCHANGED <<asleep, intRx, rx_indicate, rx_sem, fifo, arrived, log>>
    BY <1>3 DEF MainCreateIpc, Ready
  <2>. QED BY <2>1, <2>2 DEF TypeOK, Thread
<1>4. CASE MainOpen
  BY <1>4 DEF TypeOK, Thread, MainOpen, rt_device_open
<1>5. CASE MainIndicate
  BY <1>5 DEF TypeOK, Thread, MainIndicate
<1>6. CASE MainStart
  BY <1>6 DEF TypeOK, Thread, MainStart
<1>7. CASE MainWakes
  BY <1>7 DEF TypeOK, Thread, MainWakes
<1>8. CASE UartRx
  BY <1>8 , CallbackTypes DEF TypeOK, Thread, UartRx
<1>9. CASE ShellOpen
  BY <1>9 DEF TypeOK, Thread, ShellOpen, rt_device_open
<1>10. CASE ShellIndicate
  BY <1>10 DEF TypeOK, Thread, ShellIndicate
<1>11. CASE ShellRead
  <2>1. pc["tshell"] = "read" /\ rx_sem.waiter = FALSE
    BY <1>11 DEF ShellRead, Read, Ready, TypeOK
  <2>2. CASE fifo = << >>
    BY <1>11, <2>1, <2>2 DEF TypeOK, Thread, ShellRead, Read
  <2>3. CASE fifo # << >>
    BY <1>11, <2>1, <2>3 DEF TypeOK, Thread, ShellRead, Read
  <2>. QED BY <2>2, <2>3
<1>12. CASE ShellTake
  BY <1>12 DEF TypeOK, Thread, ShellTake
<1>13. CASE ShellKey
  BY <1>13 DEF TypeOK, Thread, ShellKey
<1>14. CASE SerialRead
  BY <1>14 DEF TypeOK, Thread, SerialRead, Read
<1>15. CASE SerialGoOn
  BY <1>15 DEF TypeOK, Thread, SerialGoOn
<1>16. CASE UNCHANGED vars
  BY <1>16 DEF vars
<1>. QED
  BY <1>1, <1>2, <1>3, <1>4, <1>5, <1>6, <1>7, <1>8, <1>9, <1>10, <1>11, <1>12, <1>13,
     <1>14, <1>15, <1>16 DEF Next, Main, Shell, Serial

\* What a read does to the log, entry by entry.
LEMMA ReadLog ==
    ASSUME TypeOK, NEW t \in Thread, NEW empty, NEW got, Read(t, empty, got)
    PROVE  \/ log' = log
           \/ /\ Len(log) \in Nat /\ Len(log') = Len(log) + 1
              /\ \A i \in 1 .. Len(log) : log'[i] = log[i]
              /\ log'[Len(log) + 1].by = t
<1>1. CASE fifo = << >>
  BY <1>1 DEF Read
<1>2. CASE fifo # << >>
  <2>1. log' = Append(log, [by |-> t, byte |-> Head(fifo)])
    BY <1>2 DEF Read
  <2>2. log \in Seq([by : Thread, byte : 1 .. BytesMax])
    BY DEF TypeOK
  <2>3. [by |-> t, byte |-> Head(fifo)] \in [by : Thread, byte : 1 .. BytesMax]
    <3>1. fifo \in Seq(1 .. BytesMax)
      BY DEF TypeOK
    <3>2. Head(fifo) \in 1 .. BytesMax
      BY <1>2, <3>1, ConsoleAssumption
    <3>. QED BY <3>2
  <2>. QED BY <2>1, <2>2, <2>3
<1>. QED BY <1>1, <1>2

\* A thread other than the readers leaves the log and both of its readers alone.
LEMMA LogUntouched ==
    ASSUME IInv, UNCHANGED log,
           pc["serial"] # "none" => pc'["serial"] # "none",
           rx_sem.waiter \/ pc["tshell"] = "none" =>
               \/ rx_sem'.waiter \/ pc'["tshell"] = "none"
               \/ pc["serial"] = "none"
    PROVE  HandedOver' /\ CommandsWhole'
BY DEF IInv, HandedOver, CommandsWhole

\* Who reads when, one case per action.
LEMMA LogStep == IInv /\ [Next]_vars => HandedOver' /\ CommandsWhole'
<1> SUFFICES ASSUME IInv, [Next]_vars PROVE HandedOver' /\ CommandsWhole'
  OBVIOUS
<1> USE DEF device, input, Goto, Runs
<1>1. CASE finsh_system_init
  BY <1>1, LogUntouched DEF finsh_system_init, IInv, MainOK, TypeOK, Thread
<1>2. CASE MainDrivers
  BY <1>2, LogUntouched DEF MainDrivers, IInv, TypeOK, Thread
<1>3. CASE MainCreateIpc
  BY <1>3, LogUntouched DEF MainCreateIpc, IInv, TypeOK, Thread
<1>4. CASE MainOpen
  BY <1>4, LogUntouched DEF MainOpen, IInv, TypeOK, Thread
<1>5. CASE MainIndicate
  BY <1>5, LogUntouched DEF MainIndicate, IInv, TypeOK, Thread
<1>6. CASE MainStart
  BY <1>6, LogUntouched DEF MainStart, IInv, MainOK, TypeOK, Thread
<1>7. CASE MainWakes
  BY <1>7, LogUntouched DEF MainWakes
<1>8. CASE UartRx
  BY <1>8, LogUntouched DEF UartRx, IInv, MainOK
<1>9. CASE ShellOpen
  BY <1>9, LogUntouched DEF ShellOpen, IInv, MainOK, ShellOK, TypeOK, Thread
<1>10. CASE ShellIndicate
  BY <1>10, LogUntouched DEF ShellIndicate, IInv, MainOK, ShellOK, TypeOK, Thread
<1>11. CASE ShellRead
  <2>1. pc["tshell"] = "read" /\ rx_sem.waiter = FALSE
    BY <1>11 DEF ShellRead, Read, Ready, IInv, TypeOK
  <2>2. \A i \in 1 .. Len(log) : log[i].by # "serial"
    BY <2>1 DEF IInv, HandedOver
  <2>3. \/ log' = log
        \/ /\ Len(log) \in Nat /\ Len(log') = Len(log) + 1
           /\ \A i \in 1 .. Len(log) : log'[i] = log[i]
           /\ log'[Len(log) + 1].by = "tshell"
    BY <1>11, ReadLog DEF ShellRead, IInv, Thread
  <2>4. \A i \in 1 .. Len(log') : log'[i].by # "serial"
    BY <2>2, <2>3
  <2>. QED BY <2>4 DEF HandedOver, CommandsWhole
<1>12. CASE ShellTake
  BY <1>12, LogUntouched DEF ShellTake, Ready, IInv, TypeOK, Thread
<1>13. CASE ShellKey
  BY <1>13, LogUntouched DEF ShellKey, IInv, TypeOK, Thread
<1>14. CASE SerialRead
  <2>1. rx_sem.waiter \/ pc["tshell"] = "none"
    BY <1>14 DEF SerialRead, Read, Ready, Prio, IInv, ShellOK, TypeOK, Thread
  <2>2. /\ pc' = [pc EXCEPT !["serial"] = "take"] \/ pc' = [pc EXCEPT !["serial"] = "echo"]
        /\ UNCHANGED rx_sem
    BY <1>14 DEF SerialRead, Read
  <2>3. HandedOver'
    BY <2>1, <2>2 DEF HandedOver, IInv, TypeOK, Thread
  <2>4. \/ log' = log
        \/ /\ Len(log) \in Nat /\ Len(log') = Len(log) + 1
           /\ \A i \in 1 .. Len(log) : log'[i] = log[i]
           /\ log'[Len(log) + 1].by = "serial"
    BY <1>14, ReadLog DEF SerialRead, IInv, Thread
  <2>5. CommandsWhole'
    BY <2>4 DEF IInv, CommandsWhole
  <2>. QED BY <2>3, <2>5
<1>15. CASE SerialGoOn
  BY <1>15, LogUntouched DEF SerialGoOn, IInv, TypeOK, Thread
<1>16. CASE UNCHANGED vars
  BY <1>16 DEF vars, IInv, HandedOver, CommandsWhole
<1>. QED
  BY <1>1, <1>2, <1>3, <1>4, <1>5, <1>6, <1>7, <1>8, <1>9, <1>10, <1>11, <1>12, <1>13,
     <1>14, <1>15, <1>16 DEF Next, Main, Shell, Serial

-----------------------------------------------------------------------------

\* For all limits, bytes and failures of creation, in Console: types; no byte
\* waits behind a shell that sleeps while the callback is its own
\* (finsh_getchar, finsh_rx_ind); uart_input and finsh_rx_ind are never called
\* before what they work on exists; and from its first byte on serial gets all.
THEOREM ConsoleInvariant ==
    Spec => [](TypeOK /\ ShellSeesInput /\ CallbackReady /\ CommandsWhole)
<1>1. Init => IInv
  BY InitInv
<1>2. IInv /\ [Next]_vars => IInv'
  BY TypeStep, MainStep, ShellStep, LogStep DEF IInv
<1>3. IInv => TypeOK /\ ShellSeesInput /\ CallbackReady /\ CommandsWhole
  BY DEF IInv, MainOK, ShellOK, CallbackReady
<1>. QED BY <1>1, <1>2, <1>3, PTL DEF Spec

\* For all limits, a byte that arrives between the shell's failed read and its
\* wait, or before its callback is set, is seen by finsh_getchar.
THEOREM ShellNeverMissesInput == Spec => []ShellSeesInput
BY ConsoleInvariant, PTL

\* For all limits, and wherever Main_Threads gives up, the installed callback of
\* uart1 finds its object.
THEOREM CallbackAlwaysReady == Spec => []CallbackReady
BY ConsoleInvariant, PTL

=============================================================================
