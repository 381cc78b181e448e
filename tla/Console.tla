------------------------------- MODULE Console -------------------------------
(***************************************************************************)
(* Who reads uart1.  Three clients open it one after the other: the        *)
(* console at boot (polling), the shell thread tshell (interrupt receive,  *)
(* with finsh_rx_ind as the callback), and Main_Threads for the serial     *)
(* thread, which replaces the callback by uart_input.  The device has one  *)
(* FIFO and one callback, and nobody tells the shell.                      *)
(*                                                                         *)
(* The thread that runs is the highest-priority ready one; Show and Get,   *)
(* which never touch uart1, only take time away from serial.  The FIFO is  *)
(* the drop-oldest queue that SerialFifo implements.                       *)
(***************************************************************************)
EXTENDS Naturals, Sequences

CONSTANTS
    FifoCap,        \* unread bytes the FIFO keeps, 63 in the build
    SemMax,         \* RT_SEM_VALUE_MAX, 65535 in the build
    BytesMax        \* bound: how many bytes the peer sends

ASSUME ConsoleAssumption ==
    /\ FifoCap \in Nat \ {0}
    /\ SemMax \in Nat \ {0}
    /\ BytesMax \in Nat

VARIABLES
    pc,             \* where each thread is; "none" before rt_thread_create
    asleep,         \* threads that wait for their timer
    intRx,          \* serial_rx is allocated and the receive interrupt is on
    rx_indicate,    \* uart1's callback
    rx_sem,         \* shell->rx_sem: its value, and whether tshell waits for it
    dynamic_mutex,  \* Main_Threads has created the mutex
    fifo,           \* unread bytes, numbered in the order of arrival
    arrived,        \* how many bytes have arrived
    log             \* every byte read, with its reader, in order

vars == <<pc, asleep, intRx, rx_indicate, rx_sem, dynamic_mutex, fifo, arrived, log>>

device == <<intRx, rx_indicate>>
input == <<fifo, arrived, log>>

-----------------------------------------------------------------------------
(* The scheduler *)

Thread == {"main", "tshell", "serial"}

\* Variant: the shell shares the priority of the serial thread.
Prio_Shared == [main |-> 5, tshell |-> 30, serial |-> 30]

\* RT_MAIN_THREAD_PRIORITY, FINSH_THREAD_PRIORITY, THREAD_PRIORITY_LOW
Prio == [main |-> 5, tshell |-> 11, serial |-> 30]

Ready(t) ==
    /\ pc[t] \notin {"none", "closed"}
    /\ t \notin asleep
    /\ ~(t = "tshell" /\ rx_sem.waiter)

\* t is at label, and no ready thread outranks it.
Runs(t, label) ==
    /\ pc[t] = label
    /\ Ready(t)
    /\ \A u \in Thread : Ready(u) => Prio[t] <= Prio[u]

Goto(t, label) == pc' = [pc EXCEPT ![t] = label]

-----------------------------------------------------------------------------
(* The main thread: rt_components_init, main, Main_Threads *)

\* When main_thread_entry starts, rt_hw_board_init has opened uart1 for the
\* console, without RT_DEVICE_FLAG_INT_RX.
Init ==
    /\ pc = [main |-> "components", tshell |-> "none", serial |-> "none"]
    /\ asleep = {}
    /\ intRx = FALSE
    /\ rx_indicate = "none"
    /\ rx_sem = [value |-> 0, waiter |-> FALSE]
    /\ dynamic_mutex = FALSE
    /\ fifo = << >>
    /\ arrived = 0
    /\ log = << >>

\* finsh_system_init; without memory for the shell or its thread there is none.
finsh_system_init ==
    /\ Runs("main", "components")
    /\ \E made \in BOOLEAN :
           pc' = [pc EXCEPT !["main"] = "drivers",
                            !["tshell"] = IF made THEN "open" ELSE "none"]
    /\ UNCHANGED <<asleep, device, rx_sem, dynamic_mutex, input>>

\* main initialises the display, the sensors and the clock, sleeping many times.
MainDrivers ==
    /\ Runs("main", "drivers")
    /\ Goto("main", "ipc")
    /\ asleep' = {"main"}
    /\ UNCHANGED <<device, rx_sem, dynamic_mutex, input>>

\* main's last sleep ends.  It has slept for more than 800 ticks by then
\* (LCD_InitReg, MPU_Init, rtc_sample, and each byte sent to the display), and
\* tshell, next in rank, has long opened the device.
MainWakes ==
    /\ asleep = {"main"}
    /\ pc["tshell"] \notin {"open", "indicate"}
    /\ asleep' = {}
    /\ UNCHANGED <<pc, device, rx_sem, dynamic_mutex, input>>

\* Variant: Main_Threads goes on when a creation fails.
MainCreateIpc_GoOn ==
    /\ Runs("main", "ipc")
    /\ dynamic_mutex' \in BOOLEAN
    /\ Goto("main", "open")
    /\ UNCHANGED <<asleep, device, rx_sem, input>>

\* rt_mutex_create and rt_sem_create; Main_Threads returns when one fails, and
\* the mutex may exist by then.
MainCreateIpc ==
    /\ Runs("main", "ipc")
    /\ \/ dynamic_mutex' = TRUE /\ Goto("main", "open")
       \/ dynamic_mutex' \in BOOLEAN /\ Goto("main", "closed")
    /\ UNCHANGED <<asleep, device, rx_sem, input>>

\* rt_device_open(serial, RT_DEVICE_FLAG_INT_RX) -> rt_serial_open: the first
\* caller allocates an empty FIFO and enables the interrupt, a later one keeps it.
rt_device_open == intRx' = TRUE

MainOpen ==
    /\ Runs("main", "open")
    /\ rt_device_open
    /\ Goto("main", "indicate")
    /\ UNCHANGED <<asleep, rx_indicate, rx_sem, dynamic_mutex, input>>

\* rt_device_set_rx_indicate(serial, uart_input)
MainIndicate ==
    /\ Runs("main", "indicate")
    /\ rx_indicate' = "uart_input"
    /\ Goto("main", "serial")
    /\ UNCHANGED <<asleep, intRx, rx_sem, dynamic_mutex, input>>

\* The serial thread is created, or not; Get and Show likewise; main returns.
MainStart ==
    /\ Runs("main", "serial")
    /\ \E made \in BOOLEAN :
           pc' = [pc EXCEPT !["main"] = "closed",
                            !["serial"] = IF made THEN "read" ELSE "none"]
    /\ UNCHANGED <<asleep, device, rx_sem, dynamic_mutex, input>>

Main ==
    \/ finsh_system_init
    \/ MainDrivers
    \/ MainCreateIpc
    \/ MainOpen
    \/ MainIndicate
    \/ MainStart

-----------------------------------------------------------------------------
(* The receive interrupt *)

\* rt_sem_release(&shell->rx_sem): resume tshell, or count up to SemMax.
finsh_rx_ind ==
    rx_sem' = IF rx_sem.waiter
                THEN [rx_sem EXCEPT !.waiter = FALSE]
                ELSE [rx_sem EXCEPT !.value = IF @ < SemMax THEN @ + 1 ELSE @]

\* USART1_IRQHandler -> rt_hw_serial_isr: the byte is stored, pushing out the
\* oldest if there is no room, and the callback runs.  What uart_input does to
\* dynamic_mutex is in module Watch.
UartRx ==
    /\ intRx
    /\ arrived < BytesMax
    /\ arrived' = arrived + 1
    /\ fifo' = Append(IF Len(fifo) = FifoCap THEN Tail(fifo) ELSE fifo, arrived + 1)
    /\ IF rx_indicate = "finsh_rx_ind" THEN finsh_rx_ind ELSE UNCHANGED rx_sem
    /\ UNCHANGED <<pc, asleep, device, dynamic_mutex, log>>

-----------------------------------------------------------------------------
(* finsh_thread_entry *)

\* finsh_set_device: open the console's device for interrupt receive ...
ShellOpen ==
    /\ Runs("tshell", "open")
    /\ rt_device_open
    /\ Goto("tshell", "indicate")
    /\ UNCHANGED <<asleep, rx_indicate, rx_sem, dynamic_mutex, input>>

\* Variant: the shell waits for the first callback before it reads.
ShellIndicate_WaitFirst ==
    /\ Runs("tshell", "indicate")
    /\ rx_indicate' = "finsh_rx_ind"
    /\ Goto("tshell", "take")
    /\ UNCHANGED <<asleep, intRx, rx_sem, dynamic_mutex, input>>

\* ... and set the callback.
ShellIndicate ==
    /\ Runs("tshell", "indicate")
    /\ rx_indicate' = "finsh_rx_ind"
    /\ Goto("tshell", "read")
    /\ UNCHANGED <<asleep, intRx, rx_sem, dynamic_mutex, input>>

\* rt_device_read(dev, -1, &ch, 1) by thread t.
Read(t, empty, got) ==
    /\ Runs(t, "read")
    /\ \/ /\ fifo = << >>
          /\ Goto(t, empty)
          /\ UNCHANGED <<fifo, log>>
       \/ /\ fifo # << >>
          /\ Goto(t, got)
          /\ fifo' = Tail(fifo)
          /\ log' = Append(log, [by |-> t, byte |-> Head(fifo)])
    /\ UNCHANGED <<asleep, device, rx_sem, dynamic_mutex, arrived>>

ShellRead == Read("tshell", "take", "key")

\* Variant: the shell polls instead of waiting for ever.
ShellTake_Poll ==
    /\ Runs("tshell", "take")
    /\ Goto("tshell", "read")
    /\ rx_sem' = [rx_sem EXCEPT !.value = IF @ > 0 THEN @ - 1 ELSE @]
    /\ UNCHANGED <<asleep, device, dynamic_mutex, input>>

\* finsh_getchar: rt_sem_take(&shell->rx_sem, RT_WAITING_FOREVER), then try again.
ShellTake ==
    /\ Runs("tshell", "take")
    /\ Goto("tshell", "read")
    /\ rx_sem' = IF rx_sem.value > 0 THEN [rx_sem EXCEPT !.value = @ - 1]
                                     ELSE [rx_sem EXCEPT !.waiter = TRUE]
    /\ UNCHANGED <<asleep, device, dynamic_mutex, input>>

\* The key goes to the line editor, a finished line to a command.
ShellKey ==
    /\ Runs("tshell", "key")
    /\ Goto("tshell", "read")
    /\ UNCHANGED <<asleep, device, rx_sem, dynamic_mutex, input>>

Shell == ShellOpen \/ ShellIndicate \/ ShellRead \/ ShellTake \/ ShellKey

-----------------------------------------------------------------------------
(* serial_thread_entry *)

SerialRead == Read("serial", "take", "echo")

\* Variant: the mutex is not recursive, and the wait for it never ends.
SerialGoOn_Waits ==
    /\ Runs("serial", "echo")
    /\ Goto("serial", "read")
    /\ UNCHANGED <<asleep, device, rx_sem, dynamic_mutex, input>>

\* rt_mutex_take, which never suspends the thread (SerialKeepsCpu in Watch),
\* and the echo and the switch on the byte.
SerialGoOn ==
    /\ Runs("serial", "take") \/ Runs("serial", "echo")
    /\ Goto("serial", "read")
    /\ UNCHANGED <<asleep, device, rx_sem, dynamic_mutex, input>>

Serial == SerialRead \/ SerialGoOn

Next == Main \/ MainWakes \/ UartRx \/ Shell \/ Serial

\* main and tshell outrank the threads of the application and run whenever they
\* are ready; main's timer fires.  Show and Get sleep in every round, so serial
\* gets the CPU again and again.
Fairness ==
    /\ WF_vars(Main)
    /\ WF_vars(MainWakes)
    /\ WF_vars(Shell)
    /\ SF_vars(Serial)

Spec == Init /\ [][Next]_vars /\ Fairness

-----------------------------------------------------------------------------
(* Properties *)

TypeOK ==
    /\ pc \in [Thread -> {"none", "closed", "components", "drivers", "ipc", "open",
                          "indicate", "serial", "read", "take", "key", "echo"}]
    /\ asleep \subseteq {"main"}
    /\ intRx \in BOOLEAN
    /\ rx_indicate \in {"none", "finsh_rx_ind", "uart_input"}
    /\ rx_sem \in [value : 0 .. SemMax, waiter : BOOLEAN]
    /\ dynamic_mutex \in BOOLEAN
    /\ arrived \in 0 .. BytesMax
    /\ fifo \in Seq(1 .. BytesMax) /\ Len(fifo) <= FifoCap
    /\ log \in Seq([by : Thread, byte : 1 .. BytesMax])

\* No byte waits behind a sleeping shell: while the callback is the shell's,
\* tshell is suspended only with an empty FIFO and an empty semaphore, although
\* it reads, decides to wait and waits in three steps with interrupts between
\* them, and opens the device before it sets the callback.
ShellSeesInput ==
    rx_sem.waiter =>
        /\ rx_sem.value = 0
        /\ rx_indicate = "finsh_rx_ind" => fifo = << >>

\* The hand-over is clean: from its first byte on the serial thread gets every
\* byte that is read, so no command is split between it and the shell, although
\* the shell outranks it and is never told that the device changed hands.
CommandsWhole ==
    \A i, j \in 1 .. Len(log) :
        i < j /\ log[i].by = "serial" => log[j].by = "serial"

\* The callback never works on an object that does not exist: uart_input is not
\* installed before dynamic_mutex was created, also when Main_Threads gives up
\* half-way, and nobody but the shell's own thread installs finsh_rx_ind.
CallbackReady ==
    /\ rx_indicate = "uart_input" => dynamic_mutex
    /\ rx_indicate = "finsh_rx_ind" => pc["tshell"] # "none"

\* When Main_Threads has replaced the callback, the shell drains what it was
\* told of and then waits for ever; nothing wakes it again.
ShellRetires ==
    rx_indicate = "uart_input" /\ pc["tshell"] # "none" ~> []rx_sem.waiter

Unread(n) == \E i \in 1 .. Len(fifo) : fifo[i] = n

\* A byte does not stay in the FIFO: if the serial thread exists, or if
\* Main_Threads gave up and left the device to the shell, it is read or pushed
\* out by newer ones.
BytesLeave ==
    \A n \in 1 .. BytesMax :
        /\ Unread(n)
        /\ \/ pc["serial"] # "none"
           \/ pc["main"] = "closed" /\ rx_indicate = "finsh_rx_ind"
        ~> ~Unread(n)
=============================================================================
