------------------------------ MODULE SerialFifo ------------------------------
(***************************************************************************)
(* The interrupt-mode receive FIFO of the RT-Thread serial framework       *)
(* (components/drivers/serial/serial.c), as the watch uses it on uart1:    *)
(* the USART interrupt fills it, the threads that opened the device drain  *)
(* it one byte at a time with rt_device_read(dev, -1, &ch, 1).             *)
(*                                                                         *)
(* Every update of the indices is made with interrupts disabled, so one    *)
(* byte stored and one byte read are atomic steps.  The interrupt handler  *)
(* itself is not atomic: it stores bytes until the data register is empty  *)
(* and only then computes the length and calls rx_indicate; no thread runs *)
(* in between.                                                             *)
(***************************************************************************)
EXTENDS Naturals, Sequences

CONSTANTS Byte,    \* the bytes that can arrive
          bufsz,   \* serial->config.bufsz, RT_SERIAL_RB_BUFSZ = 64 in rtconfig.h
          Zero,    \* the value rt_memset gives the buffer
          NoByte   \* read result when there is no data

ASSUME BufszAssumption == bufsz \in Nat /\ bufsz >= 2

VARIABLES
    buffer,      \* rx_fifo->buffer
    put_index,   \* rx_fifo->put_index
    get_index,   \* rx_fifo->get_index
    is_full,     \* rx_fifo->is_full
    ch,          \* the byte the ISR's latest getc took from the data register
    inIsr,       \* rt_hw_serial_isr is between its first byte and its end
    indicated,   \* the length of the latest rx_indicate call since a read last
                 \* found nothing, 0 if there was none
    last         \* what the latest rt_device_read returned

vars == <<buffer, put_index, get_index, is_full, ch, inIsr, indicated, last>>

Index == 0 .. bufsz - 1

\* An index incremented with the wrap the code writes as "if (i >= bufsz) i = 0".
Bump(i) == IF i + 1 >= bufsz THEN 0 ELSE i + 1

\* rt_serial_open with RT_DEVICE_FLAG_INT_RX allocates and clears the FIFO.
Init ==
    /\ buffer = [i \in Index |-> Zero]
    /\ put_index = 0
    /\ get_index = 0
    /\ is_full = FALSE
    /\ ch = NoByte
    /\ inIsr = FALSE
    /\ indicated = 0
    /\ last = NoByte

-----------------------------------------------------------------------------
(* Interrupt context *)

\* Variant: an overrun leaves the read index where it is.
IsrStore_KeepOldest(c) ==
    LET put == Bump(put_index)
    IN  /\ buffer' = [buffer EXCEPT ![put_index] = c]
        /\ put_index' = put
        /\ is_full' = (put = get_index \/ is_full)
        /\ ch' = c
        /\ inIsr' = TRUE
        /\ UNCHANGED <<get_index, indicated, last>>

\* Variant: on an overrun the new byte is discarded instead of the oldest.
IsrStore_DropNewest(c) ==
    LET put == Bump(put_index)
        overrun == put = get_index
    IN  /\ buffer' = IF overrun THEN buffer ELSE [buffer EXCEPT ![put_index] = c]
        /\ put_index' = IF overrun THEN put_index ELSE put
        /\ is_full' = (overrun \/ is_full)
        /\ ch' = c
        /\ inIsr' = TRUE
        /\ UNCHANGED <<get_index, indicated, last>>

\* One round of the ISR loop: getc returned a byte, which is stored; when
\* the next position is the read index the oldest byte is discarded.
IsrStore(c) ==
    LET put == Bump(put_index)
        overrun == put = get_index
    IN  /\ buffer' = [buffer EXCEPT ![put_index] = c]
        /\ put_index' = put
        /\ get_index' = IF overrun THEN Bump(get_index) ELSE get_index
        /\ is_full' = (overrun \/ is_full)
        /\ ch' = c
        /\ inIsr' = TRUE
        /\ UNCHANGED <<indicated, last>>

\* Variant: the wrapped case is forgotten.
Used_NoWrap(put, get) == IF put >= get THEN put - get ELSE 0

\* The length the ISR computes for the callback from the two indices.
Used(put, get) == IF put >= get THEN put - get ELSE bufsz - (get - put)

RxLength == Used(put_index, get_index)

\* getc returned -1: the handler computes the length, calls rx_indicate if it
\* is not zero, and returns to the interrupted thread.
IsrIndicate ==
    /\ inIsr
    /\ indicated' = IF RxLength # 0 THEN RxLength ELSE indicated
    /\ inIsr' = FALSE
    /\ UNCHANGED <<buffer, put_index, get_index, is_full, ch, last>>

-----------------------------------------------------------------------------
(* Thread context: rt_serial_read -> _serial_int_rx with length 1 *)

NoData == get_index = put_index /\ ~is_full

ReadNone ==
    /\ ~inIsr
    /\ NoData
    /\ last' = NoByte
    /\ indicated' = 0
    /\ UNCHANGED <<buffer, put_index, get_index, is_full, ch, inIsr>>

ReadOne ==
    /\ ~inIsr
    /\ ~NoData
    /\ last' = buffer[get_index]
    /\ get_index' = Bump(get_index)
    /\ is_full' = FALSE
    /\ UNCHANGED <<buffer, put_index, ch, inIsr, indicated>>

Next ==
    \/ \E c \in Byte : IsrStore(c)
    \/ IsrIndicate
    \/ ReadNone
    \/ ReadOne

Spec == Init /\ [][Next]_vars

-----------------------------------------------------------------------------
(* Properties *)

TypeOK ==
    /\ buffer \in [Index -> Byte \cup {Zero}]
    /\ put_index \in Index
    /\ get_index \in Index
    /\ is_full \in BOOLEAN
    /\ ch \in Byte \cup {NoByte}
    /\ inIsr \in BOOLEAN
    /\ indicated \in 0 .. bufsz - 1
    /\ last \in Byte \cup {NoByte}

\* is_full is set only together with a step of the read index past the write
\* index, so the two never meet while it is set: equal indices always mean an
\* empty FIFO, which is what the ISR's length computation relies on.
FullNeverMeetsEmpty == is_full => put_index # get_index

\* The slot of the i-th unread byte, counted from 1 at read index get.
Slot(get, i) == IF get + i - 1 >= bufsz THEN get + i - 1 - bufsz
                                        ELSE get + i - 1

\* The unread bytes, oldest first.
Contents == [i \in 1 .. RxLength |-> buffer[Slot(get_index, i)]]

\* No read hands out a slot of the cleared buffer that no byte was stored in:
\* every unread slot holds a byte that arrived.
NoStaleSlot == \A i \in 1 .. RxLength : buffer[Slot(get_index, i)] \in Byte

\* No wake-up is lost: when a reader has found the FIFO empty and bytes are
\* there later, rx_indicate was called in between.  The handler never ends
\* without the callback when it stored something, even when it stored bufsz
\* bytes and the write index came back to where it was.
IndicatedWhenData == (~inIsr /\ RxLength > 0) => indicated > 0

Abstract == INSTANCE DropOldestQueue
                WITH Capacity <- bufsz - 1, queue <- Contents, newest <- ch

\* The ring implements a queue that keeps the newest bufsz - 1 bytes.
ImplementsQueue == Abstract!Spec

=============================================================================
