--------------------------- MODULE DropOldestQueue ---------------------------
(***************************************************************************)
(* What the receive side of the serial device promises to its readers: a   *)
(* bounded queue that keeps the most recent Capacity bytes.  A byte that   *)
(* arrives when the queue is full displaces the oldest one; a read takes   *)
(* the oldest byte that is left or reports that there is none.             *)
(***************************************************************************)
EXTENDS Naturals, Sequences

CONSTANTS Byte,      \* the bytes a peer may send
          Capacity,  \* how many unread bytes are kept
          NoByte     \* what a read that finds nothing returns

VARIABLES queue,     \* the unread bytes, oldest first
          newest,    \* the byte that arrived last
          last       \* what the latest read returned

vars == <<queue, newest, last>>

\* q after byte c has arrived.
Push(q, c) ==
    IF Len(q) = Capacity THEN Append(Tail(q), c) ELSE Append(q, c)

Init ==
    /\ queue = << >>
    /\ newest = NoByte
    /\ last = NoByte

Arrive(c) ==
    /\ queue' = Push(queue, c)
    /\ newest' = c
    /\ UNCHANGED last

Deliver ==
    /\ queue # << >>
    /\ last' = Head(queue)
    /\ queue' = Tail(queue)
    /\ UNCHANGED newest

Miss ==
    /\ queue = << >>
    /\ last' = NoByte
    /\ UNCHANGED <<queue, newest>>

Next ==
    \/ \E c \in Byte : Arrive(c)
    \/ Deliver
    \/ Miss

Spec == Init /\ [][Next]_vars
=============================================================================
