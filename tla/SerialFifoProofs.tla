--------------------------- MODULE SerialFifoProofs ---------------------------
(***************************************************************************)
(* Proofs about the serial receive FIFO for every buffer size of at least  *)
(* two slots and every set of bytes.                                       *)
(***************************************************************************)
EXTENDS SerialFifo, SequenceTheorems, TLAPS

\* The inductive invariant: the types, the meaning of is_full, the fact that
\* every slot between the read and the write index has been written, and the
\* announcement of unread bytes.
IInv == TypeOK /\ FullNeverMeetsEmpty /\ NoStaleSlot /\ IndicatedWhenData

\* An index stays an index when it is incremented, and it moves.
LEMMA BumpInIndex ==
    ASSUME NEW i \in Index
    PROVE  Bump(i) \in Index /\ Bump(i) # i
BY BufszAssumption DEF Bump, Index

\* The number of unread bytes is below bufsz, and is zero exactly when the
\* indices are equal.
LEMMA UsedRange ==
    ASSUME NEW put \in Index, NEW get \in Index
    PROVE  /\ Used(put, get) \in 0 .. bufsz - 1
           /\ Used(put, get) = 0 <=> put = get
BY BufszAssumption DEF Used, Index

\* The slot of an unread byte is a slot of the buffer, and not the one the
\* next byte will be stored in.
LEMMA SlotRange ==
    ASSUME NEW put \in Index, NEW get \in Index, NEW i \in 1 .. Used(put, get)
    PROVE  Slot(get, i) \in Index /\ Slot(get, i) # put
BY BufszAssumption DEF Used, Index, Slot

\* Storing a byte without an overrun adds one unread slot, the written one,
\* after the others.
LEMMA StoreSlots ==
    ASSUME NEW put \in Index, NEW get \in Index, Bump(put) # get
    PROVE  /\ Used(Bump(put), get) = Used(put, get) + 1
           /\ Slot(get, Used(put, get) + 1) = put
BY BufszAssumption DEF Bump, Used, Index, Slot

\* Moving the read index past an unread byte shifts the other ones by one.
LEMMA DropSlots ==
    ASSUME NEW put \in Index, NEW get \in Index, put # get
    PROVE  /\ Used(put, Bump(get)) = Used(put, get) - 1
           /\ Slot(get, 1) = get
           /\ \A i \in 1 .. bufsz : Slot(Bump(get), i) = Slot(get, i + 1)
                                   \/ i >= Used(put, get)
BY BufszAssumption DEF Bump, Used, Index, Slot

\* An overrun keeps the number of unread bytes at bufsz - 1: the oldest goes
\* and the stored one comes last.
LEMMA OverrunSlots ==
    ASSUME NEW put \in Index, NEW get \in Index, Bump(put) = get
    PROVE  /\ Used(put, get) = bufsz - 1
           /\ Used(Bump(put), Bump(get)) = bufsz - 1
           /\ Slot(Bump(get), bufsz - 1) = put
           /\ \A i \in 1 .. bufsz - 2 : Slot(Bump(get), i) = Slot(get, i + 1)
BY BufszAssumption DEF Bump, Used, Index, Slot

\* Storing one byte in rt_hw_serial_isr preserves the invariant.
LEMMA IsrStoreInv ==
    ASSUME IInv, NEW c \in Byte, IsrStore(c)
    PROVE  IInv'
<1> USE BufszAssumption
<1>1. Bump(put_index) \in Index /\ Bump(get_index) \in Index
  BY BumpInIndex DEF IInv, TypeOK
<1>2. TypeOK'
  BY <1>1 DEF IInv, TypeOK, IsrStore, Index
<1>3. FullNeverMeetsEmpty'
  BY DEF IInv, TypeOK, FullNeverMeetsEmpty, IsrStore, Bump, Index
<1>4. NoStaleSlot'
  <2> SUFFICES ASSUME NEW i \in 1 .. Used(put_index', get_index')
               PROVE  buffer'[Slot(get_index', i)] \in Byte
    BY DEF NoStaleSlot, RxLength
  <2>1. Slot(get_index', i) \in Index
    BY <1>2, SlotRange DEF TypeOK
  <2>2. CASE Slot(get_index', i) = put_index
    BY <2>1, <2>2 DEF IInv, TypeOK, IsrStore
  <2>3. CASE Slot(get_index', i) # put_index
    <3>1. buffer'[Slot(get_index', i)] = buffer[Slot(get_index', i)]
      BY <2>1, <2>3 DEF IInv, TypeOK, IsrStore
    <3>2. \E j \in 1 .. RxLength : Slot(get_index, j) = Slot(get_index', i)
      <4>1. CASE Bump(put_index) = get_index
        <5>1. i + 1 \in 1 .. RxLength
              /\ Slot(get_index, i + 1) = Slot(get_index', i)
          BY <4>1, <2>3, OverrunSlots DEF IInv, TypeOK, IsrStore, RxLength
        <5>2. QED BY <5>1
      <4>2. CASE Bump(put_index) # get_index
        <5>1. i \in 1 .. RxLength
          BY <4>2, <2>3, StoreSlots, UsedRange DEF IInv, TypeOK, IsrStore, RxLength
        <5>2. QED BY <5>1, <4>2 DEF IsrStore
      <4>3. QED BY <4>1, <4>2
    <3>3. QED BY <3>1, <3>2 DEF IInv, NoStaleSlot
  <2>4. QED BY <2>2, <2>3
<1>5. IndicatedWhenData'
  BY DEF IndicatedWhenData, IsrStore
<1>6. QED BY <1>2, <1>3, <1>4, <1>5 DEF IInv

\* The end of the handler and a read of an empty FIFO leave the ring alone.
LEMMA RingUnchangedInv ==
    ASSUME IInv, IsrIndicate \/ ReadNone
    PROVE  IInv'
<1>1. RxLength \in 0 .. bufsz - 1
  BY UsedRange DEF IInv, TypeOK, RxLength
<1>2. UNCHANGED <<buffer, put_index, get_index, is_full>>
  BY DEF IsrIndicate, ReadNone
<1>3. TypeOK'
  <2>1. indicated' \in 0 .. bufsz - 1
    BY <1>1, BufszAssumption DEF IInv, TypeOK, IsrIndicate, ReadNone
  <2>2. /\ inIsr' \in BOOLEAN
        /\ ch' \in Byte \cup {NoByte}
        /\ last' \in Byte \cup {NoByte}
    BY DEF IInv, TypeOK, IsrIndicate, ReadNone
  <2>3. QED BY <1>2, <2>1, <2>2 DEF IInv, TypeOK, Index
<1>4. FullNeverMeetsEmpty' /\ NoStaleSlot'
  BY <1>2 DEF IInv, FullNeverMeetsEmpty, NoStaleSlot, RxLength
<1>5. IndicatedWhenData'
  <2>1. CASE IsrIndicate
    BY <1>1, <1>2, <2>1 DEF IndicatedWhenData, IsrIndicate, RxLength
  <2>2. CASE ReadNone
    <3>1. RxLength = 0
      BY <2>2, UsedRange DEF IInv, TypeOK, ReadNone, NoData, RxLength
    <3>2. QED BY <1>2, <3>1 DEF IndicatedWhenData, RxLength
  <2>3. QED BY <2>1, <2>2
<1>6. QED BY <1>3, <1>4, <1>5 DEF IInv

\* Reading one byte in _serial_int_rx preserves the invariant.
LEMMA ReadOneInv ==
    ASSUME IInv, ReadOne
    PROVE  IInv'
<1> USE BufszAssumption
<1>1. put_index # get_index
  BY DEF IInv, FullNeverMeetsEmpty, ReadOne, NoData
<1>2. 1 \in 1 .. RxLength /\ Slot(get_index, 1) = get_index
  BY <1>1, UsedRange, DropSlots DEF IInv, TypeOK, RxLength
<1>3. buffer[get_index] \in Byte
  BY <1>2 DEF IInv, NoStaleSlot
<1>4. TypeOK'
  BY <1>3, BumpInIndex DEF IInv, TypeOK, ReadOne
<1>5. FullNeverMeetsEmpty'
  BY DEF FullNeverMeetsEmpty, ReadOne
<1>6. NoStaleSlot'
  <2> SUFFICES ASSUME NEW i \in 1 .. Used(put_index', get_index')
               PROVE  buffer'[Slot(get_index', i)] \in Byte
    BY DEF NoStaleSlot, RxLength
  <2>1. i + 1 \in 1 .. RxLength /\ Slot(get_index, i + 1) = Slot(get_index', i)
    BY <1>1, UsedRange, DropSlots DEF IInv, TypeOK, ReadOne, RxLength
  <2>2. QED BY <2>1 DEF IInv, NoStaleSlot, ReadOne
<1>7. IndicatedWhenData'
  <2>1. RxLength > 0
    BY <1>1, UsedRange DEF IInv, TypeOK, RxLength
  <2>2. QED BY <2>1 DEF IInv, IndicatedWhenData, ReadOne
<1>8. QED BY <1>4, <1>5, <1>6, <1>7 DEF IInv

\* For every buffer size: the indices stay in range, is_full never stands for
\* an empty ring, no unread slot is one that no byte was stored in, and bytes
\* that arrived after a reader found nothing have been announced to it.
THEOREM FifoInvariant ==
    Spec => [](TypeOK /\ FullNeverMeetsEmpty /\ NoStaleSlot /\ IndicatedWhenData)
<1>1. Init => IInv
  <2> SUFFICES ASSUME Init PROVE IInv
    OBVIOUS
  <2>1. TypeOK
    <3>1. /\ is_full \in BOOLEAN
          /\ inIsr \in BOOLEAN
          /\ ch \in Byte \cup {NoByte}
          /\ last \in Byte \cup {NoByte}
      BY DEF Init
    <3>2. 0 \in Index
      BY BufszAssumption DEF Index
    <3>3. QED BY <3>1, <3>2 DEF Init, TypeOK, Index
  <2>2. FullNeverMeetsEmpty
    BY DEF Init, FullNeverMeetsEmpty
  <2>3. NoStaleSlot
    BY BufszAssumption DEF Init, NoStaleSlot, RxLength, Used
  <2>4. IndicatedWhenData
    BY BufszAssumption DEF Init, IndicatedWhenData, RxLength, Used
  <2>5. QED BY <2>1, <2>2, <2>3, <2>4 DEF IInv
<1>2. IInv /\ [Next]_vars => IInv'
  <2> SUFFICES ASSUME IInv, [Next]_vars PROVE IInv'
    OBVIOUS
  <2>1. ASSUME NEW c \in Byte, IsrStore(c) PROVE IInv'
    BY <2>1, IsrStoreInv
  <2>2. CASE IsrIndicate \/ ReadNone
    BY <2>2, RingUnchangedInv
  <2>3. CASE ReadOne
    BY <2>3, ReadOneInv
  <2>4. CASE UNCHANGED vars
    BY <2>4 DEF vars, IInv, TypeOK, FullNeverMeetsEmpty, NoStaleSlot,
                IndicatedWhenData, RxLength
  <2>5. QED BY <2>1, <2>2, <2>3, <2>4 DEF Next
<1>3. IInv => TypeOK /\ FullNeverMeetsEmpty /\ NoStaleSlot /\ IndicatedWhenData
  BY DEF IInv
<1>4. QED BY <1>1, <1>2, <1>3, PTL DEF Spec

-----------------------------------------------------------------------------
(* The ring implements the abstract queue *)

\* The unread bytes of a ring given by its buffer and indices.
Unread(b, put, get) == [i \in 1 .. Used(put, get) |-> b[Slot(get, i)]]

\* A ring whose unread slots have been written.
Written(b, put, get) ==
    /\ b \in [Index -> Byte \cup {Zero}]
    /\ put \in Index
    /\ get \in Index
    /\ \A i \in 1 .. Used(put, get) : b[Slot(get, i)] \in Byte

\* The unread bytes form a sequence as long as the ISR's length says.
LEMMA UnreadSeq ==
    ASSUME NEW b, NEW put, NEW get, Written(b, put, get)
    PROVE  /\ Unread(b, put, get) \in Seq(Byte)
           /\ Len(Unread(b, put, get)) = Used(put, get)
<1>1. Used(put, get) \in Nat
  BY UsedRange, BufszAssumption DEF Written
<1>2. QED BY <1>1 DEF Unread, Written

\* The buffer after byte c has been stored at index put.
Stored(b, put, c) == [b EXCEPT ![put] = c]

\* A byte that finds room is appended to the unread ones.
LEMMA UnreadStore ==
    ASSUME NEW b, NEW put, NEW get, Written(b, put, get), NEW c \in Byte,
           Bump(put) # get
    PROVE  Unread(Stored(b, put, c), Bump(put), get)
             = Append(Unread(b, put, get), c)
<1> DEFINE n == Used(put, get)
           s == Unread(b, put, get)
           t == Unread(Stored(b, put, c), Bump(put), get)
<1>1. /\ n \in Nat
      /\ Used(Bump(put), get) = n + 1
      /\ Slot(get, n + 1) = put
  BY UsedRange, StoreSlots, BufszAssumption DEF Written
<1>2. s \in Seq(Byte) /\ Len(s) = n
  BY UnreadSeq
<1>3. t = [i \in 1 .. n + 1 |-> Stored(b, put, c)[Slot(get, i)]]
  BY <1>1 DEF Unread
<1>4. ASSUME NEW i \in 1 .. n
      PROVE  Stored(b, put, c)[Slot(get, i)] = s[i]
  BY <1>4, SlotRange DEF Written, Unread, Stored
<1>5. Stored(b, put, c)[Slot(get, n + 1)] = c
  BY <1>1 DEF Written, Stored
<1> HIDE DEF n, s, t
<1>6. t = [i \in 1 .. n + 1 |-> IF i = n + 1 THEN c ELSE s[i]]
  BY <1>1, <1>3, <1>4, <1>5
<1>7. t \in Seq(Byte) /\ Len(t) = n + 1
  BY <1>1, <1>2, <1>6, ElementOfSeq
<1>8. t = Append(s, c)
  <2>1. /\ Append(s, c) \in Seq(Byte)
        /\ Len(Append(s, c)) = n + 1
        /\ \A i \in 1 .. n : Append(s, c)[i] = s[i]
        /\ Append(s, c)[n + 1] = c
    BY <1>2, AppendProperties
  <2>2. \A i \in 1 .. n + 1 : t[i] = Append(s, c)[i]
    BY <1>1, <1>6, <2>1
  <2>3. QED BY <1>7, <2>1, <2>2, SeqEqual
<1>9. QED BY <1>8 DEF s, t

\* A byte that finds the ring full displaces the oldest one.
LEMMA UnreadOverrun ==
    ASSUME NEW b, NEW put, NEW get, Written(b, put, get), NEW c \in Byte,
           Bump(put) = get
    PROVE  Unread(Stored(b, put, c), Bump(put), Bump(get))
             = Append(Tail(Unread(b, put, get)), c)
<1> DEFINE n == bufsz - 1
           s == Unread(b, put, get)
           t == Unread(Stored(b, put, c), Bump(put), Bump(get))
<1>1. /\ n \in Nat /\ n >= 1
      /\ Used(put, get) = n
      /\ Used(Bump(put), Bump(get)) = n
      /\ Slot(Bump(get), n) = put
      /\ \A i \in 1 .. n - 1 : Slot(Bump(get), i) = Slot(get, i + 1)
  BY OverrunSlots, BufszAssumption DEF Written
<1>2. s \in Seq(Byte) /\ Len(s) = n
  BY UnreadSeq, <1>1
<1>3. t = [i \in 1 .. n |-> Stored(b, put, c)[Slot(Bump(get), i)]]
  BY <1>1 DEF Unread
<1>4. ASSUME NEW i \in 1 .. n - 1
      PROVE  Stored(b, put, c)[Slot(Bump(get), i)] = s[i + 1]
  <2>1. i + 1 \in 1 .. n
    BY <1>1
  <2>2. Slot(get, i + 1) \in Index /\ Slot(get, i + 1) # put
    BY <1>1, <2>1, SlotRange DEF Written
  <2>3. QED BY <1>1, <2>1, <2>2 DEF Written, Unread, Stored
<1>5. Stored(b, put, c)[Slot(Bump(get), n)] = c
  BY <1>1 DEF Written, Stored
<1> HIDE DEF n, s, t
<1>6. t = [i \in 1 .. n |-> IF i = n THEN c ELSE s[i + 1]]
  BY <1>1, <1>3, <1>4, <1>5
<1>7. t \in Seq(Byte) /\ Len(t) = n
  BY <1>1, <1>2, <1>6, ElementOfSeq
<1>8. /\ Tail(s) \in Seq(Byte)
      /\ Len(Tail(s)) = n - 1
      /\ \A i \in 1 .. n - 1 : Tail(s)[i] = s[i + 1]
  BY <1>1, <1>2, HeadTailProperties, EmptySeq
<1>9. t = Append(Tail(s), c)
  <2> DEFINE r == Tail(s)
  <2>1. r \in Seq(Byte) /\ Len(r) = n - 1
    BY <1>8
  <2> HIDE DEF r
  <2>2. /\ Append(r, c) \in Seq(Byte)
        /\ Len(Append(r, c)) = n
        /\ \A i \in 1 .. n - 1 : Append(r, c)[i] = r[i]
        /\ Append(r, c)[n] = c
    BY <1>1, <2>1, AppendProperties
  <2>3. \A i \in 1 .. n : t[i] = Append(r, c)[i]
    BY <1>1, <1>6, <1>8, <2>2 DEF r
  <2>4. QED BY <1>7, <2>2, <2>3, SeqEqual DEF r
<1>10. QED BY <1>9 DEF s, t

\* A read takes the oldest unread byte.
LEMMA UnreadTake ==
    ASSUME NEW b, NEW put, NEW get, Written(b, put, get), put # get
    PROVE  /\ Unread(b, put, get) # << >>
           /\ Head(Unread(b, put, get)) = b[get]
           /\ Unread(b, put, Bump(get)) = Tail(Unread(b, put, get))
<1> DEFINE n == Used(put, get)
           s == Unread(b, put, get)
           t == Unread(b, put, Bump(get))
<1>1. /\ n \in Nat /\ n >= 1 /\ n <= bufsz
      /\ Used(put, Bump(get)) = n - 1
      /\ Slot(get, 1) = get
      /\ \A i \in 1 .. n - 1 : Slot(Bump(get), i) = Slot(get, i + 1)
  BY UsedRange, DropSlots, BufszAssumption DEF Written
<1>2. s \in Seq(Byte) /\ Len(s) = n
  BY UnreadSeq
<1>3. s[1] = b[get]
  BY <1>1 DEF Unread
<1>4. t = [i \in 1 .. n - 1 |-> s[i + 1]]
  <2>1. ASSUME NEW i \in 1 .. n - 1 PROVE b[Slot(Bump(get), i)] = s[i + 1]
    BY <1>1 DEF Unread
  <2>2. QED BY <1>1, <2>1 DEF Unread
<1> HIDE DEF n, s, t
<1>5. s # << >>
  BY <1>1, <1>2, EmptySeq
<1>6. t \in Seq(Byte) /\ Len(t) = n - 1
  BY <1>1, <1>2, <1>4, ElementOfSeq
<1>7. t = Tail(s)
  <2>1. /\ Tail(s) \in Seq(Byte)
        /\ Len(Tail(s)) = n - 1
        /\ \A i \in 1 .. n - 1 : Tail(s)[i] = s[i + 1]
    BY <1>2, <1>5, HeadTailProperties
  <2>2. \A i \in 1 .. n - 1 : t[i] = Tail(s)[i]
    BY <1>1, <1>4, <2>1
  <2>3. QED BY <1>6, <2>1, <2>2, SeqEqual
<1>8. Head(s) = s[1]
  BY <1>2, <1>5
<1>9. QED BY <1>3, <1>5, <1>7, <1>8 DEF s, t

\* Every step of the ring is a step of the queue, or leaves the queue alone.
LEMMA QueueStep ==
    ASSUME IInv, [Next]_vars
    PROVE  [Abstract!Next]_(Abstract!vars)
<1> USE DEF Abstract!vars
<1>1. /\ Contents = Unread(buffer, put_index, get_index)
      /\ Contents' = Unread(buffer', put_index', get_index')
  BY DEF Contents, Unread, RxLength
<1>2. Written(buffer, put_index, get_index)
  BY DEF IInv, TypeOK, NoStaleSlot, RxLength, Written
<1>3. Len(Contents) = Used(put_index, get_index)
  BY <1>1, <1>2, UnreadSeq
<1>4. ASSUME NEW c \in Byte, IsrStore(c) PROVE Abstract!Arrive(c)
  <2>1. CASE Bump(put_index) = get_index
    <3>1. Contents' = Append(Tail(Contents), c)
      <4>1. Contents' = Unread(Stored(buffer, put_index, c), Bump(put_index), Bump(get_index))
        BY <1>1, <1>4, <2>1 DEF IsrStore, Stored
      <4>2. Unread(Stored(buffer, put_index, c), Bump(put_index), Bump(get_index))
              = Append(Tail(Unread(buffer, put_index, get_index)), c)
        BY <1>2, <1>4, <2>1, UnreadOverrun
      <4>3. QED BY <1>1, <4>1, <4>2, Zenon
    <3>2. Len(Contents) = bufsz - 1
      BY <1>2, <1>3, <2>1, OverrunSlots DEF Written
    <3>3. QED BY <1>4, <3>1, <3>2 DEF IsrStore, Abstract!Arrive, Abstract!Push
  <2>2. CASE Bump(put_index) # get_index
    <3>1. Contents' = Append(Contents, c)
      <4>1. Contents' = Unread(Stored(buffer, put_index, c), Bump(put_index), get_index)
        BY <1>1, <1>4, <2>2 DEF IsrStore, Stored
      <4>2. Unread(Stored(buffer, put_index, c), Bump(put_index), get_index)
              = Append(Unread(buffer, put_index, get_index), c)
        BY <1>2, <1>4, <2>2, UnreadStore
      <4>3. QED BY <1>1, <4>1, <4>2, Zenon
    <3>2. Len(Contents) # bufsz - 1
      BY <1>2, <1>3, <2>2, BufszAssumption DEF Written, Bump, Used, Index
    <3>3. QED BY <1>4, <3>1, <3>2 DEF IsrStore, Abstract!Arrive, Abstract!Push
  <2>3. QED BY <2>1, <2>2
<1>5. CASE IsrIndicate
  BY <1>1, <1>5 DEF IsrIndicate
<1>6. CASE ReadNone
  <2>1. Used(put_index, get_index) = 0
    BY <1>2, <1>6, UsedRange DEF ReadNone, NoData, Written
  <2>2. Contents = << >>
    BY <1>1, <1>2, <1>3, <2>1, UnreadSeq, EmptySeq
  <2>3. QED BY <1>1, <1>6, <2>2 DEF ReadNone, Abstract!Next, Abstract!Miss
<1>7. CASE ReadOne
  <2>1. put_index # get_index
    BY <1>7 DEF IInv, FullNeverMeetsEmpty, ReadOne, NoData
  <2>2. /\ Contents # << >>
        /\ Head(Contents) = buffer[get_index]
        /\ Unread(buffer, put_index, Bump(get_index)) = Tail(Contents)
    BY <1>1, <1>2, <2>1, UnreadTake
  <2>3. QED BY <1>1, <1>7, <2>2 DEF ReadOne, Abstract!Next, Abstract!Deliver
<1>8. CASE UNCHANGED vars
  BY <1>1, <1>8 DEF vars
<1>9. QED BY <1>4, <1>5, <1>6, <1>7, <1>8 DEF Next, Abstract!Next

\* For every buffer size, the interrupt handler never leaves bytes behind
\* without calling rx_indicate, also when it stored a whole ring of them.
THEOREM FifoIndicates == Spec => []IndicatedWhenData
BY FifoInvariant, PTL

\* For every buffer size the interrupt-filled ring, with its wrap, its
\* overrun and its is_full flag, is a queue of the newest bufsz - 1 bytes.
THEOREM FifoImplementsQueue == Spec => ImplementsQueue
<1>1. Init => Abstract!Init
  <2> SUFFICES ASSUME Init PROVE Abstract!Init
    OBVIOUS
  <2>1. Contents = << >>
    BY DEF Init, Contents, RxLength, Used
  <2>2. QED BY <2>1 DEF Init, Abstract!Init
<1>2. Spec => []IInv
  BY FifoInvariant, PTL DEF IInv
<1>3. IInv /\ [Next]_vars => [Abstract!Next]_(Abstract!vars)
  BY QueueStep
<1>4. QED BY <1>1, <1>2, <1>3, PTL DEF Spec, ImplementsQueue, Abstract!Spec
=============================================================================
