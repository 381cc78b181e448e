---------------------------- MODULE SmallMemProofs ----------------------------
(***************************************************************************)
(* Proofs about module SmallMem, for any clients and requests and every    *)
(* alignment, header size, minimal block and heap size that the            *)
(* assumption HeapAssumption allows.                                       *)
(***************************************************************************)
EXTENDS SmallMem, WellFoundedInduction, FiniteSetTheorems, TLAPS

-----------------------------------------------------------------------------
(* Least elements *)

\* Every set of naturals that has an element has a least one.
LEMMA LeastNat ==
    ASSUME NEW T \in SUBSET Nat, T # {}
    PROVE  \E n \in T : \A m \in T : n <= m
<1>1. PICK n \in T : \A m \in T : ~(<<m, n>> \in OpToRel(<, Nat))
  BY NatLessThanWellFounded, WFMin
<1>2. \A m \in T : ~(m < n)
  BY <1>1 DEF OpToRel
<1>. QED BY <1>2

-----------------------------------------------------------------------------
(* Alignment *)

Aligned(n) == \E k \in Nat : n = k * RT_ALIGN_SIZE

\* Sums of aligned numbers are aligned.
LEMMA AlignedSum ==
    ASSUME NEW a \in Nat, NEW b \in Nat, Aligned(a), Aligned(b)
    PROVE  Aligned(a + b)
<1>1. RT_ALIGN_SIZE \in Nat
  BY HeapAssumption
<1>2. PICK k \in Nat : a = k * RT_ALIGN_SIZE
  BY DEF Aligned
<1>3. PICK l \in Nat : b = l * RT_ALIGN_SIZE
  BY DEF Aligned
<1>4. a + b = (k + l) * RT_ALIGN_SIZE /\ k + l \in Nat
  BY <1>1, <1>2, <1>3
<1>. QED BY <1>4 DEF Aligned

\* An aligned number above another one is at least the alignment above it.
LEMMA AlignedGap ==
    ASSUME NEW a \in Nat, NEW b \in Nat, Aligned(a), Aligned(b), a < b
    PROVE  a + RT_ALIGN_SIZE <= b
<1>1. RT_ALIGN_SIZE \in Nat /\ RT_ALIGN_SIZE > 0
  BY HeapAssumption
<1>2. PICK k \in Nat : a = k * RT_ALIGN_SIZE
  BY DEF Aligned
<1>3. PICK l \in Nat : b = l * RT_ALIGN_SIZE
  BY DEF Aligned
<1>4. k < l
  <2>1. SUFFICES ASSUME l <= k PROVE FALSE
    OBVIOUS
  <2>2. l * RT_ALIGN_SIZE <= k * RT_ALIGN_SIZE
    BY <1>1, <2>1
  <2>. QED BY <2>2, <1>2, <1>3
<1>5. (k + 1) * RT_ALIGN_SIZE <= l * RT_ALIGN_SIZE
  BY <1>1, <1>4
<1>6. (k + 1) * RT_ALIGN_SIZE = k * RT_ALIGN_SIZE + RT_ALIGN_SIZE
  BY <1>1
<1>. QED BY <1>1, <1>2, <1>3, <1>5, <1>6

\* RT_ALIGN gives an aligned number, rounded up as long as it does not wrap.
LEMMA AlignUpOK ==
    ASSUME NEW n \in Nat
    PROVE  /\ AlignUp(n) \in Nat /\ Aligned(AlignUp(n))
           /\ n + RT_ALIGN_SIZE < SizeMod => AlignUp(n) >= n
<1> DEFINE sum == (n + (RT_ALIGN_SIZE - 1)) % SizeMod
           k   == sum \div RT_ALIGN_SIZE
<1>1. RT_ALIGN_SIZE \in Nat /\ RT_ALIGN_SIZE > 0 /\ SizeMod \in Nat /\ SizeMod > 0
  BY HeapAssumption
<1>2. sum \in Nat /\ (n + RT_ALIGN_SIZE < SizeMod => sum = n + (RT_ALIGN_SIZE - 1))
  BY <1>1
<1>3. AlignUp(n) = k * RT_ALIGN_SIZE
  BY DEF AlignUp
<1>. HIDE DEF sum
<1>4. k \in Nat /\ sum < (k + 1) * RT_ALIGN_SIZE
  BY <1>1, <1>2
<1>. HIDE DEF k
<1>5. (k + 1) * RT_ALIGN_SIZE = k * RT_ALIGN_SIZE + RT_ALIGN_SIZE /\ k * RT_ALIGN_SIZE \in Nat
  BY <1>1, <1>4
<1>6. n + RT_ALIGN_SIZE < SizeMod => AlignUp(n) >= n
  BY <1>1, <1>2, <1>3, <1>4, <1>5
<1>. QED BY <1>3, <1>4, <1>5, <1>6 DEF Aligned

\* The sizes of the build.
LEMMA Sizes ==
    /\ RT_ALIGN_SIZE \in Nat /\ RT_ALIGN_SIZE > 0
    /\ SIZEOF_STRUCT_MEM \in Nat /\ SIZEOF_STRUCT_MEM > 0 /\ Aligned(SIZEOF_STRUCT_MEM)
    /\ MIN_SIZE \in Nat /\ MIN_SIZE > 0
    /\ MIN_SIZE_ALIGNED \in Nat /\ Aligned(MIN_SIZE_ALIGNED)
    /\ MIN_SIZE <= MIN_SIZE_ALIGNED /\ RT_ALIGN_SIZE <= MIN_SIZE_ALIGNED
    /\ mem_size_aligned \in Nat /\ MIN_SIZE_ALIGNED <= mem_size_aligned
    /\ End \in Nat /\ Aligned(End) /\ Aligned(0)
    /\ 0 + SIZEOF_STRUCT_MEM + RT_ALIGN_SIZE <= End
<1>1. /\ RT_ALIGN_SIZE \in Nat /\ RT_ALIGN_SIZE > 0
      /\ SIZEOF_STRUCT_MEM \in Nat /\ SIZEOF_STRUCT_MEM > 0
      /\ MIN_SIZE \in Nat /\ MIN_SIZE > 0
      /\ mem_size_aligned \in Nat /\ MIN_SIZE_ALIGNED <= mem_size_aligned
      /\ MIN_SIZE + RT_ALIGN_SIZE < SizeMod
  BY HeapAssumption
<1>2. Aligned(SIZEOF_STRUCT_MEM) /\ Aligned(mem_size_aligned)
  BY <1>1, AlignUpOK, HeapAssumption
<1>3. MIN_SIZE_ALIGNED \in Nat /\ Aligned(MIN_SIZE_ALIGNED) /\ MIN_SIZE <= MIN_SIZE_ALIGNED
  BY <1>1, AlignUpOK DEF MIN_SIZE_ALIGNED
<1>4. Aligned(0)
  BY <1>1 DEF Aligned
<1>5. RT_ALIGN_SIZE <= MIN_SIZE_ALIGNED
  <2>1. 0 < MIN_SIZE_ALIGNED
    BY <1>1, <1>3
  <2>2. 0 + RT_ALIGN_SIZE <= MIN_SIZE_ALIGNED
    BY <2>1, <1>3, <1>4, AlignedGap
  <2>. QED BY <2>2, <1>1
<1>6. End \in Nat /\ Aligned(End)
  BY <1>1, <1>2, AlignedSum DEF End
<1>7. 0 + SIZEOF_STRUCT_MEM + RT_ALIGN_SIZE <= End
  BY <1>1, <1>3, <1>5 DEF End
<1>. QED BY <1>1, <1>2, <1>3, <1>4, <1>5, <1>6, <1>7

\* The least element of a set of naturals is the one Min finds.
LEMMA MinOK ==
    ASSUME NEW T \in SUBSET Nat, T # {}
    PROVE  Min(T) \in T /\ \A x \in T : Min(T) <= x
<1>1. \E n \in T : \A m \in T : n <= m
  BY LeastNat
<1>2. Min(T) = CHOOSE x \in T : \A y \in T : x =< y
  BY DEF Min
<1> DEFINE least == CHOOSE x \in T : \A y \in T : x =< y
<1>3. least \in T /\ \A y \in T : least <= y
  BY <1>1, Zenon
<1>. QED BY <1>2, <1>3

\* An element that is not above the others is the one Min finds.
LEMMA MinIs ==
    ASSUME NEW T \in SUBSET Nat, NEW n \in T, \A x \in T : n <= x
    PROVE  Min(T) = n
<1>1. Min(T) \in T /\ \A x \in T : Min(T) <= x
  BY MinOK
<1>2. Min(T) \in Nat /\ n \in Nat /\ Min(T) <= n /\ n <= Min(T)
  BY <1>1
<1>. QED BY <1>2

\* The larger of two numbers.
LEMMA MaxOf2 ==
    ASSUME NEW a \in Nat, NEW b \in Nat
    PROVE  Max({a, b}) = IF a >= b THEN a ELSE b
<1> DEFINE m == IF a >= b THEN a ELSE b
           great == CHOOSE x \in {a, b} : \A y \in {a, b} : x >= y
<1>1. m \in {a, b} /\ \A y \in {a, b} : m >= y
  OBVIOUS
<1>2. great \in {a, b} /\ \A y \in {a, b} : great >= y
  <2>1. \E x \in {a, b} : \A y \in {a, b} : x >= y
    BY <1>1
  <2>. QED BY <2>1, Zenon
<1>3. Max({a, b}) = great
  BY DEF Max
<1>. HIDE DEF great
<1>4. great = m
  BY <1>2
<1>. QED BY <1>3, <1>4

-----------------------------------------------------------------------------
(* The chain of headers *)

Header == [used : BOOLEAN, next : Nat, prev : Nat]

BlocksOf(h) == DOMAIN h \ {End}

\* Every block ends at the next one, none lies in between, and the backward
\* links are right, but for that of heap_end.
Links(h) ==
    /\ \A p \in BlocksOf(h) :
         /\ h[p].next \in DOMAIN h
         /\ p + SIZEOF_STRUCT_MEM + RT_ALIGN_SIZE <= h[p].next
         /\ \A q \in DOMAIN h : q <= p \/ h[p].next <= q
         /\ h[p].next # End => h[h[p].next].prev = p
    /\ h[0].prev = 0
    /\ \A p \in BlocksOf(h) \ {0} :
         h[p].prev \in BlocksOf(h) /\ h[h[p].prev].next = p

Shape(h) ==
    /\ 0 \in DOMAIN h /\ End \in DOMAIN h
    /\ DOMAIN h \subseteq 0 .. End
    /\ h \in [DOMAIN h -> Header]
    /\ \A p \in DOMAIN h : Aligned(p)
    /\ Links(h)

UsedBlocks(h) == {p \in BlocksOf(h) : h[p].used}
FreeBlocks(h) == {p \in BlocksOf(h) : ~h[p].used}

\* The fields of a header have their types.
LEMMA ShapeTypes ==
    ASSUME NEW h, Shape(h), NEW p \in DOMAIN h
    PROVE  /\ p \in Nat /\ p <= End
           /\ h[p] \in Header
           /\ h[p].used \in BOOLEAN
           /\ h[p].next \in Nat /\ h[p].prev \in Nat
           /\ h[p] = [used |-> h[p].used, next |-> h[p].next, prev |-> h[p].prev]
<1>1. p \in 0 .. End /\ End \in Nat
  BY Sizes DEF Shape
<1>2. h[p] \in Header
  BY DEF Shape
<1>. QED BY <1>1, <1>2 DEF Header

\* What Split makes of each header.
LEMMA SplitIs ==
    ASSUME NEW h, Shape(h), NEW p \in BlocksOf(h), NEW size \in Nat,
           p + SIZEOF_STRUCT_MEM + size < h[p].next,
           NEW q, q = p + SIZEOF_STRUCT_MEM + size,
           NEW r, r = Split(h, p, size)
    PROVE  /\ q \in Nat /\ q \notin DOMAIN h /\ p < q /\ q < h[p].next /\ q # End
           /\ DOMAIN r = DOMAIN h \cup {q}
           /\ r[p] = [used |-> h[p].used, next |-> q, prev |-> h[p].prev]
           /\ r[q] = [used |-> FALSE, next |-> h[p].next, prev |-> p]
           /\ h[p].next # End =>
                r[h[p].next] = [used |-> h[h[p].next].used, next |-> h[h[p].next].next, prev |-> q]
           /\ \A x \in DOMAIN h : x # p /\ (x # h[p].next \/ x = End) => r[x] = h[x]
<1> DEFINE n == h[p].next
<1>1. p \in DOMAIN h /\ p \in Nat /\ n \in Nat /\ n \in DOMAIN h
  BY ShapeTypes DEF BlocksOf, Shape, Links
<1>2. q \in Nat /\ p < q /\ q < n
  BY <1>1, Sizes
<1>3. q \notin DOMAIN h
  <2>1. \A x \in DOMAIN h : x <= p \/ n <= x
    BY DEF Shape, Links
  <2>. QED BY <2>1, <1>1, <1>2
<1>4. q # End
  BY <1>3 DEF Shape
<1>5. h[p] = [used |-> h[p].used, next |-> h[p].next, prev |-> h[p].prev]
  BY <1>1, ShapeTypes
<1>6. h[n] = [used |-> h[n].used, next |-> h[n].next, prev |-> h[n].prev]
  BY <1>1, ShapeTypes
<1>7. r = [x \in DOMAIN h \cup {q} |->
            CASE x = p              -> [h[p] EXCEPT !.next = q]
              [] x = q              -> [used |-> FALSE, next |-> n, prev |-> p]
              [] x = n /\ n # End   -> [h[n] EXCEPT !.prev = q]
              [] OTHER              -> h[x]]
  BY DEF Split
<1>. HIDE DEF n
<1>8. DOMAIN r = DOMAIN h \cup {q}
  BY <1>7
<1>9. r[p] = [used |-> h[p].used, next |-> q, prev |-> h[p].prev]
  <2>0. p # q /\ p # n /\ p \in DOMAIN h \cup {q}
    BY <1>1, <1>2
  <2>1. r[p] = [h[p] EXCEPT !.next = q]
    BY <2>0, <1>7
  <2>. QED BY <2>1, <1>5
<1>10. r[q] = [used |-> FALSE, next |-> n, prev |-> p]
  BY <1>1, <1>3, <1>7
<1>11. ASSUME n # End PROVE r[n] = [used |-> h[n].used, next |-> h[n].next, prev |-> q]
  <2>1. n # p /\ n # q
    BY <1>1, <1>2
  <2>2. r[n] = [h[n] EXCEPT !.prev = q]
    BY <2>1, <1>1, <1>7, <1>11
  <2>. QED BY <2>2, <1>6
<1>12. ASSUME NEW x \in DOMAIN h, x # p, x # n \/ x = End PROVE r[x] = h[x]
  <2>1. x # q
    BY <1>3
  <2>. QED BY <2>1, <1>7, <1>12
<1>. QED BY <1>2, <1>3, <1>4, <1>8, <1>9, <1>10, <1>11, <1>12 DEF n

\* A block that is large enough can be cut in two.
LEMMA SplitOK ==
    ASSUME NEW h, Shape(h), NEW p \in BlocksOf(h), NEW size \in Nat,
           Aligned(size), RT_ALIGN_SIZE <= size,
           NEW q, q = p + SIZEOF_STRUCT_MEM + size,
           q + SIZEOF_STRUCT_MEM + RT_ALIGN_SIZE <= h[p].next,
           NEW r, r = Split(h, p, size)
    PROVE  /\ Shape(r)
           /\ q \in Nat /\ p < q /\ q < h[p].next
           /\ q \in BlocksOf(r) /\ q \notin DOMAIN h
           /\ BlocksOf(r) = BlocksOf(h) \cup {q}
           /\ r[p].next = q /\ r[q].next = h[p].next
           /\ ~r[q].used
           /\ \A x \in DOMAIN h : r[x].used = h[x].used
           /\ \A x \in DOMAIN h : x # p => r[x].next = h[x].next
<1> DEFINE n == h[p].next
<1>1. /\ p \in DOMAIN h /\ p # End /\ p \in Nat /\ n \in Nat /\ n \in DOMAIN h /\ n <= End
      /\ h[p].prev \in Nat /\ h[p].used \in BOOLEAN
  BY ShapeTypes DEF BlocksOf, Shape, Links
<1>2. q < n
  BY <1>1, Sizes
<1>3. /\ q \in Nat /\ q \notin DOMAIN h /\ p < q /\ q # End
      /\ DOMAIN r = DOMAIN h \cup {q}
      /\ r[p] = [used |-> h[p].used, next |-> q, prev |-> h[p].prev]
      /\ r[q] = [used |-> FALSE, next |-> n, prev |-> p]
      /\ n # End => r[n] = [used |-> h[n].used, next |-> h[n].next, prev |-> q]
      /\ \A x \in DOMAIN h : x # p /\ (x # n \/ x = End) => r[x] = h[x]
  BY <1>2, SplitIs
<1>. HIDE DEF n
<1>4. ASSUME NEW x \in DOMAIN h
      PROVE  /\ r[x].used = h[x].used
             /\ x # p => r[x].next = h[x].next
             /\ x # n \/ x = End => r[x].prev = h[x].prev
             /\ r[x] \in Header
             /\ x \in Nat /\ x <= End
  <2>1. h[x] \in Header /\ x \in Nat /\ x <= End
    BY ShapeTypes
  <2>2. CASE x = p
    <3>1. p # n
      BY <1>1, <1>2, <1>3
    <3>. QED BY <2>1, <2>2, <3>1, <1>1, <1>3 DEF Header
  <2>3. CASE x = n /\ n # End /\ x # p
    BY <2>1, <2>3, <1>3 DEF Header
  <2>4. CASE x # p /\ (x # n \/ x = End)
    BY <2>1, <2>4, <1>3 DEF Header
  <2>. QED BY <2>2, <2>3, <2>4
<1>5. BlocksOf(r) = BlocksOf(h) \cup {q}
  BY <1>3 DEF BlocksOf
<1>6. r \in [DOMAIN r -> Header]
  <2>1. r[q] \in Header
    BY <1>1, <1>3 DEF Header
  <2>2. \A x \in DOMAIN r : r[x] \in Header
    BY <2>1, <1>3, <1>4
  <2>3. r = [x \in DOMAIN r |-> r[x]]
    BY DEF Split
  <2>. QED BY <2>2, <2>3
<1>7. Aligned(q)
  <2>1. Aligned(p) /\ Aligned(SIZEOF_STRUCT_MEM) /\ SIZEOF_STRUCT_MEM \in Nat
    BY <1>1, Sizes DEF Shape
  <2>2. Aligned(p + SIZEOF_STRUCT_MEM) /\ p + SIZEOF_STRUCT_MEM \in Nat
    BY <2>1, <1>1, AlignedSum
  <2>. QED BY <2>2, AlignedSum
<1>8. ASSUME NEW x \in BlocksOf(r)
      PROVE  /\ r[x].next \in DOMAIN r
             /\ x + SIZEOF_STRUCT_MEM + RT_ALIGN_SIZE <= r[x].next
             /\ \A y \in DOMAIN r : y <= x \/ r[x].next <= y
             /\ r[x].next # End => r[r[x].next].prev = x
  <2>1. CASE x = p
    <3>1. r[x].next = q /\ r[q].prev = p
      BY <2>1, <1>3
    <3>2. p + SIZEOF_STRUCT_MEM + RT_ALIGN_SIZE <= q
      BY <1>1, Sizes
    <3>3. ASSUME NEW y \in DOMAIN r PROVE y <= p \/ q <= y
      <4>1. CASE y = q
        BY <4>1, <1>3
      <4>2. CASE y \in DOMAIN h
        <5>1. y <= p \/ n <= y
          BY <4>2 DEF Shape, Links, n
        <5>2. y \in Nat
          BY <4>2, <1>4
        <5>. QED BY <5>1, <5>2, <1>1, <1>2, <1>3
      <4>. QED BY <4>1, <4>2, <1>3
    <3>. QED BY <2>1, <3>1, <3>2, <3>3, <1>3
  <2>2. CASE x = q
    <3>1. r[x].next = n
      BY <2>2, <1>3
    <3>2. n # End => r[n].prev = q
      BY <1>3
    <3>3. ASSUME NEW y \in DOMAIN r PROVE y <= q \/ n <= y
      <4>1. CASE y = q
        BY <4>1, <1>3
      <4>2. CASE y \in DOMAIN h
        <5>1. y <= p \/ n <= y
          BY <4>2 DEF Shape, Links, n
        <5>2. y \in Nat
          BY <4>2, <1>4
        <5>. QED BY <5>1, <5>2, <1>1, <1>3
      <4>. QED BY <4>1, <4>2, <1>3
    <3>. QED BY <2>2, <3>1, <3>2, <3>3, <1>1, <1>3 DEF n
  <2>3. CASE x \in BlocksOf(h) /\ x # p
    <3>1. /\ x \in DOMAIN h /\ x # End /\ x \in Nat
          /\ h[x].next \in DOMAIN h /\ h[x].next \in Nat
          /\ x + SIZEOF_STRUCT_MEM + RT_ALIGN_SIZE <= h[x].next
          /\ \A y \in DOMAIN h : y <= x \/ h[x].next <= y
          /\ h[x].next # End => h[h[x].next].prev = x
      BY <2>3, <1>4 DEF BlocksOf, Shape, Links
    <3>2. r[x].next = h[x].next
      BY <2>3, <3>1, <1>4
    <3>3. x < p \/ p < x
      BY <2>3, <3>1, <1>1
    <3>4. q <= x \/ h[x].next <= q
      <4>1. CASE x < p
        <5>1. h[x].next <= p
          BY <4>1, <3>1, <1>1
        <5>. QED BY <5>1, <3>1, <1>1, <1>3
      <4>2. CASE p < x
        <5>1. n <= x
          BY <4>2, <3>1, <1>1 DEF Shape, Links, n
        <5>. QED BY <5>1, <3>1, <1>1, <1>2, <1>3
      <4>. QED BY <3>3, <4>1, <4>2
    <3>5. h[x].next # n
      <4>1. CASE n = End
        <5>1. x <= p \/ n <= x
          BY <3>1 DEF Shape, Links, n
        <5>2. x <= End
          BY <3>1, ShapeTypes
        <5>3. x < p
          BY <5>1, <5>2, <4>1, <3>1, <3>3, <1>1
        <5>4. h[x].next <= p
          BY <5>3, <3>1, <1>1
        <5>. QED BY <5>4, <3>1, <1>1, <1>2, <1>3
      <4>2. CASE n # End
        <5>1. h[n].prev = p
          BY <4>2 DEF Shape, Links, n
        <5>. QED BY <5>1, <4>2, <3>1, <2>3
      <4>. QED BY <4>1, <4>2
    <3>6. h[x].next # End => r[h[x].next].prev = x
      BY <3>1, <3>5, <1>4
    <3>7. \A y \in DOMAIN r : y <= x \/ h[x].next <= y
      BY <3>1, <3>4, <1>3
    <3>. QED BY <3>1, <3>2, <3>6, <3>7, <1>3
  <2>. QED BY <1>5, <2>1, <2>2, <2>3
<1>9. r[0].prev = 0
  <2>1. 0 \in DOMAIN h /\ h[0].prev = 0 /\ 0 # n
    BY <1>1, <1>2, <1>3 DEF Shape, Links
  <2>. QED BY <2>1, <1>4
<1>10. ASSUME NEW x \in BlocksOf(r), x # 0
       PROVE  r[x].prev \in BlocksOf(r) /\ r[r[x].prev].next = x
  <2>1. CASE x = q
    BY <2>1, <1>1, <1>3, <1>5 DEF BlocksOf
  <2>2. CASE x = n /\ x # q
    <3>1. n # End /\ r[n].prev = q /\ r[q].next = n
      BY <2>2, <1>3 DEF BlocksOf
    <3>. QED BY <3>1, <2>2, <1>5
  <2>3. CASE x \in BlocksOf(h) /\ x # n
    <3>1. x \in DOMAIN h /\ h[x].prev \in BlocksOf(h) /\ h[h[x].prev].next = x
      BY <2>3, <1>10 DEF BlocksOf, Shape, Links
    <3>2. r[x].prev = h[x].prev /\ h[x].prev # p
      BY <2>3, <3>1, <1>4 DEF n
    <3>3. r[h[x].prev].next = x
      BY <3>1, <3>2, <1>4 DEF BlocksOf
    <3>. QED BY <3>1, <3>2, <3>3, <1>5
  <2>. QED BY <2>1, <2>2, <2>3, <1>5
<1>11. Links(r)
  BY <1>8, <1>9, <1>10 DEF Links
<1>12. Shape(r)
  <2>1. 0 \in DOMAIN r /\ End \in DOMAIN r
    BY <1>3 DEF Shape
  <2>2. DOMAIN r \subseteq 0 .. End
    BY <1>1, <1>2, <1>3, <1>4, Sizes
  <2>3. \A x \in DOMAIN r : Aligned(x)
    BY <1>3, <1>7 DEF Shape
  <2>. QED BY <2>1, <2>2, <2>3, <1>6, <1>11 DEF Shape
<1>. QED BY <1>2, <1>3, <1>4, <1>5, <1>12 DEF n

\* What Join makes of each header.
LEMMA JoinIs ==
    ASSUME NEW h, Shape(h), NEW p \in BlocksOf(h), NEW q \in BlocksOf(h), q = h[p].next,
           NEW r, r = Join(h, p, q)
    PROVE  /\ DOMAIN r = DOMAIN h \ {q}
           /\ r[p] = [used |-> h[p].used, next |-> h[q].next, prev |-> h[p].prev]
           /\ r[h[q].next] = [used |-> h[h[q].next].used, next |-> h[h[q].next].next, prev |-> p]
           /\ \A x \in DOMAIN h \ {q} : x # p /\ x # h[q].next => r[x] = h[x]
           /\ p < q /\ q < h[q].next /\ h[q].next \in DOMAIN h
<1> DEFINE n == h[q].next
<1>1. /\ p \in DOMAIN h /\ q \in DOMAIN h /\ n \in DOMAIN h
      /\ p \in Nat /\ q \in Nat /\ n \in Nat
  BY ShapeTypes DEF BlocksOf, Shape, Links
<1>2. p < q /\ q < n
  <2>1. /\ p + SIZEOF_STRUCT_MEM + RT_ALIGN_SIZE <= q
        /\ q + SIZEOF_STRUCT_MEM + RT_ALIGN_SIZE <= n
    BY DEF Shape, Links
  <2>. QED BY <2>1, <1>1, Sizes
<1>3. h[p] = [used |-> h[p].used, next |-> h[p].next, prev |-> h[p].prev]
  BY <1>1, ShapeTypes
<1>4. h[n] = [used |-> h[n].used, next |-> h[n].next, prev |-> h[n].prev]
  BY <1>1, ShapeTypes
<1>5. r = [x \in DOMAIN h \ {q} |->
            CASE x = p -> [h[p] EXCEPT !.next = n]
              [] x = n -> [h[n] EXCEPT !.prev = p]
              [] OTHER -> h[x]]
  BY DEF Join
<1>6. p # q /\ n # q /\ p # n /\ p \in DOMAIN h \ {q} /\ n \in DOMAIN h \ {q}
  BY <1>1, <1>2
<1>. HIDE DEF n
<1>7. DOMAIN r = DOMAIN h \ {q}
  BY <1>5
<1>8. r[p] = [used |-> h[p].used, next |-> n, prev |-> h[p].prev]
  <2>1. r[p] = [h[p] EXCEPT !.next = n]
    BY <1>5, <1>6
  <2>. QED BY <2>1, <1>3
<1>9. r[n] = [used |-> h[n].used, next |-> h[n].next, prev |-> p]
  <2>1. r[n] = [h[n] EXCEPT !.prev = p]
    BY <1>5, <1>6
  <2>. QED BY <2>1, <1>4
<1>10. ASSUME NEW x \in DOMAIN h \ {q}, x # p, x # n PROVE r[x] = h[x]
  BY <1>5, <1>10
<1>. QED BY <1>1, <1>2, <1>7, <1>8, <1>9, <1>10 DEF n

\* A block can swallow its successor.
LEMMA JoinOK ==
    ASSUME NEW h, Shape(h), NEW p \in BlocksOf(h), NEW q \in BlocksOf(h), q = h[p].next,
           NEW r, r = Join(h, p, q)
    PROVE  /\ Shape(r)
           /\ p < q /\ q < h[q].next
           /\ BlocksOf(r) = BlocksOf(h) \ {q}
           /\ r[p].next = h[q].next
           /\ \A x \in DOMAIN r : r[x].used = h[x].used
           /\ \A x \in DOMAIN r : x # p => r[x].next = h[x].next
           /\ \A x \in DOMAIN r : x # h[q].next => r[x].prev = h[x].prev
<1> DEFINE n == h[q].next
<1>1. /\ p \in DOMAIN h /\ q \in DOMAIN h /\ n \in DOMAIN h /\ p # End /\ q # End
      /\ p \in Nat /\ q \in Nat /\ n \in Nat /\ n <= End
      /\ h[p].prev \in Nat /\ h[p].used \in BOOLEAN
  BY ShapeTypes DEF BlocksOf, Shape, Links
<1>2. /\ DOMAIN r = DOMAIN h \ {q}
      /\ r[p] = [used |-> h[p].used, next |-> n, prev |-> h[p].prev]
      /\ r[n] = [used |-> h[n].used, next |-> h[n].next, prev |-> p]
      /\ \A x \in DOMAIN h \ {q} : x # p /\ x # n => r[x] = h[x]
      /\ p < q /\ q < n
  BY JoinIs
<1>. HIDE DEF n
<1>3. ASSUME NEW x \in DOMAIN r
      PROVE  /\ x \in DOMAIN h /\ x # q
             /\ r[x].used = h[x].used
             /\ x # p => r[x].next = h[x].next
             /\ x # n => r[x].prev = h[x].prev
             /\ r[x] \in Header
             /\ x \in Nat /\ x <= End
  <2>1. x \in DOMAIN h /\ x # q
    BY <1>2
  <2>2. h[x] \in Header /\ x \in Nat /\ x <= End
    BY <2>1, ShapeTypes
  <2>3. CASE x = p
    <3>1. p # n
      BY <1>1, <1>2
    <3>. QED BY <2>1, <2>2, <2>3, <3>1, <1>1, <1>2 DEF Header
  <2>4. CASE x = n /\ x # p
    BY <2>1, <2>2, <2>4, <1>1, <1>2 DEF Header
  <2>5. CASE x # p /\ x # n
    BY <2>1, <2>2, <2>5, <1>2 DEF Header
  <2>. QED BY <2>3, <2>4, <2>5
<1>4. BlocksOf(r) = BlocksOf(h) \ {q}
  BY <1>2 DEF BlocksOf
<1>5. r \in [DOMAIN r -> Header]
  <2>1. r = [x \in DOMAIN r |-> r[x]]
    BY DEF Join
  <2>. QED BY <2>1, <1>3
<1>6. ASSUME NEW x \in BlocksOf(r)
      PROVE  /\ r[x].next \in DOMAIN r
             /\ x + SIZEOF_STRUCT_MEM + RT_ALIGN_SIZE <= r[x].next
             /\ \A y \in DOMAIN r : y <= x \/ r[x].next <= y
             /\ r[x].next # End => r[r[x].next].prev = x
  <2>1. CASE x = p
    <3>1. r[x].next = n /\ r[n].prev = p
      BY <2>1, <1>2
    <3>2. p + SIZEOF_STRUCT_MEM + RT_ALIGN_SIZE <= n
      <4>1. p + SIZEOF_STRUCT_MEM + RT_ALIGN_SIZE <= q
        BY DEF Shape, Links
      <4>. QED BY <4>1, <1>1, <1>2, Sizes
    <3>3. ASSUME NEW y \in DOMAIN r PROVE y <= p \/ n <= y
      <4>1. y \in DOMAIN h /\ y # q /\ y \in Nat
        BY <1>3
      <4>2. y <= p \/ q <= y
        BY <4>1 DEF Shape, Links
      <4>3. y <= q \/ n <= y
        BY <4>1 DEF Shape, Links, n
      <4>. QED BY <4>1, <4>2, <4>3, <1>1
    <3>4. n \in DOMAIN r
      BY <1>1, <1>2
    <3>. QED BY <2>1, <3>1, <3>2, <3>3, <3>4
  <2>2. CASE x # p
    <3>1. /\ x \in DOMAIN h /\ x # End /\ x # q /\ x \in Nat /\ x \in DOMAIN r /\ x \in BlocksOf(h)
          /\ r[x].next = h[x].next
      BY <2>2, <1>3, <1>4 DEF BlocksOf
    <3>2. /\ h[x].next \in DOMAIN h
          /\ x + SIZEOF_STRUCT_MEM + RT_ALIGN_SIZE <= h[x].next
          /\ \A y \in DOMAIN h : y <= x \/ h[x].next <= y
          /\ h[x].next # End => h[h[x].next].prev = x
      BY <3>1 DEF Shape, Links
    <3>3. h[x].next # q
      <4>1. h[q].prev = p
        BY <1>1 DEF Shape, Links
      <4>. QED BY <4>1, <3>2, <2>2, <1>1
    <3>4. h[x].next \in DOMAIN r
      BY <3>2, <3>3, <1>2
    <3>5. h[x].next # End => h[x].next # n
      <4>1. n # End => h[n].prev = q
        BY DEF Shape, Links, n
      <4>. QED BY <4>1, <3>1, <3>2
    <3>6. h[x].next # End => r[h[x].next].prev = x
      BY <3>2, <3>4, <3>5, <1>3
    <3>7. \A y \in DOMAIN r : y <= x \/ h[x].next <= y
      BY <3>2, <1>3
    <3>. QED BY <3>1, <3>2, <3>4, <3>6, <3>7
  <2>. QED BY <2>1, <2>2
<1>7. r[0].prev = 0
  <2>1. 0 \in DOMAIN h /\ h[0].prev = 0 /\ 0 # n /\ 0 # q
    BY <1>1, <1>2 DEF Shape, Links
  <2>. QED BY <2>1, <1>2, <1>3
<1>8. ASSUME NEW x \in BlocksOf(r), x # 0
      PROVE  r[x].prev \in BlocksOf(r) /\ r[r[x].prev].next = x
  <2>0. x \in BlocksOf(h) /\ x # q /\ x # End /\ x \in DOMAIN r
    BY <1>4 DEF BlocksOf
  <2>1. CASE x = n
    <3>1. r[x].prev = p /\ r[p].next = n /\ p # q
      BY <2>1, <1>1, <1>2
    <3>. QED BY <3>1, <2>1, <1>4
  <2>2. CASE x # n
    <3>1. h[x].prev \in BlocksOf(h) /\ h[h[x].prev].next = x
      BY <2>0, <1>8 DEF Shape, Links
    <3>2. r[x].prev = h[x].prev
      BY <2>0, <2>2, <1>3
    <3>3. h[x].prev # q /\ h[x].prev # p
      BY <2>0, <2>2, <3>1 DEF n
    <3>4. h[x].prev \in BlocksOf(r) /\ h[x].prev \in DOMAIN r
      BY <3>1, <3>3, <1>4 DEF BlocksOf
    <3>5. r[h[x].prev].next = x
      BY <3>1, <3>3, <3>4, <1>3
    <3>. QED BY <3>2, <3>4, <3>5
  <2>. QED BY <2>1, <2>2
<1>9. Links(r)
  BY <1>6, <1>7, <1>8 DEF Links
<1>10. Shape(r)
  <2>1. 0 \in DOMAIN r /\ End \in DOMAIN r
    BY <1>1, <1>2 DEF Shape
  <2>2. DOMAIN r \subseteq 0 .. End
    BY <1>3, Sizes
  <2>3. \A x \in DOMAIN r : Aligned(x)
    BY <1>3 DEF Shape
  <2>. QED BY <2>1, <2>2, <2>3, <1>5, <1>9 DEF Shape
<1>. QED BY <1>2, <1>3, <1>4, <1>10 DEF n

Mark(h, p, b) == [h EXCEPT ![p].used = b]

\* Setting or clearing the used flag of a block.
LEMMA MarkOK ==
    ASSUME NEW h, Shape(h), NEW p \in BlocksOf(h), NEW b \in BOOLEAN,
           NEW r, r = Mark(h, p, b)
    PROVE  /\ Shape(r)
           /\ DOMAIN r = DOMAIN h /\ BlocksOf(r) = BlocksOf(h)
           /\ r[p].used = b
           /\ \A x \in DOMAIN h : x # p => r[x].used = h[x].used
           /\ \A x \in DOMAIN h : r[x].next = h[x].next /\ r[x].prev = h[x].prev
<1>1. p \in DOMAIN h
  BY DEF BlocksOf
<1>2. /\ DOMAIN r = DOMAIN h
      /\ r = [x \in DOMAIN h |-> r[x]]
      /\ \A x \in DOMAIN h : x # p => r[x] = h[x]
      /\ r[p] = [h[p] EXCEPT !.used = b]
  BY <1>1 DEF Shape, Mark
<1>3. r[p] = [used |-> b, next |-> h[p].next, prev |-> h[p].prev] /\ h[p] \in Header
  BY <1>1, <1>2, ShapeTypes
<1>4. ASSUME NEW x \in DOMAIN h
      PROVE  r[x].next = h[x].next /\ r[x].prev = h[x].prev /\ r[x] \in Header
  <2>1. CASE x = p
    BY <2>1, <1>3 DEF Header
  <2>2. CASE x # p
    BY <2>2, <1>2, ShapeTypes
  <2>. QED BY <2>1, <2>2
<1>5. BlocksOf(r) = BlocksOf(h)
  BY <1>2 DEF BlocksOf
<1>6. Links(r)
  BY <1>2, <1>4, <1>5 DEF Shape, Links, BlocksOf
<1>7. Shape(r)
  <2>1. r \in [DOMAIN r -> Header]
    BY <1>2, <1>4
  <2>. QED BY <2>1, <1>2, <1>6 DEF Shape
<1>. QED BY <1>2, <1>3, <1>4, <1>5, <1>7

-----------------------------------------------------------------------------
(* plug_holes *)

\* No two free blocks are neighbours.
Joined(h) == \A x \in FreeBlocks(h) : h[x].next = End \/ h[h[x].next].used

\* No two free blocks are neighbours, but for neighbours of p.
JoinedBut(h, p) ==
    \A x \in FreeBlocks(h) \ {p} : h[x].next = End \/ h[x].next = p \/ h[h[x].next].used

\* No block below low is free.
Low(h, low) == low \in Nat /\ \A x \in FreeBlocks(h) : low <= x

\* The used blocks are the same and end where they did.
SameUsed(g, h) ==
    /\ UsedBlocks(g) = UsedBlocks(h)
    /\ \A x \in UsedBlocks(h) : g[x].next = h[x].next

\* plug_holes after its first half.
Plug1(h, p) ==
    IF ~h[h[p].next].used /\ h[p].next # End THEN Join(h, p, h[p].next) ELSE h

\* Its second half.
Plug2(h, p) ==
    IF h[p].prev # p /\ ~h[h[p].prev].used THEN Join(h, h[p].prev, p) ELSE h

\* The first half joins p with the free block behind it.
LEMMA Plug1OK ==
    ASSUME NEW h, Shape(h), NEW p \in FreeBlocks(h), JoinedBut(h, p),
           NEW low, Low(h, low), NEW r, r = Plug1(h, p)
    PROVE  /\ Shape(r) /\ SameUsed(r, h) /\ Low(r, low)
           /\ p \in FreeBlocks(r) /\ JoinedBut(r, p)
           /\ r[p].next = End \/ r[r[p].next].used
<1> DEFINE n == h[p].next
<1>1. p \in BlocksOf(h) /\ ~h[p].used
  BY DEF FreeBlocks
<1>2. n \in DOMAIN h
  BY <1>1 DEF Shape, Links
<1>3. CASE h[n].used \/ n = End
  <2>1. r = h
    BY <1>3 DEF Plug1
  <2>. QED BY <2>1, <1>3 DEF SameUsed
<1>4. CASE ~h[n].used /\ n # End
  <2>1. r = Join(h, p, n)
    BY <1>4 DEF Plug1
  <2>2. n \in BlocksOf(h) /\ n \in FreeBlocks(h)
    BY <1>2, <1>4 DEF BlocksOf, FreeBlocks
  <2> DEFINE m == h[n].next
  <2>3. /\ Shape(r)
        /\ p < n /\ n < m
        /\ BlocksOf(r) = BlocksOf(h) \ {n}
        /\ r[p].next = m
        /\ \A x \in DOMAIN r : r[x].used = h[x].used
        /\ \A x \in DOMAIN r : x # p => r[x].next = h[x].next
    BY <2>1, <2>2, <1>1, JoinOK
  <2>4. p \in Nat /\ n \in Nat /\ m \in Nat
    BY <2>2, <1>1, <1>2, ShapeTypes DEF BlocksOf
  <2>5. BlocksOf(r) \subseteq DOMAIN r
    BY DEF BlocksOf
  <2>6. p # n /\ n # m /\ p # m
    BY <2>3, <2>4
  <2>7. FreeBlocks(r) = FreeBlocks(h) \ {n}
    BY <2>3, <2>5 DEF FreeBlocks
  <2>8. UsedBlocks(r) = UsedBlocks(h)
    BY <2>3, <2>5, <1>4 DEF UsedBlocks
  <2>9. SameUsed(r, h)
    <3>1. ASSUME NEW x \in UsedBlocks(h) PROVE r[x].next = h[x].next
      <4>1. x # p /\ x \in DOMAIN r
        BY <1>1, <2>5, <2>8 DEF UsedBlocks
      <4>. QED BY <4>1, <2>3
    <3>. QED BY <3>1, <2>8 DEF SameUsed
  <2>10. p \in FreeBlocks(r) /\ Low(r, low)
    BY <2>6, <2>7 DEF Low
  <2>11. \A x \in BlocksOf(r) : r[x].next \in DOMAIN r
    BY <2>3 DEF Shape, Links
  <2>12. m = End \/ r[m].used
    <3>1. m = End \/ h[m].used
      BY <2>2, <2>6 DEF JoinedBut
    <3>2. m \in DOMAIN r
      BY <2>3, <2>10, <2>11 DEF FreeBlocks
    <3>. QED BY <3>1, <3>2, <2>3
  <2>13. JoinedBut(r, p)
    <3>1. SUFFICES ASSUME NEW x \in FreeBlocks(r) \ {p}
                   PROVE  r[x].next = End \/ r[x].next = p \/ r[r[x].next].used
      BY DEF JoinedBut
    <3>2. x \in FreeBlocks(h) \ {p} /\ x \in BlocksOf(r) /\ x \in DOMAIN r
      BY <2>5, <2>7 DEF FreeBlocks
    <3>3. r[x].next = h[x].next /\ r[x].next \in DOMAIN r
      BY <3>2, <2>3, <2>11
    <3>. QED BY <3>2, <3>3, <2>3 DEF JoinedBut
  <2>. QED BY <2>3, <2>9, <2>10, <2>12, <2>13
<1>. QED BY <1>3, <1>4

\* The second half joins p with the free block in front of it.
LEMMA Plug2OK ==
    ASSUME NEW h, Shape(h), NEW p \in FreeBlocks(h), JoinedBut(h, p),
           h[p].next = End \/ h[h[p].next].used,
           NEW low, Low(h, low), NEW r, r = Plug2(h, p)
    PROVE  Shape(r) /\ SameUsed(r, h) /\ Low(r, low) /\ Joined(r)
<1> DEFINE b == h[p].prev
<1>1. p \in BlocksOf(h) /\ ~h[p].used /\ p # End /\ p \in DOMAIN h
  BY DEF FreeBlocks, BlocksOf
<1>2. ASSUME NEW x \in BlocksOf(h), h[x].next = p PROVE x = b
  BY <1>1, <1>2 DEF Shape, Links
<1>3. CASE b = p \/ h[b].used
  <2>1. r = h
    BY <1>3 DEF Plug2
  <2>2. Joined(h)
    <3>1. SUFFICES ASSUME NEW x \in FreeBlocks(h)
                   PROVE  h[x].next = End \/ h[h[x].next].used
      BY DEF Joined
    <3>2. CASE x = p
      BY <3>2
    <3>3. CASE x # p /\ h[x].next # p
      BY <3>3 DEF JoinedBut
    <3>4. CASE x # p /\ h[x].next = p
      <4>1. x = b /\ ~h[x].used
        BY <3>4, <1>2 DEF FreeBlocks
      <4>. QED BY <4>1, <3>4, <1>3
    <3>. QED BY <3>2, <3>3, <3>4
  <2>. QED BY <2>1, <2>2 DEF SameUsed
<1>4. CASE b # p /\ ~h[b].used
  <2>1. r = Join(h, b, p)
    BY <1>4 DEF Plug2
  <2>2. p # 0
    BY <1>4 DEF Shape, Links
  <2>3. b \in BlocksOf(h) /\ h[b].next = p
    BY <2>2, <1>1 DEF Shape, Links
  <2> DEFINE m == h[p].next
  <2>4. /\ Shape(r)
        /\ b < p /\ p < m
        /\ BlocksOf(r) = BlocksOf(h) \ {p}
        /\ r[b].next = m
        /\ \A x \in DOMAIN r : r[x].used = h[x].used
        /\ \A x \in DOMAIN r : x # b => r[x].next = h[x].next
    BY <2>1, <2>3, <1>1, JoinOK
  <2>5. BlocksOf(r) \subseteq DOMAIN r
    BY DEF BlocksOf
  <2>6. FreeBlocks(r) = FreeBlocks(h) \ {p}
    BY <2>4, <2>5 DEF FreeBlocks
  <2>7. UsedBlocks(r) = UsedBlocks(h)
    BY <2>4, <2>5, <1>1 DEF UsedBlocks
  <2>8. SameUsed(r, h)
    <3>1. ASSUME NEW x \in UsedBlocks(h) PROVE r[x].next = h[x].next
      <4>1. x # b /\ x \in DOMAIN r
        BY <1>4, <2>5, <2>7 DEF UsedBlocks
      <4>. QED BY <4>1, <2>4
    <3>. QED BY <3>1, <2>7 DEF SameUsed
  <2>9. Low(r, low)
    BY <2>6 DEF Low
  <2>10. \A x \in BlocksOf(r) : r[x].next \in DOMAIN r
    BY <2>4 DEF Shape, Links
  <2>11. Joined(r)
    <3>1. SUFFICES ASSUME NEW x \in FreeBlocks(r)
                   PROVE  r[x].next = End \/ r[r[x].next].used
      BY DEF Joined
    <3>2. x \in FreeBlocks(h) \ {p} /\ x \in BlocksOf(r) /\ x \in DOMAIN r /\ x \in BlocksOf(h)
      BY <2>5, <2>6 DEF FreeBlocks
    <3>3. r[x].next \in DOMAIN r
      BY <3>2, <2>10
    <3>4. CASE x = b
      BY <3>3, <3>4, <2>4
    <3>5. CASE x # b
      <4>1. r[x].next = h[x].next /\ h[x].next # p
        BY <3>2, <3>5, <2>4, <1>2
      <4>. QED BY <4>1, <3>2, <3>3, <2>4 DEF JoinedBut
    <3>. QED BY <3>4, <3>5
  <2>. QED BY <2>4, <2>8, <2>9, <2>11
<1>. QED BY <1>3, <1>4

\* plug_holes leaves the free block p joined with its free neighbours.  lfree
\* does not change in it: a free block below p is not below lfree.
LEMMA PlugOK ==
    ASSUME NEW h, Shape(h), NEW p \in FreeBlocks(h), JoinedBut(h, p),
           NEW low, Low(h, low), NEW r, r = plug_holes(h, low, p)
    PROVE  /\ Shape(r.heap) /\ SameUsed(r.heap, h)
           /\ Low(r.heap, r.lfree) /\ Joined(r.heap)
<1> DEFINE n        == h[p].next
           forward  == n # p /\ ~h[n].used /\ n # End
           h1       == IF forward THEN Join(h, p, n) ELSE h
           low1     == IF forward /\ low = n THEN p ELSE low
           b        == h1[p].prev
           backward == b # p /\ ~h1[b].used
<1>1. /\ r.heap = (IF backward THEN Join(h1, b, p) ELSE h1)
      /\ r.lfree = IF backward /\ low1 = p THEN b ELSE low1
  BY DEF plug_holes
<1>2. p \in BlocksOf(h) /\ p \in Nat /\ n \in Nat /\ p < n
  <2>1. p \in BlocksOf(h) /\ p \in DOMAIN h
    BY DEF FreeBlocks, BlocksOf
  <2>2. p + SIZEOF_STRUCT_MEM + RT_ALIGN_SIZE <= n
    BY <2>1 DEF Shape, Links
  <2>3. p \in Nat /\ n \in Nat
    BY <2>1, ShapeTypes
  <2>. QED BY <2>1, <2>2, <2>3, Sizes
<1>3. h1 = Plug1(h, p)
  BY <1>2 DEF Plug1
<1>4. low1 = low
  <2>1. low <= p /\ low \in Nat
    BY DEF Low
  <2>. QED BY <2>1, <1>2
<1>. HIDE DEF h1, low1, forward, n
<1>5. /\ Shape(h1) /\ SameUsed(h1, h) /\ Low(h1, low)
      /\ p \in FreeBlocks(h1) /\ JoinedBut(h1, p)
      /\ h1[p].next = End \/ h1[h1[p].next].used
  BY <1>3, Plug1OK
<1>6. r.heap = Plug2(h1, p)
  BY <1>1 DEF Plug2
<1>7. Shape(r.heap) /\ SameUsed(r.heap, h1) /\ Low(r.heap, low) /\ Joined(r.heap)
  BY <1>5, <1>6, Plug2OK
<1>8. r.lfree = low
  <2>1. CASE ~backward
    BY <2>1, <1>1, <1>4
  <2>2. CASE backward
    <3>1. p \in BlocksOf(h1) /\ p # 0
      BY <2>2, <1>5 DEF FreeBlocks, Shape, Links
    <3>2. b \in BlocksOf(h1) /\ h1[b].next = p
      BY <3>1, <1>5 DEF Shape, Links
    <3>3. b \in FreeBlocks(h1) /\ b \in Nat
      BY <2>2, <3>2, <1>5, ShapeTypes DEF FreeBlocks, BlocksOf
    <3>4. b < p
      <4>1. b + SIZEOF_STRUCT_MEM + RT_ALIGN_SIZE <= p
        BY <3>2, <1>5 DEF Shape, Links
      <4>. QED BY <4>1, <3>3, <1>2, Sizes
    <3>5. low <= b /\ low \in Nat
      BY <3>3, <1>5 DEF Low
    <3>6. low # p
      BY <3>3, <3>4, <3>5, <1>2
    <3>. QED BY <3>6, <1>1, <1>4
  <2>. QED BY <2>1, <2>2
<1>9. SameUsed(r.heap, h)
  BY <1>5, <1>7 DEF SameUsed
<1>. QED BY <1>7, <1>8, <1>9

-----------------------------------------------------------------------------
(* The bytes of the used blocks *)

BytesOf(h, P) == UNION {x .. h[x].next - 1 : x \in P}

UsedBytes(h) == BytesOf(h, UsedBlocks(h))

\* Two blocks do not overlap.
LEMMA BlocksApart ==
    ASSUME NEW h, Shape(h), NEW p \in BlocksOf(h), NEW q \in BlocksOf(h), p # q
    PROVE  h[p].next <= q \/ h[q].next <= p
<1>1. p \in DOMAIN h /\ q \in DOMAIN h
  BY DEF BlocksOf
<1>2. p \in Nat /\ q \in Nat
  BY <1>1, ShapeTypes
<1>3. q <= p \/ h[p].next <= q
  BY <1>1 DEF Shape, Links
<1>4. p <= q \/ h[q].next <= p
  BY <1>1 DEF Shape, Links
<1>. QED BY <1>2, <1>3, <1>4

\* A block has as many bytes as lie between its start and the next one's.
LEMMA BlockBytes ==
    ASSUME NEW h, Shape(h), NEW p \in BlocksOf(h)
    PROVE  /\ IsFiniteSet(p .. h[p].next - 1)
           /\ Cardinality(p .. h[p].next - 1) = h[p].next - p
           /\ p \in Nat /\ h[p].next \in Nat /\ p < h[p].next
           /\ h[p].next - p \in Nat
           /\ h[p].next <= End
<1>1. p \in DOMAIN h /\ h[p].next \in DOMAIN h
  BY DEF BlocksOf, Shape, Links
<1>2. p \in Nat /\ h[p].next \in Nat /\ h[p].next <= End
  BY <1>1, ShapeTypes
<1>3. p + SIZEOF_STRUCT_MEM + RT_ALIGN_SIZE <= h[p].next
  BY DEF Shape, Links
<1>4. p < h[p].next
  BY <1>2, <1>3, Sizes
<1>5. p \in Int /\ h[p].next - 1 \in Int
  BY <1>2
<1>6. /\ IsFiniteSet(p .. h[p].next - 1)
      /\ Cardinality(p .. h[p].next - 1) =
           IF p > h[p].next - 1 THEN 0 ELSE (h[p].next - 1) - p + 1
  BY <1>5, FS_Interval
<1>. QED BY <1>2, <1>4, <1>6

\* Taking a block out of a set of blocks takes its bytes away.
LEMMA BytesLess ==
    ASSUME NEW h, Shape(h), NEW P \in SUBSET BlocksOf(h), NEW p \in P
    PROVE  /\ IsFiniteSet(BytesOf(h, P)) /\ IsFiniteSet(BytesOf(h, P \ {p}))
           /\ Cardinality(BytesOf(h, P \ {p})) \in Nat
           /\ Cardinality(BytesOf(h, P)) = Cardinality(BytesOf(h, P \ {p})) + (h[p].next - p)
<1> DEFINE own  == p .. h[p].next - 1
           rest == BytesOf(h, P \ {p})
           all  == BytesOf(h, P)
<1>1. p \in BlocksOf(h)
  OBVIOUS
<1>2. /\ IsFiniteSet(own) /\ Cardinality(own) = h[p].next - p
      /\ p \in Nat /\ h[p].next \in Nat /\ h[p].next - p \in Nat
  BY <1>1, BlockBytes
<1>3. all \subseteq 0 .. End
  <2>1. ASSUME NEW x \in P, NEW i \in x .. h[x].next - 1 PROVE i \in 0 .. End
    <3>1. x \in Nat /\ h[x].next \in Nat /\ h[x].next <= End
      BY BlockBytes
    <3>. QED BY <3>1, Sizes
  <2>. QED BY <2>1 DEF BytesOf
<1>4. IsFiniteSet(0 .. End)
  BY FS_Interval, Sizes
<1>5. rest \subseteq all
  BY DEF BytesOf
<1>6. IsFiniteSet(all) /\ IsFiniteSet(rest)
  BY <1>3, <1>4, <1>5, FS_Subset
<1>7. all = own \cup rest
  BY DEF BytesOf
<1>8. own \cap rest = {}
  <2>1. SUFFICES ASSUME NEW i \in own, i \in rest PROVE FALSE
    OBVIOUS
  <2>2. PICK x \in P \ {p} : i \in x .. h[x].next - 1
    BY <2>1 DEF BytesOf
  <2>3. x \in BlocksOf(h) /\ x # p
    OBVIOUS
  <2>4. h[p].next <= x \/ h[x].next <= p
    BY <2>3, <1>1, BlocksApart
  <2>5. x \in Nat /\ h[x].next \in Nat
    BY <2>3, BlockBytes
  <2>. QED BY <2>2, <2>4, <2>5, <1>2
<1>9. Cardinality(own \cup rest) =
        Cardinality(own) + Cardinality(rest) - Cardinality(own \cap rest)
  BY <1>2, <1>6, FS_Union
<1>10. Cardinality(own \cap rest) = 0
  BY <1>8, FS_EmptySet
<1>11. Cardinality(rest) \in Nat
  BY <1>6, FS_CardinalityType
<1>. QED BY <1>2, <1>6, <1>7, <1>9, <1>10, <1>11

\* The bytes depend only on where the blocks end.
LEMMA BytesSame ==
    ASSUME NEW g, NEW h, NEW P, \A x \in P : g[x].next = h[x].next
    PROVE  BytesOf(g, P) = BytesOf(h, P)
BY DEF BytesOf

\* The number of bytes in the used blocks is a natural number.
LEMMA BytesCount ==
    ASSUME NEW h, Shape(h)
    PROVE  Cardinality(UsedBytes(h)) \in Nat
<1>1. UsedBytes(h) \subseteq 0 .. End
  <2>1. ASSUME NEW x \in UsedBlocks(h), NEW i \in x .. h[x].next - 1 PROVE i \in 0 .. End
    <3>1. x \in BlocksOf(h)
      BY DEF UsedBlocks
    <3>2. x \in Nat /\ h[x].next \in Nat /\ h[x].next <= End
      BY <3>1, BlockBytes
    <3>. QED BY <3>2, Sizes
  <2>. QED BY <2>1 DEF UsedBytes, BytesOf
<1>2. IsFiniteSet(0 .. End)
  BY FS_Interval, Sizes
<1>3. IsFiniteSet(UsedBytes(h))
  BY <1>1, <1>2, FS_Subset
<1>. QED BY <1>3, FS_CardinalityType

-----------------------------------------------------------------------------
(* The invariant *)

HeapOK == Shape(heap) /\ Joined(heap) /\ Low(heap, lfree)

\* The clients hold the used blocks, and what they were given fits in.
HeldIn(h, g) ==
    /\ g = [p \in UsedBlocks(h) |-> g[p]]
    /\ \A p \in UsedBlocks(h) :
         /\ g[p] \in [client : Client, size : Nat]
         /\ 1 <= g[p].size /\ p + SIZEOF_STRUCT_MEM + g[p].size <= h[p].next

HeldOK == HeldIn(heap, held)

CountOK ==
    /\ used_mem = Cardinality(UsedBytes(heap))
    /\ used_mem \in Nat /\ max_mem \in Nat /\ used_mem <= max_mem

\* The block that is being moved is still its client's.
MoveOK ==
    /\ move \in [Client -> [step : {"none", "malloc", "free"}, old : Nat, size : Nat]]
    /\ \A c \in Client : move[c].step # "none" => Holds(c, move[c].old)

IInv == HeapOK /\ HeldOK /\ CountOK /\ MoveOK

\* The header of the empty heap.
LEMMA InitOK == Init => IInv
<1>. SUFFICES ASSUME Init PROVE IInv
  OBVIOUS
<1>1. End \in Nat /\ 0 < End
  BY Sizes
<1>2. /\ DOMAIN heap = {0, End}
      /\ heap = [p \in {0, End} |-> heap[p]]
      /\ heap[0] = [used |-> FALSE, next |-> End, prev |-> 0]
      /\ heap[End] = [used |-> TRUE, next |-> End, prev |-> End]
  BY <1>1 DEF Init
<1>2a. /\ ~heap[0].used /\ heap[0].next = End /\ heap[0].prev = 0
       /\ heap[End].used /\ heap[End].next = End /\ heap[End].prev = End
  BY <1>2
<1>3. BlocksOf(heap) = {0} /\ UsedBlocks(heap) = {} /\ FreeBlocks(heap) = {0}
  BY <1>1, <1>2, <1>2a DEF BlocksOf, UsedBlocks, FreeBlocks
<1>4. Links(heap)
  <2>1. 0 + SIZEOF_STRUCT_MEM + RT_ALIGN_SIZE <= End
    BY Sizes
  <2>2. \A q \in DOMAIN heap : q <= 0 \/ heap[0].next <= q
    BY <1>1, <1>2, <1>2a
  <2>. QED BY <1>2, <1>2a, <1>3, <2>1, <2>2 DEF Links
<1>5. Shape(heap)
  <2>0. ASSUME NEW u \in BOOLEAN, NEW i \in Nat, NEW j \in Nat
        PROVE  [used |-> u, next |-> i, prev |-> j] \in Header
    BY DEF Header
  <2>1. heap[0] \in Header /\ heap[End] \in Header
    BY <1>1, <1>2, <2>0
  <2>2. heap \in [DOMAIN heap -> Header]
    BY <1>2, <2>1
  <2>3. DOMAIN heap \subseteq 0 .. End
    BY <1>1, <1>2
  <2>4. \A p \in DOMAIN heap : Aligned(p)
    BY <1>2, Sizes
  <2>. QED BY <1>2, <1>4, <2>2, <2>3, <2>4 DEF Shape
<1>6. HeapOK
  <2>1. Joined(heap)
    BY <1>2a, <1>3 DEF Joined
  <2>2. Low(heap, lfree)
    <3>1. lfree = 0
      BY DEF Init
    <3>. QED BY <3>1, <1>3 DEF Low
  <2>. QED BY <1>5, <2>1, <2>2 DEF HeapOK
<1>7. HeldOK
  <2>1. held = [p \in {} |-> held[p]]
    BY DEF Init
  <2>. QED BY <2>1, <1>3 DEF HeldOK, HeldIn
<1>8. CountOK
  <2>1. UsedBytes(heap) = {}
    BY <1>3 DEF UsedBytes, BytesOf
  <2>2. Cardinality(UsedBytes(heap)) = 0
    BY <2>1, FS_EmptySet
  <2>. QED BY <2>2 DEF CountOK, Init
<1>9. MoveOK
  BY DEF MoveOK, Init, NoMove
<1>. QED BY <1>6, <1>7, <1>8, <1>9 DEF IInv

-----------------------------------------------------------------------------
(* rt_malloc *)

\* What a request is granted is aligned and not empty.
LEMMA GrantedOK ==
    ASSUME NEW request \in Nat
    PROVE  /\ Granted(request) \in Nat /\ Aligned(Granted(request))
           /\ RT_ALIGN_SIZE <= Granted(request)
<1>1. AlignUp(request) \in Nat /\ Aligned(AlignUp(request))
  BY AlignUpOK
<1>2. MIN_SIZE_ALIGNED \in Nat /\ Aligned(MIN_SIZE_ALIGNED) /\ RT_ALIGN_SIZE <= MIN_SIZE_ALIGNED
  BY Sizes
<1>3. Granted(request) =
        IF AlignUp(request) >= MIN_SIZE_ALIGNED THEN AlignUp(request) ELSE MIN_SIZE_ALIGNED
  BY <1>1, <1>2, MaxOf2 DEF Granted
<1>. QED BY <1>1, <1>2, <1>3, Sizes

TakenFrom(r, h, p, size, big) ==
    /\ Shape(r) /\ Joined(r)
    /\ UsedBlocks(r) = UsedBlocks(h) \cup {p}
    /\ \A x \in UsedBlocks(h) : r[x].next = h[x].next
    /\ p + SIZEOF_STRUCT_MEM + size <= r[p].next
    /\ r[p].next - p = IF big THEN size + SIZEOF_STRUCT_MEM ELSE h[p].next - p
    /\ \A x \in FreeBlocks(r) : x \in FreeBlocks(h) \/ p < x

\* What TakeBlock makes of the chain: block p is used, and a rest of it is free.
LEMMA TakeHeap ==
    ASSUME NEW h, Shape(h), Joined(h), NEW p \in FreeBlocks(h),
           NEW size \in Nat, Aligned(size), RT_ALIGN_SIZE <= size,
           p + SIZEOF_STRUCT_MEM + size <= h[p].next,
           NEW big \in BOOLEAN,
           big => p + SIZEOF_STRUCT_MEM + size + SIZEOF_STRUCT_MEM + MIN_SIZE_ALIGNED <= h[p].next,
           NEW b \in BOOLEAN, b = TRUE, NEW marked, marked = Mark(h, p, b),
           NEW r, r = IF big THEN Split(marked, p, size) ELSE marked
    PROVE  TakenFrom(r, h, p, size, big)
<1>. USE DEF TakenFrom
<1>1. p \in BlocksOf(h) /\ ~h[p].used /\ p \in DOMAIN h
  BY DEF FreeBlocks, BlocksOf
<1>2. /\ Shape(marked)
      /\ DOMAIN marked = DOMAIN h /\ BlocksOf(marked) = BlocksOf(h)
      /\ marked[p].used = TRUE
      /\ \A x \in DOMAIN h : x # p => marked[x].used = h[x].used
      /\ \A x \in DOMAIN h : marked[x].next = h[x].next
  <2>3. /\ Shape(marked)
        /\ DOMAIN marked = DOMAIN h /\ BlocksOf(marked) = BlocksOf(h)
        /\ marked[p].used = b
        /\ \A x \in DOMAIN h : x # p => marked[x].used = h[x].used
        /\ \A x \in DOMAIN h : marked[x].next = h[x].next /\ marked[x].prev = h[x].prev
    <3>1. p \in BlocksOf(h) /\ b \in BOOLEAN
      BY <1>1
    <3>. QED BY ONLY <3>1, Shape(h), marked = Mark(h, p, b), MarkOK
  <2>. QED BY <2>3
<1>3. \A g : BlocksOf(g) \subseteq DOMAIN g
  BY DEF BlocksOf
<1>4. FreeBlocks(marked) = FreeBlocks(h) \ {p}
  BY <1>1, <1>2, <1>3 DEF FreeBlocks
<1>5. UsedBlocks(marked) = UsedBlocks(h) \cup {p}
  BY <1>1, <1>2, <1>3 DEF UsedBlocks
<1>6. \A x \in BlocksOf(h) : h[x].next \in DOMAIN h
  BY DEF Shape, Links
<1>7. Joined(marked)
  <2>1. SUFFICES ASSUME NEW x \in FreeBlocks(h), x # p
                 PROVE  marked[x].next = End \/ marked[marked[x].next].used
    BY <1>4 DEF Joined
  <2>2. x \in DOMAIN h /\ h[x].next \in DOMAIN h
    BY <1>3, <1>6 DEF FreeBlocks
  <2>3. h[x].next = End \/ h[h[x].next].used
    BY DEF Joined
  <2>. QED BY <2>2, <2>3, <1>2
<1>8. p \in Nat /\ h[p].next \in Nat
  BY <1>1, ShapeTypes
<1>9. CASE ~big
  <2>1. r = marked
    BY <1>9
  <2>2. \A x \in UsedBlocks(h) : r[x].next = h[x].next
    BY <2>1, <1>2, <1>3 DEF UsedBlocks
  <2>. QED BY <2>1, <2>2, <1>1, <1>2, <1>4, <1>5, <1>7, <1>9
<1>10. CASE big
  <2>1. r = Split(marked, p, size)
    BY <1>10
  <2> DEFINE q == p + SIZEOF_STRUCT_MEM + size
  <2>2. q + SIZEOF_STRUCT_MEM + RT_ALIGN_SIZE <= marked[p].next
    <3>1. marked[p].next = h[p].next
      BY <1>1, <1>2
    <3>. QED BY <3>1, <1>8, <1>10, Sizes
  <2>q. q = p + SIZEOF_STRUCT_MEM + size
    OBVIOUS
  <2>. HIDE DEF q
  <2>3. p \in BlocksOf(marked)
    BY <1>1, <1>2
  <2>4. /\ Shape(r)
        /\ q \in Nat /\ p < q
        /\ BlocksOf(r) = BlocksOf(marked) \cup {q}
        /\ q \notin DOMAIN marked
        /\ r[p].next = q /\ r[q].next = marked[p].next
        /\ ~r[q].used
        /\ \A x \in DOMAIN marked : r[x].used = marked[x].used
        /\ \A x \in DOMAIN marked : x # p => r[x].next = marked[x].next
    <3>1. Shape(marked) /\ size \in Nat /\ Aligned(size) /\ RT_ALIGN_SIZE <= size
      BY <1>2
    <3>. QED BY ONLY <3>1, <2>1, <2>2, <2>3, <2>q, SplitOK
  <2>5. q - p = size + SIZEOF_STRUCT_MEM /\ q <= q
    BY <2>4, <2>q, <1>8, Sizes
  <2>6. FreeBlocks(r) = FreeBlocks(marked) \cup {q}
    BY <2>4, <1>3 DEF FreeBlocks
  <2>7. UsedBlocks(r) = UsedBlocks(marked)
    BY <2>4, <1>3 DEF UsedBlocks
  <2>8. Joined(r)
    <3>1. SUFFICES ASSUME NEW x \in FreeBlocks(r)
                   PROVE  r[x].next = End \/ r[r[x].next].used
      BY DEF Joined
    <3>2. CASE x = q
      <4>1. r[x].next = h[p].next /\ h[p].next \in DOMAIN h /\ h[p].next # p
        <5>1. p + SIZEOF_STRUCT_MEM + RT_ALIGN_SIZE <= h[p].next
          BY <1>1 DEF Shape, Links
        <5>2. h[p].next # p
          BY <5>1, <1>8, Sizes
        <5>. QED BY <3>2, <5>2, <2>4, <1>1, <1>2, <1>6
      <4>2. h[p].next = End \/ h[h[p].next].used
        BY DEF Joined
      <4>3. r[h[p].next].used = marked[h[p].next].used
        BY <4>1, <2>4, <1>2
      <4>. QED BY <4>1, <4>2, <4>3, <1>2
    <3>3. CASE x \in FreeBlocks(marked)
      <4>1. x \in FreeBlocks(h) /\ x # p /\ x \in DOMAIN h /\ h[x].next \in DOMAIN h
        BY <3>3, <1>3, <1>4, <1>6 DEF FreeBlocks
      <4>2. r[x].next = marked[x].next /\ marked[x].next \in DOMAIN marked
        BY <4>1, <2>4, <1>2
      <4>3. marked[x].next = End \/ marked[marked[x].next].used
        BY <3>3, <1>7 DEF Joined
      <4>4. r[marked[x].next].used = marked[marked[x].next].used
        BY <4>2, <2>4
      <4>. QED BY <4>2, <4>3, <4>4
    <3>. QED BY <3>2, <3>3, <2>6
  <2>9. \A x \in UsedBlocks(h) : r[x].next = h[x].next
    <3>1. SUFFICES ASSUME NEW x \in UsedBlocks(h) PROVE r[x].next = h[x].next
      OBVIOUS
    <3>2. x \in DOMAIN h /\ x # p
      BY <1>1, <1>3 DEF UsedBlocks
    <3>3. r[x].next = marked[x].next /\ marked[x].next = h[x].next
      BY <3>2, <2>4, <1>2
    <3>. QED BY <3>3
  <2>10. \A x \in FreeBlocks(r) : x \in FreeBlocks(h) \/ p < x
    BY <2>4, <2>6, <1>4
  <2>11. p + SIZEOF_STRUCT_MEM + size <= r[p].next
    BY <2>4, <2>5, <2>q
  <2>12. r[p].next - p = size + SIZEOF_STRUCT_MEM
    BY <2>4, <2>5
  <2>. QED BY <2>4, <2>7, <2>8, <2>9, <2>10, <2>11, <2>12, <1>5, <1>10
<1>. QED BY <1>9, <1>10

\* Where the search for the next free block ends.
LEMMA NextFreeOK ==
    ASSUME NEW h, Shape(h), NEW p \in DOMAIN h
    PROVE  /\ NextFree(h, p) \in Nat
           /\ \A x \in FreeBlocks(h) : p <= x => NextFree(h, p) <= x
<1> DEFINE T == {q \in DOMAIN h : q >= p /\ (q = End \/ ~h[q].used)}
<1>1. T \in SUBSET Nat
  <2>1. \A q \in DOMAIN h : q \in Nat
    BY ShapeTypes
  <2>. QED BY <2>1
<1>2. End \in T
  <2>1. p \in Nat /\ p <= End
    BY ShapeTypes
  <2>. QED BY <2>1, Sizes DEF Shape
<1>3. Min(T) \in T /\ \A x \in T : Min(T) <= x
  BY <1>1, <1>2, MinOK
<1>4. NextFree(h, p) = Min(T)
  BY DEF NextFree
<1>5. \A x \in FreeBlocks(h) : p <= x => x \in T
  <2>1. SUFFICES ASSUME NEW x \in FreeBlocks(h), p <= x PROVE x \in T
    OBVIOUS
  <2>2. x \in DOMAIN h /\ ~h[x].used
    BY DEF FreeBlocks, BlocksOf
  <2>3. x >= p
    BY <2>1, <2>2, ShapeTypes
  <2>. QED BY <2>2, <2>3
<1>. HIDE DEF T
<1>. QED BY <1>1, <1>3, <1>4, <1>5

\* A block becomes used: its bytes are counted.
LEMMA BytesTaken ==
    ASSUME NEW g, NEW h, Shape(g), NEW p, p \notin UsedBlocks(h),
           UsedBlocks(g) = UsedBlocks(h) \cup {p},
           \A x \in UsedBlocks(h) : g[x].next = h[x].next
    PROVE  /\ Cardinality(UsedBytes(g)) = Cardinality(UsedBytes(h)) + (g[p].next - p)
           /\ g[p].next - p \in Nat
<1>1. UsedBlocks(g) \in SUBSET BlocksOf(g) /\ p \in UsedBlocks(g)
  BY DEF UsedBlocks
<1>2. Cardinality(BytesOf(g, UsedBlocks(g))) =
        Cardinality(BytesOf(g, UsedBlocks(g) \ {p})) + (g[p].next - p)
  BY <1>1, BytesLess
<1>3. UsedBlocks(g) \ {p} = UsedBlocks(h)
  OBVIOUS
<1>4. BytesOf(g, UsedBlocks(h)) = BytesOf(h, UsedBlocks(h))
  BY BytesSame
<1>5. g[p].next - p \in Nat
  BY <1>1, BlockBytes
<1>. QED BY <1>2, <1>3, <1>4, <1>5 DEF UsedBytes

\* rt_malloc takes a block that nobody holds and gives it to its caller.
LEMMA TakeOK ==
    ASSUME HeapOK, HeldOK, CountOK, NEW c \in Client,
           NEW size \in Nat, Aligned(size), RT_ALIGN_SIZE <= size,
           NEW p \in Candidates(size), TakeBlock(p, size),
           held' = [q \in DOMAIN held \cup {p} |->
                      IF q = p THEN [client |-> c, size |-> size] ELSE held[q]]
    PROVE  /\ HeapOK' /\ HeldOK' /\ CountOK'
           /\ p \notin DOMAIN held
           /\ p \in Nat
<1>1. Shape(heap) /\ Joined(heap) /\ lfree \in Nat /\ \A x \in FreeBlocks(heap) : lfree <= x
  BY DEF HeapOK, Low
<1>2. p \in DOMAIN heap /\ p < mem_size_aligned - size /\ ~heap[p].used /\ Room(heap, p) >= size
  BY DEF Candidates
<1>3. p \in Nat /\ heap[p].next \in Nat
  BY <1>1, <1>2, ShapeTypes
<1>4. p # End
  BY <1>2, <1>3, Sizes DEF End
<1>5. p \in FreeBlocks(heap) /\ p \notin UsedBlocks(heap)
  BY <1>2, <1>4 DEF FreeBlocks, UsedBlocks, BlocksOf
<1>6. p + SIZEOF_STRUCT_MEM + size <= heap[p].next
  BY <1>2, <1>3, Sizes DEF Room
<1> DEFINE big    == Splits(p, size)
           marked == [heap EXCEPT ![p].used = TRUE]
           r      == IF big THEN Split(marked, p, size) ELSE marked
<1>7. big \in BOOLEAN
  BY DEF Splits
<1>8. big => p + SIZEOF_STRUCT_MEM + size + SIZEOF_STRUCT_MEM + MIN_SIZE_ALIGNED <= heap[p].next
  BY <1>3, Sizes DEF Splits, Room
<1>9. /\ heap' = r
      /\ lfree' = IF p = lfree THEN NextFree(r, p) ELSE lfree
      /\ used_mem' = used_mem + Taken(p, size)
      /\ max_mem' = Max({max_mem, used_mem + Taken(p, size)})
  BY DEF TakeBlock
<1>10. /\ Shape(r) /\ Joined(r)
       /\ UsedBlocks(r) = UsedBlocks(heap) \cup {p}
       /\ \A x \in UsedBlocks(heap) : r[x].next = heap[x].next
       /\ p + SIZEOF_STRUCT_MEM + size <= r[p].next
       /\ r[p].next - p = IF big THEN size + SIZEOF_STRUCT_MEM ELSE heap[p].next - p
       /\ \A x \in FreeBlocks(r) : x \in FreeBlocks(heap) \/ p < x
  <2>1. PICK m : m = marked
    OBVIOUS
  <2>2. PICK g : g = IF big THEN Split(m, p, size) ELSE m
    OBVIOUS
  <2>3. g = r
    BY <2>1, <2>2
  <2>4. PICK b \in BOOLEAN : b = TRUE
    OBVIOUS
  <2>4a. m = Mark(heap, p, b)
    BY <2>1, <2>4 DEF Mark
  <2>4b. PICK u \in BOOLEAN : u = big
    BY <1>7
  <2>5. size \in Nat /\ Aligned(size) /\ RT_ALIGN_SIZE <= size /\ Shape(heap) /\ Joined(heap)
    BY <1>1
  <2>. HIDE DEF r, marked, big
  <2>6. TakenFrom(g, heap, p, size, u)
    <3>1. g = IF u THEN Split(m, p, size) ELSE m
      BY <2>2, <2>4b
    <3>2. u => p + SIZEOF_STRUCT_MEM + size + SIZEOF_STRUCT_MEM + MIN_SIZE_ALIGNED <= heap[p].next
      BY <2>4b, <1>8
    <3>3. u \in BOOLEAN /\ b \in BOOLEAN /\ b = TRUE
      BY <2>4, <2>4b
    <3>. QED BY ONLY <3>1, <3>2, <3>3, <2>4a, <2>5, <1>5, <1>6, TakeHeap
  <2>. QED BY <2>3, <2>4b, <2>6 DEF TakenFrom
<1>11. Taken(p, size) = r[p].next - p
  BY <1>10 DEF Taken
<1>. HIDE DEF r, big, marked
<1>12. /\ Cardinality(UsedBytes(r)) = Cardinality(UsedBytes(heap)) + (r[p].next - p)
       /\ r[p].next - p \in Nat
  BY <1>5, <1>10, BytesTaken
<1>13. CountOK'
  <2>1. used_mem + Taken(p, size) \in Nat
    BY <1>11, <1>12 DEF CountOK
  <2>2. max_mem' = IF max_mem >= used_mem + Taken(p, size)
                     THEN max_mem ELSE used_mem + Taken(p, size)
    BY <2>1, <1>9, MaxOf2 DEF CountOK
  <2>3. used_mem' = Cardinality(UsedBytes(heap'))
    BY <1>9, <1>11, <1>12 DEF CountOK
  <2>4. used_mem' \in Nat /\ max_mem' \in Nat /\ used_mem' <= max_mem'
    BY <2>1, <2>2, <1>9 DEF CountOK
  <2>. QED BY <2>3, <2>4 DEF CountOK
<1>14. Low(r, lfree')
  <2>1. p \in DOMAIN r
    BY <1>10 DEF UsedBlocks, BlocksOf
  <2>2. /\ NextFree(r, p) \in Nat
        /\ \A x \in FreeBlocks(r) : p <= x => NextFree(r, p) <= x
    BY <2>1, <1>10, NextFreeOK
  <2>3. ASSUME NEW x \in FreeBlocks(r) PROVE lfree' <= x
    <3>1. x \in Nat
      BY <1>10, ShapeTypes DEF FreeBlocks, BlocksOf
    <3>2. lfree <= p
      BY <1>1, <1>5
    <3>3. lfree <= x
      <4>1. CASE x \in FreeBlocks(heap)
        BY <4>1, <1>1
      <4>2. CASE p < x
        BY <4>2, <3>1, <3>2, <1>1, <1>3
      <4>. QED BY <4>1, <4>2, <1>10
    <3>4. CASE p = lfree
      BY <3>3, <3>4, <2>2, <1>9
    <3>5. CASE p # lfree
      BY <3>3, <3>5, <1>9
    <3>. QED BY <3>4, <3>5
  <2>4. lfree' \in Nat
    BY <2>2, <1>1, <1>9
  <2>. QED BY <2>3, <2>4 DEF Low
<1>15. HeapOK'
  BY <1>9, <1>10, <1>14 DEF HeapOK
<1>16. DOMAIN held = UsedBlocks(heap)
  BY DEF HeldOK, HeldIn
<1>17. HeldOK'
  <2>1. held' = [q \in UsedBlocks(r) |-> held'[q]]
    BY <1>10, <1>16
  <2>2. ASSUME NEW x \in UsedBlocks(r)
        PROVE  /\ held'[x] \in [client : Client, size : Nat]
               /\ 1 <= held'[x].size /\ x + SIZEOF_STRUCT_MEM + held'[x].size <= r[x].next
    <3>1. CASE x = p
      <4>1. held'[x] = [client |-> c, size |-> size]
        BY <3>1
      <4>2. 1 <= size
        BY Sizes
      <4>. QED BY <4>1, <4>2, <3>1, <1>10
    <3>2. CASE x # p
      <4>1. x \in UsedBlocks(heap)
        BY <3>2, <1>10
      <4>2. held'[x] = held[x] /\ r[x].next = heap[x].next
        BY <4>1, <3>2, <1>10, <1>16
      <4>. QED BY <4>1, <4>2 DEF HeldOK, HeldIn
    <3>. QED BY <3>1, <3>2
  <2>. QED BY <2>1, <2>2, <1>9 DEF HeldOK, HeldIn
<1>. QED BY <1>3, <1>5, <1>13, <1>15, <1>16, <1>17

-----------------------------------------------------------------------------
(* rt_free *)

\* The smaller of two numbers.
LEMMA LowestOK ==
    ASSUME lfree \in Nat, NEW p \in Nat
    PROVE  Lowest(p) \in Nat /\ Lowest(p) <= p /\ Lowest(p) <= lfree
<1>1. {lfree, p} \in SUBSET Nat /\ {lfree, p} # {}
  OBVIOUS
<1>2. Min({lfree, p}) \in {lfree, p} /\ \A x \in {lfree, p} : Min({lfree, p}) <= x
  BY <1>1, MinOK
<1>. QED BY <1>2 DEF Lowest

\* The block that is freed is nobody's any more.
LEMMA FreeOK ==
    ASSUME HeapOK, HeldOK, CountOK, NEW p \in DOMAIN held, FreeBlock(p)
    PROVE  HeapOK' /\ HeldOK' /\ CountOK'
<1>1. Shape(heap) /\ Joined(heap) /\ lfree \in Nat /\ \A x \in FreeBlocks(heap) : lfree <= x
  BY DEF HeapOK, Low
<1>2. DOMAIN held = UsedBlocks(heap)
  BY DEF HeldOK, HeldIn
<1>3. p \in BlocksOf(heap) /\ heap[p].used /\ p \in DOMAIN heap /\ p \in UsedBlocks(heap)
  BY <1>2 DEF UsedBlocks, BlocksOf
<1>4. p \in Nat
  BY <1>1, <1>3, ShapeTypes
<1>5. PICK b \in BOOLEAN : b = FALSE
  OBVIOUS
<1>6. PICK g : g = Mark(heap, p, b)
  OBVIOUS
<1>7. PICK r : r = plug_holes(g, Lowest(p), p)
  OBVIOUS
<1>8. /\ heap' = r.heap
      /\ lfree' = r.lfree
      /\ used_mem' = used_mem - (heap[p].next - p)
      /\ held' = [q \in DOMAIN held \ {p} |-> held[q]]
      /\ max_mem' = max_mem
  BY <1>5, <1>6, <1>7 DEF FreeBlock, Mark
<1>9. /\ Shape(g)
      /\ DOMAIN g = DOMAIN heap /\ BlocksOf(g) = BlocksOf(heap)
      /\ g[p].used = b
      /\ \A x \in DOMAIN heap : x # p => g[x].used = heap[x].used
      /\ \A x \in DOMAIN heap : g[x].next = heap[x].next /\ g[x].prev = heap[x].prev
  BY ONLY <1>1, <1>3, <1>5, <1>6, MarkOK
<1>10. BlocksOf(heap) \subseteq DOMAIN heap
  BY DEF BlocksOf
<1>11. FreeBlocks(g) = FreeBlocks(heap) \cup {p}
  BY <1>3, <1>5, <1>9, <1>10 DEF FreeBlocks
<1>12. UsedBlocks(g) = UsedBlocks(heap) \ {p}
  BY <1>3, <1>5, <1>9, <1>10 DEF UsedBlocks
<1>13. JoinedBut(g, p)
  <2>1. SUFFICES ASSUME NEW x \in FreeBlocks(g) \ {p}
                 PROVE  g[x].next = End \/ g[x].next = p \/ g[g[x].next].used
    BY DEF JoinedBut
  <2>2. x \in FreeBlocks(heap) /\ x \in BlocksOf(heap) /\ x \in DOMAIN heap
    BY <1>10, <1>11 DEF FreeBlocks
  <2>3. heap[x].next \in DOMAIN heap
    BY <2>2, <1>1 DEF Shape, Links
  <2>4. heap[x].next = End \/ heap[heap[x].next].used
    BY <2>2, <1>1 DEF Joined
  <2>5. g[x].next = heap[x].next
    BY <2>2, <1>9
  <2>. QED BY <2>3, <2>4, <2>5, <1>9
<1>14. Low(g, Lowest(p))
  <2>1. Lowest(p) \in Nat /\ Lowest(p) <= p /\ Lowest(p) <= lfree
    BY <1>1, <1>4, LowestOK
  <2>2. ASSUME NEW x \in FreeBlocks(heap) PROVE Lowest(p) <= x
    <3>1. x \in DOMAIN heap
      BY DEF FreeBlocks, BlocksOf
    <3>2. x \in Nat /\ lfree <= x
      BY <3>1, <1>1, ShapeTypes
    <3>. QED BY <3>2, <2>1, <1>1
  <2>. QED BY <2>1, <2>2, <1>11 DEF Low
<1>15. Shape(heap') /\ SameUsed(heap', g) /\ Low(heap', lfree') /\ Joined(heap')
  <2>1. p \in FreeBlocks(g)
    BY <1>11
  <2>2. Shape(r.heap) /\ SameUsed(r.heap, g) /\ Low(r.heap, r.lfree) /\ Joined(r.heap)
    BY ONLY <2>1, <1>7, <1>9, <1>13, <1>14, PlugOK
  <2>. QED BY <2>2, <1>8
<1>16. HeapOK'
  BY <1>15 DEF HeapOK
<1>17. UsedBlocks(heap') = UsedBlocks(heap) \ {p}
  BY <1>12, <1>15 DEF SameUsed
<1>18. \A x \in UsedBlocks(heap') : heap'[x].next = heap[x].next
  <2>1. SUFFICES ASSUME NEW x \in UsedBlocks(heap') PROVE heap'[x].next = heap[x].next
    OBVIOUS
  <2>2. x \in UsedBlocks(g) /\ x \in DOMAIN heap
    BY <1>12, <1>17 DEF UsedBlocks, BlocksOf
  <2>. QED BY <2>2, <1>9, <1>15 DEF SameUsed
<1>19. HeldOK'
  <2>1. held' = [q \in UsedBlocks(heap') |-> held'[q]]
    BY <1>2, <1>8, <1>17
  <2>2. ASSUME NEW x \in UsedBlocks(heap')
        PROVE  /\ held'[x] \in [client : Client, size : Nat]
               /\ 1 <= held'[x].size
               /\ x + SIZEOF_STRUCT_MEM + held'[x].size <= heap'[x].next
    <3>1. x \in UsedBlocks(heap) /\ held'[x] = held[x] /\ heap'[x].next = heap[x].next
      BY <1>2, <1>8, <1>17, <1>18
    <3>. QED BY <3>1 DEF HeldOK, HeldIn
  <2>. QED BY <2>1, <2>2 DEF HeldOK, HeldIn
<1>20. CountOK'
  <2>1. /\ Cardinality(UsedBytes(heap)) = Cardinality(UsedBytes(heap')) + (heap[p].next - p)
        /\ heap[p].next - p \in Nat
    <3>1. UsedBlocks(heap) = UsedBlocks(heap') \cup {p} /\ p \notin UsedBlocks(heap')
      BY <1>3, <1>17
    <3>2. \A x \in UsedBlocks(heap') : heap[x].next = heap'[x].next
      BY <1>18
    <3>. QED BY <3>1, <3>2, <1>1, BytesTaken
  <2>2. Cardinality(UsedBytes(heap')) \in Nat
    BY <1>15, BytesCount
  <2>3. used_mem' = Cardinality(UsedBytes(heap'))
    BY <2>1, <2>2, <1>8 DEF CountOK
  <2>4. used_mem' \in Nat /\ max_mem' \in Nat /\ used_mem' <= max_mem'
    BY <2>1, <2>2, <2>3, <1>8 DEF CountOK
  <2>. QED BY <2>3, <2>4 DEF CountOK
<1>. QED BY <1>16, <1>19, <1>20

-----------------------------------------------------------------------------
(* rt_realloc *)

\* A size that RT_ALIGN does not make 0 is at least the alignment.
LEMMA RequestOK ==
    ASSUME NEW request \in Request, AlignUp(request) # 0
    PROVE  /\ AlignUp(request) \in Nat /\ Aligned(AlignUp(request))
           /\ RT_ALIGN_SIZE <= AlignUp(request) /\ 1 <= AlignUp(request)
<1>1. request \in Nat
  BY HeapAssumption
<1>2. AlignUp(request) \in Nat /\ Aligned(AlignUp(request))
  BY <1>1, AlignUpOK
<1>3. 0 < AlignUp(request) /\ 0 \in Nat /\ Aligned(0)
  BY <1>2, Sizes
<1>4. 0 + RT_ALIGN_SIZE <= AlignUp(request)
  BY <1>2, <1>3, AlignedGap
<1>. QED BY <1>2, <1>3, <1>4, Sizes

\* A block that is cut keeps its front, and the rest is free.
LEMMA ShrinkOK ==
    ASSUME HeapOK, HeldOK, CountOK, NEW c \in Client, NEW p \in DOMAIN held,
           NEW request \in Request, ReallocShrink(c, p, request)
    PROVE  HeapOK' /\ HeldOK' /\ CountOK'
<1>1. Shape(heap) /\ Joined(heap) /\ lfree \in Nat /\ \A x \in FreeBlocks(heap) : lfree <= x
  BY DEF HeapOK, Low
<1>2. DOMAIN held = UsedBlocks(heap)
  BY DEF HeldOK, HeldIn
<1>3. p \in BlocksOf(heap) /\ heap[p].used /\ p \in DOMAIN heap /\ p \in UsedBlocks(heap)
  BY <1>2 DEF UsedBlocks, BlocksOf
<1>4. p \in Nat /\ heap[p].next \in Nat /\ heap[p].next \in DOMAIN heap /\ Aligned(heap[p].next)
  <2>1. heap[p].next \in DOMAIN heap
    BY <1>1, <1>3 DEF Shape, Links
  <2>. QED BY <2>1, <1>1, <1>3, ShapeTypes DEF Shape
<1>5. PICK size : size = AlignUp(request)
  OBVIOUS
<1>6. PICK q : q = p + SIZEOF_STRUCT_MEM + size
  OBVIOUS
<1>7. PICK g : g = Split(heap, p, size)
  OBVIOUS
<1>8. PICK r : r = plug_holes(g, Lowest(q), q)
  OBVIOUS
<1>9. /\ size # 0
      /\ Shrinks(p, size)
      /\ heap' = r.heap
      /\ lfree' = r.lfree
      /\ used_mem' = Shrunk(p, size)
      /\ held' = [held EXCEPT ![p].size = size]
      /\ max_mem' = max_mem
  BY <1>5, <1>6, <1>7, <1>8 DEF ReallocShrink, Resized
<1>10. size \in Nat /\ Aligned(size) /\ RT_ALIGN_SIZE <= size /\ 1 <= size
  BY <1>5, <1>9, RequestOK
<1>11. q + SIZEOF_STRUCT_MEM + RT_ALIGN_SIZE <= heap[p].next
  <2>1. Aligned(p) /\ Aligned(SIZEOF_STRUCT_MEM) /\ SIZEOF_STRUCT_MEM \in Nat
    BY <1>1, <1>3, Sizes DEF Shape
  <2>2. Aligned(p + SIZEOF_STRUCT_MEM) /\ p + SIZEOF_STRUCT_MEM \in Nat
    BY <2>1, <1>4, AlignedSum
  <2>3. Aligned(q) /\ q \in Nat
    BY <2>2, <1>6, <1>10, AlignedSum
  <2>4. Aligned(q + SIZEOF_STRUCT_MEM) /\ q + SIZEOF_STRUCT_MEM \in Nat
    BY <2>1, <2>3, AlignedSum
  <2>5. q + SIZEOF_STRUCT_MEM < heap[p].next
    BY <1>4, <1>6, <1>9, <1>10, Sizes DEF Shrinks, Room
  <2>. QED BY <2>4, <2>5, <1>4, AlignedGap
<1>12. /\ Shape(g)
       /\ q \in Nat /\ p < q /\ q < heap[p].next
       /\ q \in BlocksOf(g) /\ q \notin DOMAIN heap
       /\ BlocksOf(g) = BlocksOf(heap) \cup {q}
       /\ g[p].next = q /\ g[q].next = heap[p].next
       /\ ~g[q].used
       /\ \A x \in DOMAIN heap : g[x].used = heap[x].used
       /\ \A x \in DOMAIN heap : x # p => g[x].next = heap[x].next
  BY ONLY <1>1, <1>3, <1>6, <1>7, <1>10, <1>11, SplitOK
<1>13. BlocksOf(heap) \subseteq DOMAIN heap
  BY DEF BlocksOf
<1>14. FreeBlocks(g) = FreeBlocks(heap) \cup {q}
  BY <1>12, <1>13 DEF FreeBlocks
<1>15. UsedBlocks(g) = UsedBlocks(heap)
  BY <1>12, <1>13 DEF UsedBlocks
<1>16. JoinedBut(g, q)
  <2>1. SUFFICES ASSUME NEW x \in FreeBlocks(g) \ {q}
                 PROVE  g[x].next = End \/ g[x].next = q \/ g[g[x].next].used
    BY DEF JoinedBut
  <2>2. x \in FreeBlocks(heap) /\ x \in BlocksOf(heap) /\ x \in DOMAIN heap /\ x # p
    BY <1>3, <1>13, <1>14 DEF FreeBlocks
  <2>3. heap[x].next \in DOMAIN heap
    BY <2>2, <1>1 DEF Shape, Links
  <2>4. heap[x].next = End \/ heap[heap[x].next].used
    BY <2>2, <1>1 DEF Joined
  <2>5. g[x].next = heap[x].next
    BY <2>2, <1>12
  <2>6. g[heap[x].next].used = heap[heap[x].next].used
    BY <2>3, <1>12
  <2>. QED BY <2>4, <2>5, <2>6
<1>17. Low(g, Lowest(q))
  <2>1. Lowest(q) \in Nat /\ Lowest(q) <= q /\ Lowest(q) <= lfree
    BY <1>1, <1>12, LowestOK
  <2>2. ASSUME NEW x \in FreeBlocks(heap) PROVE Lowest(q) <= x
    <3>1. x \in DOMAIN heap
      BY DEF FreeBlocks, BlocksOf
    <3>2. x \in Nat /\ lfree <= x
      BY <3>1, <1>1, ShapeTypes
    <3>. QED BY <3>2, <2>1, <1>1
  <2>. QED BY <2>1, <2>2, <1>14 DEF Low
<1>18. Shape(heap') /\ SameUsed(heap', g) /\ Low(heap', lfree') /\ Joined(heap')
  <2>1. q \in FreeBlocks(g)
    BY <1>14
  <2>2. Shape(r.heap) /\ SameUsed(r.heap, g) /\ Low(r.heap, r.lfree) /\ Joined(r.heap)
    BY ONLY <2>1, <1>8, <1>12, <1>16, <1>17, PlugOK
  <2>. QED BY <2>2, <1>9
<1>19. HeapOK'
  BY <1>18 DEF HeapOK
<1>20. UsedBlocks(heap') = UsedBlocks(heap)
  BY <1>15, <1>18 DEF SameUsed
<1>21. heap'[p].next = q
  BY <1>3, <1>12, <1>15, <1>18 DEF SameUsed
<1>22. \A x \in UsedBlocks(heap) \ {p} : heap'[x].next = heap[x].next
  <2>1. SUFFICES ASSUME NEW x \in UsedBlocks(heap) \ {p} PROVE heap'[x].next = heap[x].next
    OBVIOUS
  <2>2. x \in UsedBlocks(g) /\ x \in DOMAIN heap /\ x # p
    BY <1>15 DEF UsedBlocks, BlocksOf
  <2>3. g[x].next = heap[x].next /\ heap'[x].next = g[x].next
    BY <2>2, <1>12, <1>18 DEF SameUsed
  <2>. QED BY <2>3
<1>23. HeldOK'
  <2>1. /\ held' = [y \in UsedBlocks(heap') |-> held'[y]]
        /\ held'[p] = [held[p] EXCEPT !.size = size]
        /\ \A x \in UsedBlocks(heap) \ {p} : held'[x] = held[x]
    <3>1. held = [y \in UsedBlocks(heap) |-> held[y]]
      BY DEF HeldOK, HeldIn
    <3>. QED BY <3>1, <1>3, <1>9, <1>20
  <2>2. ASSUME NEW x \in UsedBlocks(heap')
        PROVE  /\ held'[x] \in [client : Client, size : Nat]
               /\ 1 <= held'[x].size
               /\ x + SIZEOF_STRUCT_MEM + held'[x].size <= heap'[x].next
    <3>1. CASE x = p
      <4>1. held[p] \in [client : Client, size : Nat]
        BY <1>3 DEF HeldOK, HeldIn
      <4>2. held'[x] \in [client : Client, size : Nat] /\ held'[x].size = size
        BY <4>1, <3>1, <2>1, <1>10
      <4>. QED BY <4>2, <3>1, <1>6, <1>10, <1>12, <1>21
    <3>2. CASE x # p
      <4>1. x \in UsedBlocks(heap) /\ held'[x] = held[x] /\ heap'[x].next = heap[x].next
        BY <3>2, <2>1, <1>20, <1>22
      <4>. QED BY <4>1 DEF HeldOK, HeldIn
    <3>. QED BY <3>1, <3>2
  <2>. QED BY <2>1, <2>2 DEF HeldOK, HeldIn
<1>24. CountOK'
  <2> DEFINE others == UsedBlocks(heap) \ {p}
             rest   == Cardinality(BytesOf(heap, others))
  <2>1. /\ rest \in Nat
        /\ Cardinality(UsedBytes(heap)) = rest + (heap[p].next - p)
    <3>1. UsedBlocks(heap) \in SUBSET BlocksOf(heap)
      BY DEF UsedBlocks
    <3>. QED BY <3>1, <1>1, <1>3, BytesLess DEF UsedBytes
  <2>2. Cardinality(UsedBytes(heap')) = rest + (q - p)
    <3>1. UsedBlocks(heap') \in SUBSET BlocksOf(heap') /\ p \in UsedBlocks(heap')
      BY <1>3, <1>20 DEF UsedBlocks
    <3>2. Cardinality(BytesOf(heap', UsedBlocks(heap'))) =
            Cardinality(BytesOf(heap', UsedBlocks(heap') \ {p})) + (heap'[p].next - p)
      BY <3>1, <1>18, BytesLess
    <3>3. BytesOf(heap', others) = BytesOf(heap, others)
      BY <1>22, BytesSame
    <3>. QED BY <3>2, <3>3, <1>20, <1>21 DEF UsedBytes
  <2>. HIDE DEF rest, others
  <2>3. used_mem' = used_mem - (heap[p].next - (p + SIZEOF_STRUCT_MEM) - size)
    BY <1>9 DEF Shrunk, Room
  <2>4. used_mem = rest + (heap[p].next - p)
    BY <2>1 DEF CountOK
  <2>5. used_mem' = rest + (q - p)
    BY <2>1, <2>3, <2>4, <1>4, <1>6, <1>10, Sizes
  <2>6. used_mem' \in Nat /\ used_mem' <= used_mem
    BY <2>1, <2>4, <2>5, <1>4, <1>12
  <2>7. max_mem' \in Nat /\ used_mem' <= max_mem'
    BY <2>6, <1>9 DEF CountOK
  <2>. QED BY <2>2, <2>5, <2>6, <2>7 DEF CountOK
<1>. QED BY <1>19, <1>23, <1>24

\* The block already has the new size.
LEMMA SameOK ==
    ASSUME HeapOK, HeldOK, CountOK, NEW c \in Client, NEW p \in DOMAIN held,
           NEW request \in Request, ReallocSame(c, p, request)
    PROVE  HeapOK' /\ HeldOK' /\ CountOK'
<1>1. /\ heap' = heap /\ lfree' = lfree /\ used_mem' = used_mem /\ max_mem' = max_mem
      /\ held' = [held EXCEPT ![p].size = AlignUp(request)]
      /\ AlignUp(request) # 0 /\ AlignUp(request) = Room(heap, p)
  BY DEF ReallocSame, Resized
<1>2. HeapOK' /\ CountOK'
  BY <1>1 DEF HeapOK, CountOK
<1>3. AlignUp(request) \in Nat /\ 1 <= AlignUp(request)
  BY <1>1, RequestOK
<1>4. /\ held = [y \in UsedBlocks(heap) |-> held[y]] /\ p \in UsedBlocks(heap)
      /\ held[p] \in [client : Client, size : Nat]
  BY DEF HeldOK, HeldIn
<1>5. /\ held' = [y \in UsedBlocks(heap) |-> held'[y]]
      /\ held'[p] = [held[p] EXCEPT !.size = AlignUp(request)]
      /\ \A x \in UsedBlocks(heap) \ {p} : held'[x] = held[x]
  BY <1>1, <1>4
<1>6. held'[p] \in [client : Client, size : Nat] /\ held'[p].size = AlignUp(request)
  BY <1>3, <1>4, <1>5
<1>7. p + SIZEOF_STRUCT_MEM + held'[p].size <= heap[p].next
  <2>1. p \in DOMAIN heap
    BY <1>4 DEF UsedBlocks, BlocksOf
  <2>2. p \in Nat /\ heap[p].next \in Nat
    BY <2>1, ShapeTypes DEF HeapOK
  <2>3. held'[p].size = heap[p].next - (p + SIZEOF_STRUCT_MEM)
    BY <1>1, <1>6 DEF Room
  <2>. QED BY <2>2, <2>3, Sizes
<1>8. HeldOK'
  <2>1. ASSUME NEW x \in UsedBlocks(heap)
        PROVE  /\ held'[x] \in [client : Client, size : Nat]
               /\ 1 <= held'[x].size
               /\ x + SIZEOF_STRUCT_MEM + held'[x].size <= heap[x].next
    <3>1. CASE x = p
      BY <3>1, <1>3, <1>6, <1>7
    <3>2. CASE x # p
      BY <3>2, <1>5 DEF HeldOK, HeldIn
    <3>. QED BY <3>1, <3>2
  <2>. QED BY <2>1, <1>1, <1>5 DEF HeldOK, HeldIn
<1>. QED BY <1>2, <1>8

-----------------------------------------------------------------------------
(* Every step keeps the invariant *)

\* What a step does to the blocks that are held: one is given to client c, one
\* is released, one changes its size, or nothing.
Gives(c, p, size) ==
    /\ p \notin DOMAIN held
    /\ held' = [q \in DOMAIN held \cup {p} |->
                  IF q = p THEN [client |-> c, size |-> size] ELSE held[q]]

Releases(p) == p \in DOMAIN held /\ held' = [q \in DOMAIN held \ {p} |-> held[q]]

Resizes(p, size) == p \in DOMAIN held /\ held' = [held EXCEPT ![p].size = size]

HeldStep ==
    \/ \E c \in Client, p \in Nat, size \in Nat : Gives(c, p, size)
    \/ \E p \in DOMAIN held : Releases(p)
    \/ \E p \in DOMAIN held, size \in Nat : Resizes(p, size)
    \/ held' = held

Moves == [step : {"none", "malloc", "free"}, old : Nat, size : Nat]

\* A step of client c that takes no block from another client keeps MoveOK.
LEMMA MoveStep ==
    ASSUME MoveOK, NEW c \in Client, NEW m \in Moves, move' = [move EXCEPT ![c] = m],
           m.step # "none" => m.old \in DOMAIN held' /\ held'[m.old].client = c,
           \A d \in Client \ {c} : \A p \in DOMAIN held :
              held[p].client = d => p \in DOMAIN held' /\ held'[p].client = d
    PROVE  MoveOK'
<1>1. move \in [Client -> Moves]
  BY DEF MoveOK, Moves
<1>2. move' \in [Client -> Moves] /\ move'[c] = m
  BY <1>1
<1>3. ASSUME NEW d \in Client, move'[d].step # "none"
      PROVE  move'[d].old \in DOMAIN held' /\ held'[move'[d].old].client = d
  <2>1. CASE d = c
    BY <2>1, <1>2, <1>3
  <2>2. CASE d # c
    <3>1. move'[d] = move[d]
      BY <2>2, <1>1
    <3>2. move[d].old \in DOMAIN held /\ held[move[d].old].client = d
      BY <3>1, <1>3 DEF MoveOK, Holds
    <3>. QED BY <3>1, <3>2, <2>2
  <2>. QED BY <2>1, <2>2
<1>. QED BY <1>2, <1>3 DEF MoveOK, Moves, Holds

\* The same when the step does not touch move.
LEMMA MoveSame ==
    ASSUME MoveOK, NEW c \in Client, move[c] = NoMove, move' = move,
           \A d \in Client \ {c} : \A p \in DOMAIN held :
              held[p].client = d => p \in DOMAIN held' /\ held'[p].client = d
    PROVE  MoveOK'
<1>1. move = [d \in Client |-> move[d]]
  BY DEF MoveOK
<1>2. move' = [move EXCEPT ![c] = NoMove]
  BY <1>1
<1>3. NoMove \in Moves /\ NoMove.step = "none"
  BY DEF NoMove, Moves
<1>. QED BY <1>2, <1>3, MoveStep

\* Giving a block away takes none from its holder.
LEMMA GivesKeeps ==
    ASSUME NEW c \in Client, NEW p, NEW size, Gives(c, p, size)
    PROVE  \A q \in DOMAIN held : q \in DOMAIN held' /\ held'[q] = held[q]
BY DEF Gives

\* Releasing a block takes only that one.
LEMMA ReleasesKeeps ==
    ASSUME NEW p, Releases(p)
    PROVE  \A q \in DOMAIN held \ {p} : q \in DOMAIN held' /\ held'[q] = held[q]
BY DEF Releases

\* A change of size does not change the holder.
LEMMA ResizesKeeps ==
    ASSUME HeldOK, NEW p, NEW size, Resizes(p, size)
    PROVE  \A q \in DOMAIN held : q \in DOMAIN held' /\ held'[q].client = held[q].client
<1>1. DOMAIN held = UsedBlocks(heap) /\ held = [q \in DOMAIN held |-> held[q]]
  BY DEF HeldOK, HeldIn
<1>2. p \in DOMAIN held /\ held[p] \in [client : Client, size : Nat]
  BY <1>1 DEF Resizes, HeldOK, HeldIn
<1>3. /\ DOMAIN held' = DOMAIN held
      /\ held'[p] = [held[p] EXCEPT !.size = size]
      /\ \A q \in DOMAIN held : q # p => held'[q] = held[q]
  BY <1>1, <1>2 DEF Resizes
<1>4. held'[p].client = held[p].client
  BY <1>2, <1>3
<1>. QED BY <1>3, <1>4

\* The lowest candidate is a candidate.
LEMMA CandidateOK ==
    ASSUME HeapOK, NEW size, Candidates(size) # {}
    PROVE  Min(Candidates(size)) \in Candidates(size)
<1>1. Candidates(size) \subseteq DOMAIN heap
  BY DEF Candidates
<1>2. \A p \in DOMAIN heap : p \in Nat
  BY ShapeTypes DEF HeapOK
<1>3. Candidates(size) \in SUBSET Nat
  BY <1>1, <1>2
<1>. QED BY <1>3, MinOK

\* rt_malloc keeps the invariant, and gives a block.
LEMMA MallocStep ==
    ASSUME IInv, NEW c \in Client, NEW request \in Request, Malloc(c, request)
    PROVE  IInv' /\ HeldStep
<1>1. PICK size : size = Granted(request)
  OBVIOUS
<1>2. PICK p : p = Min(Candidates(size))
  OBVIOUS
<1>3. /\ move[c] = NoMove /\ Candidates(size) # {} /\ TakeBlock(p, size) /\ move' = move
      /\ held' = [q \in DOMAIN held \cup {p} |->
                    IF q = p THEN [client |-> c, size |-> size] ELSE held[q]]
  BY <1>1, <1>2 DEF Malloc
<1>4. request \in Nat
  BY HeapAssumption
<1>5. size \in Nat /\ Aligned(size) /\ RT_ALIGN_SIZE <= size
  BY <1>1, <1>4, GrantedOK
<1>6. HeapOK /\ HeldOK /\ CountOK /\ MoveOK
  BY DEF IInv
<1>7. p \in Candidates(size)
  BY <1>2, <1>3, <1>6, CandidateOK
<1>8. HeapOK' /\ HeldOK' /\ CountOK' /\ p \notin DOMAIN held /\ p \in Nat
  BY <1>3, <1>5, <1>6, <1>7, TakeOK
<1>9. Gives(c, p, size)
  BY <1>3, <1>8 DEF Gives
<1>10. MoveOK'
  <2>1. \A q \in DOMAIN held : q \in DOMAIN held' /\ held'[q] = held[q]
    BY <1>9, GivesKeeps
  <2>. QED BY <2>1, <1>3, <1>6, MoveSame
<1>11. HeldStep
  BY <1>5, <1>8, <1>9 DEF HeldStep
<1>. QED BY <1>8, <1>10, <1>11 DEF IInv

\* rt_free keeps the invariant, and releases a block.
LEMMA FreeStep ==
    ASSUME IInv, NEW c \in Client, NEW p \in DOMAIN held, Free(c, p)
    PROVE  IInv' /\ HeldStep
<1>1. HeapOK /\ HeldOK /\ CountOK /\ MoveOK
  BY DEF IInv
<1>2. move[c] = NoMove /\ held[p].client = c /\ FreeBlock(p) /\ move' = move
  BY DEF Free, Holds
<1>3. HeapOK' /\ HeldOK' /\ CountOK'
  BY <1>1, <1>2, FreeOK
<1>4. Releases(p)
  BY <1>2 DEF Releases, FreeBlock
<1>5. MoveOK'
  <2>1. \A q \in DOMAIN held \ {p} : q \in DOMAIN held' /\ held'[q] = held[q]
    BY <1>4, ReleasesKeeps
  <2>. QED BY <2>1, <1>1, <1>2, MoveSame
<1>6. HeldStep
  BY <1>4 DEF HeldStep
<1>. QED BY <1>3, <1>5, <1>6 DEF IInv

\* rt_realloc to the size of the block keeps the invariant.
LEMMA SameStep ==
    ASSUME IInv, NEW c \in Client, NEW p \in DOMAIN held, NEW request \in Request,
           ReallocSame(c, p, request)
    PROVE  IInv' /\ HeldStep
<1>1. HeapOK /\ HeldOK /\ CountOK /\ MoveOK
  BY DEF IInv
<1>2. /\ move[c] = NoMove /\ AlignUp(request) # 0 /\ move' = move
      /\ held' = [held EXCEPT ![p].size = AlignUp(request)]
  BY DEF ReallocSame, Resized
<1>3. HeapOK' /\ HeldOK' /\ CountOK'
  BY <1>1, SameOK
<1>4. Resizes(p, AlignUp(request)) /\ AlignUp(request) \in Nat
  BY <1>2, RequestOK DEF Resizes
<1>5. MoveOK'
  <2>1. \A q \in DOMAIN held : q \in DOMAIN held' /\ held'[q].client = held[q].client
    BY <1>1, <1>4, ResizesKeeps
  <2>. QED BY <2>1, <1>1, <1>2, MoveSame
<1>6. HeldStep
  BY <1>4 DEF HeldStep
<1>. QED BY <1>3, <1>5, <1>6 DEF IInv

\* rt_realloc that cuts a block keeps the invariant.
LEMMA ShrinkStep ==
    ASSUME IInv, NEW c \in Client, NEW p \in DOMAIN held, NEW request \in Request,
           ReallocShrink(c, p, request)
    PROVE  IInv' /\ HeldStep
<1>1. HeapOK /\ HeldOK /\ CountOK /\ MoveOK
  BY DEF IInv
<1>2. /\ move[c] = NoMove /\ AlignUp(request) # 0 /\ move' = move
      /\ held' = [held EXCEPT ![p].size = AlignUp(request)]
  BY DEF ReallocShrink, Resized
<1>3. HeapOK' /\ HeldOK' /\ CountOK'
  BY <1>1, ShrinkOK
<1>4. Resizes(p, AlignUp(request)) /\ AlignUp(request) \in Nat
  BY <1>2, RequestOK DEF Resizes
<1>5. MoveOK'
  <2>1. \A q \in DOMAIN held : q \in DOMAIN held' /\ held'[q].client = held[q].client
    BY <1>1, <1>4, ResizesKeeps
  <2>. QED BY <2>1, <1>1, <1>2, MoveSame
<1>6. HeldStep
  BY <1>4 DEF HeldStep
<1>. QED BY <1>3, <1>5, <1>6 DEF IInv

\* What does not touch the heap keeps what is said of it.
LEMMA HeapSame ==
    ASSUME HeapOK, HeldOK, CountOK, UNCHANGED <<heap, lfree, used_mem, max_mem, held>>
    PROVE  HeapOK' /\ HeldOK' /\ CountOK'
BY DEF HeapOK, HeldOK, HeldIn, CountOK

\* rt_realloc that unlocks the heap to move a block keeps the invariant.
LEMMA MoveAway ==
    ASSUME IInv, NEW c \in Client, NEW p \in DOMAIN held, NEW request \in Request,
           ReallocMove(c, p, request)
    PROVE  IInv' /\ HeldStep
<1>1. HeapOK /\ HeldOK /\ CountOK /\ MoveOK
  BY DEF IInv
<1>2. PICK m : m = [step |-> "malloc", old |-> p, size |-> AlignUp(request)]
  OBVIOUS
<1>3. /\ AlignUp(request) # 0 /\ held[p].client = c
      /\ move' = [move EXCEPT ![c] = m]
      /\ UNCHANGED <<heap, lfree, used_mem, max_mem, held>>
  BY <1>2 DEF ReallocMove, Holds
<1>4. HeapOK' /\ HeldOK' /\ CountOK'
  BY <1>1, <1>3, HeapSame
<1>5. AlignUp(request) \in Nat
  BY <1>3, RequestOK
<1>6. p \in Nat
  <2>1. p \in DOMAIN heap
    BY <1>1 DEF HeldOK, HeldIn, UsedBlocks, BlocksOf
  <2>. QED BY <2>1, <1>1, ShapeTypes DEF HeapOK
<1>7. m \in Moves /\ m.old = p
  BY <1>2, <1>5, <1>6 DEF Moves
<1>8. held' = held
  BY <1>3
<1>9. MoveOK'
  BY <1>1, <1>3, <1>7, <1>8, MoveStep
<1>. QED BY <1>4, <1>8, <1>9 DEF IInv, HeldStep

\* The allocation inside rt_realloc keeps the invariant.
LEMMA MoveMallocStep ==
    ASSUME IInv, NEW c \in Client, MoveMalloc(c)
    PROVE  IInv' /\ HeldStep
<1>1. HeapOK /\ HeldOK /\ CountOK /\ MoveOK
  BY DEF IInv
<1>2. /\ move \in [Client -> Moves] /\ move[c] \in Moves /\ move[c].step = "malloc"
      /\ move[c].size \in Nat /\ move[c].old \in Nat
  BY <1>1 DEF MoveMalloc, MoveOK, Moves
<1>3. move[c].old \in DOMAIN held /\ held[move[c].old].client = c
  BY <1>1, <1>2 DEF MoveOK, Holds
<1>4. PICK size : size = Granted(move[c].size)
  OBVIOUS
<1>5. CASE Candidates(size) = {}
  <2>1. move' = [move EXCEPT ![c] = NoMove] /\ UNCHANGED <<heap, lfree, used_mem, max_mem, held>>
    BY <1>4, <1>5 DEF MoveMalloc
  <2>2. HeapOK' /\ HeldOK' /\ CountOK'
    BY <2>1, <1>1, HeapSame
  <2>3. NoMove \in Moves /\ NoMove.step = "none"
    BY DEF NoMove, Moves
  <2>4. held' = held
    BY <2>1
  <2>5. MoveOK'
    BY <2>1, <2>3, <2>4, <1>1, MoveStep
  <2>. QED BY <2>2, <2>4, <2>5 DEF IInv, HeldStep
<1>6. CASE Candidates(size) # {}
  <2>1. PICK p : p = Min(Candidates(size))
    OBVIOUS
  <2>2. /\ TakeBlock(p, size)
        /\ held' = [q \in DOMAIN held \cup {p} |->
                      IF q = p THEN [client |-> c, size |-> size] ELSE held[q]]
        /\ move' = [move EXCEPT ![c].step = "free"]
    BY <2>1, <1>4, <1>6 DEF MoveMalloc
  <2>3. size \in Nat /\ Aligned(size) /\ RT_ALIGN_SIZE <= size
    BY <1>2, <1>4, GrantedOK
  <2>4. p \in Candidates(size)
    BY <2>1, <1>1, <1>6, CandidateOK
  <2>5. HeapOK' /\ HeldOK' /\ CountOK' /\ p \notin DOMAIN held /\ p \in Nat
    BY <2>2, <2>3, <2>4, <1>1, TakeOK
  <2>6. Gives(c, p, size)
    BY <2>2, <2>5 DEF Gives
  <2>7. \A q \in DOMAIN held : q \in DOMAIN held' /\ held'[q] = held[q]
    BY <2>6, GivesKeeps
  <2>8. PICK m : m = [move[c] EXCEPT !.step = "free"]
    OBVIOUS
  <2>9. m \in Moves /\ m.old = move[c].old
    BY <2>8, <1>2 DEF Moves
  <2>10. move' = [move EXCEPT ![c] = m]
    BY <2>2, <2>8, <1>2
  <2>11. MoveOK'
    BY <2>7, <2>9, <2>10, <1>1, <1>3, MoveStep
  <2>12. HeldStep
    BY <2>3, <2>5, <2>6 DEF HeldStep
  <2>. QED BY <2>5, <2>11, <2>12 DEF IInv
<1>. QED BY <1>5, <1>6

\* The release inside rt_realloc frees a block that is still its client's.
LEMMA MoveFreeStep ==
    ASSUME IInv, NEW c \in Client, MoveFree(c)
    PROVE  IInv' /\ HeldStep
<1>1. HeapOK /\ HeldOK /\ CountOK /\ MoveOK
  BY DEF IInv
<1>2. PICK p : p = move[c].old
  OBVIOUS
<1>3. move[c].step = "free" /\ FreeBlock(p) /\ move' = [move EXCEPT ![c] = NoMove]
  BY <1>2 DEF MoveFree
<1>4. p \in DOMAIN held /\ held[p].client = c
  BY <1>1, <1>2, <1>3 DEF MoveOK, Holds
<1>5. HeapOK' /\ HeldOK' /\ CountOK'
  BY <1>1, <1>3, <1>4, FreeOK
<1>6. Releases(p)
  BY <1>3, <1>4 DEF Releases, FreeBlock
<1>7. \A q \in DOMAIN held \ {p} : q \in DOMAIN held' /\ held'[q] = held[q]
  BY <1>6, ReleasesKeeps
<1>8. NoMove \in Moves /\ NoMove.step = "none"
  BY DEF NoMove, Moves
<1>9. MoveOK'
  BY <1>1, <1>3, <1>4, <1>7, <1>8, MoveStep
<1>10. HeldStep
  BY <1>4, <1>6 DEF HeldStep
<1>. QED BY <1>5, <1>9, <1>10 DEF IInv

\* Every step keeps the invariant and changes what is held in one of four ways.
LEMMA NextOK == IInv /\ [Next]_vars => IInv' /\ HeldStep
<1>. SUFFICES ASSUME IInv, [Next]_vars PROVE IInv' /\ HeldStep
  OBVIOUS
<1>1. CASE UNCHANGED vars
  <2>1. heap' = heap /\ lfree' = lfree /\ used_mem' = used_mem /\ max_mem' = max_mem
        /\ held' = held /\ move' = move
    BY <1>1 DEF vars
  <2>2. HeapOK' /\ HeldOK' /\ CountOK'
    BY <2>1, HeapSame DEF IInv
  <2>3. MoveOK'
    BY <2>1 DEF IInv, MoveOK, Holds
  <2>. QED BY <2>1, <2>2, <2>3 DEF IInv, HeldStep
<1>2. CASE Next
  <2>1. PICK c \in Client :
          \/ MoveMalloc(c)
          \/ MoveFree(c)
          \/ \E request \in Request : Malloc(c, request)
          \/ \E p \in DOMAIN held :
               \/ Free(c, p)
               \/ \E request \in Request :
                    \/ ReallocSame(c, p, request)
                    \/ ReallocShrink(c, p, request)
                    \/ ReallocMove(c, p, request)
    BY <1>2 DEF Next
  <2>. QED BY <2>1, MoveMallocStep, MoveFreeStep, MallocStep, FreeStep, SameStep,
              ShrinkStep, MoveAway
<1>. QED BY <1>1, <1>2

\* The inductive invariant holds in every state of the heap.
THEOREM Inductive == Spec => []IInv
<1>1. IInv /\ [Next]_vars => IInv'
  BY NextOK
<1>. QED BY InitOK, <1>1, PTL DEF Spec

-----------------------------------------------------------------------------
(* The invariants of the runs *)

\* The chain of headers is sound: blocks follow each other without gaps or
\* overlap, the used ones are those the clients hold, and no two free blocks
\* are neighbours.
THEOREM ChainAlwaysSound == Spec => []ChainSound
<1>1. IInv => ChainSound
  <2>. SUFFICES ASSUME IInv PROVE ChainSound
    OBVIOUS
  <2>1. Shape(heap) /\ Joined(heap) /\ HeldOK
    BY DEF IInv, HeapOK
  <2>2. Blocks = BlocksOf(heap)
    BY DEF Blocks, BlocksOf
  <2>3. 0 \in Blocks /\ End \in DOMAIN heap /\ heap[0].prev = 0
    BY <2>1, Sizes DEF Blocks, Shape, Links
  <2>4. ASSUME NEW p \in Blocks
        PROVE  /\ heap[p].next = Min({q \in DOMAIN heap : q > p})
               /\ Room(heap, p) >= RT_ALIGN_SIZE
               /\ heap[p].next # End => heap[heap[p].next].prev = p
    <3> DEFINE T == {q \in DOMAIN heap : q > p}
    <3>1. /\ heap[p].next \in DOMAIN heap
          /\ p + SIZEOF_STRUCT_MEM + RT_ALIGN_SIZE <= heap[p].next
          /\ \A q \in DOMAIN heap : q <= p \/ heap[p].next <= q
          /\ heap[p].next # End => heap[heap[p].next].prev = p
      BY <2>1, <2>2 DEF Shape, Links
    <3>2. \A q \in DOMAIN heap : q \in Nat
      BY <2>1, ShapeTypes
    <3>3. p \in Nat /\ heap[p].next \in Nat
      BY <3>1, <3>2 DEF Blocks
    <3>4. heap[p].next \in T /\ T \in SUBSET Nat
      BY <3>1, <3>2, <3>3, Sizes
    <3>5. \A x \in T : heap[p].next <= x
      BY <3>1, <3>2, <3>3
    <3>6. Min(T) = heap[p].next
      BY <3>4, <3>5, MinIs
    <3>7. Room(heap, p) >= RT_ALIGN_SIZE
      BY <3>1, <3>3, Sizes DEF Room
    <3>. QED BY <3>1, <3>6, <3>7
  <2>5. DOMAIN held = {p \in Blocks : heap[p].used}
    BY <2>1, <2>2 DEF HeldOK, HeldIn, UsedBlocks
  <2>6. ASSUME NEW p \in DOMAIN held PROVE held[p].size <= Room(heap, p)
    <3>1. p \in DOMAIN heap /\ p \in UsedBlocks(heap)
      BY <2>1 DEF HeldOK, HeldIn, UsedBlocks, BlocksOf
    <3>2. p \in Nat /\ heap[p].next \in Nat
      BY <2>1, <3>1, ShapeTypes
    <3>3. held[p].size \in Nat /\ p + SIZEOF_STRUCT_MEM + held[p].size <= heap[p].next
      BY <2>1, <3>1 DEF HeldOK, HeldIn
    <3>. QED BY <3>2, <3>3, Sizes DEF Room
  <2>7. NoFreeNeighbours
    BY <2>1, <2>2 DEF NoFreeNeighbours, Joined, FreeBlocks
  <2>. QED BY <2>3, <2>4, <2>5, <2>6, <2>7 DEF ChainSound
<1>. QED BY <1>1, Inductive, PTL

\* used_mem is the number of bytes in the used blocks after every rt_malloc,
\* rt_free and rt_realloc, and max_mem its maximum so far.
THEOREM UsedMemAlwaysCounts == Spec => []UsedMemCounts
<1>1. IInv => UsedMemCounts
  <2>. SUFFICES ASSUME IInv PROVE UsedMemCounts
    OBVIOUS
  <2>1. UsedBlocks(heap) = {q \in Blocks : heap[q].used}
    BY DEF UsedBlocks, Blocks, BlocksOf
  <2>2. UsedBytes(heap) =
          UNION {p .. heap[p].next - 1 : p \in {q \in Blocks : heap[q].used}}
    BY <2>1 DEF UsedBytes, BytesOf
  <2>. QED BY <2>2 DEF IInv, CountOK, UsedMemCounts
<1>. QED BY <1>1, Inductive, PTL

\* lfree never hides a free block from the search of rt_malloc: it refuses a
\* request only when no free block is large enough, but for one that would end
\* exactly at heap_end.
THEOREM NoBlockMissed == Spec => []NoMissedBlock
<1>1. IInv => NoMissedBlock
  <2>. SUFFICES ASSUME IInv, NEW request \in Request \ {0},
                       Candidates(Granted(request)) = {},
                       NEW p \in Blocks, ~heap[p].used,
                       Room(heap, p) >= Granted(request)
                PROVE  p = mem_size_aligned - Granted(request)
    BY DEF NoMissedBlock
  <2>1. PICK size : size = Granted(request)
    OBVIOUS
  <2>2. size \in Nat
    <3>1. request \in Nat
      BY HeapAssumption
    <3>. QED BY <3>1, <2>1, GrantedOK
  <2>3. Shape(heap) /\ p \in BlocksOf(heap) /\ p \in FreeBlocks(heap) /\ lfree <= p
    BY DEF IInv, HeapOK, Low, FreeBlocks, Blocks, BlocksOf
  <2>4. p \in DOMAIN heap
    BY DEF Blocks
  <2>5. p \in Nat /\ heap[p].next \in Nat /\ heap[p].next <= End
    BY <2>3, BlockBytes
  <2>6. ~(p < mem_size_aligned - size)
    BY <2>1, <2>3, <2>4 DEF Candidates
  <2>7. p + SIZEOF_STRUCT_MEM + size <= mem_size_aligned + SIZEOF_STRUCT_MEM
    BY <2>1, <2>2, <2>5, Sizes DEF Room, End
  <2>. QED BY <2>1, <2>2, <2>5, <2>6, <2>7, Sizes
<1>. QED BY <1>1, Inductive, PTL

-----------------------------------------------------------------------------
(* The heap implements an allocator *)

RegionOf(g, p) == [client |-> g[p].client, addr |-> p + SIZEOF_STRUCT_MEM, size |-> g[p].size]

RegionsOf(g) == {RegionOf(g, p) : p \in DOMAIN g}

\* The region of a block lies in the heap.
LEMMA RegionInside ==
    ASSUME NEW h, NEW g, Shape(h), HeldIn(h, g), NEW p \in DOMAIN g
    PROVE  /\ RegionOf(g, p) \in Abstract!Region
           /\ p \in Nat /\ g[p].size \in Nat /\ g[p].size \in 1 .. End
           /\ g[p].client \in Client
           /\ p + SIZEOF_STRUCT_MEM + g[p].size <= h[p].next
           /\ p + SIZEOF_STRUCT_MEM + g[p].size <= End
           /\ p \in BlocksOf(h)
<1>1. p \in UsedBlocks(h) /\ p \in BlocksOf(h) /\ Shape(h)
  BY DEF HeldIn, UsedBlocks
<1>2. p \in Nat /\ h[p].next \in Nat /\ h[p].next <= End
  BY <1>1, BlockBytes
<1>3. g[p].size \in Nat /\ g[p].client \in Client /\ 1 <= g[p].size
      /\ p + SIZEOF_STRUCT_MEM + g[p].size <= h[p].next
  BY <1>1 DEF HeldIn
<1>4. p + SIZEOF_STRUCT_MEM + g[p].size <= End
  BY <1>2, <1>3, Sizes
<1>5. p + SIZEOF_STRUCT_MEM \in 0 .. End /\ g[p].size \in 1 .. End
  BY <1>2, <1>3, <1>4, Sizes
<1>6. RegionOf(g, p) \in Abstract!Region
  BY <1>3, <1>5 DEF RegionOf, Abstract!Region
<1>. QED BY <1>1, <1>2, <1>3, <1>4, <1>5, <1>6

\* The regions of two blocks do not overlap.
LEMMA RegionsApart ==
    ASSUME NEW h, NEW g, Shape(h), HeldIn(h, g),
           NEW p \in DOMAIN g, NEW q \in DOMAIN g, p # q
    PROVE  Abstract!Apart(RegionOf(g, p), RegionOf(g, q))
<1>1. /\ p \in Nat /\ g[p].size \in Nat /\ p \in BlocksOf(h)
      /\ p + SIZEOF_STRUCT_MEM + g[p].size <= h[p].next
      /\ q \in Nat /\ g[q].size \in Nat /\ q \in BlocksOf(h)
      /\ q + SIZEOF_STRUCT_MEM + g[q].size <= h[q].next
  BY RegionInside
<1>2. h[p].next <= q \/ h[q].next <= p
  BY <1>1, BlocksApart
<1>3. h[p].next \in Nat /\ h[q].next \in Nat
  BY <1>1, BlockBytes
<1>4. \/ p + SIZEOF_STRUCT_MEM + g[p].size <= q + SIZEOF_STRUCT_MEM
      \/ q + SIZEOF_STRUCT_MEM + g[q].size <= p + SIZEOF_STRUCT_MEM
  BY <1>1, <1>2, <1>3, Sizes
<1>. QED BY <1>4 DEF Abstract!Apart, RegionOf

\* Different blocks have different regions.
LEMMA RegionsDiffer ==
    ASSUME NEW h, NEW g, Shape(h), HeldIn(h, g),
           NEW p \in DOMAIN g, NEW q \in DOMAIN g,
           RegionOf(g, p) = RegionOf(g, q)
    PROVE  p = q
<1>1. p \in Nat /\ q \in Nat
  BY RegionInside
<1>2. p + SIZEOF_STRUCT_MEM = q + SIZEOF_STRUCT_MEM
  BY DEF RegionOf
<1>. QED BY <1>1, <1>2, Sizes

\* Giving a block is an allocation.
LEMMA GivesMaps ==
    ASSUME Shape(heap'), HeldIn(heap', held'), NEW c \in Client, NEW p, NEW size, Gives(c, p, size)
    PROVE  Abstract!Next
<1>1. /\ DOMAIN held' = DOMAIN held \cup {p} /\ p \notin DOMAIN held /\ p \in DOMAIN held'
      /\ \A q \in DOMAIN held : held'[q] = held[q]
  BY DEF Gives
<1>2. \A q \in DOMAIN held : RegionOf(held', q) = RegionOf(held, q)
  BY <1>1 DEF RegionOf
<1>3. RegionsOf(held') = RegionsOf(held) \cup {RegionOf(held', p)}
  BY <1>1, <1>2 DEF RegionsOf
<1>4. RegionOf(held', p) \in Abstract!Region /\ Abstract!Inside(RegionOf(held', p))
  <2>1. RegionOf(held', p) \in Abstract!Region
        /\ p + SIZEOF_STRUCT_MEM + held'[p].size <= End
    BY <1>1, RegionInside
  <2>. QED BY <2>1 DEF Abstract!Inside, RegionOf
<1>5. \A s \in RegionsOf(held) : Abstract!Apart(RegionOf(held', p), s)
  <2>1. SUFFICES ASSUME NEW q \in DOMAIN held
                 PROVE  Abstract!Apart(RegionOf(held', p), RegionOf(held, q))
    BY DEF RegionsOf
  <2>2. q \in DOMAIN held' /\ q # p
    BY <1>1
  <2>. QED BY <1>1, <1>2, <2>2, RegionsApart
<1>. QED BY <1>3, <1>4, <1>5 DEF Abstract!Next, Abstract!Allocate, RegionsOf, RegionOf

\* Releasing a block releases its region.
LEMMA ReleasesMaps ==
    ASSUME Shape(heap), HeldIn(heap, held), NEW p, Releases(p)
    PROVE  Abstract!Next
<1>1. /\ p \in DOMAIN held /\ DOMAIN held' = DOMAIN held \ {p}
      /\ \A q \in DOMAIN held' : held'[q] = held[q]
  BY DEF Releases
<1>2. \A q \in DOMAIN held' : RegionOf(held', q) = RegionOf(held, q)
  BY <1>1 DEF RegionOf
<1>3. RegionOf(held, p) \in RegionsOf(held)
  BY <1>1 DEF RegionsOf
<1>4. \A q \in DOMAIN held : q # p => RegionOf(held, q) # RegionOf(held, p)
  BY <1>1, RegionsDiffer
<1>5. RegionsOf(held') = RegionsOf(held) \ {RegionOf(held, p)}
  BY <1>1, <1>2, <1>4 DEF RegionsOf
<1>. QED BY <1>3, <1>5 DEF Abstract!Next, Abstract!Release, RegionsOf, RegionOf

\* A change of size resizes the region.
LEMMA ResizesMaps ==
    ASSUME Shape(heap), HeldIn(heap, held), Shape(heap'), HeldIn(heap', held'),
           NEW p, NEW size, Resizes(p, size)
    PROVE  Abstract!Next
<1>1. p \in DOMAIN held /\ held[p] \in [client : Client, size : Nat]
      /\ held = [q \in DOMAIN held |-> held[q]]
  BY DEF Resizes, HeldIn
<1>2. /\ DOMAIN held' = DOMAIN held
      /\ held'[p] = [held[p] EXCEPT !.size = size]
      /\ \A q \in DOMAIN held \ {p} : held'[q] = held[q]
  BY <1>1 DEF Resizes
<1>3. \A q \in DOMAIN held \ {p} : RegionOf(held', q) = RegionOf(held, q)
  BY <1>2 DEF RegionOf
<1>4. PICK r : r = RegionOf(held, p)
  OBVIOUS
<1>5. PICK s : s = [r EXCEPT !.size = size]
  OBVIOUS
<1>6. s = RegionOf(held', p) /\ held'[p].size = size
  BY <1>1, <1>2, <1>4, <1>5 DEF RegionOf
<1>7. r \in RegionsOf(held)
  BY <1>1, <1>4 DEF RegionsOf
<1>8. \A q \in DOMAIN held : q # p => RegionOf(held, q) # r
  BY <1>1, <1>4, RegionsDiffer
<1>9. RegionsOf(held') = (RegionsOf(held) \ {r}) \cup {s}
  <2>1. RegionsOf(held) \ {r} = {RegionOf(held, q) : q \in DOMAIN held \ {p}}
    BY <1>4, <1>8 DEF RegionsOf
  <2>2. RegionsOf(held') = {RegionOf(held', q) : q \in DOMAIN held \ {p}} \cup {s}
    BY <1>1, <1>2, <1>6 DEF RegionsOf
  <2>3. {RegionOf(held', q) : q \in DOMAIN held \ {p}} =
          {RegionOf(held, q) : q \in DOMAIN held \ {p}}
    BY <1>3
  <2>. QED BY <2>1, <2>2, <2>3
<1>10. size \in 1 .. End /\ Abstract!Inside(s)
  <2>1. p \in DOMAIN held'
    BY <1>1, <1>2
  <2>2. held'[p].size \in 1 .. End /\ p + SIZEOF_STRUCT_MEM + held'[p].size <= End
    BY <2>1, RegionInside
  <2>. QED BY <2>2, <1>6 DEF Abstract!Inside, RegionOf
<1>11. \A t \in RegionsOf(held) \ {r} : Abstract!Apart(s, t)
  <2>1. SUFFICES ASSUME NEW q \in DOMAIN held, q # p
                 PROVE  Abstract!Apart(s, RegionOf(held, q))
    BY <1>4 DEF RegionsOf
  <2>2. q \in DOMAIN held' /\ p \in DOMAIN held'
    BY <1>1, <1>2
  <2>3. Abstract!Apart(RegionOf(held', p), RegionOf(held', q))
    BY <2>1, <2>2, RegionsApart
  <2>. QED BY <2>1, <2>3, <1>3, <1>6
<1>. QED BY <1>5, <1>7, <1>9, <1>10, <1>11
         DEF Abstract!Next, Abstract!Resize, RegionsOf, RegionOf

\* The heap implements the allocator: what the clients hold is always a set of
\* disjoint regions inside the heap, and a step adds one, releases one or
\* resizes one in place; in between, the regions of the others do not change,
\* also while an rt_realloc that has unlocked the heap is moving a block.
THEOREM HeapImplementsAllocator == Spec => ImplementsAllocator
<1>1. Init => Abstract!Init
  BY DEF Init, Abstract!Init
<1>2. IInv /\ IInv' /\ HeldStep => [Abstract!Next]_(RegionsOf(held))
  <2>. SUFFICES ASSUME IInv, IInv', HeldStep
                PROVE  Abstract!Next \/ RegionsOf(held)' = RegionsOf(held)
    OBVIOUS
  <2>1. /\ Shape(heap) /\ HeldIn(heap, held)
        /\ Shape(heap') /\ HeldIn(heap', held')
    BY DEF IInv, HeapOK, HeldOK
  <2>2. CASE held' = held
    BY <2>2
  <2>3. CASE \E c \in Client, p \in Nat, size \in Nat : Gives(c, p, size)
    BY <2>1, <2>3, GivesMaps
  <2>4. CASE \E p \in DOMAIN held : Releases(p)
    BY <2>1, <2>4, ReleasesMaps
  <2>5. CASE \E p \in DOMAIN held, size \in Nat : Resizes(p, size)
    BY <2>1, <2>5, ResizesMaps
  <2>. QED BY <2>2, <2>3, <2>4, <2>5 DEF HeldStep
<1>3. IInv /\ IInv' /\ [Next]_vars =>
        [Abstract!Next]_({[client |-> held[p].client, addr |-> p + SIZEOF_STRUCT_MEM,
                           size |-> held[p].size] : p \in DOMAIN held})
  BY <1>2, NextOK DEF RegionsOf, RegionOf
<1>. QED BY <1>1, <1>3, Inductive, PTL DEF Spec, ImplementsAllocator, Abstract!Spec
=============================================================================
