----------------------------- MODULE RtIpcProofs -----------------------------
(***************************************************************************)
(* Proofs about module RtIpc, for any finite set of threads, all           *)
(* priorities, time limits and limits of the mutex and the semaphore, and  *)
(* every range of the tick from 5 values on.                               *)
(***************************************************************************)
EXTENDS RtIpc, WellFoundedInduction, FiniteSetTheorems, SequenceTheorems, TLAPS

-----------------------------------------------------------------------------
(* Least elements *)

\* Every set of naturals that has an element has a least one.
LEMMA LeastNat ==
    ASSUME NEW T \in SUBSET Nat, T # {}
    PROVE  \E n \in T : \A m \in T : n <= m
<1>1. PICK n \in T : \A m \in T : ~(<<m, n>> \in OpToRel(<, Nat))
  BY NatLessThanWellFounded, WFMin
<1>2. \A m \in T : ~(m < n)
  BY <1>1 DEF OpToRel
<1>. QED BY <1>2

-----------------------------------------------------------------------------
(* Lists *)

\* The places of a finite set of numbers can be listed in their order: the least
\* size of a set for which this failed would be that of a set without its least
\* element, plus one.
LEMMA InOrder ==
    ASSUME NEW K \in SUBSET Nat, IsFiniteSet(K)
    PROVE  \E f \in [1 .. Cardinality(K) -> K] :
               \A i, j \in 1 .. Cardinality(K) : i < j => f[i] < f[j]
<1> DEFINE Listed(L) == \E f \in [1 .. Cardinality(L) -> L] :
                            \A i, j \in 1 .. Cardinality(L) : i < j => f[i] < f[j]
           Bad == {n \in Nat : \E L \in SUBSET Nat :
                                  IsFiniteSet(L) /\ Cardinality(L) = n /\ ~Listed(L)}
<1>1. SUFFICES ASSUME Bad # {} PROVE FALSE
  <2>1. Cardinality(K) \in Nat
    BY FS_CardinalityType
  <2>2. Listed(K)
    BY <1>1, <2>1
  <2>. QED BY <2>2
<1>2. PICK n \in Bad : \A m \in Bad : n <= m
  BY <1>1, LeastNat
<1>3. PICK L \in SUBSET Nat : IsFiniteSet(L) /\ Cardinality(L) = n /\ ~Listed(L)
  BY <1>2
<1>4. n # 0
  <2>1. SUFFICES ASSUME n = 0 PROVE Listed(L)
    BY <1>3
  <2>2. L = {} /\ 1 .. Cardinality(L) = {}
    BY <1>3, <2>1, FS_EmptySet
  <2>3. [i \in 1 .. Cardinality(L) |-> 0] \in [1 .. Cardinality(L) -> L]
    BY <2>2
  <2>. QED BY <2>2, <2>3
<1>5. L # {}
  BY <1>3, <1>4, FS_EmptySet
<1>6. PICK k \in L : \A x \in L : k <= x
  BY <1>5, LeastNat
<1> DEFINE R == L \ {k}
<1>7. R \in SUBSET Nat /\ IsFiniteSet(R) /\ Cardinality(R) = n - 1
  BY <1>3, <1>6, FS_RemoveElement
<1>8. n - 1 \in Nat /\ n - 1 \notin Bad
  BY <1>2, <1>4
<1>9. Listed(R)
  BY <1>7, <1>8
<1>10. PICK g \in [1 .. n - 1 -> R] : \A i, j \in 1 .. n - 1 : i < j => g[i] < g[j]
  BY <1>7, <1>9
<1> DEFINE f == [i \in 1 .. n |-> IF i = 1 THEN k ELSE g[i - 1]]
<1>11. f \in [1 .. n -> L]
  <2>1. ASSUME NEW i \in 1 .. n PROVE f[i] \in L
    <3>1. CASE i = 1
      BY <3>1
    <3>2. CASE i # 1
      BY <3>2, <1>8, <1>10
    <3>. QED BY <3>1, <3>2
  <2>. QED BY <2>1
<1>12. ASSUME NEW i \in 1 .. n, NEW j \in 1 .. n, i < j PROVE f[i] < f[j]
  <2>1. j - 1 \in 1 .. n - 1 /\ f[j] = g[j - 1] /\ f[j] \in R
    BY <1>12, <1>8, <1>10
  <2>2. CASE i = 1
    <3>1. f[i] = k /\ k \in Nat /\ f[j] \in Nat /\ k <= f[j] /\ f[j] # k
      BY <2>1, <2>2, <1>6
    <3>. QED BY <3>1
  <2>3. CASE i # 1
    BY <2>1, <2>3, <1>12, <1>8, <1>10
  <2>. QED BY <2>2, <2>3
<1>13. Listed(L)
  BY <1>3, <1>11, <1>12
<1>. QED BY <1>3, <1>13

\* Kept leaves the entries at the places in keep, all of them, in their order.
LEMMA KeptEntries ==
    ASSUME NEW S, NEW list \in Seq(S), NEW keep \in SUBSET (1 .. Len(list))
    PROVE  /\ Cardinality(keep) \in Nat
           /\ Kept(list, keep) \in Seq(S)
           /\ Len(Kept(list, keep)) = Cardinality(keep)
           /\ \E f \in [1 .. Cardinality(keep) -> keep] :
                 /\ \A i, j \in 1 .. Cardinality(keep) : i < j => f[i] < f[j]
                 /\ \A p \in keep : \E i \in 1 .. Cardinality(keep) : f[i] = p
                 /\ \A i \in 1 .. Cardinality(keep) : Kept(list, keep)[i] = list[f[i]]
<1> DEFINE n == Cardinality(keep)
           Rising(f) == \A i, j \in 1 .. n : i < j => f[i] < f[j]
           f == CHOOSE g \in [1 .. n -> keep] : Rising(g)
<1>1. IsFiniteSet(keep) /\ n \in Nat
  <2>1. Len(list) \in Nat /\ IsFiniteSet(1 .. Len(list))
    BY FS_Interval
  <2>. QED BY <2>1, FS_Subset, FS_CardinalityType
<1>2. f \in [1 .. n -> keep] /\ Rising(f)
  <2>1. keep \in SUBSET Nat
    OBVIOUS
  <2>2. \E g \in [1 .. n -> keep] : Rising(g)
    BY <1>1, <2>1, InOrder
  <2>. QED BY <2>2
<1>3. Kept(list, keep) = [i \in 1 .. n |-> list[f[i]]]
  BY DEF Kept
<1>0. \A p \in keep : p \in 1 .. Len(list) /\ p \in Nat
  <2>1. \A p \in 1 .. Len(list) : p \in Nat
    OBVIOUS
  <2>. QED BY <2>1, Zenon
<1>. HIDE DEF f, n, Rising
<1>4. \A p \in keep : \E i \in 1 .. n : f[i] = p
  <2>1. ASSUME NEW a \in 1 .. n, NEW b \in 1 .. n, f[a] = f[b] PROVE a = b
    <3>0. f[a] \in Nat
      BY <1>2, <1>0, Zenon
    <3>1. ~(f[a] < f[b]) /\ ~(f[b] < f[a])
      BY <2>1, <3>0
    <3>2. ~(a < b) /\ ~(b < a)
      BY <1>2, <3>1 DEF Rising
    <3>. QED BY <1>1, <3>2
  <2>2. f \in Injection(1 .. n, keep)
    BY <1>2, <2>1 DEF Injection, IsInjective
  <2>3. Cardinality(1 .. n) = n
    BY <1>1, FS_Interval
  <2>4. f \in Surjection(1 .. n, keep)
    BY <1>1, <2>2, <2>3, FS_Injection DEF n
  <2>. QED BY <2>4 DEF Surjection
<1>5. /\ Kept(list, keep) \in Seq(S) /\ Len(Kept(list, keep)) = n
      /\ \A i \in 1 .. n : Kept(list, keep)[i] = list[f[i]]
  <2>1. ASSUME NEW i \in 1 .. n PROVE list[f[i]] \in S
    <3>1. f[i] \in 1 .. Len(list)
      BY <1>2, <1>0, Zenon
    <3>. QED BY <3>1
  <2>. QED BY <1>1, <1>3, <2>1
<1>. QED BY <1>1, <1>2, <1>4, <1>5 DEF n, Rising

\* A sequence put together from two others and an element.
LEMMA Concat3 ==
    ASSUME NEW S, NEW a \in Seq(S), NEW b \in Seq(S), NEW e \in S
    PROVE  LET r == a \o <<e>> \o b
           IN  /\ r \in Seq(S)
               /\ Len(r) = Len(a) + 1 + Len(b)
               /\ \A j \in 1 .. Len(a) : r[j] = a[j]
               /\ r[Len(a) + 1] = e
               /\ \A j \in 1 .. Len(b) : r[Len(a) + 1 + j] = b[j]
OBVIOUS

\* InsertAt shifts the entries from place i on.
LEMMA InsertAtProps ==
    ASSUME NEW S, NEW s \in Seq(S), NEW e \in S, NEW i \in Int, 1 <= i, i <= Len(s) + 1
    PROVE  /\ InsertAt(s, i, e) \in Seq(S)
           /\ Len(InsertAt(s, i, e)) = Len(s) + 1
           /\ \A j \in 1 .. i - 1 : InsertAt(s, i, e)[j] = s[j]
           /\ InsertAt(s, i, e)[i] = e
           /\ \A j \in i + 1 .. Len(s) + 1 : InsertAt(s, i, e)[j] = s[j - 1]
<1> DEFINE a == SubSeq(s, 1, i - 1)  b == SubSeq(s, i, Len(s))
<1>1. /\ a \in Seq(S) /\ Len(a) = i - 1 /\ \A j \in 1 .. i - 1 : a[j] = s[j]
  OBVIOUS
<1>2. /\ b \in Seq(S) /\ Len(b) = Len(s) - i + 1 /\ \A j \in 1 .. Len(s) - i + 1 : b[j] = s[i + j - 1]
  OBVIOUS
<1> DEFINE r == InsertAt(s, i, e)
<1>3. r = a \o <<e>> \o b
  BY DEF InsertAt
<1>. HIDE DEF a, b, r
<1>4. /\ r \in Seq(S) /\ Len(r) = Len(s) + 1
      /\ \A j \in 1 .. i - 1 : r[j] = a[j]
      /\ r[i] = e
      /\ \A j \in 1 .. Len(s) - i + 1 : r[i + j] = b[j]
  <2>1. a \in Seq(S) /\ b \in Seq(S)
    BY <1>1, <1>2
  <2>2. /\ r \in Seq(S)
        /\ Len(r) = Len(a) + 1 + Len(b)
        /\ \A j \in 1 .. Len(a) : r[j] = a[j]
        /\ r[Len(a) + 1] = e
        /\ \A j \in 1 .. Len(b) : r[Len(a) + 1 + j] = b[j]
    BY <2>1, <1>3, Concat3
  <2>. QED BY <2>2, <1>1, <1>2
<1>5. \A j \in 1 .. i - 1 : r[j] = s[j]
  BY <1>1, <1>4
<1>6. ASSUME NEW j \in i + 1 .. Len(s) + 1 PROVE r[j] = s[j - 1]
  <2>1. j - i \in 1 .. Len(s) - i + 1
    OBVIOUS
  <2>2. r[i + (j - i)] = b[j - i] /\ b[j - i] = s[i + (j - i) - 1]
    BY <2>1, <1>4, <1>2
  <2>. QED BY <2>2
<1>. QED BY <1>4, <1>5, <1>6 DEF r

Entries(s) == {s[i] : i \in 1 .. Len(s)}
Sorted(s, key) == \A i, j \in 1 .. Len(s) : i <= j => key[s[i]] <= key[s[j]]
Distinct(s, id) == \A i, j \in 1 .. Len(s) : id[s[i]] = id[s[j]] => i = j

\* Taking entries out keeps the others, their order and their distinctness.
LEMMA KeptList ==
    ASSUME NEW S, NEW s \in Seq(S), NEW keep \in SUBSET (1 .. Len(s)),
           NEW key \in [S -> Int], NEW id, Distinct(s, id)
    PROVE  /\ Kept(s, keep) \in Seq(S)
           /\ Entries(Kept(s, keep)) = {s[i] : i \in keep}
           /\ Sorted(s, key) => Sorted(Kept(s, keep), key)
           /\ Distinct(Kept(s, keep), id)
<1> DEFINE r == Kept(s, keep)
           n == Cardinality(keep)
<1>1. r \in Seq(S) /\ Len(r) = n /\ n \in Nat
  BY KeptEntries
<1>2. PICK f \in [1 .. n -> keep] :
         /\ \A i, j \in 1 .. n : i < j => f[i] < f[j]
         /\ \A p \in keep : \E i \in 1 .. n : f[i] = p
         /\ \A i \in 1 .. n : r[i] = s[f[i]]
  BY KeptEntries, Zenon
<1>. HIDE DEF r, n
<1>3. \A i \in 1 .. Len(r) : f[i] \in keep /\ f[i] \in 1 .. Len(s) /\ f[i] \in Nat /\ i \in Nat
  <2>1. \A i \in 1 .. n : f[i] \in keep
    BY <1>2
  <2>2. \A p \in 1 .. Len(s) : p \in Nat
    OBVIOUS
  <2>3. \A p \in keep : p \in 1 .. Len(s) /\ p \in Nat
    BY <2>2, Zenon
  <2>4. \A i \in 1 .. n : i \in Nat
    BY <1>1
  <2>. QED BY <1>1, <2>1, <2>3, <2>4, Zenon
<1>4. Entries(r) = {s[i] : i \in keep}
  <2>1. ASSUME NEW i \in 1 .. Len(r) PROVE r[i] \in {s[p] : p \in keep}
    <3>1. r[i] = s[f[i]] /\ f[i] \in keep
      BY <1>1, <1>2, <1>3
    <3>. QED BY <3>1, Zenon
  <2>2. ASSUME NEW p \in keep PROVE s[p] \in Entries(r)
    <3>1. PICK i \in 1 .. n : f[i] = p
      BY <1>2
    <3>. QED BY <3>1, <1>1, <1>2 DEF Entries
  <2>. QED BY <2>1, <2>2, Zenon DEF Entries
<1>5. ASSUME Sorted(s, key) PROVE Sorted(r, key)
  <2>1. SUFFICES ASSUME NEW i \in 1 .. Len(r), NEW j \in 1 .. Len(r), i <= j
                 PROVE  key[r[i]] <= key[r[j]]
    BY DEF Sorted
  <2>2. f[i] <= f[j]
    <3>1. CASE i = j
      BY <3>1, <1>3
    <3>2. CASE i < j
      BY <3>2, <1>1, <1>2, <1>3
    <3>. QED BY <2>1, <3>1, <3>2, <1>3
  <2>3. key[s[f[i]]] <= key[s[f[j]]]
    BY <2>2, <1>3, <1>5 DEF Sorted
  <2>. QED BY <2>3, <1>1, <1>2
<1>6. Distinct(r, id)
  <2>1. SUFFICES ASSUME NEW i \in 1 .. Len(r), NEW j \in 1 .. Len(r), id[r[i]] = id[r[j]]
                 PROVE  i = j
    BY DEF Distinct
  <2>2. id[s[f[i]]] = id[s[f[j]]]
    BY <2>1, <1>1, <1>2
  <2>3. f[i] = f[j]
    BY <2>2, <1>3 DEF Distinct
  <2>4. ~(f[i] < f[j]) /\ ~(f[j] < f[i])
    BY <2>3, <1>3
  <2>5. ~(i < j) /\ ~(j < i)
    BY <2>4, <1>1, <1>2
  <2>. QED BY <2>5, <1>3
<1>. QED BY <1>1, <1>4, <1>5, <1>6 DEF r

\* The place before the first of some entries, or behind the list.
Place(W, n) == IF W = {} THEN n + 1 ELSE CHOOSE i \in W : \A j \in W : i <= j

\* Place is the first of the places in W, if there is one.
LEMMA FirstPlace ==
    ASSUME NEW n \in Nat, NEW W \in SUBSET (1 .. n)
    PROVE  /\ Place(W, n) \in 1 .. n + 1
           /\ \A i \in W : Place(W, n) <= i
           /\ Place(W, n) \in W \/ Place(W, n) = n + 1
<1>1. CASE W = {}
  BY <1>1 DEF Place
<1>2. CASE W # {}
  <2>1. W \in SUBSET Nat
    OBVIOUS
  <2>2. \E i \in W : \A j \in W : i <= j
    BY <1>2, <2>1, LeastNat
  <2> DEFINE least == CHOOSE i \in W : \A j \in W : i <= j
  <2>3. least \in W /\ \A j \in W : least <= j
    BY <2>2, Zenon
  <2>4. Place(W, n) = least
    BY <1>2 DEF Place
  <2>. HIDE DEF least
  <2>5. least \in 1 .. n + 1
    BY <2>3
  <2>. QED BY <2>3, <2>4, <2>5
<1>. QED BY <1>1, <1>2

\* A list with an entry before the first one that has a greater key.
Inserted(s, e, key) ==
    InsertAt(s, Place({i \in 1 .. Len(s) : key[e] < key[s[i]]}, Len(s)), e)

\* Putting an entry before the first one that comes after it keeps a list sorted.
LEMMA InsertInOrder ==
    ASSUME NEW S, NEW s \in Seq(S), NEW e \in S,
           NEW key \in [S -> Int], NEW id, Distinct(s, id),
           \A x \in Entries(s) : id[x] # id[e]
    PROVE  /\ Inserted(s, e, key) \in Seq(S)
           /\ Entries(Inserted(s, e, key)) = Entries(s) \cup {e}
           /\ Sorted(s, key) => Sorted(Inserted(s, e, key), key)
           /\ Distinct(Inserted(s, e, key), id)
<1> DEFINE W == {i \in 1 .. Len(s) : key[e] < key[s[i]]}
           p == Place(W, Len(s))
           r == InsertAt(s, p, e)
<1>1. /\ p \in 1 .. Len(s) + 1
      /\ \A i \in W : p <= i
      /\ p \in W \/ p = Len(s) + 1
  <2>1. Len(s) \in Nat
    OBVIOUS
  <2>. QED BY <2>1, FirstPlace
<1>2. /\ \A i \in 1 .. Len(s) : key[s[i]] \in Int /\ s[i] \in S
      /\ key[e] \in Int
  OBVIOUS
<1>3. \A i \in 1 .. Len(s) : i < p => key[s[i]] <= key[e]
  BY <1>1, <1>2
<1>. HIDE DEF p
<1>5. /\ r \in Seq(S)
      /\ Len(r) = Len(s) + 1
      /\ \A j \in 1 .. p - 1 : r[j] = s[j]
      /\ r[p] = e
      /\ \A j \in p + 1 .. Len(s) + 1 : r[j] = s[j - 1]
  <2>1. p \in Int /\ 1 <= p /\ p <= Len(s) + 1
    BY <1>1
  <2>2. s \in Seq(S) /\ e \in S
    OBVIOUS
  <2>3. InsertAt(s, p, e) \in Seq(S) /\ Len(InsertAt(s, p, e)) = Len(s) + 1
    BY <2>1, <2>2, InsertAtProps
  <2>4. \A j \in 1 .. p - 1 : InsertAt(s, p, e)[j] = s[j]
    BY <2>1, <2>2, InsertAtProps
  <2>5. InsertAt(s, p, e)[p] = e
    BY <2>1, <2>2, InsertAtProps
  <2>6. \A j \in p + 1 .. Len(s) + 1 : InsertAt(s, p, e)[j] = s[j - 1]
    BY <2>1, <2>2, InsertAtProps
  <2>. QED BY <2>3, <2>4, <2>5, <2>6
<1>. HIDE DEF r, W
<1>6. ASSUME NEW j \in 1 .. Len(s) + 1
      PROVE  \/ j < p /\ j \in 1 .. Len(s) /\ r[j] = s[j]
             \/ j = p /\ r[j] = e
             \/ j > p /\ j - 1 \in 1 .. Len(s) /\ r[j] = s[j - 1]
  <2>1. CASE j < p
    BY <2>1, <1>1, <1>5
  <2>2. CASE j = p
    BY <2>2, <1>1, <1>5
  <2>3. CASE j > p
    BY <2>3, <1>1, <1>5
  <2>. QED BY <1>1, <2>1, <2>2, <2>3
<1>7. Entries(r) = Entries(s) \cup {e}
  <2>1. ASSUME NEW x \in Entries(r) PROVE x \in Entries(s) \cup {e}
    <3>1. PICK j \in 1 .. Len(s) + 1 : x = r[j]
      BY <1>5 DEF Entries
    <3>. QED BY <3>1, <1>6 DEF Entries
  <2>2. e \in Entries(r)
    <3>1. r[p] = e
      BY <1>1, <1>5
    <3>. QED BY <3>1, <1>1, <1>5 DEF Entries
  <2>3. ASSUME NEW i \in 1 .. Len(s) PROVE s[i] \in Entries(r)
    <3>1. CASE i < p
      <4>0. i \in 1 .. p - 1 /\ i \in 1 .. Len(s) + 1
        BY <3>1, <1>1
      <4>1. i \in 1 .. Len(r) /\ r[i] = s[i]
        BY <4>0, <1>5
      <4>. QED BY <4>1 DEF Entries
    <3>2. CASE i >= p
      <4>1. i + 1 \in 1 .. Len(r) /\ ~(i + 1 < p) /\ i + 1 # p /\ (i + 1) - 1 = i
        BY <3>2, <1>1, <1>5
      <4>2. r[i + 1] = s[(i + 1) - 1]
        BY <3>2, <1>1, <1>5
      <4>. QED BY <4>1, <4>2 DEF Entries
    <3>. QED BY <3>1, <3>2, <1>1
  <2>. QED BY <2>1, <2>2, <2>3 DEF Entries
<1>8. ASSUME Sorted(s, key) PROVE Sorted(r, key)
  <2>0. ASSUME NEW i \in 1 .. Len(s), i >= p PROVE key[e] <= key[s[i]]
    <3>1. p \in 1 .. Len(s) /\ p \in W
      BY <1>1, <2>0
    <3>2. key[e] < key[s[p]] /\ key[s[p]] <= key[s[i]]
      BY <3>1, <2>0, <1>8 DEF Sorted, W
    <3>. QED BY <3>1, <3>2, <1>2
  <2>1. SUFFICES ASSUME NEW i \in 1 .. Len(s) + 1, NEW j \in 1 .. Len(s) + 1, i <= j
                 PROVE  key[r[i]] <= key[r[j]]
    BY <1>5 DEF Sorted
  <2>2. CASE i < p /\ j < p
    <3>1. r[i] = s[i] /\ r[j] = s[j] /\ i \in 1 .. Len(s) /\ j \in 1 .. Len(s)
      BY <2>2, <1>6, <1>1
    <3>. QED BY <1>8, <3>1, <2>1 DEF Sorted
  <2>3. CASE i < p /\ j = p
    <3>1. r[i] = s[i] /\ r[j] = e /\ i \in 1 .. Len(s)
      BY <2>3, <1>6, <1>1
    <3>. QED BY <3>1, <2>3, <1>3
  <2>4. CASE i < p /\ j > p
    <3>0. r[i] = s[i] /\ i \in 1 .. Len(s) /\ i <= j - 1
      BY <2>4, <1>6, <1>1
    <3>1. r[j] = s[j - 1] /\ j - 1 \in 1 .. Len(s)
      BY <2>4, <1>6, <1>1
    <3>. QED BY <1>8, <3>0, <3>1 DEF Sorted
  <2>5. CASE i = p /\ j = p
    BY <2>5, <1>5, <1>2, <1>1
  <2>6. CASE i = p /\ j > p
    <3>1. r[i] = e /\ r[j] = s[j - 1] /\ j - 1 \in 1 .. Len(s) /\ j - 1 >= p
      BY <2>6, <1>6, <1>1
    <3>. QED BY <3>1, <2>0
  <2>7. CASE i > p /\ j > p
    <3>0. r[i] = s[i - 1] /\ i - 1 \in 1 .. Len(s)
      BY <2>7, <1>6, <1>1
    <3>1. r[j] = s[j - 1] /\ j - 1 \in 1 .. Len(s)
      BY <2>7, <1>6, <1>1
    <3>2. i - 1 <= j - 1
      BY <2>1
    <3>. QED BY <1>8, <3>0, <3>1, <3>2 DEF Sorted
  <2>. QED BY <2>1, <2>2, <2>3, <2>4, <2>5, <2>6, <2>7, <1>1
<1>9. Distinct(r, id)
  <2>1. SUFFICES ASSUME NEW i \in 1 .. Len(s) + 1, NEW j \in 1 .. Len(s) + 1, id[r[i]] = id[r[j]],
                        i < j
                 PROVE  FALSE
    BY <1>5 DEF Distinct
  <2>2. \A k \in 1 .. Len(s) : id[s[k]] # id[e]
    BY DEF Entries
  <2>3. CASE i < p /\ j < p
    <3>1. r[i] = s[i] /\ r[j] = s[j] /\ i \in 1 .. Len(s) /\ j \in 1 .. Len(s) /\ i # j
      BY <2>1, <2>3, <1>6, <1>1
    <3>. QED BY <3>1, <2>1 DEF Distinct
  <2>4. CASE i < p /\ j = p
    BY <2>1, <2>2, <2>4, <1>6, <1>1
  <2>5. CASE i < p /\ j > p
    <3>1. r[i] = s[i] /\ r[j] = s[j - 1] /\ i \in 1 .. Len(s) /\ j - 1 \in 1 .. Len(s) /\ i # j - 1
      BY <2>5, <1>6, <1>1
    <3>. QED BY <3>1, <2>1 DEF Distinct
  <2>6. CASE i = p /\ j > p
    <3>1. r[j] = s[j - 1] /\ j - 1 \in 1 .. Len(s)
      BY <2>6, <1>6, <1>1
    <3>2. r[i] = e
      BY <2>6, <1>5
    <3>. QED BY <3>1, <3>2, <2>1, <2>2
  <2>7. CASE i > p /\ j > p
    <3>1. r[i] = s[i - 1] /\ r[j] = s[j - 1] /\ i - 1 \in 1 .. Len(s) /\ j - 1 \in 1 .. Len(s) /\ i - 1 # j - 1
      BY <2>7, <2>1, <1>6, <1>1
    <3>. QED BY <3>1, <2>1 DEF Distinct
  <2>. QED BY <2>1, <2>3, <2>4, <2>5, <2>6, <2>7, <1>1
<1>. QED BY <1>5, <1>7, <1>8, <1>9 DEF Inserted, r, p, W

-----------------------------------------------------------------------------
(* Ticks and timers *)

\* The remainder of a number below the modulus.
LEMMA ModSmall ==
    ASSUME NEW m \in Nat, NEW x \in Nat, x < m
    PROVE  x % m = x
OBVIOUS

\* The remainder of a number that exceeds the modulus once.
LEMMA ModWrap ==
    ASSUME NEW m \in Nat, NEW x \in Nat, m <= x, x - m < m
    PROVE  x % m = x - m
OBVIOUS

\* Half the range is at least 2 and leaves a gap between sooner and later.
LEMMA Half == HalfRange \in Nat /\ HalfRange >= 2 /\ 2 * HalfRange <= TickMod - 1
BY TickAssumption DEF HalfRange

\* The difference of two ticks, without the remainder.
LEMMA TickDiffIs ==
    ASSUME NEW a \in Ticks, NEW b \in Ticks
    PROVE  /\ TickDiff(a, b) \in Nat /\ TickDiff(a, b) < TickMod
           /\ a >= b => TickDiff(a, b) = a - b
           /\ a < b => TickDiff(a, b) = a - b + TickMod
<1>1. TickMod \in Nat /\ a \in Nat /\ b \in Nat /\ a < TickMod /\ b < TickMod
  BY TickAssumption DEF Ticks
<1>2. a + TickMod - b \in Nat
  BY <1>1
<1>3. CASE a >= b
  <2>1. TickMod <= a + TickMod - b /\ (a + TickMod - b) - TickMod < TickMod
    BY <1>1, <1>3
  <2>2. TickDiff(a, b) = (a + TickMod - b) - TickMod
    BY <1>1, <1>2, <2>1, ModWrap DEF TickDiff
  <2>. QED BY <1>1, <1>3, <2>2
<1>4. CASE a < b
  <2>1. a + TickMod - b < TickMod
    BY <1>1, <1>4
  <2>2. TickDiff(a, b) = a + TickMod - b
    BY <1>1, <1>2, <2>1, ModSmall DEF TickDiff
  <2>. QED BY <1>1, <1>4, <2>2
<1>. QED BY <1>1, <1>3, <1>4

\* The tick some time ahead of now is just as far away.
LEMMA TickAhead ==
    ASSUME NEW now \in Ticks, NEW time \in Nat, time < HalfRange
    PROVE  /\ (now + time) % TickMod \in Ticks
           /\ TickDiff((now + time) % TickMod, now) = time
<1>1. TickMod \in Nat /\ now \in Nat /\ now < TickMod /\ time < TickMod /\ now + time \in Nat
  BY TickAssumption, Half DEF Ticks
<1>2. CASE now + time < TickMod
  <2>1. (now + time) % TickMod = now + time
    BY <1>1, <1>2, ModSmall
  <2>2. now + time \in Ticks
    BY <1>1, <1>2 DEF Ticks
  <2>3. TickDiff(now + time, now) = now + time - now
    BY <1>1, <2>2, TickDiffIs
  <2>. QED BY <1>1, <2>1, <2>2, <2>3
<1>3. CASE now + time >= TickMod
  <2> DEFINE x == (now + time) - TickMod
  <2>0. TickMod <= now + time /\ (now + time) - TickMod < TickMod
    BY <1>1, <1>3
  <2>1. (now + time) % TickMod = x
    BY <1>1, <2>0, ModWrap
  <2>2. x \in Ticks /\ x < now /\ x - now + TickMod = time
    BY <1>1, <1>3 DEF Ticks
  <2>. HIDE DEF x
  <2>3. TickDiff(x, now) = x - now + TickMod
    BY <2>2, TickDiffIs
  <2>. QED BY <2>1, <2>2, <2>3
<1>. QED BY <1>1, <1>2, <1>3

\* Among timers less than half the range away, the test of rt_timer_start is a
\* comparison of distances.
LEMMA LaterIsFurther ==
    ASSUME NEW a \in Ticks, NEW b \in Ticks, NEW now \in Ticks,
           TickDiff(a, now) < HalfRange, TickDiff(b, now) < HalfRange
    PROVE  IsLater(a, b) <=> TickDiff(b, now) < TickDiff(a, now)
<1>1. /\ TickMod \in Nat /\ a \in Nat /\ b \in Nat /\ now \in Nat
      /\ a < TickMod /\ b < TickMod /\ now < TickMod
  BY TickAssumption DEF Ticks
<1>2. /\ a >= now => TickDiff(a, now) = a - now
      /\ a < now => TickDiff(a, now) = a - now + TickMod
  BY TickDiffIs
<1>3. /\ b >= now => TickDiff(b, now) = b - now
      /\ b < now => TickDiff(b, now) = b - now + TickMod
  BY TickDiffIs
<1>4. /\ a >= b => TickDiff(a, b) = a - b
      /\ a < b => TickDiff(a, b) = a - b + TickMod
  BY TickDiffIs
<1>. QED BY <1>1, <1>2, <1>3, <1>4, Half DEF IsLater

\* What the next tick does to a distance, and which timers it finds due.
LEMMA NextDistance ==
    ASSUME NEW a \in Ticks, NEW now \in Ticks, TickDiff(a, now) < HalfRange
    PROVE  /\ (now + 1) % TickMod \in Ticks
           /\ TickDiff(a, now) > 0 => TickDiff(a, (now + 1) % TickMod) = TickDiff(a, now) - 1
           /\ IsDue((now + 1) % TickMod, a) <=> TickDiff(a, now) <= 1
<1> DEFINE next == (now + 1) % TickMod
<1>1. /\ TickMod \in Nat /\ a \in Nat /\ now \in Nat
      /\ a < TickMod /\ now < TickMod
  BY TickAssumption DEF Ticks
<1>2. next \in Ticks /\ TickDiff(next, now) = 1
  BY TickAhead, Half
<1>3. next \in Nat /\ (next = now + 1 \/ (next = 0 /\ now = TickMod - 1))
  <2>0. now + 1 \in Nat
    BY <1>1
  <2>1. CASE now + 1 < TickMod
    <3>1. (now + 1) % TickMod = now + 1
      BY <1>1, <2>0, <2>1, ModSmall
    <3>2. next = now + 1
      BY <3>1
    <3>3. next \in Nat
      BY <2>0, <3>2
    <3>. QED BY <3>2, <3>3
  <2>2. CASE now + 1 = TickMod
    <3>1. TickMod <= now + 1 /\ (now + 1) - TickMod < TickMod
      BY <1>1, <2>2
    <3>2. (now + 1) % TickMod = (now + 1) - TickMod
      BY <1>1, <2>0, <3>1, ModWrap
    <3>. QED BY <1>1, <2>2, <3>2
  <2>. QED BY <1>1, <2>1, <2>2
<1>. HIDE DEF next
<1>4. /\ a >= now => TickDiff(a, now) = a - now
      /\ a < now => TickDiff(a, now) = a - now + TickMod
  BY TickDiffIs
<1>5. /\ a >= next => TickDiff(a, next) = a - next
      /\ a < next => TickDiff(a, next) = a - next + TickMod
  BY <1>2, TickDiffIs
<1>6. /\ next >= a => TickDiff(next, a) = next - a
      /\ next < a => TickDiff(next, a) = next - a + TickMod
  BY <1>2, TickDiffIs
<1>7. TickDiff(a, now) > 0 => TickDiff(a, next) = TickDiff(a, now) - 1
  BY <1>1, <1>3, <1>4, <1>5, TickAssumption
<1>8. IsDue(next, a) <=> TickDiff(a, now) <= 1
  <2>1. CASE next = now + 1
    <3>1. CASE a >= now
      BY <2>1, <3>1, <1>1, <1>4, <1>6, Half DEF IsDue
    <3>2. CASE a < now
      BY <2>1, <3>2, <1>1, <1>2, <1>4, <1>6, Half DEF IsDue, Ticks
    <3>. QED BY <1>1, <3>1, <3>2
  <2>2. CASE next = 0 /\ now = TickMod - 1
    <3>1. CASE a = now
      BY <2>2, <3>1, <1>1, <1>4, <1>6, Half DEF IsDue
    <3>2. CASE a < now /\ a # 0
      BY <2>2, <3>2, <1>1, <1>4, <1>6, Half DEF IsDue
    <3>3. CASE a < now /\ a = 0
      BY <2>2, <3>3, <1>1, <1>4, <1>6, Half DEF IsDue
    <3>. QED BY <2>2, <1>1, <3>1, <3>2, <3>3
  <2>. QED BY <1>3, <2>1, <2>2
<1>. QED BY <1>2, <1>7, <1>8 DEF next

Timer == [thread : Thread, deadline : Ticks, left : Nat]
ThreadOf == [x \in Timer |-> x.thread]
DistanceAt(now) == [x \in Timer |-> TickDiff(x.deadline, now)]

\* A timer that is due in the ticks that are left.
OnTime(x, now) ==
    /\ x.left > 0
    /\ TickDiff(x.deadline, now) < HalfRange
    /\ \/ TickDiff(x.deadline, now) = x.left
       \/ x.deadline = now /\ x.left = 1

\* TimersOnTime and TimersOrdered, of any list at any tick.
ListOK(list, now) ==
    /\ list \in Seq(Timer)
    /\ Distinct(list, ThreadOf)
    /\ Sorted(list, DistanceAt(now))
    /\ \A x \in Entries(list) : OnTime(x, now)

Threads(list) == {x.thread : x \in Entries(list)}

\* The keys by which timers are sorted are numbers.
LEMMA DistanceType ==
    ASSUME NEW now \in Ticks
    PROVE  DistanceAt(now) \in [Timer -> Int]
<1>1. ASSUME NEW x \in Timer PROVE TickDiff(x.deadline, now) \in Int
  <2>1. x.deadline \in Ticks
    BY DEF Timer
  <2>2. TickDiff(x.deadline, now) \in Nat
    BY <2>1, TickDiffIs
  <2>. QED BY <2>2
<1>. QED BY <1>1 DEF DistanceAt

\* Stopping a timer takes it, and nothing else, off the list.
LEMMA TimerRemoveOK ==
    ASSUME NEW now \in Ticks, NEW list, ListOK(list, now), NEW t \in Thread
    PROVE  /\ ListOK(TimerRemove(list, t), now)
           /\ Threads(TimerRemove(list, t)) = Threads(list) \ {t}
<1> DEFINE keep == {i \in 1 .. Len(list) : list[i].thread # t}
           r == TimerRemove(list, t)
<1>1. r = Kept(list, keep)
  BY DEF TimerRemove
<1>2. list \in Seq(Timer) /\ Distinct(list, ThreadOf) /\ Sorted(list, DistanceAt(now))
  BY DEF ListOK
<1>3. keep \in SUBSET (1 .. Len(list))
  OBVIOUS
<1>. HIDE DEF keep, r
<1>4. /\ r \in Seq(Timer)
      /\ Entries(r) = {list[i] : i \in keep}
      /\ Sorted(r, DistanceAt(now))
      /\ Distinct(r, ThreadOf)
  BY <1>1, <1>2, <1>3, DistanceType, KeptList
<1>5. Entries(r) = {x \in Entries(list) : x.thread # t}
  BY <1>4 DEF Entries, keep
<1>6. ListOK(r, now)
  BY <1>4, <1>5 DEF ListOK
<1>7. Threads(r) = Threads(list) \ {t}
  BY <1>5 DEF Threads
<1>. QED BY <1>6, <1>7 DEF r

\* Starting a timer, which may be running already, puts it in its place.
LEMMA TimerStartOK ==
    ASSUME NEW now \in Ticks, NEW list, ListOK(list, now),
           NEW new \in Timer, OnTime(new, now)
    PROVE  /\ ListOK(TimerStart(list, new), now)
           /\ Threads(TimerStart(list, new)) = Threads(list) \cup {new.thread}
<1> DEFINE t == new.thread
           others == TimerRemove(list, t)
           later == {i \in 1 .. Len(others) : IsLater(others[i].deadline, new.deadline)}
           key == DistanceAt(now)
           W == {i \in 1 .. Len(others) : key[new] < key[others[i]]}
           r == TimerStart(list, new)
<1>1. t \in Thread
  BY DEF Timer
<1>2. ListOK(others, now) /\ Threads(others) = Threads(list) \ {t}
  BY <1>1, TimerRemoveOK
<1>3. r = InsertAt(others, Place(later, Len(others)), new)
  BY DEF TimerStart, Place
<1>. HIDE DEF others, r
<1>4. others \in Seq(Timer) /\ Distinct(others, ThreadOf) /\ Sorted(others, key)
  BY <1>2 DEF ListOK
<1>5. ASSUME NEW i \in 1 .. Len(others)
      PROVE  IsLater(others[i].deadline, new.deadline) <=> key[new] < key[others[i]]
  <2>1. others[i] \in Timer /\ OnTime(others[i], now)
    BY <1>2, <1>4 DEF ListOK, Entries
  <2>2. others[i].deadline \in Ticks /\ new.deadline \in Ticks
    BY <2>1 DEF Timer
  <2>3. TickDiff(others[i].deadline, now) < HalfRange /\ TickDiff(new.deadline, now) < HalfRange
    BY <2>1 DEF OnTime
  <2>4. key[new] = TickDiff(new.deadline, now) /\ key[others[i]] = TickDiff(others[i].deadline, now)
    BY <2>1 DEF DistanceAt
  <2>. QED BY <2>2, <2>3, <2>4, LaterIsFurther
<1>6. later = W
  BY <1>5
<1>7. \A x \in Entries(others) : ThreadOf[x] # ThreadOf[new]
  <2>1. SUFFICES ASSUME NEW x \in Entries(others) PROVE ThreadOf[x] # ThreadOf[new]
    OBVIOUS
  <2>2. x \in Timer /\ x.thread # t
    BY <1>2, <1>4 DEF Entries, Threads
  <2>. QED BY <2>2 DEF ThreadOf
<1>8. key \in [Timer -> Int]
  BY DistanceType
<1>. HIDE DEF later, key
<1>9. r = Inserted(others, new, key)
  BY <1>3, <1>6 DEF Inserted
<1>10. /\ r \in Seq(Timer)
       /\ Entries(r) = Entries(others) \cup {new}
       /\ Sorted(r, key)
       /\ Distinct(r, ThreadOf)
  BY <1>4, <1>7, <1>8, <1>9, InsertInOrder
<1>11. ListOK(r, now)
  BY <1>2, <1>10 DEF ListOK, key
<1>12. Threads(r) = Threads(list) \cup {t}
  <2>1. Threads(r) = Threads(others) \cup {t}
    BY <1>10 DEF Threads
  <2>. QED BY <2>1, <1>2
<1>. QED BY <1>11, <1>12 DEF r

\* The timers that a tick finds due are a prefix of the list.
LEMMA DuePrefix ==
    ASSUME NEW list \in Seq(Timer), NEW now
    PROVE  LET n == TimersDue(list, now)
           IN  /\ n \in 0 .. Len(list)
               /\ \A i \in 1 .. n : IsDue(now, list[i].deadline)
               /\ n < Len(list) => ~IsDue(now, list[n + 1].deadline)
<1> DEFINE alldue == {n \in 0 .. Len(list) : \A i \in 1 .. n : IsDue(now, list[i].deadline)}
           left == {Len(list) - n : n \in alldue}
           n == TimersDue(list, now)
<1>1. Len(list) \in Nat
  OBVIOUS
<1>2. 0 \in alldue /\ alldue \subseteq 0 .. Len(list)
  BY <1>1
<1>3. \E m \in alldue : \A k \in alldue : k <= m
  <2>1. left \in SUBSET Nat /\ left # {}
    BY <1>1, <1>2
  <2>2. PICK l \in left : \A k \in left : l <= k
    BY <2>1, LeastNat
  <2>3. PICK m \in alldue : l = Len(list) - m
    BY <2>2
  <2>4. ASSUME NEW k \in alldue PROVE k <= m
    <3>1. Len(list) - m <= Len(list) - k
      BY <2>2, <2>3
    <3>2. m \in Nat /\ k \in Nat
      BY <1>1, <1>2
    <3>. QED BY <1>1, <3>1, <3>2
  <2>. QED BY <2>4
<1>4. n = CHOOSE m \in alldue : \A k \in alldue : k <= m
  BY DEF TimersDue
<1>. HIDE DEF n
<1>5. n \in alldue /\ \A k \in alldue : k <= n
  BY <1>3, <1>4, Zenon
<1>6. ASSUME n < Len(list), IsDue(now, list[n + 1].deadline) PROVE FALSE
  <2>1. n \in Nat /\ n + 1 \in 0 .. Len(list)
    BY <1>1, <1>5, <1>6
  <2>2. ASSUME NEW i \in 1 .. n + 1 PROVE IsDue(now, list[i].deadline)
    <3>1. CASE i = n + 1
      BY <3>1, <1>6
    <3>2. CASE i # n + 1
      <4>1. i \in 1 .. n
        BY <2>1, <3>2
      <4>. QED BY <4>1, <1>5
    <3>. QED BY <3>1, <3>2
  <2>3. n + 1 \in alldue
    BY <2>1, <2>2
  <2>4. n + 1 <= n
    BY <2>3, <1>5
  <2>. QED BY <2>1, <2>4
<1>. QED BY <1>5, <1>6 DEF n

\* What a tick leaves of the list when it takes the first n timers off.
Aged(list, n) == [i \in 1 .. Len(list) - n |-> [list[n + i] EXCEPT !.left = @ - 1]]
Fired(list, n) == {list[i].thread : i \in 1 .. n}

\* The next tick fires the timers that have one tick left and no other, and all
\* others have one tick less to go.
LEMMA TickListOK ==
    ASSUME NEW now \in Ticks, NEW list, ListOK(list, now),
           NEW next, next = (now + 1) % TickMod,
           NEW n, n = TimersDue(list, next)
    PROVE  /\ n \in 0 .. Len(list)
           /\ ListOK(Aged(list, n), next)
           /\ Threads(Aged(list, n)) = Threads(list) \ Fired(list, n)
           /\ Fired(list, n) \subseteq Threads(list)
<1> DEFINE r == Aged(list, n)
<1>1. list \in Seq(Timer) /\ Len(list) \in Nat
  BY DEF ListOK
<1>2. /\ n \in 0 .. Len(list) /\ n \in Nat
      /\ n < Len(list) => ~IsDue(next, list[n + 1].deadline)
  BY <1>1, DuePrefix
<1>3. ASSUME NEW i \in 1 .. Len(list)
      PROVE  /\ list[i] \in Timer /\ OnTime(list[i], now)
             /\ list[i].deadline \in Ticks /\ list[i].left \in Nat /\ list[i].thread \in Thread
             /\ DistanceAt(now)[list[i]] = TickDiff(list[i].deadline, now)
             /\ TickDiff(list[i].deadline, now) \in Nat
  <2>1. list[i] \in Timer /\ OnTime(list[i], now)
    BY <1>1 DEF ListOK, Entries
  <2>2. list[i].deadline \in Ticks /\ list[i].left \in Nat /\ list[i].thread \in Thread
    BY <2>1 DEF Timer
  <2>3. TickDiff(list[i].deadline, now) \in Nat
    BY <2>2, TickDiffIs
  <2>. QED BY <2>1, <2>2, <2>3 DEF DistanceAt
<1>4. ASSUME NEW i \in 1 .. Len(list), n < i
      PROVE  /\ TickDiff(list[i].deadline, now) > 1
             /\ list[i].left = TickDiff(list[i].deadline, now)
             /\ TickDiff(list[i].deadline, next) = list[i].left - 1
  <2>1. n + 1 \in 1 .. Len(list) /\ n + 1 <= i /\ n < Len(list)
    BY <1>1, <1>2, <1>4
  <2>2. TickDiff(list[n + 1].deadline, now) > 1
    <3>1. list[n + 1].deadline \in Ticks /\ TickDiff(list[n + 1].deadline, now) < HalfRange
      BY <2>1, <1>3 DEF OnTime
    <3>2. ~IsDue(next, list[n + 1].deadline)
      BY <2>1, <1>2
    <3>3. TickDiff(list[n + 1].deadline, now) \in Nat
      BY <2>1, <1>3
    <3>. QED BY <3>1, <3>2, <3>3, NextDistance
  <2>3. TickDiff(list[n + 1].deadline, now) <= TickDiff(list[i].deadline, now)
    <3>1. DistanceAt(now)[list[n + 1]] <= DistanceAt(now)[list[i]]
      BY <2>1 DEF ListOK, Sorted
    <3>. QED BY <3>1, <2>1, <1>3
  <2>4. TickDiff(list[i].deadline, now) > 1
    BY <2>1, <2>2, <2>3, <1>3
  <2>5. list[i].left = TickDiff(list[i].deadline, now)
    <3>1. TickDiff(now, now) = 0
      <4>1. now \in Nat
        BY DEF Ticks
      <4>. QED BY <4>1, TickDiffIs
    <3>2. list[i].deadline # now
      BY <3>1, <2>4
    <3>. QED BY <3>2, <1>3 DEF OnTime
  <2>6. TickDiff(list[i].deadline, next) = TickDiff(list[i].deadline, now) - 1
    <3>1. list[i].deadline \in Ticks /\ TickDiff(list[i].deadline, now) < HalfRange
      BY <1>3 DEF OnTime
    <3>2. TickDiff(list[i].deadline, now) > 0
      BY <2>4, <1>3
    <3>. QED BY <3>1, <3>2, NextDistance
  <2>. QED BY <2>4, <2>5, <2>6
<1>5. /\ Len(r) = Len(list) - n
      /\ \A i \in 1 .. Len(list) - n : r[i] = [list[n + i] EXCEPT !.left = @ - 1]
  BY <1>1, <1>2 DEF Aged
<1>6. ASSUME NEW i \in 1 .. Len(list) - n
      PROVE  /\ n + i \in 1 .. Len(list) /\ n < n + i
             /\ r[i] \in Timer
             /\ r[i].thread = list[n + i].thread
             /\ r[i].deadline = list[n + i].deadline
             /\ r[i].left = list[n + i].left - 1
  <2>1. n + i \in 1 .. Len(list) /\ n < n + i
    BY <1>1, <1>2
  <2>2. list[n + i] \in Timer /\ list[n + i].left \in Nat /\ list[n + i].left > 1
    BY <2>1, <1>3, <1>4
  <2>3. r[i] = [list[n + i] EXCEPT !.left = @ - 1] /\ list[n + i].left - 1 \in Nat
    BY <2>2, <1>5
  <2>. QED BY <2>1, <2>2, <2>3 DEF Timer
<1>7. r \in Seq(Timer)
  <2>1. r = [i \in 1 .. Len(list) - n |-> r[i]] /\ Len(list) - n \in Nat
    BY <1>1, <1>2 DEF Aged
  <2>. HIDE DEF r
  <2>. QED BY <2>1, <1>6
<1>. HIDE DEF r
<1>8. Distinct(r, ThreadOf)
  <2>1. SUFFICES ASSUME NEW i \in 1 .. Len(list) - n, NEW j \in 1 .. Len(list) - n,
                        ThreadOf[r[i]] = ThreadOf[r[j]]
                 PROVE  i = j
    BY <1>5 DEF Distinct
  <2>2. list[n + i].thread = list[n + j].thread
    BY <2>1, <1>6 DEF ThreadOf
  <2>3. ThreadOf[list[n + i]] = ThreadOf[list[n + j]]
    BY <2>2, <1>6, <1>3 DEF ThreadOf
  <2>4. n + i = n + j
    BY <2>3, <1>6 DEF ListOK, Distinct
  <2>. QED BY <2>4, <1>2
<1>9. ASSUME NEW i \in 1 .. Len(list) - n
      PROVE  /\ OnTime(r[i], next)
             /\ DistanceAt(next)[r[i]] = list[n + i].left - 1
  <2>1. /\ TickDiff(list[n + i].deadline, now) > 1
        /\ list[n + i].left = TickDiff(list[n + i].deadline, now)
        /\ TickDiff(list[n + i].deadline, next) = list[n + i].left - 1
    BY <1>6, <1>4
  <2>2. TickDiff(list[n + i].deadline, now) < HalfRange /\ list[n + i].left \in Nat
    BY <1>6, <1>3 DEF OnTime
  <2>3. OnTime(r[i], next)
    BY <2>1, <2>2, <1>6, Half DEF OnTime
  <2>4. DistanceAt(next)[r[i]] = TickDiff(r[i].deadline, next)
    BY <1>6 DEF DistanceAt
  <2>. QED BY <2>1, <2>3, <2>4, <1>6
<1>10. Sorted(r, DistanceAt(next))
  <2>1. SUFFICES ASSUME NEW i \in 1 .. Len(list) - n, NEW j \in 1 .. Len(list) - n, i <= j
                 PROVE  list[n + i].left - 1 <= list[n + j].left - 1
    BY <1>5, <1>9 DEF Sorted
  <2>2. n + i <= n + j
    BY <2>1, <1>2
  <2>3. DistanceAt(now)[list[n + i]] <= DistanceAt(now)[list[n + j]]
    BY <2>2, <1>6 DEF ListOK, Sorted
  <2>4. /\ list[n + i].left = DistanceAt(now)[list[n + i]]
        /\ list[n + i].left \in Nat
    BY <1>3, <1>4, <1>6
  <2>5. /\ list[n + j].left = DistanceAt(now)[list[n + j]]
        /\ list[n + j].left \in Nat
    BY <1>3, <1>4, <1>6
  <2>. QED BY <2>3, <2>4, <2>5
<1>11. \A x \in Entries(r) : OnTime(x, next)
  BY <1>5, <1>9 DEF Entries
<1>12. ListOK(r, next)
  BY <1>7, <1>8, <1>10, <1>11 DEF ListOK
<1>13. \A i, j \in 1 .. Len(list) : list[i].thread = list[j].thread => i = j
  BY <1>3 DEF ListOK, Distinct, ThreadOf
<1>14. Threads(r) = Threads(list) \ Fired(list, n)
  <2>1. Threads(r) = {r[i].thread : i \in 1 .. Len(list) - n}
    BY <1>5 DEF Threads, Entries
  <2>2. Threads(list) = {list[i].thread : i \in 1 .. Len(list)}
    BY DEF Threads, Entries
  <2>3. ASSUME NEW i \in 1 .. Len(list) - n
        PROVE  r[i].thread \in Threads(list) \ Fired(list, n)
    <3>1. ASSUME NEW k \in 1 .. n PROVE list[k].thread # list[n + i].thread
      <4>1. k \in 1 .. Len(list) /\ k # n + i
        BY <1>1, <1>2
      <4>. QED BY <4>1, <1>6, <1>13
    <3>. QED BY <3>1, <2>2, <1>6 DEF Fired
  <2>4. ASSUME NEW i \in 1 .. Len(list), list[i].thread \notin Fired(list, n)
        PROVE  list[i].thread \in Threads(r)
    <3>1. i \notin 1 .. n
      BY <2>4 DEF Fired
    <3>2. i - n \in 1 .. Len(list) - n /\ n + (i - n) = i
      BY <3>1, <1>1, <1>2
    <3>3. r[i - n].thread = list[i].thread
      BY <3>2, <1>6
    <3>. QED BY <3>2, <3>3, <2>1
  <2>. QED BY <2>1, <2>2, <2>3, <2>4
<1>15. Fired(list, n) \subseteq Threads(list)
  <2>1. \A i \in 1 .. n : i \in 1 .. Len(list)
    BY <1>1, <1>2
  <2>. QED BY <2>1 DEF Fired, Threads, Entries
<1>. QED BY <1>2, <1>12, <1>14, <1>15 DEF r

-----------------------------------------------------------------------------
(* Lists of waiters *)

Ident == [x \in Thread |-> x]
QueueOK(q) == q \in Seq(Thread) /\ Distinct(q, Ident)

\* A list of waiters names no thread twice.
LEMMA QueueInjective ==
    ASSUME NEW q, QueueOK(q)
    PROVE  IsInjective(q)
<1>1. \A i \in 1 .. Len(q) : Ident[q[i]] = q[i]
  BY DEF QueueOK, Ident
<1>2. DOMAIN q = 1 .. Len(q)
  BY DEF QueueOK
<1>. QED BY <1>1, <1>2 DEF QueueOK, Distinct, IsInjective

\* The empty list is the one without entries.
LEMMA EmptyList ==
    ASSUME NEW S, NEW q \in Seq(S)
    PROVE  Entries(q) = {} <=> q = << >>
<1>1. CASE q = << >>
  BY <1>1 DEF Entries
<1>2. CASE q # << >>
  <2>1. 1 \in 1 .. Len(q)
    BY <1>2
  <2>. QED BY <1>2, <2>1 DEF Entries
<1>. QED BY <1>1, <1>2

\* The order of a list depends on the keys of its entries only.
LEMMA SortedAgree ==
    ASSUME NEW q, NEW k1, NEW k2, \A x \in Entries(q) : k1[x] = k2[x], Sorted(q, k1)
    PROVE  Sorted(q, k2)
<1>1. \A i \in 1 .. Len(q) : k1[q[i]] = k2[q[i]]
  BY DEF Entries
<1>. QED BY <1>1 DEF Sorted

\* rt_ipc_list_suspend adds the thread to the list and keeps the order.
LEMMA QueuedOK ==
    ASSUME prio \in [Thread -> Int], NEW q, QueueOK(q),
           NEW t \in Thread, t \notin Entries(q)
    PROVE  /\ QueueOK(Queued(q, t))
           /\ Entries(Queued(q, t)) = Entries(q) \cup {t}
           /\ Sorted(q, prio) => Sorted(Queued(q, t), prio)
<1>1. Queued(q, t) = Inserted(q, t, prio)
  BY DEF Queued, Inserted, Place
<1>2. q \in Seq(Thread) /\ Distinct(q, Ident)
  BY DEF QueueOK
<1>3. \A x \in Entries(q) : Ident[x] # Ident[t]
  <2>1. \A x \in Entries(q) : x \in Thread
    BY <1>2 DEF Entries
  <2>. QED BY <2>1 DEF Ident
<1>4. /\ Inserted(q, t, prio) \in Seq(Thread)
      /\ Entries(Inserted(q, t, prio)) = Entries(q) \cup {t}
      /\ Sorted(q, prio) => Sorted(Inserted(q, t, prio), prio)
      /\ Distinct(Inserted(q, t, prio), Ident)
  BY <1>2, <1>3, InsertInOrder
<1>. QED BY <1>1, <1>4 DEF QueueOK

\* Without its first waiter a list has the others in their order, none of which
\* comes before the one that left.
LEMMA TailOK ==
    ASSUME NEW q, QueueOK(q), q # << >>
    PROVE  /\ Head(q) \in Thread /\ Head(q) \in Entries(q)
           /\ QueueOK(Tail(q))
           /\ Entries(Tail(q)) = Entries(q) \ {Head(q)}
           /\ \A key : Sorted(q, key) => /\ Sorted(Tail(q), key)
                                         /\ \A x \in Entries(q) : key[Head(q)] <= key[x]
<1>1. q \in Seq(Thread) /\ Len(q) \in Nat /\ Len(q) > 0
  BY DEF QueueOK
<1> DEFINE r == Tail(q)
           h == Head(q)
<1>2. h = q[1] /\ h \in Thread /\ h \in Entries(q)
  BY <1>1 DEF Entries
<1>3. /\ r \in Seq(Thread) /\ Len(r) = Len(q) - 1
      /\ \A i \in 1 .. Len(q) - 1 : r[i] = q[i + 1]
  BY <1>1
<1>. HIDE DEF r, h
<1>4. \A i \in 1 .. Len(q) - 1 : i + 1 \in 1 .. Len(q) /\ i + 1 # 1
  BY <1>1
<1>5. \A i, j \in 1 .. Len(q) : q[i] = q[j] => i = j
  <2>1. \A i \in 1 .. Len(q) : Ident[q[i]] = q[i]
    BY <1>1 DEF Ident
  <2>. QED BY <2>1 DEF QueueOK, Distinct
<1>6. Distinct(r, Ident)
  <2>1. SUFFICES ASSUME NEW i \in 1 .. Len(q) - 1, NEW j \in 1 .. Len(q) - 1,
                        Ident[r[i]] = Ident[r[j]]
                 PROVE  i = j
    BY <1>3 DEF Distinct
  <2>2. q[i + 1] = q[j + 1]
    BY <2>1, <1>1, <1>3, <1>4 DEF Ident
  <2>3. i + 1 = j + 1
    BY <2>2, <1>4, <1>5
  <2>. QED BY <2>3
<1>7. Entries(r) = Entries(q) \ {h}
  <2>1. ASSUME NEW i \in 1 .. Len(q) - 1 PROVE r[i] \in Entries(q) \ {h}
    <3>1. r[i] = q[i + 1] /\ q[i + 1] # q[1]
      BY <1>1, <1>3, <1>4, <1>5
    <3>. QED BY <3>1, <1>2, <1>4 DEF Entries
  <2>2. ASSUME NEW i \in 1 .. Len(q), q[i] # h PROVE q[i] \in Entries(r)
    <3>1. i # 1
      BY <2>2, <1>2
    <3>2. i - 1 \in 1 .. Len(q) - 1 /\ (i - 1) + 1 = i
      BY <3>1
    <3>3. r[i - 1] = q[(i - 1) + 1]
      BY <3>2, <1>3
    <3>. QED BY <3>2, <3>3, <1>3 DEF Entries
  <2>. QED BY <2>1, <2>2, <1>3 DEF Entries
<1>8. ASSUME NEW key, Sorted(q, key)
      PROVE  Sorted(r, key) /\ \A x \in Entries(q) : key[h] <= key[x]
  <2>1. ASSUME NEW i \in 1 .. Len(q) - 1, NEW j \in 1 .. Len(q) - 1, i <= j
        PROVE  key[r[i]] <= key[r[j]]
    <3>1. i + 1 <= j + 1
      BY <2>1
    <3>. QED BY <3>1, <1>3, <1>4, <1>8 DEF Sorted
  <2>2. ASSUME NEW i \in 1 .. Len(q) PROVE key[h] <= key[q[i]]
    <3>1. 1 \in 1 .. Len(q) /\ 1 <= i
      BY <1>1
    <3>. QED BY <3>1, <1>2, <1>8 DEF Sorted
  <2>. QED BY <2>1, <2>2, <1>3 DEF Sorted, Entries
<1>. QED BY <1>2, <1>3, <1>6, <1>7, <1>8 DEF QueueOK, r, h

\* The threads that time out, and no others, leave the list.
LEMMA WithoutOK ==
    ASSUME NEW q, QueueOK(q), NEW fired, NEW key \in [Thread -> Int]
    PROVE  /\ QueueOK(WithoutTimedOut(q, fired))
           /\ Entries(WithoutTimedOut(q, fired)) = Entries(q) \ fired
           /\ Sorted(q, key) => Sorted(WithoutTimedOut(q, fired), key)
<1> DEFINE keep == {i \in 1 .. Len(q) : q[i] \notin fired}
<1>1. WithoutTimedOut(q, fired) = Kept(q, keep)
  BY DEF WithoutTimedOut
<1>2. q \in Seq(Thread) /\ Distinct(q, Ident) /\ keep \in SUBSET (1 .. Len(q))
  BY DEF QueueOK
<1>. HIDE DEF keep
<1>3. /\ Kept(q, keep) \in Seq(Thread)
      /\ Entries(Kept(q, keep)) = {q[i] : i \in keep}
      /\ Sorted(q, key) => Sorted(Kept(q, keep), key)
      /\ Distinct(Kept(q, keep), Ident)
  BY <1>2, KeptList
<1>4. {q[i] : i \in keep} = Entries(q) \ fired
  BY DEF keep, Entries
<1>. QED BY <1>1, <1>3, <1>4 DEF QueueOK

-----------------------------------------------------------------------------
(* The inductive invariant *)

\* The suspend lists are lists of distinct threads.
Queues == \A o \in Object : QueueOK(waiters[o])

\* Where each thread is: in a call exactly when it is in one of the call's later
\* steps; on the list of an object exactly when it is suspended in a call for it;
\* with a timer only while suspended, and always while asleep; without an error
\* until it is resumed.  A suspended thread that still is current has not called
\* rt_schedule yet.
ThreadsOK ==
    /\ \A t \in Thread :
         /\ at[t] = "run" <=> call[t] = "none"
         /\ t \in suspended => /\ at[t] # "run"
                               /\ error[t] = "EOK"
                               /\ call[t] = "sleep" => t \in Threads(timers)
         /\ t \in Threads(timers) => t \in suspended
         /\ \A o \in Object : t \in Entries(waiters[o]) <=> t \in suspended /\ call[t] = o
    /\ current \in suspended => at[current] = "schedule"

\* The mutex is free and nobody waits for it, or its owner has at least the
\* priority of every waiter and will get its own back.  The list is sorted.
OwnerOK ==
    /\ \/ /\ mutex = [value |-> 1, owner |-> NoThread, hold |-> 0, original |-> NoPriority]
          /\ waiters["mutex"] = << >>
       \/ /\ mutex.value = 0 /\ mutex.owner \in Thread /\ mutex.hold >= 1
          /\ mutex.owner \notin Entries(waiters["mutex"])
          /\ mutex.original = Base[mutex.owner]
          /\ \A t \in Entries(waiters["mutex"]) : prio[mutex.owner] <= prio[t]
    /\ Sorted(waiters["mutex"], prio)

\* A thread that is back from a wait for the mutex owns it or has an error.
Outcome ==
    \A t \in Thread \ suspended :
        at[t] # "run" /\ call[t] = "mutex" => (error[t] = "EOK" <=> mutex.owner = t)

\* The current thread has the highest priority of all ready ones.  It may lose it
\* when it gives an inherited priority back without waking anybody: then nobody
\* waits for the mutex, and nobody else has it.
SchedOK ==
    \/ current = Idle /\ Ready = {}
    \/ /\ current \in Thread
       /\ \/ \A u \in Ready : prio[current] <= prio[u]
          \/ waiters["mutex"] = << >> /\ mutex.owner \in {NoThread, current}

\* The threads that have been given a token and have not returned with it yet.
Given == {t \in Thread \ suspended : at[t] # "run" /\ call[t] = "sem" /\ error[t] = "EOK"}

IInv ==
    /\ TypeOK
    /\ Queues
    /\ ListOK(timers, tick)
    /\ ThreadsOK
    /\ OwnerOK
    /\ Outcome
    /\ PriorityReturned
    /\ SchedOK
    /\ balance = value + Cardinality(Given)

\* Priorities are numbers.
LEMMA PrioType ==
    ASSUME prio \in [Thread -> {Base[t] : t \in Thread}]
    PROVE  prio \in [Thread -> Nat] /\ prio \in [Thread -> Int] /\ Base \in [Thread -> Nat]
<1>1. Base \in [Thread -> Nat]
  BY IpcAssumption
<1>2. \A t \in Thread : prio[t] \in Nat
  BY <1>1
<1>. QED BY <1>1, <1>2

\* rt_schedule makes a ready thread of highest priority current, if there is one.
LEMMA RescheduleOK ==
    ASSUME suspended' \subseteq Thread, prio' \in [Thread -> Nat], Reschedule
    PROVE  /\ current' \in Thread \cup {Idle}
           /\ current' \notin suspended'
           /\ SchedOK'
<1>1. Idle \notin Thread
  BY IpcAssumption
<1>2. CASE Ready' = {}
  <2>1. Highest' = {}
    BY <1>2 DEF Highest
  <2>2. current' = Idle
    BY <2>1 DEF Reschedule
  <2>. QED BY <1>1, <1>2, <2>2 DEF SchedOK
<1>3. CASE Ready' # {}
  <2> DEFINE P == {prio'[u] : u \in Ready'}
  <2>1. \A u \in Ready' : u \in Thread /\ u \notin suspended' /\ prio'[u] \in Nat
    BY DEF Ready
  <2>2. P \in SUBSET Nat /\ P # {}
    BY <1>3, <2>1
  <2>3. PICK n \in P : \A m \in P : n <= m
    BY <2>2, LeastNat
  <2>4. PICK u \in Ready' : prio'[u] = n
    BY <2>3
  <2>5. u \in Highest'
    BY <2>3, <2>4 DEF Highest
  <2>6. current' \in Highest'
    BY <2>5 DEF Reschedule
  <2>7. current' \in Ready' /\ \A v \in Ready' : prio'[current'] <= prio'[v]
    BY <2>6 DEF Highest
  <2>. QED BY <2>1, <2>7 DEF SchedOK
<1>. QED BY <1>2, <1>3

\* The invariant holds when the threads have been started.
LEMMA InitIInv == Init => IInv
<1> SUFFICES ASSUME Init PROVE IInv
  OBVIOUS
<1> USE DEF Init
<1>1. Base \in [Thread -> Nat] /\ NoThread \notin Thread
  BY IpcAssumption
<1>2. current \in Thread /\ \A u \in Ready : prio[current] <= prio[u]
  BY DEF Highest, Ready
<1>3. \A o \in Object : waiters[o] = << >> /\ Entries(waiters[o]) = {}
  BY DEF Entries
<1>4. Entries(timers) = {} /\ Threads(timers) = {}
  BY DEF Entries, Threads
<1>5. TypeOK
  <2>1. prio \in [Thread -> {Base[t] : t \in Thread}]
    BY <1>1
  <2>2. /\ current \in Thread \cup {Idle} /\ suspended \subseteq Thread
        /\ error \in [Thread -> {"EOK", "ETIMEOUT"}]
        /\ at \in [Thread -> {"run", "schedule", "return"}]
        /\ call \in [Thread -> Service]
    BY <1>2 DEF Service
  <2>3. waiters \in [Object -> Seq(Thread)]
    OBVIOUS
  <2>4. mutex \in [value : 0 .. 1, owner : Thread \cup {NoThread}, hold : 0 .. HoldMax,
                   original : {Base[t] : t \in Thread} \cup {NoPriority}]
    BY IpcAssumption
  <2>5. value \in 0 .. SemMax /\ tick \in Ticks /\ balance \in Nat
    BY IpcAssumption, TickAssumption DEF Ticks
  <2>6. timers \in Seq([thread : Thread, deadline : Ticks, left : Nat])
    OBVIOUS
  <2>. QED BY <2>1, <2>2, <2>3, <2>4, <2>5, <2>6 DEF TypeOK
<1>6. Queues
  BY <1>3 DEF Queues, QueueOK, Distinct
<1>7. ListOK(timers, tick)
  BY <1>4 DEF ListOK, Distinct, Sorted
<1>8. ThreadsOK
  BY <1>3, <1>4 DEF ThreadsOK
<1>9. OwnerOK
  <2>1. waiters["mutex"] = << >>
    BY <1>3 DEF Object
  <2>. QED BY <2>1 DEF OwnerOK, Sorted
<1>10. Outcome /\ PriorityReturned /\ SchedOK
  BY <1>2 DEF Outcome, PriorityReturned, SchedOK
<1>11. balance = value + Cardinality(Given)
  <2>1. Given = {}
    BY DEF Given
  <2>. QED BY <2>1, FS_EmptySet
<1>. QED BY <1>5, <1>6, <1>7, <1>8, <1>9, <1>10, <1>11 DEF IInv

-----------------------------------------------------------------------------
(* Suspending and resuming *)

\* The timer that SuspendSelf starts is on time.
LEMMA NewTimer ==
    ASSUME tick \in Ticks, NEW t \in Thread, NEW time \in 0 .. HalfRange - 1,
           NEW new, new = [thread   |-> t,
                           deadline |-> (tick + time) % TickMod,
                           left     |-> IF time = 0 THEN 1 ELSE time]
    PROVE  new \in Timer /\ OnTime(new, tick) /\ new.thread = t
<1>1. time \in Nat /\ time < HalfRange
  BY Half
<1>2. /\ new.deadline \in Ticks
      /\ TickDiff(new.deadline, tick) = time
  BY <1>1, TickAhead
<1>3. /\ new.left \in Nat /\ new.left > 0
      /\ time # 0 => new.left = time
      /\ time = 0 => new.left = 1
  BY <1>1
<1>4. time = 0 => new.deadline = tick
  <2>1. TickMod \in Nat /\ tick \in Nat /\ tick < TickMod
    BY TickAssumption DEF Ticks
  <2>2. tick % TickMod = tick
    BY <2>1, ModSmall
  <2>3. tick + 0 = tick
    BY <2>1
  <2>. QED BY <2>2, <2>3
<1>5. new \in Timer
  BY <1>2, <1>3 DEF Timer
<1>6. OnTime(new, tick)
  BY <1>1, <1>2, <1>3, <1>4 DEF OnTime
<1>. QED BY <1>5, <1>6

\* The section that suspends the caller, on the list of an object or not.
LEMMA SuspendOK ==
    ASSUME IInv, NEW t \in Thread, Runs(t),
           NEW service \in {"mutex", "sem", "sleep"},
           NEW time, time = Forever \/ time \in 0 .. HalfRange - 1,
           service = "sleep" => time # Forever,
           SuspendSelf(t, service, time),
           waiters' = [o \in Object |-> IF o = service THEN Queued(waiters[o], t)
                                                       ELSE waiters[o]]
    PROVE  /\ t \notin suspended /\ suspended' = suspended \cup {t}
           /\ current' = t /\ current = t
           /\ suspended' \subseteq Thread
           /\ error' \in [Thread -> {"EOK", "ETIMEOUT"}]
           /\ at' \in [Thread -> {"run", "schedule", "return"}]
           /\ call' \in [Thread -> Service]
           /\ waiters' \in [Object -> Seq(Thread)]
           /\ tick' \in Ticks
           /\ Queues'
           /\ ListOK(timers', tick')
           /\ ThreadsOK'
           /\ Given' = Given
           /\ mutex' = mutex => Outcome'
           /\ \A o \in Object : Entries(waiters'[o]) = IF o = service
                                                         THEN Entries(waiters[o]) \cup {t}
                                                         ELSE Entries(waiters[o])
           /\ \A o \in Object : Sorted(waiters[o], prio) => Sorted(waiters'[o], prio)
<1>1. /\ TypeOK /\ Queues /\ ListOK(timers, tick) /\ ThreadsOK /\ Outcome
  BY DEF IInv
<1>2. current = t /\ at[t] = "run" /\ t \notin suspended /\ call[t] = "none"
  BY <1>1 DEF Runs, ThreadsOK
<1>3. \A o \in Object : t \notin Entries(waiters[o])
  BY <1>1, <1>2 DEF ThreadsOK
<1>4. prio \in [Thread -> Int]
  BY <1>1, PrioType DEF TypeOK
<1>5. /\ error' = [error EXCEPT ![t] = "EOK"]
      /\ suspended' = suspended \cup {t}
      /\ at' = [at EXCEPT ![t] = "schedule"]
      /\ call' = [call EXCEPT ![t] = service]
      /\ current' = current /\ tick' = tick
  BY DEF SuspendSelf
<1>6. /\ current' = t
      /\ suspended' \subseteq Thread
      /\ error' \in [Thread -> {"EOK", "ETIMEOUT"}]
      /\ at' \in [Thread -> {"run", "schedule", "return"}]
      /\ call' \in [Thread -> Service]
      /\ tick' \in Ticks /\ tick \in Ticks
  BY <1>1, <1>2, <1>5 DEF TypeOK, Service
<1>7. ASSUME NEW o \in Object
      PROVE  /\ QueueOK(waiters'[o])
             /\ Entries(waiters'[o]) = IF o = service THEN Entries(waiters[o]) \cup {t}
                                                      ELSE Entries(waiters[o])
             /\ Sorted(waiters[o], prio) => Sorted(waiters'[o], prio)
  <2>0. QueueOK(waiters[o]) /\ t \notin Entries(waiters[o])
    BY <1>1, <1>3 DEF Queues
  <2>1. CASE o = service
    <3>1. waiters'[o] = Queued(waiters[o], t)
      BY <2>1
    <3>. QED BY <2>0, <2>1, <3>1, <1>4, QueuedOK
  <2>2. CASE o # service
    <3>1. waiters'[o] = waiters[o]
      BY <2>2
    <3>. QED BY <2>0, <2>2, <3>1
  <2>. QED BY <2>1, <2>2
<1>8. waiters' \in [Object -> Seq(Thread)]
  <2>1. \A o \in Object : waiters'[o] \in Seq(Thread)
    BY <1>7 DEF QueueOK
  <2>2. waiters' = [o \in Object |-> waiters'[o]]
    OBVIOUS
  <2>. QED BY <2>1, <2>2
<1>9. /\ ListOK(timers', tick)
      /\ \/ Threads(timers') = Threads(timers) \cup {t}
         \/ Threads(timers') = Threads(timers) \ {t} /\ service # "sleep"
  <2>1. CASE time = Forever
    <3>1. timers' = TimerRemove(timers, t) /\ service # "sleep"
      BY <2>1 DEF SuspendSelf
    <3>. QED BY <3>1, <1>1, <1>6, TimerRemoveOK
  <2>2. CASE time \in 0 .. HalfRange - 1
    <3> DEFINE new == [thread   |-> t,
                       deadline |-> (tick + time) % TickMod,
                       left     |-> IF time = 0 THEN 1 ELSE time]
    <3>1. time # Forever
      BY <2>2 DEF Forever
    <3>2. timers' = TimerStart(timers, new)
      BY <3>1 DEF SuspendSelf
    <3>3. new \in Timer /\ OnTime(new, tick) /\ new.thread = t
      BY <2>2, <1>6, NewTimer
    <3>. HIDE DEF new
    <3>. QED BY <3>2, <3>3, <1>1, <1>6, TimerStartOK
  <2>. QED BY <2>1, <2>2
<1>10. ThreadsOK'
  <2>1. ASSUME NEW u \in Thread
        PROVE  /\ at'[u] = "run" <=> call'[u] = "none"
               /\ u \in suspended' => /\ at'[u] # "run"
                                      /\ error'[u] = "EOK"
                                      /\ call'[u] = "sleep" => u \in Threads(timers')
               /\ u \in Threads(timers') => u \in suspended'
               /\ \A o \in Object : u \in Entries(waiters'[o]) <=> u \in suspended' /\ call'[u] = o
    <3>1. CASE u = t
      <4>1. /\ at'[u] = "schedule" /\ error'[u] = "EOK" /\ call'[u] = service
            /\ u \in suspended'
        BY <3>1, <1>1, <1>5 DEF TypeOK
      <4>2. \A o \in Object : u \in Entries(waiters'[o]) <=> o = service
        BY <3>1, <1>3, <1>7
      <4>. QED BY <3>1, <4>1, <4>2, <1>9
    <3>2. CASE u # t
      <4>1. /\ at'[u] = at[u] /\ error'[u] = error[u] /\ call'[u] = call[u]
            /\ u \in suspended' <=> u \in suspended
            /\ u \in Threads(timers') <=> u \in Threads(timers)
        BY <3>2, <1>1, <1>5, <1>9 DEF TypeOK
      <4>2. ASSUME NEW o \in Object
            PROVE  u \in Entries(waiters'[o]) <=> u \in Entries(waiters[o])
        <5>1. CASE o = service
          BY <5>1, <3>2, <1>7
        <5>2. CASE o # service
          BY <5>2, <1>7
        <5>. QED BY <5>1, <5>2
      <4>. QED BY <4>1, <4>2, <1>1 DEF ThreadsOK
    <3>. QED BY <3>1, <3>2
  <2>2. at'[t] = "schedule"
    BY <1>1, <1>5 DEF TypeOK
  <2>. QED BY <2>1, <2>2, <1>6 DEF ThreadsOK
<1>11. \A u \in Thread : u # t => /\ at'[u] = at[u] /\ error'[u] = error[u] /\ call'[u] = call[u]
                                  /\ u \in suspended' <=> u \in suspended
  BY <1>1, <1>5 DEF TypeOK
<1>12. Given' = Given
  <2>1. t \notin Given /\ t \notin Given'
    BY <1>2, <1>5 DEF Given
  <2>2. \A u \in Thread : u # t => (u \in Given <=> u \in Given')
    BY <1>11 DEF Given
  <2>3. Given \subseteq Thread /\ Given' \subseteq Thread
    BY DEF Given
  <2>. QED BY <2>1, <2>2, <2>3
<1>13. mutex' = mutex => Outcome'
  BY <1>1, <1>5, <1>11 DEF Outcome
<1>14. Queues'
  BY <1>7 DEF Queues
<1>. QED BY <1>2, <1>5, <1>6, <1>7, <1>8, <1>9, <1>10, <1>12, <1>13, <1>14

\* rt_ipc_list_resume of the first waiter, and rt_schedule.
LEMMA ResumeOK ==
    ASSUME IInv, NEW object \in Object, waiters[object] # << >>, Resume(object),
           UNCHANGED <<error, at, call, tick>>, prio' \in [Thread -> Nat],
           NEW h, h = Head(waiters[object])
    PROVE  /\ h \in Thread /\ h \in suspended /\ call[h] = object
           /\ error[h] = "EOK" /\ at[h] # "run"
           /\ suspended' = suspended \ {h}
           /\ suspended' \subseteq Thread
           /\ current' \in Thread \cup {Idle}
           /\ waiters' \in [Object -> Seq(Thread)]
           /\ Queues'
           /\ ListOK(timers', tick')
           /\ ThreadsOK'
           /\ SchedOK'
           /\ Entries(waiters'[object]) = Entries(waiters[object]) \ {h}
           /\ \A o \in Object : o # object => waiters'[o] = waiters[o]
           /\ Sorted(waiters[object], prio) =>
                 /\ Sorted(waiters'[object], prio)
                 /\ \A x \in Entries(waiters[object]) : prio[h] <= prio[x]
<1>1. TypeOK /\ Queues /\ ListOK(timers, tick) /\ ThreadsOK
  BY DEF IInv
<1>2. /\ waiters' = [waiters EXCEPT ![object] = Tail(@)]
      /\ suspended' = suspended \ {h}
      /\ timers' = TimerRemove(timers, h)
      /\ Reschedule
  BY DEF Resume
<1>3. QueueOK(waiters[object])
  BY <1>1 DEF Queues
<1>4. /\ h \in Thread /\ h \in Entries(waiters[object])
      /\ QueueOK(Tail(waiters[object]))
      /\ Entries(Tail(waiters[object])) = Entries(waiters[object]) \ {h}
      /\ \A key : Sorted(waiters[object], key) =>
                    /\ Sorted(Tail(waiters[object]), key)
                    /\ \A x \in Entries(waiters[object]) : key[h] <= key[x]
  BY <1>3, TailOK
<1>5. /\ waiters'[object] = Tail(waiters[object])
      /\ \A o \in Object : o # object => waiters'[o] = waiters[o]
      /\ waiters' = [o \in Object |-> waiters'[o]]
  BY <1>1, <1>2 DEF TypeOK
<1>6. h \in suspended /\ call[h] = object /\ error[h] = "EOK" /\ at[h] # "run"
  BY <1>1, <1>4 DEF ThreadsOK
<1>7. Queues'
  <2>1. ASSUME NEW o \in Object PROVE QueueOK(waiters'[o])
    <3>1. CASE o = object
      BY <3>1, <1>4, <1>5
    <3>2. CASE o # object
      BY <3>2, <1>1, <1>5 DEF Queues
    <3>. QED BY <3>1, <3>2
  <2>. QED BY <2>1 DEF Queues
<1>8. waiters' \in [Object -> Seq(Thread)]
  <2>1. \A o \in Object : waiters'[o] \in Seq(Thread)
    BY <1>7 DEF Queues, QueueOK
  <2>. QED BY <2>1, <1>5
<1>9. ListOK(timers', tick') /\ Threads(timers') = Threads(timers) \ {h}
  <2>1. tick \in Ticks /\ tick' = tick
    BY <1>1 DEF TypeOK
  <2>. QED BY <2>1, <1>1, <1>2, <1>4, TimerRemoveOK
<1>10. suspended' \subseteq Thread
  BY <1>1, <1>2 DEF TypeOK
<1>11. current' \in Thread \cup {Idle} /\ current' \notin suspended' /\ SchedOK'
  BY <1>2, <1>10, RescheduleOK
<1>12. ThreadsOK'
  <2>1. ASSUME NEW u \in Thread
        PROVE  /\ at'[u] = "run" <=> call'[u] = "none"
               /\ u \in suspended' => /\ at'[u] # "run"
                                      /\ error'[u] = "EOK"
                                      /\ call'[u] = "sleep" => u \in Threads(timers')
               /\ u \in Threads(timers') => u \in suspended'
               /\ \A o \in Object : u \in Entries(waiters'[o]) <=> u \in suspended' /\ call'[u] = o
    <3>1. at'[u] = at[u] /\ error'[u] = error[u] /\ call'[u] = call[u]
      OBVIOUS
    <3>2. CASE u = h
      <4>1. u \notin suspended' /\ u \notin Threads(timers')
        BY <3>2, <1>2, <1>9
      <4>2. ASSUME NEW o \in Object PROVE u \notin Entries(waiters'[o])
        <5>1. CASE o = object
          BY <5>1, <3>2, <1>4, <1>5
        <5>2. CASE o # object
          BY <5>2, <3>2, <1>1, <1>4, <1>5, <1>6 DEF ThreadsOK
        <5>. QED BY <5>1, <5>2
      <4>. QED BY <3>1, <4>1, <4>2, <1>1 DEF ThreadsOK
    <3>3. CASE u # h
      <4>1. /\ u \in suspended' <=> u \in suspended
            /\ u \in Threads(timers') <=> u \in Threads(timers)
        BY <3>3, <1>2, <1>9
      <4>2. ASSUME NEW o \in Object
            PROVE  u \in Entries(waiters'[o]) <=> u \in Entries(waiters[o])
        <5>1. CASE o = object
          BY <5>1, <3>3, <1>4, <1>5
        <5>2. CASE o # object
          BY <5>2, <1>5
        <5>. QED BY <5>1, <5>2
      <4>. QED BY <3>1, <4>1, <4>2, <1>1 DEF ThreadsOK
    <3>. QED BY <3>2, <3>3
  <2>. QED BY <2>1, <1>11 DEF ThreadsOK
<1>. QED BY <1>2, <1>4, <1>5, <1>6, <1>7, <1>8, <1>9, <1>10, <1>11, <1>12

-----------------------------------------------------------------------------
(* The steps *)

\* rt_sem_take of an available semaphore.
LEMMA SemTakeNowOK ==
    ASSUME IInv, NEW t \in Thread, SemTakeNow(t)
    PROVE  IInv'
<1> USE DEF SemTakeNow
<1>1. TypeOK'
  <2>1. value \in 0 .. SemMax /\ value > 0 /\ balance \in Nat /\ SemMax \in Nat
    BY IpcAssumption DEF IInv, TypeOK
  <2>2. IsFiniteSet(Given)
    BY IpcAssumption, FS_Subset DEF Given
  <2>3. Cardinality(Given) \in Nat
    BY <2>2, FS_CardinalityType
  <2>4. value' \in 0 .. SemMax /\ balance' \in Nat
    BY <2>1, <2>3 DEF IInv
  <2>. QED BY <2>4 DEF IInv, TypeOK
<1>2. Given' = Given
  BY DEF Given
<1>3. balance' = value' + Cardinality(Given')
  <2>1. value \in Nat /\ balance \in Nat /\ IsFiniteSet(Given)
    BY IpcAssumption, FS_Subset DEF Given, IInv, TypeOK
  <2>2. Cardinality(Given) \in Nat
    BY <2>1, FS_CardinalityType
  <2>. QED BY <1>2, <2>1, <2>2 DEF IInv
<1>4. /\ Queues' /\ ListOK(timers', tick') /\ ThreadsOK' /\ OwnerOK' /\ Outcome'
      /\ PriorityReturned' /\ SchedOK'
  BY DEF IInv, Queues, ThreadsOK, OwnerOK, Outcome, PriorityReturned, SchedOK, Ready
<1>. QED BY <1>1, <1>3, <1>4 DEF IInv

\* rt_thread_sleep.
LEMMA SleepOK ==
    ASSUME IInv, NEW t \in Thread, NEW ticks \in SleepTicks, Sleep(t, ticks)
    PROVE  IInv'
<1>1. ticks \in 0 .. HalfRange - 1 /\ ticks # Forever
  BY IpcAssumption DEF Forever
<1>2. /\ Runs(t) /\ SuspendSelf(t, "sleep", ticks)
      /\ UNCHANGED <<prio, waiters, mutex, value, balance>>
  BY DEF Sleep
<1>3. waiters' = [o \in Object |-> IF o = "sleep" THEN Queued(waiters[o], t) ELSE waiters[o]]
  BY <1>2 DEF IInv, TypeOK, Object
<1>4. /\ t \notin suspended /\ suspended' = suspended \cup {t} /\ current' = t /\ current = t
      /\ suspended' \subseteq Thread
      /\ error' \in [Thread -> {"EOK", "ETIMEOUT"}]
      /\ at' \in [Thread -> {"run", "schedule", "return"}]
      /\ call' \in [Thread -> Service]
      /\ tick' \in Ticks
      /\ Queues' /\ ListOK(timers', tick') /\ ThreadsOK' /\ Given' = Given
      /\ mutex' = mutex => Outcome'
  <2>1. "sleep" \in {"mutex", "sem", "sleep"}
    OBVIOUS
  <2>. QED BY <1>1, <1>2, <1>3, <2>1, SuspendOK
<1>5. TypeOK'
  <2>1. timers' \in Seq([thread : Thread, deadline : Ticks, left : Nat])
    BY <1>4 DEF ListOK, Timer
  <2>. QED BY <1>2, <1>4, <2>1 DEF IInv, TypeOK
<1>6. OwnerOK' /\ PriorityReturned'
  BY <1>2 DEF IInv, OwnerOK, PriorityReturned
<1>7. SchedOK'
  <2>1. Idle \notin Thread
    BY IpcAssumption
  <2>2. Ready' \subseteq Ready
    BY <1>4 DEF Ready
  <2>. QED BY <1>2, <1>4, <2>1, <2>2 DEF IInv, SchedOK
<1>8. balance' = value' + Cardinality(Given')
  BY <1>2, <1>4 DEF IInv
<1>. QED BY <1>2, <1>4, <1>5, <1>6, <1>7, <1>8 DEF IInv

\* rt_sem_take when it waits.
LEMMA SemTakeWaitOK ==
    ASSUME IInv, NEW t \in Thread, NEW time \in WaitTicks \cup {Forever}, SemTakeWait(t, time)
    PROVE  IInv'
<1>1. time = Forever \/ time \in 0 .. HalfRange - 1
  BY IpcAssumption
<1>2. /\ Runs(t) /\ SuspendSelf(t, "sem", time)
      /\ UNCHANGED <<prio, mutex, value, balance>>
      /\ waiters' = [waiters EXCEPT !["sem"] = Queued(@, t)]
  BY DEF SemTakeWait
<1>3. /\ waiters' = [o \in Object |-> IF o = "sem" THEN Queued(waiters[o], t) ELSE waiters[o]]
      /\ waiters'["mutex"] = waiters["mutex"]
  BY <1>2 DEF IInv, TypeOK, Object
<1>4. /\ t \notin suspended /\ suspended' = suspended \cup {t} /\ current' = t /\ current = t
      /\ suspended' \subseteq Thread
      /\ error' \in [Thread -> {"EOK", "ETIMEOUT"}]
      /\ at' \in [Thread -> {"run", "schedule", "return"}]
      /\ call' \in [Thread -> Service]
      /\ waiters' \in [Object -> Seq(Thread)]
      /\ tick' \in Ticks
      /\ Queues' /\ ListOK(timers', tick') /\ ThreadsOK' /\ Given' = Given
      /\ mutex' = mutex => Outcome'
  <2>1. "sem" \in {"mutex", "sem", "sleep"} /\ ("sem" = "sleep" => time # Forever)
    OBVIOUS
  <2>. QED BY <1>1, <1>2, <1>3, <2>1, SuspendOK
<1>5. TypeOK'
  <2>1. timers' \in Seq([thread : Thread, deadline : Ticks, left : Nat])
    BY <1>4 DEF ListOK, Timer
  <2>. QED BY <1>2, <1>4, <2>1 DEF IInv, TypeOK
<1>6. OwnerOK' /\ PriorityReturned'
  BY <1>2, <1>3 DEF IInv, OwnerOK, PriorityReturned
<1>7. SchedOK'
  <2>1. Idle \notin Thread
    BY IpcAssumption
  <2>2. Ready' \subseteq Ready
    BY <1>4 DEF Ready
  <2>. QED BY <1>2, <1>3, <1>4, <2>1, <2>2 DEF IInv, SchedOK
<1>8. balance' = value' + Cardinality(Given')
  BY <1>2, <1>4 DEF IInv
<1>. QED BY <1>2, <1>4, <1>5, <1>6, <1>7, <1>8 DEF IInv

\* rt_mutex_take without waiting.
LEMMA MutexTakeNowOK ==
    ASSUME IInv, NEW t \in Thread, MutexTakeNow(t)
    PROVE  IInv'
<1>1. /\ TypeOK /\ ThreadsOK /\ OwnerOK /\ Outcome /\ PriorityReturned /\ SchedOK
  BY DEF IInv
<1>2. /\ current = t /\ at[t] = "run"
      /\ UNCHANGED <<current, suspended, prio, error, at, call, waiters, value, timers,
                     tick, balance>>
  BY DEF MutexTakeNow, Runs
<1>3. NoThread \notin Thread /\ HoldMax \in Nat /\ HoldMax >= 1
  BY IpcAssumption
<1>4. Queues' /\ ListOK(timers', tick') /\ ThreadsOK' /\ Given' = Given
  BY <1>2 DEF IInv, Queues, ThreadsOK, Given
<1>5. balance' = value' + Cardinality(Given')
  BY <1>2, <1>4 DEF IInv
<1>6. CASE mutex.owner = t /\ mutex.hold < HoldMax /\ mutex' = [mutex EXCEPT !.hold = @ + 1]
  <2>1. /\ mutex'.value = mutex.value /\ mutex'.owner = mutex.owner
        /\ mutex'.original = mutex.original /\ mutex'.hold = mutex.hold + 1
        /\ mutex.hold \in 0 .. HoldMax /\ mutex.hold \in Nat
    BY <1>1, <1>3, <1>6 DEF TypeOK
  <2>2. TypeOK'
    <3>1. mutex.hold + 1 \in 0 .. HoldMax
      BY <2>1, <1>3, <1>6
    <3>2. mutex' \in [value : 0 .. 1, owner : Thread \cup {NoThread}, hold : 0 .. HoldMax,
                      original : {Base[u] : u \in Thread} \cup {NoPriority}]
      BY <3>1, <1>1, <1>6 DEF TypeOK
    <3>. QED BY <3>2, <1>1, <1>2 DEF TypeOK
  <2>3. /\ mutex.value = 0 /\ mutex.owner \in Thread /\ mutex.hold >= 1
        /\ mutex.owner \notin Entries(waiters["mutex"])
        /\ mutex.original = Base[mutex.owner]
        /\ \A u \in Entries(waiters["mutex"]) : prio[mutex.owner] <= prio[u]
    BY <1>1, <1>3, <1>6 DEF OwnerOK
  <2>4. OwnerOK'
    BY <2>1, <2>3, <1>1, <1>2 DEF OwnerOK
  <2>5. Outcome' /\ PriorityReturned' /\ SchedOK'
    BY <2>1, <1>1, <1>2 DEF Outcome, PriorityReturned, SchedOK, Ready
  <2>. QED BY <2>2, <2>4, <2>5, <1>4, <1>5 DEF IInv
<1>7. CASE /\ mutex.owner # t /\ mutex.value > 0
           /\ mutex' = [value |-> mutex.value - 1, owner |-> t,
                        hold |-> mutex.hold + 1, original |-> prio[t]]
  <2>1. /\ mutex = [value |-> 1, owner |-> NoThread, hold |-> 0, original |-> NoPriority]
        /\ waiters["mutex"] = << >>
    BY <1>1, <1>7 DEF OwnerOK
  <2>2. /\ mutex'.value = 0 /\ mutex'.owner = t /\ mutex'.hold = 1 /\ mutex'.original = prio[t]
        /\ mutex.owner = NoThread
    BY <2>1, <1>7
  <2>3. TypeOK'
    <3>1. prio[t] \in {Base[u] : u \in Thread}
      BY <1>1 DEF TypeOK
    <3>2. mutex' \in [value : 0 .. 1, owner : Thread \cup {NoThread}, hold : 0 .. HoldMax,
                      original : {Base[u] : u \in Thread} \cup {NoPriority}]
      BY <2>1, <3>1, <1>3, <1>7
    <3>. QED BY <3>2, <1>1, <1>2 DEF TypeOK
  <2>4. \A u \in Thread : prio[u] = Base[u]
    BY <2>2, <1>1, <1>3 DEF PriorityReturned
  <2>5. OwnerOK'
    <3>1. Entries(waiters["mutex"]) = {}
      BY <2>1 DEF Entries
    <3>. QED BY <2>2, <2>4, <3>1, <1>1, <1>2 DEF OwnerOK
  <2>6. Outcome'
    <3>1. SUFFICES ASSUME NEW u \in Thread \ suspended, at[u] # "run", call[u] = "mutex"
                   PROVE  error[u] = "EOK" <=> t = u
      BY <2>2, <1>2 DEF Outcome
    <3>2. u # t
      BY <3>1, <1>2
    <3>3. error[u] # "EOK"
      BY <3>1, <2>2, <1>1, <1>3 DEF Outcome
    <3>. QED BY <3>2, <3>3
  <2>7. PriorityReturned' /\ SchedOK'
    BY <2>1, <2>2, <2>4, <1>2 DEF PriorityReturned, SchedOK
  <2>. QED BY <2>3, <2>5, <2>6, <2>7, <1>4, <1>5 DEF IInv
<1>. QED BY <1>6, <1>7 DEF MutexTakeNow

\* rt_mutex_take when it waits.
LEMMA MutexTakeWaitOK ==
    ASSUME IInv, NEW t \in Thread, NEW time \in WaitTicks \cup {Forever}, MutexTakeWait(t, time)
    PROVE  IInv'
<1>0. /\ TypeOK /\ Queues /\ ThreadsOK /\ OwnerOK /\ PriorityReturned /\ SchedOK
  BY DEF IInv
<1>1. time = Forever \/ time \in 0 .. HalfRange - 1
  BY IpcAssumption
<1>2. /\ Runs(t) /\ SuspendSelf(t, "mutex", time)
      /\ mutex.owner # t /\ mutex.value = 0
      /\ Inherit(t)
      /\ UNCHANGED <<mutex, value, balance>>
      /\ waiters' = [waiters EXCEPT !["mutex"] = Queued(@, t)]
  BY DEF MutexTakeWait
<1>3. waiters' = [o \in Object |-> IF o = "mutex" THEN Queued(waiters[o], t) ELSE waiters[o]]
  BY <1>0, <1>2 DEF TypeOK, Object
<1>4. /\ t \notin suspended /\ suspended' = suspended \cup {t} /\ current' = t /\ current = t
      /\ suspended' \subseteq Thread
      /\ error' \in [Thread -> {"EOK", "ETIMEOUT"}]
      /\ at' \in [Thread -> {"run", "schedule", "return"}]
      /\ call' \in [Thread -> Service]
      /\ waiters' \in [Object -> Seq(Thread)]
      /\ tick' \in Ticks
      /\ Queues' /\ ListOK(timers', tick') /\ ThreadsOK' /\ Given' = Given
      /\ mutex' = mutex => Outcome'
      /\ Entries(waiters'["mutex"]) = Entries(waiters["mutex"]) \cup {t}
      /\ Sorted(waiters["mutex"], prio) => Sorted(waiters'["mutex"], prio)
  <2>1. /\ "mutex" \in {"mutex", "sem", "sleep"} /\ ("mutex" = "sleep" => time # Forever)
        /\ "mutex" \in Object
    BY DEF Object
  <2>2. /\ t \notin suspended /\ suspended' = suspended \cup {t} /\ current' = t /\ current = t
        /\ suspended' \subseteq Thread
        /\ error' \in [Thread -> {"EOK", "ETIMEOUT"}]
        /\ at' \in [Thread -> {"run", "schedule", "return"}]
        /\ call' \in [Thread -> Service]
        /\ waiters' \in [Object -> Seq(Thread)]
        /\ tick' \in Ticks
        /\ Queues' /\ ListOK(timers', tick') /\ ThreadsOK' /\ Given' = Given
        /\ mutex' = mutex => Outcome'
        /\ \A o \in Object : Entries(waiters'[o]) = IF o = "mutex"
                                                      THEN Entries(waiters[o]) \cup {t}
                                                      ELSE Entries(waiters[o])
        /\ \A o \in Object : Sorted(waiters[o], prio) => Sorted(waiters'[o], prio)
    BY <1>1, <1>2, <1>3, <2>1, SuspendOK
  <2>. QED BY <2>1, <2>2
<1>5. /\ mutex.owner \in Thread /\ mutex.hold >= 1
      /\ mutex.owner \notin Entries(waiters["mutex"])
      /\ mutex.original = Base[mutex.owner]
      /\ \A u \in Entries(waiters["mutex"]) : prio[mutex.owner] <= prio[u]
      /\ Sorted(waiters["mutex"], prio)
  BY <1>0, <1>2 DEF OwnerOK
<1>6. prio \in [Thread -> Nat] /\ NoThread \notin Thread /\ Idle \notin Thread
  BY <1>0, PrioType, IpcAssumption DEF TypeOK
<1>7. /\ prio' \in [Thread -> {Base[u] : u \in Thread}]
      /\ \A u \in Thread : u # mutex.owner => prio'[u] = prio[u]
      /\ \/ prio'[mutex.owner] = prio[t] /\ prio[t] < prio[mutex.owner]
         \/ prio'[mutex.owner] = prio[mutex.owner] /\ prio[mutex.owner] <= prio[t]
  <2>1. /\ prio \in [Thread -> {Base[u] : u \in Thread}]
        /\ prio' = [prio EXCEPT ![mutex.owner] = IF prio[t] < prio[mutex.owner] THEN prio[t]
                                                 ELSE prio[mutex.owner]]
    BY <1>0, <1>2 DEF TypeOK, Inherit
  <2>2. prio[t] \in {Base[u] : u \in Thread} /\ prio[mutex.owner] \in {Base[u] : u \in Thread}
    BY <2>1, <1>5
  <2>3. CASE prio[t] < prio[mutex.owner]
    <3>1. prio' = [prio EXCEPT ![mutex.owner] = prio[t]]
      BY <2>1, <2>3
    <3>. QED BY <3>1, <2>1, <2>2, <2>3, <1>5
  <2>4. CASE prio[mutex.owner] <= prio[t]
    BY <2>1, <2>2, <2>4, <1>5, <1>6
  <2>. QED BY <2>3, <2>4, <1>5, <1>6
<1>8. TypeOK'
  <2>1. timers' \in Seq([thread : Thread, deadline : Ticks, left : Nat])
    BY <1>4 DEF ListOK, Timer
  <2>. QED BY <1>0, <1>2, <1>4, <1>7, <2>1 DEF TypeOK
<1>9. OwnerOK'
  <2>1. \A u \in Entries(waiters'["mutex"]) : u \in Thread /\ u # mutex.owner /\ prio'[u] = prio[u]
    <3>1. \A u \in Entries(waiters["mutex"]) : u \in Thread
      BY <1>0 DEF Queues, QueueOK, Entries, Object
    <3>. QED BY <3>1, <1>2, <1>4, <1>5, <1>7
  <2>2. \A u \in Entries(waiters'["mutex"]) : prio'[mutex.owner] <= prio'[u]
    <3>1. SUFFICES ASSUME NEW u \in Entries(waiters'["mutex"])
                   PROVE  prio'[mutex.owner] <= prio[u]
      BY <2>1
    <3>2. prio[u] \in Nat /\ prio[t] \in Nat /\ prio[mutex.owner] \in Nat
      BY <2>1, <1>5, <1>6
    <3>3. CASE u = t
      BY <3>2, <3>3, <1>7
    <3>4. CASE u \in Entries(waiters["mutex"])
      <4>1. prio[mutex.owner] <= prio[u]
        BY <3>4, <1>5
      <4>. QED BY <3>2, <4>1, <1>7
    <3>. QED BY <3>3, <3>4, <1>4
  <2>3. Sorted(waiters'["mutex"], prio')
    <3>1. Sorted(waiters'["mutex"], prio)
      BY <1>4, <1>5
    <3>2. \A u \in Entries(waiters'["mutex"]) : prio[u] = prio'[u]
      BY <2>1
    <3>. QED BY <3>1, <3>2, SortedAgree
  <2>4. mutex' = mutex /\ mutex.owner \notin Entries(waiters'["mutex"])
    BY <1>2, <2>1
  <2>. QED BY <2>2, <2>3, <2>4, <1>2, <1>5 DEF OwnerOK
<1>10. PriorityReturned'
  BY <1>0, <1>2, <1>7 DEF PriorityReturned
<1>11. SchedOK'
  <2>1. \A u \in Ready : prio[t] <= prio[u]
    BY <1>0, <1>2, <1>4, <1>5, <1>6 DEF SchedOK
  <2>2. ASSUME NEW u \in Ready' PROVE prio'[t] <= prio'[u]
    <3>1. u \in Thread /\ u \in Ready /\ prio'[t] = prio[t]
      BY <1>2, <1>4, <1>7 DEF Ready
    <3>2. prio[t] <= prio[u] /\ prio[t] \in Nat
      BY <3>1, <2>1, <1>6
    <3>3. CASE u = mutex.owner
      BY <3>1, <3>2, <3>3, <1>7
    <3>4. CASE u # mutex.owner
      BY <3>1, <3>2, <3>4, <1>7
    <3>. QED BY <3>3, <3>4
  <2>. QED BY <2>2, <1>4 DEF SchedOK
<1>12. balance' = value' + Cardinality(Given')
  BY <1>2, <1>4 DEF IInv
<1>. QED BY <1>2, <1>4, <1>8, <1>9, <1>10, <1>11, <1>12 DEF IInv

\* The threads that have been given a token can be counted.
LEMMA GivenFinite == IsFiniteSet(Given) /\ Cardinality(Given) \in Nat
<1>1. IsFiniteSet(Given)
  BY IpcAssumption, FS_Subset DEF Given
<1>. QED BY <1>1, FS_CardinalityType

\* rt_mutex_release.
LEMMA MutexReleaseOK ==
    ASSUME IInv, NEW t \in Thread, MutexRelease(t)
    PROVE  IInv'
<1>1. /\ TypeOK /\ Queues /\ ListOK(timers, tick) /\ ThreadsOK /\ OwnerOK /\ Outcome
      /\ PriorityReturned /\ SchedOK
  BY DEF IInv
<1>2. /\ current = t /\ at[t] = "run" /\ mutex.owner = t
      /\ UNCHANGED <<error, at, call, value, tick, balance>>
  BY DEF MutexRelease, Runs
<1>3. NoThread \notin Thread /\ HoldMax \in Nat /\ HoldMax >= 1 /\ Idle \notin Thread
  BY IpcAssumption
<1>4. /\ mutex.value = 0 /\ mutex.hold >= 1
      /\ t \notin Entries(waiters["mutex"])
      /\ mutex.original = Base[t]
      /\ \A u \in Entries(waiters["mutex"]) : prio[t] <= prio[u]
      /\ Sorted(waiters["mutex"], prio)
  BY <1>1, <1>2, <1>3 DEF OwnerOK
<1>5. prio \in [Thread -> Nat] /\ Base \in [Thread -> Nat]
  BY <1>1, PrioType DEF TypeOK
<1>6. CASE /\ mutex.hold > 1
           /\ mutex' = [mutex EXCEPT !.hold = @ - 1]
           /\ UNCHANGED <<current, suspended, prio, waiters, timers>>
  <2>1. /\ mutex'.value = mutex.value /\ mutex'.owner = mutex.owner
        /\ mutex'.original = mutex.original /\ mutex'.hold = mutex.hold - 1
        /\ mutex.hold \in 0 .. HoldMax /\ mutex.hold \in Nat
    BY <1>1, <1>3, <1>6 DEF TypeOK
  <2>2. TypeOK'
    <3>1. mutex.hold - 1 \in 0 .. HoldMax
      BY <2>1, <1>3, <1>6
    <3>2. mutex' \in [value : 0 .. 1, owner : Thread \cup {NoThread}, hold : 0 .. HoldMax,
                      original : {Base[u] : u \in Thread} \cup {NoPriority}]
      BY <3>1, <1>1, <1>6 DEF TypeOK
    <3>. QED BY <3>2, <1>1, <1>2, <1>6 DEF TypeOK
  <2>3. Queues' /\ ListOK(timers', tick') /\ ThreadsOK' /\ Given' = Given
    BY <1>1, <1>2, <1>6 DEF Queues, ThreadsOK, Given
  <2>4. mutex'.hold >= 1
    BY <2>1, <1>6
  <2>5. OwnerOK'
    BY <2>1, <2>4, <1>2, <1>4, <1>6 DEF OwnerOK
  <2>6. Outcome' /\ PriorityReturned' /\ SchedOK'
    BY <2>1, <1>1, <1>2, <1>6 DEF Outcome, PriorityReturned, SchedOK, Ready
  <2>. QED BY <2>2, <2>3, <2>5, <2>6, <1>2 DEF IInv
<1>7. ASSUME mutex.hold = 1, Restored
      PROVE  /\ prio' \in [Thread -> {Base[u] : u \in Thread}]
             /\ prio' \in [Thread -> Nat]
             /\ prio'[t] = Base[t]
             /\ \A u \in Thread : u # t => prio'[u] = prio[u]
             /\ \A u \in Thread : prio'[u] = Base[u]
  <2>1. prio' = [prio EXCEPT ![t] = Base[t]]
    BY <1>2, <1>4, <1>7 DEF Restored
  <2>2. /\ prio' \in [Thread -> {Base[u] : u \in Thread}]
        /\ prio'[t] = Base[t]
        /\ \A u \in Thread : u # t => prio'[u] = prio[u]
    BY <2>1, <1>1 DEF TypeOK
  <2>3. \A u \in Thread : u # t => prio[u] = Base[u]
    BY <1>1, <1>2 DEF PriorityReturned
  <2>4. prio' \in [Thread -> Nat]
    BY <2>1, <1>5
  <2>. QED BY <2>2, <2>3, <2>4
<1>8. CASE /\ mutex.hold = 1 /\ Restored
           /\ waiters["mutex"] # << >>
           /\ mutex' = Handover
           /\ Resume("mutex")
  <2> DEFINE h == Head(waiters["mutex"])
  <2>1. /\ prio' \in [Thread -> {Base[u] : u \in Thread}]
        /\ prio' \in [Thread -> Nat]
        /\ \A u \in Thread : u # t => prio'[u] = prio[u]
        /\ \A u \in Thread : prio'[u] = Base[u]
    BY <1>7, <1>8
  <2>2. "mutex" \in Object
    BY DEF Object
  <2>3. mutex' = [mutex EXCEPT !.owner = h, !.original = prio[h], !.hold = 1]
    BY <1>8 DEF Handover
  <2>4. /\ h \in Thread /\ h \in suspended /\ call[h] = "mutex"
        /\ error[h] = "EOK" /\ at[h] # "run"
        /\ suspended' = suspended \ {h}
        /\ suspended' \subseteq Thread
        /\ current' \in Thread \cup {Idle}
        /\ waiters' \in [Object -> Seq(Thread)]
        /\ Queues'
        /\ ListOK(timers', tick')
        /\ ThreadsOK'
        /\ SchedOK'
        /\ Entries(waiters'["mutex"]) = Entries(waiters["mutex"]) \ {h}
        /\ Sorted(waiters["mutex"], prio) =>
              /\ Sorted(waiters'["mutex"], prio)
              /\ \A x \in Entries(waiters["mutex"]) : prio[h] <= prio[x]
    <3>1. waiters["mutex"] # << >> /\ Resume("mutex") /\ h = Head(waiters["mutex"])
      BY <1>8
    <3>2. UNCHANGED <<error, at, call, tick>> /\ prio' \in [Thread -> Nat]
      BY <1>2, <2>1
    <3>. HIDE DEF h
    <3>. QED BY <3>1, <3>2, <2>2, ResumeOK
  <2>. HIDE DEF h
  <2>5. h # t /\ prio[h] = Base[h]
    BY <2>1, <2>4, <1>2, <1>1 DEF ThreadsOK, PriorityReturned
  <2>6. /\ mutex'.owner = h /\ mutex'.original = Base[h] /\ mutex'.hold = 1 /\ mutex'.value = 0
        /\ mutex' \in [value : 0 .. 1, owner : Thread \cup {NoThread}, hold : 0 .. HoldMax,
                       original : {Base[u] : u \in Thread} \cup {NoPriority}]
    <3>1. 1 \in 0 .. HoldMax /\ Base[h] \in {Base[u] : u \in Thread}
      BY <1>3, <2>4
    <3>. QED BY <3>1, <2>3, <2>4, <2>5, <1>1, <1>4 DEF TypeOK
  <2>7. TypeOK'
    <3>1. timers' \in Seq([thread : Thread, deadline : Ticks, left : Nat])
      BY <2>4 DEF ListOK, Timer
    <3>. QED BY <3>1, <2>1, <2>4, <2>6, <1>1, <1>2 DEF TypeOK
  <2>8. \A u \in Entries(waiters["mutex"]) : u \in Thread /\ u # t /\ prio'[u] = prio[u]
    <3>1. \A u \in Entries(waiters["mutex"]) : u \in Thread
      BY <1>1 DEF Queues, QueueOK, Entries, Object
    <3>. QED BY <3>1, <2>1, <1>4
  <2>9. OwnerOK'
    <3>1. Sorted(waiters'["mutex"], prio) /\ \A x \in Entries(waiters["mutex"]) : prio[h] <= prio[x]
      BY <2>4, <1>4
    <3>2. Sorted(waiters'["mutex"], prio')
      <4>1. \A u \in Entries(waiters'["mutex"]) : prio[u] = prio'[u]
        BY <2>4, <2>8
      <4>. QED BY <4>1, <3>1, SortedAgree
    <3>3. \A x \in Entries(waiters'["mutex"]) : prio'[h] <= prio'[x]
      BY <2>1, <2>4, <2>5, <2>8, <3>1
    <3>. QED BY <3>2, <3>3, <2>4, <2>6 DEF OwnerOK
  <2>10. Outcome'
    <3>1. SUFFICES ASSUME NEW u \in Thread, u \notin suspended', at[u] # "run", call[u] = "mutex"
                   PROVE  error[u] = "EOK" <=> h = u
      BY <2>6, <1>2 DEF Outcome
    <3>2. CASE u = h
      BY <3>2, <2>4
    <3>3. CASE u # h
      <4>1. u \in Thread \ suspended /\ u # t
        BY <3>1, <3>3, <2>4, <1>2
      <4>2. error[u] # "EOK"
        BY <4>1, <3>1, <1>1, <1>2 DEF Outcome
      <4>. QED BY <4>2, <3>3
    <3>. QED BY <3>2, <3>3
  <2>11. PriorityReturned'
    BY <2>1 DEF PriorityReturned
  <2>12. Given' = Given
    <3>1. h \notin Given /\ h \notin Given'
      BY <2>4, <1>2 DEF Given
    <3>2. \A u \in Thread : u # h => (u \in Given <=> u \in Given')
      BY <2>4, <1>2 DEF Given
    <3>3. Given \subseteq Thread /\ Given' \subseteq Thread
      BY DEF Given
    <3>. QED BY <3>1, <3>2, <3>3
  <2>. QED BY <2>4, <2>7, <2>9, <2>10, <2>11, <2>12, <1>2 DEF IInv
<1>9. CASE /\ mutex.hold = 1 /\ Restored
           /\ waiters["mutex"] = << >>
           /\ mutex' = [value |-> mutex.value + 1, owner |-> NoThread,
                        hold |-> 0, original |-> NoPriority]
           /\ UNCHANGED <<current, suspended, waiters, timers>>
  <2>1. /\ prio' \in [Thread -> {Base[u] : u \in Thread}]
        /\ \A u \in Thread : prio'[u] = Base[u]
    BY <1>7, <1>9
  <2>2. mutex' = [value |-> 1, owner |-> NoThread, hold |-> 0, original |-> NoPriority]
    BY <1>4, <1>9
  <2>3. mutex'.owner = NoThread
    BY <2>2
  <2>4. TypeOK'
    <3>1. mutex' \in [value : 0 .. 1, owner : Thread \cup {NoThread}, hold : 0 .. HoldMax,
                      original : {Base[u] : u \in Thread} \cup {NoPriority}]
      BY <2>2, <1>3
    <3>. QED BY <3>1, <2>1, <1>1, <1>2, <1>9 DEF TypeOK
  <2>5. Queues' /\ ListOK(timers', tick') /\ ThreadsOK' /\ Given' = Given
    BY <1>1, <1>2, <1>9 DEF Queues, ThreadsOK, Given
  <2>6. OwnerOK'
    BY <2>2, <1>9 DEF OwnerOK, Sorted
  <2>7. Outcome'
    <3>1. SUFFICES ASSUME NEW u \in Thread \ suspended, at[u] # "run", call[u] = "mutex"
                   PROVE  error[u] = "EOK" <=> NoThread = u
      BY <2>3, <1>2, <1>9 DEF Outcome
    <3>2. u # t /\ u # NoThread
      BY <3>1, <1>2, <1>3
    <3>. QED BY <3>1, <3>2, <1>1, <1>2 DEF Outcome
  <2>8. PriorityReturned' /\ SchedOK'
    BY <2>1, <2>3, <1>2, <1>9 DEF PriorityReturned, SchedOK
  <2>. QED BY <2>4, <2>5, <2>6, <2>7, <2>8, <1>2 DEF IInv
<1>. QED BY <1>6, <1>8, <1>9 DEF MutexRelease

\* rt_sem_release.
LEMMA SemReleaseOK ==
    ASSUME IInv, SemRelease
    PROVE  IInv'
<1>1. /\ TypeOK /\ Queues /\ ListOK(timers, tick) /\ ThreadsOK /\ OwnerOK /\ Outcome
      /\ PriorityReturned /\ SchedOK /\ balance = value + Cardinality(Given)
  BY DEF IInv
<1>2. UNCHANGED <<prio, error, at, call, mutex, tick>>
  BY DEF SemRelease
<1>3. prio' \in [Thread -> Nat]
  BY <1>1, <1>2, PrioType DEF TypeOK
<1>4. value \in Nat /\ balance \in Nat /\ SemMax \in Nat /\ value \in 0 .. SemMax
  BY <1>1, IpcAssumption DEF TypeOK
<1>5. CASE waiters["sem"] # << >> /\ Resume("sem") /\ balance' = balance + 1 /\ UNCHANGED value
  <2> DEFINE h == Head(waiters["sem"])
  <2>1. "sem" \in Object /\ "mutex" \in Object
    BY DEF Object
  <2>2. /\ h \in Thread /\ h \in suspended /\ call[h] = "sem"
        /\ error[h] = "EOK" /\ at[h] # "run"
        /\ suspended' = suspended \ {h}
        /\ suspended' \subseteq Thread
        /\ current' \in Thread \cup {Idle}
        /\ waiters' \in [Object -> Seq(Thread)]
        /\ Queues'
        /\ ListOK(timers', tick')
        /\ ThreadsOK'
        /\ SchedOK'
        /\ \A o \in Object : o # "sem" => waiters'[o] = waiters[o]
    BY <2>1, <1>2, <1>3, <1>5, ResumeOK
  <2>. HIDE DEF h
  <2>3. waiters'["mutex"] = waiters["mutex"]
    BY <2>1, <2>2
  <2>4. TypeOK'
    <3>1. timers' \in Seq([thread : Thread, deadline : Ticks, left : Nat])
      BY <2>2 DEF ListOK, Timer
    <3>2. balance' \in Nat
      BY <1>4, <1>5
    <3>. QED BY <3>1, <3>2, <2>2, <1>1, <1>2, <1>5 DEF TypeOK
  <2>5. OwnerOK' /\ PriorityReturned'
    BY <2>3, <1>1, <1>2 DEF OwnerOK, PriorityReturned
  <2>6. Outcome'
    <3>1. SUFFICES ASSUME NEW u \in Thread, u \notin suspended', at[u] # "run", call[u] = "mutex"
                   PROVE  error[u] = "EOK" <=> mutex.owner = u
      BY <1>2 DEF Outcome
    <3>2. u \in Thread \ suspended
      BY <3>1, <2>2
    <3>. QED BY <3>1, <3>2, <1>1 DEF Outcome
  <2>7. Given' = Given \cup {h} /\ h \notin Given
    <3>1. h \notin Given /\ h \in Given'
      BY <2>2, <1>2 DEF Given
    <3>2. \A u \in Thread : u # h => (u \in Given <=> u \in Given')
      BY <2>2, <1>2 DEF Given
    <3>3. Given \subseteq Thread /\ Given' \subseteq Thread
      BY DEF Given
    <3>. QED BY <3>1, <3>2, <3>3
  <2>8. balance' = value' + Cardinality(Given')
    <3>1. Cardinality(Given') = Cardinality(Given) + 1
      BY <2>7, GivenFinite, FS_AddElement
    <3>. QED BY <3>1, <1>1, <1>4, <1>5, GivenFinite
  <2>. QED BY <2>2, <2>4, <2>5, <2>6, <2>8 DEF IInv
<1>6. CASE /\ waiters["sem"] = << >> /\ value < SemMax
           /\ value' = value + 1
           /\ balance' = balance + 1
           /\ UNCHANGED <<current, suspended, waiters, timers>>
  <2>1. /\ Queues' /\ ListOK(timers', tick') /\ ThreadsOK' /\ OwnerOK' /\ Outcome'
        /\ PriorityReturned' /\ SchedOK' /\ Given' = Given
    BY <1>1, <1>2, <1>6
       DEF Queues, ThreadsOK, OwnerOK, Outcome, PriorityReturned, SchedOK, Ready, Given
  <2>2. value' \in 0 .. SemMax /\ balance' \in Nat
    BY <1>4, <1>6
  <2>3. TypeOK'
    BY <2>2, <1>1, <1>2, <1>6 DEF TypeOK
  <2>4. balance' = value' + Cardinality(Given')
    BY <2>1, <1>1, <1>4, <1>6, GivenFinite
  <2>. QED BY <2>1, <2>3, <2>4 DEF IInv
<1>. QED BY <1>5, <1>6 DEF SemRelease

\* The rt_schedule of a call that waits.
LEMMA ScheduleOK ==
    ASSUME IInv, NEW t \in Thread, Schedule(t)
    PROVE  IInv'
<1>1. /\ TypeOK /\ Queues /\ ListOK(timers, tick) /\ ThreadsOK /\ OwnerOK /\ Outcome
      /\ PriorityReturned /\ balance = value + Cardinality(Given)
  BY DEF IInv
<1>2. /\ at[t] = "schedule" /\ at' = [at EXCEPT ![t] = "return"]
      /\ UNCHANGED <<suspended, prio, error, call, waiters, mutex, value, timers, tick, balance>>
      /\ Reschedule
  BY DEF Schedule
<1>3. suspended' \subseteq Thread /\ prio' \in [Thread -> Nat]
  BY <1>1, <1>2, PrioType DEF TypeOK
<1>4. current' \in Thread \cup {Idle} /\ current' \notin suspended' /\ SchedOK'
  BY <1>2, <1>3, RescheduleOK
<1>5. /\ at' \in [Thread -> {"run", "schedule", "return"}]
      /\ \A u \in Thread : at'[u] = "run" <=> at[u] = "run"
  BY <1>1, <1>2 DEF TypeOK
<1>6. TypeOK'
  BY <1>1, <1>2, <1>4, <1>5 DEF TypeOK
<1>7. Queues' /\ ListOK(timers', tick') /\ OwnerOK' /\ PriorityReturned'
  BY <1>1, <1>2 DEF Queues, OwnerOK, PriorityReturned
<1>8. ThreadsOK'
  BY <1>1, <1>2, <1>4, <1>5 DEF ThreadsOK
<1>9. Outcome'
  BY <1>1, <1>2, <1>5 DEF Outcome
<1>10. Given' = Given
  BY <1>2, <1>5 DEF Given
<1>. QED BY <1>1, <1>2, <1>4, <1>6, <1>7, <1>8, <1>9, <1>10 DEF IInv

\* What is left of the call when the thread runs again.
LEMMA ReturnOK ==
    ASSUME IInv, NEW t \in Thread, Return(t)
    PROVE  IInv'
<1>1. /\ TypeOK /\ Queues /\ ListOK(timers, tick) /\ ThreadsOK /\ OwnerOK /\ Outcome
      /\ PriorityReturned /\ SchedOK /\ balance = value + Cardinality(Given)
  BY DEF IInv
<1>2. /\ current = t /\ at[t] = "return"
      /\ at' = [at EXCEPT ![t] = "run"]
      /\ call' = [call EXCEPT ![t] = "none"]
      /\ error' = [error EXCEPT ![t] = "EOK"]
      /\ UNCHANGED <<current, suspended, prio, waiters, mutex, value, timers, tick>>
  BY DEF Return
<1>3. t \notin suspended
  BY <1>1, <1>2 DEF ThreadsOK
<1>4. /\ at'[t] = "run" /\ call'[t] = "none" /\ error'[t] = "EOK"
      /\ \A u \in Thread : u # t => at'[u] = at[u] /\ call'[u] = call[u] /\ error'[u] = error[u]
      /\ at' \in [Thread -> {"run", "schedule", "return"}]
      /\ call' \in [Thread -> Service]
      /\ error' \in [Thread -> {"EOK", "ETIMEOUT"}]
  BY <1>1, <1>2 DEF TypeOK, Service
<1>5. value \in Nat /\ balance \in Nat /\ value' = value
  BY <1>1, <1>2, IpcAssumption DEF TypeOK
<1>6. Given' = Given \ {t}
  <2>1. t \notin Given'
    BY <1>4 DEF Given
  <2>2. \A u \in Thread : u # t => (u \in Given <=> u \in Given')
    BY <1>2, <1>4 DEF Given
  <2>3. Given \subseteq Thread /\ Given' \subseteq Thread
    BY DEF Given
  <2>. QED BY <2>1, <2>2, <2>3
<1>7. balance' \in Nat /\ balance' = value' + Cardinality(Given')
  <2>1. CASE call[t] = "sem" /\ error[t] = "EOK"
    <3>1. t \in Given /\ balance' = balance - 1
      BY <2>1, <1>2, <1>3 DEF Given, Return
    <3>2. Cardinality(Given') = Cardinality(Given) - 1
      BY <3>1, <1>6, GivenFinite, FS_RemoveElement
    <3>3. Cardinality(Given') \in Nat
      BY <1>6, GivenFinite, FS_RemoveElement, FS_CardinalityType, FS_Subset
    <3>. QED BY <3>1, <3>2, <3>3, <1>1, <1>5, GivenFinite
  <2>2. CASE ~(call[t] = "sem" /\ error[t] = "EOK")
    <3>1. t \notin Given /\ balance' = balance
      BY <2>2 DEF Given, Return
    <3>2. Given' = Given
      BY <3>1, <1>6
    <3>. QED BY <3>1, <3>2, <1>1, <1>5
  <2>. QED BY <2>1, <2>2
<1>8. TypeOK'
  BY <1>1, <1>2, <1>4, <1>7 DEF TypeOK
<1>9. Queues' /\ ListOK(timers', tick') /\ OwnerOK' /\ PriorityReturned' /\ SchedOK'
  BY <1>1, <1>2 DEF Queues, OwnerOK, PriorityReturned, SchedOK, Ready
<1>10. ThreadsOK'
  <2>1. ASSUME NEW u \in Thread
        PROVE  /\ at'[u] = "run" <=> call'[u] = "none"
               /\ u \in suspended' => /\ at'[u] # "run"
                                      /\ error'[u] = "EOK"
                                      /\ call'[u] = "sleep" => u \in Threads(timers')
               /\ u \in Threads(timers') => u \in suspended'
               /\ \A o \in Object : u \in Entries(waiters'[o]) <=> u \in suspended' /\ call'[u] = o
    <3>1. CASE u = t
      <4>1. u \notin suspended' /\ u \notin Threads(timers')
        BY <3>1, <1>1, <1>2, <1>3 DEF ThreadsOK
      <4>2. \A o \in Object : u \notin Entries(waiters'[o])
        BY <3>1, <1>1, <1>2, <1>3 DEF ThreadsOK
      <4>. QED BY <3>1, <4>1, <4>2, <1>4
    <3>2. CASE u # t
      BY <3>2, <1>1, <1>2, <1>4 DEF ThreadsOK
    <3>. QED BY <3>1, <3>2
  <2>. QED BY <2>1, <1>2, <1>3 DEF ThreadsOK
<1>11. Outcome'
  BY <1>1, <1>2, <1>4 DEF Outcome
<1>. QED BY <1>7, <1>8, <1>9, <1>10, <1>11 DEF IInv

\* SysTick_Handler.
LEMMA TickOK ==
    ASSUME IInv, Tick
    PROVE  IInv'
<1> DEFINE now == (tick + 1) % TickMod
           n == TimersDue(timers, now)
           fired == Fired(timers, n)
<1>1. /\ TypeOK /\ Queues /\ ListOK(timers, tick) /\ ThreadsOK /\ OwnerOK /\ Outcome
      /\ PriorityReturned /\ SchedOK /\ balance = value + Cardinality(Given)
  BY DEF IInv
<1>2. /\ tick' = now
      /\ timers' = Aged(timers, n)
      /\ error' = [t \in Thread |-> IF t \in fired THEN "ETIMEOUT" ELSE error[t]]
      /\ waiters' = [o \in Object |-> WithoutTimedOut(waiters[o], fired)]
      /\ suspended' = suspended \ fired
      /\ Reschedule \/ (fired = {} /\ current' = current)
      /\ UNCHANGED <<prio, at, call, mutex, value, balance>>
  BY DEF Tick, Aged, Fired
<1>3. tick \in Ticks
  BY <1>1 DEF TypeOK
<1>4. /\ ListOK(timers', tick')
      /\ Threads(timers') = Threads(timers) \ fired
      /\ fired \subseteq Threads(timers)
  BY <1>1, <1>2, <1>3, TickListOK
<1>5. now \in Ticks
  <2>1. 1 \in Nat /\ 1 < HalfRange
    BY Half
  <2>. QED BY <2>1, <1>3, TickAhead
<1>. HIDE DEF now, n, fired
<1>6. fired \subseteq suspended /\ suspended \subseteq Thread /\ suspended' \subseteq Thread
  <2>1. \A u \in Threads(timers) : u \in Thread
    <3>1. \A x \in Entries(timers) : x \in Timer
      BY <1>1 DEF ListOK, Entries
    <3>. QED BY <3>1 DEF Threads, Timer
  <2>2. suspended \subseteq Thread
    BY <1>1 DEF TypeOK
  <2>. QED BY <2>1, <2>2, <1>1, <1>2, <1>4 DEF ThreadsOK
<1>7. prio \in [Thread -> Int] /\ prio' \in [Thread -> Nat]
  BY <1>1, <1>2, PrioType DEF TypeOK
<1>8. ASSUME NEW o \in Object
      PROVE  /\ QueueOK(waiters'[o])
             /\ Entries(waiters'[o]) = Entries(waiters[o]) \ fired
             /\ Sorted(waiters[o], prio) => Sorted(waiters'[o], prio)
  <2>1. waiters'[o] = WithoutTimedOut(waiters[o], fired) /\ QueueOK(waiters[o])
    BY <1>1, <1>2 DEF Queues
  <2>2. prio \in [Thread -> Int] /\ QueueOK(waiters[o])
    BY <2>1, <1>7
  <2>3. /\ QueueOK(WithoutTimedOut(waiters[o], fired))
        /\ Entries(WithoutTimedOut(waiters[o], fired)) = Entries(waiters[o]) \ fired
        /\ Sorted(waiters[o], prio) => Sorted(WithoutTimedOut(waiters[o], fired), prio)
    BY ONLY <2>2, WithoutOK
  <2>. QED BY <2>1, <2>3
<1>9. waiters' \in [Object -> Seq(Thread)]
  <2>1. \A o \in Object : waiters'[o] \in Seq(Thread)
    BY <1>8 DEF QueueOK
  <2>2. waiters' = [o \in Object |-> waiters'[o]]
    BY <1>2
  <2>. QED BY <2>1, <2>2
<1>10. "mutex" \in Object /\ "sem" \in Object
  BY DEF Object
<1>11. waiters["mutex"] = << >> => waiters'["mutex"] = << >>
  <2>1. waiters["mutex"] \in Seq(Thread) /\ waiters'["mutex"] \in Seq(Thread)
    BY <1>1, <1>9, <1>10 DEF TypeOK
  <2>. QED BY <2>1, <1>8, <1>10, EmptyList
<1>12. /\ current' \in Thread \cup {Idle}
       /\ current' \in suspended' => at'[current'] = "schedule"
       /\ SchedOK'
  <2>1. CASE Reschedule
    BY <2>1, <1>6, <1>7, RescheduleOK
  <2>2. CASE fired = {} /\ current' = current
    <3>1. suspended' = suspended /\ Ready' = Ready
      BY <2>2, <1>2 DEF Ready
    <3>2. SchedOK'
      BY <3>1, <2>2, <1>1, <1>2, <1>11 DEF SchedOK
    <3>. QED BY <3>1, <3>2, <2>2, <1>1, <1>2 DEF TypeOK, ThreadsOK
  <2>. QED BY <2>1, <2>2, <1>2
<1>13. error' \in [Thread -> {"EOK", "ETIMEOUT"}]
  BY <1>1, <1>2 DEF TypeOK
<1>14. TypeOK'
  <2>1. timers' \in Seq([thread : Thread, deadline : Ticks, left : Nat])
    BY <1>4 DEF ListOK, Timer
  <2>. QED BY <2>1, <1>1, <1>2, <1>5, <1>6, <1>9, <1>12, <1>13 DEF TypeOK
<1>15. Queues'
  BY <1>8 DEF Queues
<1>16. ThreadsOK'
  <2>1. ASSUME NEW u \in Thread
        PROVE  /\ at'[u] = "run" <=> call'[u] = "none"
               /\ u \in suspended' => /\ at'[u] # "run"
                                      /\ error'[u] = "EOK"
                                      /\ call'[u] = "sleep" => u \in Threads(timers')
               /\ u \in Threads(timers') => u \in suspended'
               /\ \A o \in Object : u \in Entries(waiters'[o]) <=> u \in suspended' /\ call'[u] = o
    <3>1. u \notin fired => error'[u] = error[u]
      BY <1>2
    <3>2. \A o \in Object : u \in Entries(waiters'[o]) <=> u \in Entries(waiters[o]) /\ u \notin fired
      BY <1>8
    <3>. QED BY <3>1, <3>2, <1>1, <1>2, <1>4 DEF ThreadsOK
  <2>. QED BY <2>1, <1>12 DEF ThreadsOK
<1>17. OwnerOK'
  <2>1. Sorted(waiters'["mutex"], prio)
    BY <1>1, <1>8, <1>10 DEF OwnerOK
  <2>2. Entries(waiters'["mutex"]) \subseteq Entries(waiters["mutex"])
    BY <1>8, <1>10
  <2>. QED BY <2>1, <2>2, <1>1, <1>2, <1>11 DEF OwnerOK
<1>18. Outcome'
  <2>1. SUFFICES ASSUME NEW u \in Thread, u \notin suspended', at[u] # "run", call[u] = "mutex"
                 PROVE  error'[u] = "EOK" <=> mutex.owner = u
    BY <1>2 DEF Outcome
  <2>2. CASE u \in fired
    <3>1. error'[u] = "ETIMEOUT"
      BY <2>2, <1>2
    <3>2. u \in Entries(waiters["mutex"])
      BY <2>1, <2>2, <1>1, <1>6, <1>10 DEF ThreadsOK
    <3>3. mutex.owner # u
      BY <3>2, <1>1 DEF OwnerOK, Entries
    <3>. QED BY <3>1, <3>3
  <2>3. CASE u \notin fired
    <3>1. error'[u] = error[u] /\ u \in Thread \ suspended
      BY <2>1, <2>3, <1>2
    <3>. QED BY <3>1, <2>1, <1>1 DEF Outcome
  <2>. QED BY <2>2, <2>3
<1>19. PriorityReturned'
  BY <1>1, <1>2 DEF PriorityReturned
<1>20. Given' = Given
  <2>1. ASSUME NEW u \in Thread PROVE u \in Given' <=> u \in Given
    <3>1. CASE u \in fired
      <4>1. error'[u] = "ETIMEOUT" /\ u \in suspended
        BY <3>1, <1>2, <1>6
      <4>. QED BY <4>1 DEF Given
    <3>2. CASE u \notin fired
      <4>1. error'[u] = error[u] /\ (u \in suspended' <=> u \in suspended)
        BY <3>2, <1>2
      <4>. QED BY <4>1, <1>2 DEF Given
    <3>. QED BY <3>1, <3>2
  <2>2. Given \subseteq Thread /\ Given' \subseteq Thread
    BY DEF Given
  <2>. QED BY <2>1, <2>2
<1>. QED BY <1>1, <1>2, <1>4, <1>12, <1>14, <1>15, <1>16, <1>17, <1>18, <1>19, <1>20 DEF IInv

\* A step that changes nothing.
LEMMA StutterOK ==
    ASSUME IInv, UNCHANGED vars
    PROVE  IInv'
<1>1. TypeOK'
  BY DEF IInv, vars, TypeOK
<1>2. /\ Queues' /\ ListOK(timers', tick') /\ ThreadsOK' /\ OwnerOK' /\ Outcome'
      /\ PriorityReturned' /\ SchedOK' /\ Given' = Given
  BY DEF IInv, vars, Queues, ThreadsOK, OwnerOK, Outcome, PriorityReturned, SchedOK, Ready, Given
<1>3. balance' = value' + Cardinality(Given')
  BY <1>2 DEF IInv, vars
<1>. QED BY <1>1, <1>2, <1>3 DEF IInv

\* Every step keeps the invariant.
LEMMA NextIInv == IInv /\ [Next]_vars => IInv'
<1> SUFFICES ASSUME IInv, [Next]_vars PROVE IInv'
  OBVIOUS
<1>1. ASSUME NEW t \in Thread, Call(t) PROVE IInv'
  <2>1. CASE MutexTakeNow(t)
    BY <2>1, MutexTakeNowOK
  <2>2. ASSUME NEW time \in WaitTicks \cup {Forever}, MutexTakeWait(t, time) PROVE IInv'
    BY <2>2, MutexTakeWaitOK
  <2>3. ASSUME NEW time \in WaitTicks \cup {Forever}, SemTakeWait(t, time) PROVE IInv'
    BY <2>3, SemTakeWaitOK
  <2>4. ASSUME NEW ticks \in SleepTicks, Sleep(t, ticks) PROVE IInv'
    BY <2>4, SleepOK
  <2>5. CASE SemTakeNow(t)
    BY <2>5, SemTakeNowOK
  <2>6. CASE MutexRelease(t)
    BY <2>6, MutexReleaseOK
  <2>. QED BY <1>1, <2>1, <2>2, <2>3, <2>4, <2>5, <2>6 DEF Call
<1>2. ASSUME NEW t \in Thread, Schedule(t) PROVE IInv'
  BY <1>2, ScheduleOK
<1>3. ASSUME NEW t \in Thread, Return(t) PROVE IInv'
  BY <1>3, ReturnOK
<1>4. CASE SemRelease
  BY <1>4, SemReleaseOK
<1>5. CASE Tick
  BY <1>5, TickOK
<1>6. CASE UNCHANGED vars
  BY <1>6, StutterOK
<1>. QED BY <1>1, <1>2, <1>3, <1>4, <1>5, <1>6 DEF Next

\* The inductive invariant holds in every behaviour.
LEMMA IpcInvariant == Spec => []IInv
BY InitIInv, NextIInv, PTL DEF Spec

-----------------------------------------------------------------------------
(* The results *)

\* What the model calls Waits and Armed, in terms of the entries of the lists.
LEMMA WaitsArmed ==
    /\ \A t \in Thread : Armed(t) <=> t \in Threads(timers)
    /\ \A t \in Thread : \A o \in Object : Waits(t, o) <=> t \in Entries(waiters[o])
BY DEF Armed, Waits, Threads, Entries

\* The state of the kernel keeps its types: among others the nesting count of
\* the mutex and the value of the semaphore stay below their limits, whatever
\* calls are made.
THEOREM IpcTypes == Spec => []TypeOK
<1>1. IInv => TypeOK
  BY DEF IInv
<1>. QED BY <1>1, IpcInvariant, PTL

\* Whatever the order of calls, releases and ticks, a suspended thread is on
\* exactly the list it waits on, a sleeping one has its timer, and a thread that is
\* not suspended is on no list and has no timer left that could hit it.
THEOREM SuspendedOnlyOnce == Spec => []SuspendedOnce
<1>1. ASSUME IInv PROVE SuspendedOnce
  <2>1. \A o \in Object : IsInjective(waiters[o])
    BY <1>1, QueueInjective DEF IInv, Queues
  <2>2. ASSUME NEW t \in Thread, t \in suspended
        PROVE  /\ at[t] \in {"schedule", "return"}
               /\ \A o \in Object : Waits(t, o) <=> call[t] = o
               /\ call[t] = "sleep" => Armed(t)
    <3>1. at[t] \in {"run", "schedule", "return"}
      BY <1>1 DEF IInv, TypeOK
    <3>. QED BY <1>1, <2>2, <3>1, WaitsArmed DEF IInv, ThreadsOK
  <2>3. ASSUME NEW t \in Thread, t \notin suspended
        PROVE  ~Armed(t) /\ \A o \in Object : ~Waits(t, o)
    BY <1>1, <2>3, WaitsArmed DEF IInv, ThreadsOK
  <2>. QED BY <2>1, <2>2, <2>3 DEF SuspendedOnce
<1>. QED BY <1>1, IpcInvariant, PTL

\* Whoever comes back from rt_mutex_take without an error owns the mutex and
\* whoever comes back with one does not, however a timeout and a release race;
\* the mutex is free and unwaited for, or has an owner that does not wait for it.
THEOREM TakesEndRightly == Spec => []TakeOutcome
<1>1. ASSUME IInv PROVE TakeOutcome
  <2>1. MutexConsistent
    <3>1. "mutex" \in Object
      BY DEF Object
    <3>. QED BY <1>1, <3>1, WaitsArmed DEF IInv, OwnerOK, MutexConsistent
  <2>2. ASSUME NEW t \in Thread \ suspended, at[t] \in {"schedule", "return"}, call[t] = "mutex"
        PROVE  error[t] = "EOK" <=> mutex.owner = t
    <3>1. at[t] # "run"
      BY <2>2
    <3>. QED BY <1>1, <2>2, <3>1 DEF IInv, Outcome
  <2>. QED BY <2>1, <2>2 DEF TakeOutcome
<1>. QED BY <1>1, IpcInvariant, PTL

\* A thread that waits for the mutex is not kept from it by a thread of lower
\* priority: while the owner is ready, nothing below the waiter runs.
THEOREM NoInversionEver == Spec => []NoInversion
<1>1. ASSUME IInv PROVE NoInversion
  <2>1. SUFFICES ASSUME NEW t \in Thread, Waits(t, "mutex"), mutex.owner \notin suspended
                 PROVE  current # Idle /\ prio[current] <= prio[t]
    BY DEF NoInversion
  <2>2. "mutex" \in Object /\ Idle \notin Thread /\ NoThread \notin Thread
    BY IpcAssumption DEF Object
  <2>3. t \in Entries(waiters["mutex"])
    BY <2>1, <2>2, WaitsArmed
  <2>4. waiters["mutex"] # << >>
    BY <2>3 DEF Entries
  <2>5. mutex.owner \in Thread /\ prio[mutex.owner] <= prio[t]
    BY <1>1, <2>3, <2>4 DEF IInv, OwnerOK
  <2>6. mutex.owner \in Ready
    BY <2>1, <2>5 DEF Ready
  <2>7. current \in Thread /\ prio[current] <= prio[mutex.owner]
    BY <1>1, <2>4, <2>6 DEF IInv, SchedOK
  <2>8. prio[current] \in Nat /\ prio[mutex.owner] \in Nat /\ prio[t] \in Nat
    BY <1>1, <2>5, <2>7, PrioType DEF IInv, TypeOK
  <2>. QED BY <2>2, <2>5, <2>7, <2>8
<1>. QED BY <1>1, IpcInvariant, PTL

\* Only the owner of the mutex runs at a priority that is not its own: an
\* inherited priority is given back with the mutex.
THEOREM PriorityAlwaysReturned == Spec => []PriorityReturned
<1>1. IInv => PriorityReturned
  BY DEF IInv
<1>. QED BY <1>1, IpcInvariant, PTL

\* No release of the semaphore is lost to a timeout and none is used twice.
THEOREM TokensNeverLost == Spec => []TokensConserved
<1>1. ASSUME IInv PROVE TokensConserved
  <2>1. \A t \in Thread : at[t] # "run" <=> at[t] \in {"schedule", "return"}
    BY <1>1 DEF IInv, TypeOK
  <2>2. Given = {t \in Thread \ suspended : /\ at[t] \in {"schedule", "return"}
                                            /\ call[t] = "sem"
                                            /\ error[t] = "EOK"}
    BY <2>1 DEF Given
  <2>. QED BY <1>1, <2>2 DEF IInv, TokensConserved
<1>. QED BY <1>1, IpcInvariant, PTL

\* Every timer fires at the tick it was set for, across the wrap of the tick.
THEOREM TimersAlwaysOnTime == Spec => []TimersOnTime
<1>1. ASSUME IInv PROVE TimersOnTime
  <2>1. \A i \in 1 .. Len(timers) : OnTime(timers[i], tick)
    BY <1>1 DEF IInv, ListOK, Entries
  <2>. QED BY <2>1 DEF TimersOnTime, OnTime
<1>. QED BY <1>1, IpcInvariant, PTL

=============================================================================
