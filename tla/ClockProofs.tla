----------------------------- MODULE ClockProofs -----------------------------
(***************************************************************************)
(* Proofs about modules Calendar, CalendarWalk and SoftRtc, for all        *)
(* lengths of the minute, the hour and the day, every number of ticks a    *)
(* second, every time zone from Greenwich east and every range of the tick *)
(* counter that the modules' assumptions allow.  The two loops of the      *)
(* conversions are recursive functions; that they satisfy their equations  *)
(* is proved first, and their values for every day follow.                 *)
(***************************************************************************)
EXTENDS SoftRtc, CalendarWalk, WellFoundedInduction, TLAPS

-----------------------------------------------------------------------------
(* Least elements *)

\* Every set of naturals that has an element has a least one.
LEMMA LeastNat ==
    ASSUME NEW T \in SUBSET Nat, T # {}
    PROVE  \E n \in T : \A m \in T : n <= m
<1>1. PICK n \in T : \A m \in T : ~(<<m, n>> \in OpToRel(<, Nat))
  BY NatLessThanWellFounded, WFMin
<1>2. \A m \in T : ~(m < n)
  BY <1>1 DEF OpToRel
<1>. QED BY <1>2

-----------------------------------------------------------------------------
(* Loops *)

\* f runs a loop that replaces s by step[s] until s is in stop, and then
\* returns res[s].
Runs(f, S, stop, step, res) ==
    /\ f = [s \in S |-> f[s]]
    /\ \A s \in S : f[s] = IF s \in stop THEN res[s] ELSE f[step[s]]

\* Such a loop has a function that runs it, which takes s to the value at the
\* end of the path from s, if it has one.
LEMMA LoopDefined ==
    ASSUME NEW S, NEW stop, NEW step, NEW res,
           \A s \in S : s \notin stop => step[s] \in S
    PROVE  \E f : Runs(f, S, stop, step, res)
<1>. DEFINE
  Path(n, p) == /\ p \in [0 .. n -> S]
                /\ \A j \in 0 .. n - 1 : p[j] \notin stop /\ p[j + 1] = step[p[j]]
                /\ p[n] \in stop
  Ends(s) == {x \in S : \E n \in Nat : \E p \in [0 .. n -> S] :
                 Path(n, p) /\ p[0] = s /\ p[n] = x}
  f == [s \in S |-> res[CHOOSE x : x \in Ends(s)]]
<1>1. ASSUME NEW s \in S, s \in stop PROVE f[s] = res[s]
  <2>1. ASSUME NEW x \in Ends(s) PROVE x = s
    <3>0. PICK n \in Nat : \E p \in [0 .. n -> S] : Path(n, p) /\ p[0] = s /\ p[n] = x
      OBVIOUS
    <3>1. PICK p \in [0 .. n -> S] : Path(n, p) /\ p[0] = s /\ p[n] = x
      BY <3>0
    <3>2. n = 0
      BY <1>1, <3>1
    <3>. QED BY <3>1, <3>2
  <2>2. s \in Ends(s)
    <3>. DEFINE p == [j \in 0 .. 0 |-> s]
    <3>1. Path(0, p) /\ p[0] = s
      BY <1>1
    <3>. HIDE DEF Path, p
    <3>2. p \in [0 .. 0 -> S]
      BY <3>1 DEF Path
    <3>. QED BY <3>1, <3>2
  <2>. HIDE DEF Ends
  <2>3. (CHOOSE x : x \in Ends(s)) = s
    BY <2>1, <2>2
  <2>. QED BY <2>3
<1>2. ASSUME NEW s \in S, s \notin stop PROVE Ends(s) = Ends(step[s])
  <2>1. ASSUME NEW x \in Ends(s) PROVE x \in Ends(step[s])
    <3>0. PICK n \in Nat : \E p \in [0 .. n -> S] : Path(n, p) /\ p[0] = s /\ p[n] = x
      OBVIOUS
    <3>1. PICK p \in [0 .. n -> S] : Path(n, p) /\ p[0] = s /\ p[n] = x
      BY <3>0
    <3>2. n > 0
      BY <1>2, <3>1
    <3>. DEFINE q == [j \in 0 .. n - 1 |-> p[j + 1]]
    <3>3. q \in [0 .. n - 1 -> S]
      BY <3>2
    <3>4. Path(n - 1, q) /\ q[0] = step[s] /\ q[n - 1] = x
      BY <3>1, <3>2, <3>3
    <3>5. n - 1 \in Nat
      BY <3>2
    <3>. HIDE DEF Path, q
    <3>. QED BY <3>3, <3>4, <3>5
  <2>2. ASSUME NEW x \in Ends(step[s]) PROVE x \in Ends(s)
    <3>0. PICK n \in Nat : \E p \in [0 .. n -> S] : Path(n, p) /\ p[0] = step[s] /\ p[n] = x
      OBVIOUS
    <3>1. PICK p \in [0 .. n -> S] : Path(n, p) /\ p[0] = step[s] /\ p[n] = x
      BY <3>0
    <3>. DEFINE q == [j \in 0 .. n + 1 |-> IF j = 0 THEN s ELSE p[j - 1]]
    <3>2. q \in [0 .. n + 1 -> S]
      BY <1>2
    <3>3. ASSUME NEW j \in 0 .. (n + 1) - 1 PROVE q[j] \notin stop /\ q[j + 1] = step[q[j]]
      <4>1. CASE j = 0
        BY <4>1, <3>1, <1>2
      <4>2. CASE j # 0
        <5>1. j - 1 \in 0 .. n - 1 /\ (j - 1) + 1 = j /\ j \in 0 .. n + 1 /\ j + 1 \in 0 .. n + 1 /\ j + 1 # 0 /\ (j + 1) - 1 = j
          BY <4>2
        <5>2. p[j - 1] \notin stop /\ p[j] = step[p[j - 1]]
          BY <5>1, <3>1
        <5>3. q[j] = p[j - 1] /\ q[j + 1] = p[j]
          BY <5>1, <4>2
        <5>. QED BY <5>2, <5>3
      <4>. QED BY <4>1, <4>2
    <3>4. q[0] = s /\ q[n + 1] = p[n] /\ p[n] \in stop
      BY <3>1
    <3>5. Path(n + 1, q)
      BY <3>2, <3>3, <3>4
    <3>. HIDE DEF Path, q
    <3>. QED BY <3>1, <3>2, <3>4, <3>5
  <2>. HIDE DEF Ends
  <2>. QED BY <2>1, <2>2
<1>3. ASSUME NEW s \in S, s \notin stop PROVE f[s] = f[step[s]]
  <2>1. step[s] \in S
    BY <1>3
  <2>2. Ends(s) = Ends(step[s])
    BY <1>2, <1>3
  <2>. HIDE DEF Ends
  <2>. QED BY <2>1, <2>2
<1>4. f = [s \in S |-> f[s]]
  OBVIOUS
<1>. HIDE DEF f
<1>5. \A s \in S : f[s] = IF s \in stop THEN res[s] ELSE f[step[s]]
  BY <1>1, <1>3
<1>. QED BY <1>4, <1>5 DEF Runs

-----------------------------------------------------------------------------
(* Numbers *)

\* Multiplication by a natural number is monotone.
LEMMA MulMono ==
    ASSUME NEW a \in Int, NEW b \in Int, a <= b, NEW c \in Nat
    PROVE  a * c <= b * c
  OBVIOUS

\* A number is its quotient times the divisor, plus its remainder.
LEMMA DivModOf ==
    ASSUME NEW D \in Nat, D > 0, NEW t \in Int
    PROVE  t \div D \in Int /\ t % D \in 0 .. D - 1 /\ t = (t \div D) * D + (t % D)
  OBVIOUS

\* Division undoes multiplication and addition of a remainder.
LEMMA DivMod ==
    ASSUME NEW D \in Nat, D > 0, NEW q \in Int, NEW r \in 0 .. D - 1
    PROVE  (q * D + r) \div D = q /\ (q * D + r) % D = r
<1>. DEFINE t == q * D + r
            x == t \div D
<1>1. t \in Int
  OBVIOUS
<1>. HIDE DEF t
<1>2. x \in Int /\ t % D \in 0 .. D - 1 /\ t = x * D + (t % D)
  BY <1>1, DivModOf
<1>. HIDE DEF x
<1>3. ~(x >= q + 1)
  <2>1. SUFFICES ASSUME x >= q + 1 PROVE FALSE
    OBVIOUS
  <2>2. (q + 1) * D <= x * D
    BY <2>1, <1>2, MulMono
  <2>. QED BY <2>2, <1>2 DEF t
<1>4. ~(q >= x + 1)
  <2>1. SUFFICES ASSUME q >= x + 1 PROVE FALSE
    OBVIOUS
  <2>2. (x + 1) * D <= q * D
    BY <2>1, <1>2, MulMono
  <2>. QED BY <2>2, <1>2 DEF t
<1>5. x = q
  BY <1>2, <1>3, <1>4
<1>. QED BY <1>5, <1>2 DEF x, t

-----------------------------------------------------------------------------
(* The calendar *)

\* Leap years from year 0 to before year y.
Leaps(y) == (y + 3) \div 4 - (y + 99) \div 100 + (y + 399) \div 400

\* The first day of year y, counted from 1 January 1970.
FirstOf(y) == 365 * (y - 1970) + Leaps(y) - Leaps(1970)

YearLength(y) == IF isleap(y) THEN 366 ELSE 365

LeapDay(y, m) == IF isleap(y) /\ m > 1 THEN 1 ELSE 0

\* Day d of month m of year y, counted from 1 January 1970.
DayOf(y, m, d) == FirstOf(y) + spm(m) + LeapDay(y, m) + d - 1

\* Day n has the date d, m, y.
Civil(n, y, m, d) ==
    /\ y \in Nat /\ y >= 1970
    /\ m \in Nat /\ m <= 11
    /\ d \in Nat /\ 1 <= d /\ d <= MonthLength(y, m)
    /\ n = DayOf(y, m, d)

\* The table __spm.
LEMMA SpmTable ==
    /\ spm(0) = 0 /\ spm(1) = 31 /\ spm(2) = 59 /\ spm(3) = 90
    /\ spm(4) = 120 /\ spm(5) = 151 /\ spm(6) = 181 /\ spm(7) = 212
    /\ spm(8) = 243 /\ spm(9) = 273 /\ spm(10) = 304 /\ spm(11) = 334
    /\ spm(12) = 365
BY DEF spm

\* The months of the table, one by one.
LEMMA Months ==
    ASSUME NEW m \in Nat, m <= 11
    PROVE  m \in {0, 1, 2, 3, 4, 5, 6, 7, 8, 9, 10, 11}
OBVIOUS

\* A month of the table has 28 to 31 days; the first three months.
LEMMA SpmWindow ==
    ASSUME NEW m \in Nat, m <= 11
    PROVE  /\ spm(m) \in Nat /\ spm(m) <= 334
           /\ spm(m + 1) \in Nat /\ 31 <= spm(m + 1) /\ spm(m + 1) <= 365
           /\ spm(m) + 28 <= spm(m + 1) /\ spm(m + 1) <= spm(m) + 31
           /\ m = 0 => spm(m) = 0
           /\ m = 1 => spm(m) = 31 /\ spm(m + 1) = 59
           /\ m >= 2 => spm(m) >= 59
           /\ m = 11 => spm(m + 1) = 365
BY Months, SpmTable

\* A month is as long as the table says, and February has a leap day.
LEMMA MonthLengthIs ==
    ASSUME NEW y \in Nat, NEW m \in Nat, m <= 11
    PROVE  /\ MonthLength(y, m) \in Nat
           /\ MonthLength(y, m) =
                spm(m + 1) - spm(m) + (IF isleap(y) /\ m = 1 THEN 1 ELSE 0)
BY Months, SpmTable DEF MonthLength, isleap

\* Only one month of the table contains a day of the year.
LEMMA SpmDisjoint ==
    ASSUME NEW m \in Nat, m <= 11, NEW k \in Nat, k <= 11, NEW w \in Int,
           spm(m) <= w, w < spm(m + 1), spm(k) <= w, w < spm(k + 1)
    PROVE  m = k
BY Months, SpmTable

\* The days are counted from the first of January 1970.
LEMMA FirstOfTypes ==
    ASSUME NEW y \in Nat
    PROVE  FirstOf(y) \in Int /\ FirstOf(1970) = 0
BY DEF FirstOf, Leaps

\* A year is followed by the next, 365 or 366 days later.
LEMMA FirstOfNext ==
    ASSUME NEW y \in Nat
    PROVE  FirstOf(y + 1) = FirstOf(y) + YearLength(y)
BY DEF FirstOf, Leaps, YearLength, isleap

\* A later year begins at least 365 days later.
LEMMA FirstOfMono ==
    ASSUME NEW a \in Nat, NEW b \in Nat, a <= b
    PROVE  FirstOf(a) + 365 * (b - a) <= FirstOf(b)
BY DEF FirstOf, Leaps

\* timegm starts a year where the years before it end.
LEMMA YearStartIs ==
    ASSUME NEW y \in Nat, y >= 1970
    PROVE  YearStart(y - 1970) = FirstOf(y)
BY DEF FirstOf, Leaps, YearStart

-----------------------------------------------------------------------------
(* The loop over the years *)

\* The loop over the years satisfies its equation.
LEMMA YearLoopRule ==
    ASSUME NEW w \in Nat, NEW i \in Nat
    PROVE  YearLoop[<<w, i>>] = IF w >= YearLength(i)
                                  THEN YearLoop[<<w - YearLength(i), i + 1>>]
                                  ELSE <<i, w>>
<1>. DEFINE S == Nat \X Nat
            stop == {p \in S : p[1] < YearLength(p[2])}
            step == [p \in S |-> <<p[1] - YearLength(p[2]), p[2] + 1>>]
            res == [p \in S |-> <<p[2], p[1]>>]
            Body(f) == [p \in S |-> IF p[1] >= YearLength(p[2])
                                      THEN f[<<p[1] - YearLength(p[2]), p[2] + 1>>]
                                      ELSE <<p[2], p[1]>>]
<1>1. \A p \in S : p[1] \in Nat /\ p[2] \in Nat /\ YearLength(p[2]) \in {365, 366}
  BY DEF YearLength
<1>2. \A p \in S : p \notin stop => step[p] \in S
  BY <1>1
<1>3. PICK f : Runs(f, S, stop, step, res)
  <2>. HIDE DEF S, stop, step, res
  <2>. QED BY <1>2, LoopDefined, Zenon
<1>4. ASSUME NEW p \in S
      PROVE  (IF p \in stop THEN res[p] ELSE f[step[p]])
               = (IF p[1] >= YearLength(p[2])
                    THEN f[<<p[1] - YearLength(p[2]), p[2] + 1>>]
                    ELSE <<p[2], p[1]>>)
  BY <1>1
<1>5. f = Body(f)
  BY <1>3, <1>4 DEF Runs
<1>6. YearLoop = CHOOSE g : g = Body(g)
  BY DEF YearLoop, YearLength
<1>. HIDE DEF Body
<1>7. YearLoop = Body(YearLoop)
  BY <1>5, <1>6
<1>. USE DEF Body
<1>8. <<w, i>> \in S
  OBVIOUS
<1>9. YearLoop[<<w, i>>] = Body(YearLoop)[<<w, i>>]
  BY <1>7
<1>. QED BY <1>8, <1>9

\* The loop over the years stops in the year that contains the day.
LEMMA YearLoopIs ==
    ASSUME NEW w \in Nat, NEW i \in Nat, NEW y \in Nat, i <= y,
           FirstOf(y) - FirstOf(i) <= w, w < FirstOf(y + 1) - FirstOf(i)
    PROVE  YearLoop[<<w, i>>] = <<y, w - (FirstOf(y) - FirstOf(i))>>
<1>. DEFINE
  In(n, j) == j <= y /\ FirstOf(y) - FirstOf(j) <= n /\ n < FirstOf(y + 1) - FirstOf(j)
  Good(n, j) == YearLoop[<<n, j>>] = <<y, n - (FirstOf(y) - FirstOf(j))>>
  T == {n \in Nat : \E j \in Nat : In(n, j) /\ ~Good(n, j)}
<1>1. SUFFICES ASSUME T # {} PROVE FALSE
  BY <1>1
<1>2. PICK n \in T : \A m \in T : n <= m
  BY <1>1, LeastNat
<1>3. PICK j \in Nat : In(n, j) /\ ~Good(n, j)
  OBVIOUS
<1>4. /\ FirstOf(j) \in Int /\ FirstOf(y) \in Int /\ FirstOf(y + 1) \in Int
      /\ FirstOf(j + 1) \in Int /\ YearLength(j) \in {365, 366}
      /\ FirstOf(j + 1) = FirstOf(j) + YearLength(j)
  BY FirstOfTypes, FirstOfNext DEF YearLength
<1>5. CASE n >= YearLength(j)
  <2>1. j # y
    BY <1>3, <1>4, <1>5
  <2>2. n - YearLength(j) \in Nat /\ n - YearLength(j) < n /\ j + 1 \in Nat
    BY <1>4, <1>5
  <2>3. In(n - YearLength(j), j + 1)
    BY <1>3, <1>4, <2>1, <2>2
  <2>4. Good(n - YearLength(j), j + 1)
    <3>. HIDE DEF In, Good
    <3>. QED BY <1>2, <2>2, <2>3
  <2>5. YearLoop[<<n, j>>] = YearLoop[<<n - YearLength(j), j + 1>>]
    BY <1>5, YearLoopRule
  <2>6. (n - YearLength(j)) - (FirstOf(y) - FirstOf(j + 1)) = n - (FirstOf(y) - FirstOf(j))
    BY <1>4
  <2>. QED BY <1>3, <2>4, <2>5, <2>6
<1>6. CASE n < YearLength(j)
  <2>1. y = j
    <3>1. SUFFICES ASSUME j + 1 <= y PROVE FALSE
      BY <1>3
    <3>2. FirstOf(j + 1) + 365 * (y - (j + 1)) <= FirstOf(y)
      BY <3>1, FirstOfMono
    <3>. QED BY <1>3, <1>4, <1>6, <3>1, <3>2
  <2>2. n \in Nat /\ ~(n >= YearLength(j))
    BY <1>4, <1>6
  <2>3. YearLoop[<<n, j>>] = <<j, n>>
    BY <2>2, YearLoopRule
  <2>. QED BY <1>3, <1>4, <2>1, <2>2, <2>3
<1>. QED
  <2>1. n \in Nat
    OBVIOUS
  <2>. QED BY <1>4, <1>5, <1>6, <2>1

-----------------------------------------------------------------------------
(* The loop over the days *)

\* For the days the menu lets through the loop over the days does nothing.
LEMMA DayLoopShort ==
    ASSUME NEW d \in Int, d <= 31, NEW m \in Nat, m <= 11, NEW y \in Nat
    PROVE  DayLoop[<<d, m, y>>] = <<y, m, d>>
<1>0. ASSUME NEW q \in Nat, q <= 11 PROVE spm(q) \in Int
  BY <1>0, SpmWindow
<1>. DEFINE S == Int \X (0 .. 11) \X Nat
            left(p) == p[1] - spm(p[2]) - IF p[2] = 1 /\ isleap(p[3]) THEN 1 ELSE 0
            next(p) == IF p[2] = 11 THEN <<left(p), 0, p[3] + 1>>
                                    ELSE <<left(p), p[2] + 1, p[3]>>
            stop == {p \in S : ~(p[1] > spm(p[2] + 1))}
            step == [p \in S |-> next(p)]
            res == [p \in S |-> <<p[3], p[2], p[1]>>]
            Body(f) == [p \in S |-> IF p[1] > spm(p[2] + 1) THEN f[next(p)]
                                                            ELSE <<p[3], p[2], p[1]>>]
<1>1. ASSUME NEW p \in S PROVE next(p) \in S
  <2>1. p[1] \in Int /\ p[2] \in Nat /\ p[2] <= 11 /\ p[3] \in Nat
    OBVIOUS
  <2>2. spm(p[2]) \in Int
    BY <2>1, <1>0
  <2>3. left(p) \in Int
    BY <2>1, <2>2
  <2>. HIDE DEF left
  <2>. QED BY <2>1, <2>3
<1>2. \A p \in S : p \notin stop => step[p] \in S
  <2>. HIDE DEF next, S
  <2>. QED BY <1>1
<1>3. PICK f : Runs(f, S, stop, step, res)
  <2>. HIDE DEF S, stop, step, res
  <2>. QED BY <1>2, LoopDefined, Zenon
<1>4. ASSUME NEW p \in S
      PROVE  (IF p \in stop THEN res[p] ELSE f[step[p]])
               = (IF p[1] > spm(p[2] + 1) THEN f[next(p)] ELSE <<p[3], p[2], p[1]>>)
  <2>. HIDE DEF next, S
  <2>. QED OBVIOUS
<1>5. f = Body(f)
  <2>. HIDE DEF next, S, stop, step, res
  <2>. QED BY <1>3, <1>4 DEF Runs
<1>6. DayLoop = CHOOSE g : g = Body(g)
  BY DEF DayLoop
<1>. HIDE DEF Body
<1>7. DayLoop = Body(DayLoop)
  BY <1>5, <1>6
<1>8. DayLoop[<<d, m, y>>] = Body(DayLoop)[<<d, m, y>>]
  BY <1>7
<1>9. <<d, m, y>> \in S /\ ~(d > spm(m + 1))
  <2>1. spm(m + 1) \in Nat /\ 31 <= spm(m + 1)
    BY SpmWindow
  <2>. QED BY <2>1
<1>. HIDE DEF next, S
<1>. QED BY <1>8, <1>9 DEF Body

-----------------------------------------------------------------------------
(* Seconds of the day *)

\* A time of the day.
Clock(h, mi, s) ==
    /\ h \in 0 .. HoursPerDay - 1
    /\ mi \in 0 .. MinutesPerHour - 1
    /\ s \in 0 .. SecondsPerMinute - 1

\* Its seconds since midnight, as timegm counts them.
Second(h, mi, s) == h * SecondsPerHour + mi * SecondsPerMinute + s

\* The lengths of the minute, the hour and the day are positive.
LEMMA Lengths ==
    /\ HoursPerDay \in Nat /\ HoursPerDay > 0
    /\ MinutesPerHour \in Nat /\ MinutesPerHour > 0
    /\ SecondsPerMinute \in Nat /\ SecondsPerMinute > 0
    /\ SecondsPerHour \in Nat /\ SecondsPerHour > 0
    /\ SPD \in Nat /\ SPD > 0
<1>1. ASSUME NEW a \in Nat, NEW b \in Nat, a > 0, b > 0 PROVE a * b \in Nat /\ a * b > 0
  <2>1. 1 * b <= a * b /\ a * b \in Int
    BY <1>1, MulMono
  <2>. QED BY <1>1, <2>1
<1>2. SecondsPerHour \in Nat /\ SecondsPerHour > 0
  BY <1>1, CalendarAssumption DEF SecondsPerHour
<1>3. SPD \in Nat /\ SPD > 0
  BY <1>1, <1>2, CalendarAssumption DEF SPD
<1>. QED BY <1>2, <1>3, CalendarAssumption

\* A position in a row of blocks of c is one in the whole row.
LEMMA Position ==
    ASSUME NEW a \in Nat, NEW b \in Nat, NEW c \in Nat, c > 0,
           a < b, NEW r \in 0 .. c - 1
    PROVE  a * c + r \in 0 .. b * c - 1
<1>1. (a + 1) * c <= b * c
  BY MulMono
<1>2. 0 * c <= a * c
  BY MulMono
<1>3. (a + 1) * c = a * c + c /\ 0 * c = 0 /\ a * c \in Int /\ b * c \in Int
  OBVIOUS
<1>. QED BY <1>1, <1>2, <1>3

\* The conversions that gmtime_r makes undo those of timegm.
LEMMA SecondSplit ==
    ASSUME NEW h, NEW mi, NEW s, Clock(h, mi, s)
    PROVE  /\ Second(h, mi, s) \in 0 .. SPD - 1
           /\ Second(h, mi, s) % SecondsPerMinute = s
           /\ (Second(h, mi, s) \div SecondsPerMinute) % MinutesPerHour = mi
           /\ (Second(h, mi, s) \div SecondsPerMinute) \div MinutesPerHour = h
<1>. DEFINE M == MinutesPerHour
            C == SecondsPerMinute
            k == h * M + mi
<1>1. /\ h \in Nat /\ h < HoursPerDay /\ mi \in Nat /\ mi < M /\ s \in 0 .. C - 1
      /\ mi \in 0 .. M - 1 /\ s \in Nat /\ s < C
  BY Lengths DEF Clock
<1>2. h * (M * C) = (h * M) * C
  BY <1>1, Lengths
<1>3. (h * M + mi) * C = (h * M) * C + mi * C
  BY <1>1, Lengths
<1>4. /\ h * M \in Int /\ (h * M) * C \in Int /\ mi * C \in Int
  BY <1>1, Lengths
<1>5. Second(h, mi, s) = k * C + s
  BY <1>1, <1>2, <1>3, <1>4 DEF Second, SecondsPerHour
<1>6. mi * C + s \in 0 .. M * C - 1
  BY <1>1, Lengths, Position
<1>7. h * SecondsPerHour + (mi * C + s) \in 0 .. HoursPerDay * SecondsPerHour - 1
  BY <1>1, <1>6, Lengths, Position DEF SecondsPerHour
<1>8. Second(h, mi, s) \in 0 .. SPD - 1
  <2>1. h * SecondsPerHour \in Int
    BY <1>1, Lengths
  <2>2. h * SecondsPerHour + (mi * C + s) = Second(h, mi, s)
    BY <1>1, <1>4, <2>1 DEF Second
  <2>. QED BY <1>7, <2>2 DEF SPD
<1>9. k \in Int
  BY <1>1, <1>4
<1>10. k % M = mi /\ k \div M = h
  BY <1>1, Lengths, DivMod
<1>. HIDE DEF k
<1>11. (k * C + s) % C = s /\ (k * C + s) \div C = k
  BY <1>1, <1>9, Lengths, DivMod
<1>. QED BY <1>5, <1>8, <1>10, <1>11

\* Every second belongs to a time of a day.
LEMMA SecondExists ==
    ASSUME NEW r \in 0 .. SPD - 1
    PROVE  \E h, mi, s : Clock(h, mi, s) /\ r = Second(h, mi, s)
<1>. DEFINE M == MinutesPerHour
            C == SecondsPerMinute
            k == r \div C
            s == r % C
            h == k \div M
            mi == k % M
<1>1. k \in Int /\ s \in 0 .. C - 1 /\ r = k * C + s
  BY Lengths, DivModOf
<1>2. h \in Int /\ mi \in 0 .. M - 1 /\ k = h * M + mi
  BY <1>1, Lengths, DivModOf
<1>. HIDE DEF k, s, h, mi
<1>3. h * (M * C) = (h * M) * C
  BY <1>1, <1>2, Lengths
<1>4. (h * M + mi) * C = (h * M) * C + mi * C
  BY <1>1, <1>2, Lengths
<1>5. /\ h * M \in Int /\ (h * M) * C \in Int /\ mi * C \in Int
  BY <1>1, <1>2, Lengths
<1>6. r = h * SecondsPerHour + mi * C + s
  BY <1>1, <1>2, <1>3, <1>4, <1>5 DEF SecondsPerHour
<1>7. mi * C + s \in 0 .. SecondsPerHour - 1
  BY <1>1, <1>2, Lengths, Position DEF SecondsPerHour
<1>8. h \in 0 .. HoursPerDay - 1
  <2>1. h * SecondsPerHour \in Int /\ (h + 1) * SecondsPerHour = h * SecondsPerHour + SecondsPerHour
    BY <1>2, Lengths
  <2>2. ASSUME h + 1 <= 0 PROVE FALSE
    <3>1. (h + 1) * SecondsPerHour <= 0 * SecondsPerHour
      BY <1>2, <2>2, Lengths, MulMono
    <3>2. 0 * SecondsPerHour = 0
      BY Lengths
    <3>. QED BY <2>1, <3>1, <3>2, <1>1, <1>2, <1>5, <1>6, <1>7, Lengths
  <2>3. ASSUME HoursPerDay <= h PROVE FALSE
    <3>1. HoursPerDay * SecondsPerHour <= h * SecondsPerHour
      BY <1>2, <2>3, Lengths, MulMono
    <3>. QED BY <2>1, <3>1, <1>1, <1>2, <1>5, <1>6, <1>7, Lengths DEF SPD
  <2>. QED BY <1>2, <2>2, <2>3, Lengths
<1>9. Clock(h, mi, s) /\ r = Second(h, mi, s)
  BY <1>1, <1>2, <1>6, <1>8 DEF Clock, Second
<1>. QED BY <1>9

-----------------------------------------------------------------------------
(* Dates *)

\* A date lies in its year, and its day of the year is that of the table.
LEMMA CivilInYear ==
    ASSUME NEW n, NEW y, NEW m, NEW d, Civil(n, y, m, d)
    PROVE  /\ n \in Nat /\ FirstOf(y) \in Int /\ FirstOf(y + 1) \in Int
           /\ FirstOf(y) <= n /\ n < FirstOf(y + 1)
           /\ n - FirstOf(y) = spm(m) + LeapDay(y, m) + d - 1
<1>1. /\ y \in Nat /\ y >= 1970 /\ m \in Nat /\ m <= 11 /\ d \in Nat /\ 1 <= d
      /\ d <= MonthLength(y, m) /\ n = FirstOf(y) + spm(m) + LeapDay(y, m) + d - 1
  BY DEF Civil, DayOf
<1>2. /\ FirstOf(y) \in Int /\ FirstOf(y + 1) \in Int /\ FirstOf(1970) = 0
      /\ FirstOf(y + 1) = FirstOf(y) + YearLength(y)
  BY <1>1, FirstOfTypes, FirstOfNext
<1>3. FirstOf(y) >= 0
  <2>1. FirstOf(1970) + 365 * (y - 1970) <= FirstOf(y)
    BY <1>1, FirstOfMono
  <2>. QED BY <1>1, <1>2, <2>1
<1>4. /\ spm(m) \in Nat /\ spm(m + 1) \in Nat /\ spm(m + 1) <= 365
      /\ MonthLength(y, m) = spm(m + 1) - spm(m) + (IF isleap(y) /\ m = 1 THEN 1 ELSE 0)
  <2>1. spm(m) \in Nat /\ spm(m + 1) \in Nat /\ spm(m + 1) <= 365
    BY <1>1, SpmWindow
  <2>. QED BY <1>1, <2>1, MonthLengthIs
<1>5. /\ LeapDay(y, m) \in {0, 1} /\ YearLength(y) \in {365, 366}
      /\ LeapDay(y, m) + (IF isleap(y) /\ m = 1 THEN 1 ELSE 0) <= YearLength(y) - 365
  BY <1>1 DEF LeapDay, YearLength
<1>6. FirstOf(y) <= n
  BY <1>1, <1>2, <1>4, <1>5
<1>7. n < FirstOf(y + 1)
  BY <1>1, <1>2, <1>4, <1>5
<1>. QED BY <1>1, <1>2, <1>3, <1>4, <1>5, <1>6, <1>7

\* Every day has a date.
LEMMA CivilExists ==
    ASSUME NEW n \in Nat
    PROVE  \E y, m, d : Civil(n, y, m, d)
<1>. DEFINE Late == {y \in Nat : y >= 1970 /\ n < FirstOf(y + 1)}
<1>1. 1970 + n \in Late
  <2>1. FirstOf(1970) + 365 * ((1970 + n + 1) - 1970) <= FirstOf(1970 + n + 1)
    BY FirstOfMono
  <2>2. FirstOf(1970) = 0 /\ FirstOf(1970 + n + 1) \in Int
    BY FirstOfTypes
  <2>. QED BY <2>1, <2>2
<1>2. PICK y \in Late : \A z \in Late : y <= z
  <2>1. Late \in SUBSET Nat
    OBVIOUS
  <2>. HIDE DEF Late
  <2>2. Late # {}
    BY <1>1
  <2>. QED BY <2>1, <2>2, LeastNat
<1>3. /\ FirstOf(y) \in Int /\ FirstOf(y + 1) \in Int /\ FirstOf(1970) = 0
      /\ FirstOf(y + 1) = FirstOf(y) + YearLength(y) /\ y \in Nat /\ y >= 1970
  BY FirstOfTypes, FirstOfNext
<1>4. FirstOf(y) <= n
  <2>1. CASE y = 1970
    BY <1>3, <2>1
  <2>2. CASE y # 1970
    <3>1. y - 1 \in Nat /\ y - 1 >= 1970 /\ ~(y <= y - 1) /\ (y - 1) + 1 = y
      BY <1>3, <2>2
    <3>2. y - 1 \notin Late
      BY <1>2, <3>1
    <3>3. ~(n < FirstOf((y - 1) + 1))
      BY <3>1, <3>2
    <3>. QED BY <1>3, <3>1, <3>3
  <2>. QED BY <2>1, <2>2
<1>. DEFINE w == n - FirstOf(y)
            v == IF isleap(y) /\ w > 58 THEN w - 1 ELSE w
<1>5. /\ w \in Nat /\ w < YearLength(y) /\ YearLength(y) \in {365, 366}
      /\ (isleap(y) <=> YearLength(y) = 366)
  BY <1>3, <1>4 DEF YearLength
<1>. HIDE DEF w
<1>6. v \in Nat /\ v < 365
  BY <1>5
<1>7. \E m \in Nat : m <= 11 /\ spm(m) <= v /\ v < spm(m + 1)
  <2>. HIDE DEF v
  <2>1. \A m \in {0, 1, 2, 3, 4, 5, 6, 7, 8, 9, 10, 11} : m \in Nat /\ m <= 11
    OBVIOUS
  <2>2. \E m \in {0, 1, 2, 3, 4, 5, 6, 7, 8, 9, 10, 11} : spm(m) <= v /\ v < spm(m + 1)
    BY <1>6, SpmTable
  <2>. QED BY <2>1, <2>2
<1>8. PICK m \in Nat : m <= 11 /\ spm(m) <= v /\ v < spm(m + 1)
  BY <1>7
<1>. DEFINE d == w - spm(m) - LeapDay(y, m) + 1
<1>9. /\ spm(m) \in Nat /\ spm(m + 1) \in Nat
      /\ m = 0 => spm(m + 1) <= 31
      /\ m = 1 => spm(m) = 31 /\ spm(m + 1) = 59
      /\ m >= 2 => spm(m) >= 59
      /\ MonthLength(y, m) \in Nat
      /\ MonthLength(y, m) = spm(m + 1) - spm(m) + (IF isleap(y) /\ m = 1 THEN 1 ELSE 0)
  <2>1. /\ spm(m) \in Nat /\ spm(m + 1) \in Nat
        /\ m = 0 => spm(m) = 0 /\ spm(m + 1) <= spm(m) + 31
        /\ m = 1 => spm(m) = 31 /\ spm(m + 1) = 59
        /\ m >= 2 => spm(m) >= 59
    BY <1>8, SpmWindow
  <2>. QED BY <1>3, <1>8, <2>1, MonthLengthIs
<1>10. d \in Nat /\ 1 <= d /\ d <= MonthLength(y, m)
  <2>1. CASE isleap(y) /\ m > 1
    BY <2>1, <1>5, <1>8, <1>9 DEF LeapDay
  <2>2. CASE isleap(y) /\ ~(m > 1)
    BY <2>2, <1>5, <1>8, <1>9 DEF LeapDay
  <2>3. CASE ~isleap(y)
    BY <2>3, <1>5, <1>8, <1>9 DEF LeapDay
  <2>. QED BY <2>1, <2>2, <2>3
<1>11. n = DayOf(y, m, d)
  <2>1. LeapDay(y, m) \in Int
    BY DEF LeapDay
  <2>. QED BY <2>1, <1>3, <1>9 DEF DayOf, w
<1>. HIDE DEF d
<1>12. Civil(n, y, m, d)
  BY <1>3, <1>8, <1>10, <1>11 DEF Civil
<1>. QED BY <1>12

\* A struct tm.
Tm(k, y, m, d, h, mi, s) ==
    [sec |-> s, min |-> mi, hour |-> h, wday |-> k, year |-> y, mon |-> m, mday |-> d]

\* The loop over the months stops in the month that contains the day.
LEMMA MonthIs ==
    ASSUME NEW m \in Nat, m <= 11, NEW v \in Int, spm(m) <= v, v < spm(m + 1)
    PROVE  (CHOOSE k \in 0 .. 11 : spm(k) <= v /\ v < spm(k + 1)) = m
<1>. DEFINE P(k) == k \in 0 .. 11 /\ spm(k) <= v /\ v < spm(k + 1)
<1>1. P(m)
  OBVIOUS
<1>2. ASSUME NEW k, P(k) PROVE k = m
  <2>1. k \in Nat /\ k <= 11 /\ spm(k) <= v /\ v < spm(k + 1)
    BY <1>2
  <2>. QED BY <2>1, SpmDisjoint
<1>3. (CHOOSE k : P(k)) = m
  <2>. HIDE DEF P
  <2>. QED BY <1>1, <1>2
<1>. QED BY <1>3, Zenon

\* gmtime_r gives a second its date, its weekday and its time of the day.
LEMMA GmtimeIs ==
    ASSUME NEW n, NEW y, NEW m, NEW d, Civil(n, y, m, d),
           NEW h, NEW mi, NEW s, Clock(h, mi, s)
    PROVE  gmtime_r(n * SPD + Second(h, mi, s)) = Tm((4 + n) % 7, y, m, d, h, mi, s)
<1>. DEFINE r == Second(h, mi, s)
            t == n * SPD + r
            w == n - FirstOf(y)
            late == isleap(y) /\ w > 58
            v == IF late THEN w - 1 ELSE w
            Month(x) == CHOOSE k \in 0 .. 11 : spm(k) <= x /\ x < spm(k + 1)
<1>1. /\ n \in Nat /\ FirstOf(y) \in Int /\ FirstOf(y + 1) \in Int
      /\ FirstOf(y) <= n /\ n < FirstOf(y + 1)
      /\ w = spm(m) + LeapDay(y, m) + d - 1
  BY CivilInYear
<1>2. /\ y \in Nat /\ y >= 1970 /\ m \in Nat /\ m <= 11 /\ d \in Nat /\ 1 <= d
      /\ d <= MonthLength(y, m)
  BY DEF Civil
<1>3. /\ r \in 0 .. SPD - 1
      /\ r % SecondsPerMinute = s
      /\ (r \div SecondsPerMinute) % MinutesPerHour = mi
      /\ (r \div SecondsPerMinute) \div MinutesPerHour = h
  BY SecondSplit
<1>. HIDE DEF r
<1>4. t \div SPD = n /\ t % SPD = r
  BY <1>1, <1>3, Lengths, DivMod
<1>. HIDE DEF t
<1>5. YearLoop[<<n, 1970>>] = <<y, w>>
  <2>1. FirstOf(1970) = 0
    BY FirstOfTypes
  <2>2. FirstOf(y) - FirstOf(1970) = FirstOf(y) /\ FirstOf(y + 1) - FirstOf(1970) = FirstOf(y + 1)
    BY <1>1, <2>1
  <2>3. YearLoop[<<n, 1970>>] = <<y, n - (FirstOf(y) - FirstOf(1970))>>
    BY <1>1, <1>2, <2>2, YearLoopIs
  <2>. QED BY <2>2, <2>3
<1>6. /\ spm(m) \in Nat /\ spm(m + 1) \in Nat
      /\ m = 0 => spm(m) = 0 /\ spm(m + 1) <= 31
      /\ m = 1 => spm(m) = 31 /\ spm(m + 1) = 59
      /\ m >= 2 => spm(m) >= 59
      /\ spm(m) + 28 <= spm(m + 1)
  BY <1>2, SpmWindow
<1>7. d <= spm(m + 1) - spm(m) + (IF isleap(y) /\ m = 1 THEN 1 ELSE 0)
  BY <1>2, MonthLengthIs
<1>8. LeapDay(y, m) = IF isleap(y) /\ m > 1 THEN 1 ELSE 0
  BY DEF LeapDay
<1>9. w \in Int
  BY <1>1
<1>. HIDE DEF w
<1>10. /\ v \in Int /\ spm(m) <= v /\ v < spm(m + 1)
       /\ (IF late /\ w = 59 THEN 2 ELSE 1) + v - spm(m) = d
  <2>1. CASE isleap(y) /\ m > 1
    BY <2>1, <1>1, <1>2, <1>6, <1>7, <1>8, <1>9
  <2>2. CASE isleap(y) /\ ~(m > 1)
    BY <2>2, <1>1, <1>2, <1>6, <1>7, <1>8, <1>9
  <2>3. CASE ~isleap(y)
    BY <2>3, <1>1, <1>2, <1>6, <1>7, <1>8, <1>9
  <2>. QED BY <2>1, <2>2, <2>3
<1>11. Month(v) = m
  <2>. HIDE DEF v
  <2>. QED BY <1>2, <1>10, MonthIs
<1>12. gmtime_r(t) =
         [sec |-> r % SecondsPerMinute,
          min |-> (r \div SecondsPerMinute) % MinutesPerHour,
          hour |-> (r \div SecondsPerMinute) \div MinutesPerHour,
          wday |-> (4 + n) % 7,
          year |-> y,
          mon |-> Month(v),
          mday |-> (IF late /\ w = 59 THEN 2 ELSE 1) + v - spm(Month(v))]
  <2>. DEFINE q == YearLoop[<<t \div SPD, 1970>>]
              lateq == isleap(q[1]) /\ q[2] > 58
              vq == IF lateq THEN q[2] - 1 ELSE q[2]
  <2>1. gmtime_r(t) =
         [sec |-> (t % SPD) % SecondsPerMinute,
          min |-> ((t % SPD) \div SecondsPerMinute) % MinutesPerHour,
          hour |-> ((t % SPD) \div SecondsPerMinute) \div MinutesPerHour,
          wday |-> (4 + t \div SPD) % 7,
          year |-> q[1],
          mon |-> Month(vq),
          mday |-> (IF lateq /\ q[2] = 59 THEN 2 ELSE 1) + vq - spm(Month(vq))]
    BY DEF gmtime_r
  <2>2. q = <<y, w>>
    BY <1>4, <1>5
  <2>. HIDE DEF q
  <2>3. q[1] = y /\ q[2] = w
    BY <2>2
  <2>. HIDE DEF Month
  <2>. QED BY <2>1, <2>3, <1>4
<1>. HIDE DEF Month, v, late
<1>. QED BY <1>3, <1>10, <1>11, <1>12 DEF Tm, t, r

\* timegm takes a date and a time of the day to their second; the day of the
\* month may be any the menu lets through.
LEMMA TimegmIs ==
    ASSUME NEW k, NEW y \in Nat, y >= 1970, NEW m \in Nat, m <= 11,
           NEW d \in Nat, d <= 31, NEW h, NEW mi, NEW s, Clock(h, mi, s)
    PROVE  timegm(Tm(k, y, m, d, h, mi, s)) = DayOf(y, m, d) * SPD + Second(h, mi, s)
<1>. DEFINE tm == Tm(k, y, m, d, h, mi, s)
<1>1. /\ s \in Int /\ ~(s > SecondsPerMinute)
      /\ mi \in Int /\ ~(mi > MinutesPerHour)
      /\ h \in Int /\ ~(h > HoursPerDay)
  BY Lengths DEF Clock
<1>. DEFINE c == Carried(tm)
<1>2. /\ c.sec = s /\ c.min = mi /\ c.hour = h /\ c.mday = d
      /\ c.mon = m /\ c.year = y
  <2>1. mi + 0 = mi /\ h + 0 = h /\ d + 0 = d /\ ~(m > 12)
    BY <1>1
  <2>2. c.sec = s /\ c.min = mi
    BY <1>1, <2>1 DEF Carried, Tm
  <2>3. c.hour = h /\ c.mday = d
    BY <1>1, <2>1 DEF Carried, Tm
  <2>4. c.mon = m /\ c.year = y
    BY <1>1, <2>1 DEF Carried, Tm
  <2>. QED BY <2>2, <2>3, <2>4
<1>3. tm.year = y
  BY DEF Tm
<1>. HIDE DEF tm
<1>. DEFINE p == DayLoop[<<d, m, y>>]
<1>4. timegm(tm) =
        IF p[1] < 1970 THEN -1
        ELSE DayNumber(YearStart(y - 1970), p[1], p[2], p[3]) * SPD
               + h * SecondsPerHour + mi * SecondsPerMinute + s
  BY <1>2, <1>3 DEF timegm
<1>5. p = <<y, m, d>>
  BY DayLoopShort
<1>. HIDE DEF p
<1>6. p[1] = y /\ p[2] = m /\ p[3] = d
  BY <1>5
<1>7. FirstOf(y) \in Int /\ spm(m) \in Int /\ LeapDay(y, m) \in Int
  <2>1. spm(m) \in Nat
    BY SpmWindow
  <2>. QED BY <2>1, FirstOfTypes DEF LeapDay
<1>8. DayNumber(YearStart(y - 1970), y, m, d) = DayOf(y, m, d) /\ DayOf(y, m, d) \in Int
  <2>1. YearStart(y - 1970) = FirstOf(y)
    BY YearStartIs
  <2>2. DayNumber(FirstOf(y), y, m, d) = FirstOf(y) + spm(m) + d - 1 + LeapDay(y, m)
    BY DEF DayNumber, LeapDay
  <2>. QED BY <1>7, <2>1, <2>2 DEF DayOf
<1>9. timegm(tm) = DayOf(y, m, d) * SPD
                     + h * SecondsPerHour + mi * SecondsPerMinute + s
  BY <1>4, <1>6, <1>8
<1>10. /\ DayOf(y, m, d) * SPD \in Int /\ h * SecondsPerHour \in Int
       /\ mi * SecondsPerMinute \in Int
  BY <1>1, <1>8, Lengths
<1>. HIDE DEF tm
<1>11. timegm(tm) = DayOf(y, m, d) * SPD + Second(h, mi, s)
  BY <1>1, <1>9, <1>10 DEF Second
<1>. QED BY <1>11 DEF tm

\* A second has a day, and a time of the day.
LEMMA SecondOfDay ==
    ASSUME NEW t \in Nat
    PROVE  \E n, h, mi, s :
             n \in Nat /\ Clock(h, mi, s) /\ t = n * SPD + Second(h, mi, s)
<1>. DEFINE n == t \div SPD
            r == t % SPD
<1>1. n \in Int /\ r \in 0 .. SPD - 1 /\ t = n * SPD + r
  BY Lengths, DivModOf
<1>. HIDE DEF n, r
<1>2. n \in Nat
  <2>1. SUFFICES ASSUME n + 1 <= 0 PROVE FALSE
    BY <1>1
  <2>2. (n + 1) * SPD <= 0 * SPD
    BY <1>1, <2>1, Lengths, MulMono
  <2>3. (n + 1) * SPD = n * SPD + SPD /\ 0 * SPD = 0 /\ n * SPD \in Int
    BY <1>1, Lengths
  <2>. QED BY <1>1, <2>2, <2>3, Lengths
<1>3. PICK h, mi, s : Clock(h, mi, s) /\ r = Second(h, mi, s)
  BY <1>1, SecondExists
<1>. QED BY <1>1, <1>2, <1>3

\* A month has at most 31 days.
LEMMA CivilDay ==
    ASSUME NEW n, NEW y, NEW m, NEW d, Civil(n, y, m, d)
    PROVE  /\ y \in Nat /\ y >= 1970 /\ m \in Nat /\ m <= 11 /\ d \in Nat /\ d <= 31
           /\ DayOf(y, m, d) = n
<1>1. /\ y \in Nat /\ y >= 1970 /\ m \in Nat /\ m <= 11 /\ d \in Nat /\ 1 <= d
      /\ d <= MonthLength(y, m) /\ DayOf(y, m, d) = n
  BY DEF Civil
<1>2. MonthLength(y, m) \in Nat /\ MonthLength(y, m) <= 31
  BY <1>1, Months DEF MonthLength
<1>. QED BY <1>1, <1>2

\* timegm undoes gmtime_r, for every time_t from 1970 on.
THEOREM TimegmOfGmtime ==
    ASSUME NEW t \in Nat
    PROVE  timegm(gmtime_r(t)) = t
<1>1. PICK n, h, mi, s : n \in Nat /\ Clock(h, mi, s) /\ t = n * SPD + Second(h, mi, s)
  BY SecondOfDay
<1>2. PICK y, m, d : Civil(n, y, m, d)
  BY <1>1, CivilExists
<1>3. gmtime_r(t) = Tm((4 + n) % 7, y, m, d, h, mi, s)
  BY <1>1, <1>2, GmtimeIs
<1>. DEFINE k == (4 + n) % 7
<1>4. /\ y \in Nat /\ y >= 1970 /\ m \in Nat /\ m <= 11 /\ d \in Nat /\ d <= 31
      /\ DayOf(y, m, d) = n
  BY <1>2, CivilDay
<1>. HIDE DEF k
<1>5. timegm(Tm(k, y, m, d, h, mi, s)) = DayOf(y, m, d) * SPD + Second(h, mi, s)
  BY <1>1, <1>4, TimegmIs
<1>. QED BY <1>1, <1>3, <1>4, <1>5 DEF k

-----------------------------------------------------------------------------
(* Replacing fields of a struct tm *)

\* What set_time and set_date replace.
WithTime(tm, a, b, c) == [tm EXCEPT !.hour = a, !.min = b, !.sec = c]
WithDate(tm, a, b, c) == [tm EXCEPT !.year = a, !.mon = b, !.mday = c]

\* A record with the fields of a struct tm is one.
LEMMA TmFields ==
    ASSUME NEW k, NEW y, NEW m, NEW d, NEW h, NEW mi, NEW s, NEW r,
           r = [x \in {"sec", "min", "hour", "wday", "year", "mon", "mday"} |-> r[x]],
           r.sec = s, r.min = mi, r.hour = h, r.wday = k, r.year = y, r.mon = m, r.mday = d
    PROVE  r = Tm(k, y, m, d, h, mi, s)
BY DEF Tm

\* Replacing the time of a struct tm, as set_time does, keeps its date.
LEMMA TmSetTime ==
    ASSUME NEW k, NEW y, NEW m, NEW d, NEW h, NEW mi, NEW s, NEW a, NEW b, NEW c
    PROVE  WithTime(Tm(k, y, m, d, h, mi, s), a, b, c) = Tm(k, y, m, d, a, b, c)
<1>. DEFINE r == [Tm(k, y, m, d, h, mi, s) EXCEPT !.hour = a, !.min = b, !.sec = c]
<1>1. r = [x \in {"sec", "min", "hour", "wday", "year", "mon", "mday"} |-> r[x]]
  BY DEF Tm
<1>2. /\ r.sec = c /\ r.min = b /\ r.hour = a /\ r.wday = k /\ r.year = y
      /\ r.mon = m /\ r.mday = d
  BY DEF Tm
<1>. HIDE DEF r
<1>3. r = Tm(k, y, m, d, a, b, c)
  BY <1>1, <1>2, TmFields
<1>. QED BY <1>3 DEF r, WithTime

\* Replacing the date of a struct tm, as set_date does, keeps its time.
LEMMA TmSetDate ==
    ASSUME NEW k, NEW y, NEW m, NEW d, NEW h, NEW mi, NEW s, NEW a, NEW b, NEW c
    PROVE  WithDate(Tm(k, y, m, d, h, mi, s), a, b, c) = Tm(k, a, b, c, h, mi, s)
<1>. DEFINE r == [Tm(k, y, m, d, h, mi, s) EXCEPT !.year = a, !.mon = b, !.mday = c]
<1>1. r = [x \in {"sec", "min", "hour", "wday", "year", "mon", "mday"} |-> r[x]]
  BY DEF Tm
<1>2. /\ r.sec = s /\ r.min = mi /\ r.hour = h /\ r.wday = k /\ r.year = a
      /\ r.mon = b /\ r.mday = c
  BY DEF Tm
<1>. HIDE DEF r
<1>3. r = Tm(k, a, b, c, h, mi, s)
  BY <1>1, <1>2, TmFields
<1>. QED BY <1>3 DEF r, WithDate

\* Replacing the day of the month keeps the other fields.
LEMMA TmSetDay ==
    ASSUME NEW k, NEW y, NEW m, NEW d, NEW h, NEW mi, NEW s, NEW c
    PROVE  [Tm(k, y, m, d, h, mi, s) EXCEPT !.mday = c] = Tm(k, y, m, c, h, mi, s)
BY DEF Tm

-----------------------------------------------------------------------------
(* The walk through the calendar *)

\* The walk reaches the dates in order, and counts their days.
WalkInv == Civil(day, year, mon, mday) /\ wday = (4 + day) % 7

\* The walk begins on a Thursday, the first of January 1970.
LEMMA WalkInvInit == FirstDay => WalkInv
<1>1. FirstOf(1970) = 0 /\ spm(0) = 0 /\ LeapDay(1970, 0) = 0
  BY FirstOfTypes, SpmTable DEF LeapDay
<1>2. MonthLength(1970, 0) = 31
  BY DEF MonthLength
<1>3. Civil(0, 1970, 0, 1)
  BY <1>1, <1>2 DEF Civil, DayOf
<1>. QED BY <1>3 DEF FirstDay, WalkInv

\* The day after a date is the date one day later, at the end of a month and
\* at the end of a year too.
LEMMA WalkInvNext == WalkInv /\ [WalkOn]_walk => WalkInv'
<1>. SUFFICES ASSUME WalkInv, [WalkOn]_walk PROVE WalkInv'
  OBVIOUS
<1>1. CASE UNCHANGED walk
  BY <1>1 DEF walk, WalkInv, Civil
<1>2. CASE WalkOn
  <2>1. /\ year \in Nat /\ year >= 1970 /\ mon \in Nat /\ mon <= 11
        /\ mday \in Nat /\ 1 <= mday /\ mday <= MonthLength(year, mon)
        /\ day = FirstOf(year) + spm(mon) + LeapDay(year, mon) + mday - 1
        /\ wday = (4 + day) % 7
    BY DEF WalkInv, Civil, DayOf
  <2>2. day \in Nat
    BY CivilInYear DEF WalkInv
  <2>3. day' = day + 1 /\ wday' = (4 + day') % 7
    BY <1>2, <2>1, <2>2 DEF WalkOn, Midnight
  <2>4. /\ FirstOf(year) \in Int /\ FirstOf(year + 1) = FirstOf(year) + YearLength(year)
        /\ FirstOf(year + 1) \in Int
    BY <2>1, FirstOfTypes, FirstOfNext
  <2>5. /\ spm(mon) \in Nat /\ spm(mon + 1) \in Nat
        /\ mon = 11 => spm(mon + 1) = 365
    BY <2>1, SpmWindow
  <2>6. MonthLength(year, mon) =
          spm(mon + 1) - spm(mon) + (IF isleap(year) /\ mon = 1 THEN 1 ELSE 0)
    BY <2>1, MonthLengthIs
  <2>7. LeapDay(year, mon) \in Int
    BY DEF LeapDay
  <2>8. CASE NextDay
    <3>1. year' = year /\ mon' = mon /\ mday' = mday + 1 /\ mday < MonthLength(year, mon)
      BY <2>8 DEF NextDay
    <3>2. MonthLength(year, mon) \in Int
      BY <2>5, <2>6
    <3>3. day + 1 = FirstOf(year) + spm(mon) + LeapDay(year, mon) + (mday + 1) - 1
      BY <2>1, <2>4, <2>5, <2>7
    <3>4. Civil(day + 1, year, mon, mday + 1)
      BY <2>1, <3>1, <3>2, <3>3 DEF Civil, DayOf
    <3>. QED BY <2>3, <3>1, <3>4 DEF WalkInv
  <2>9. CASE NextMonth
    <3>1. /\ year' = year /\ mon' = mon + 1 /\ mday' = 1 /\ mon < 11
          /\ mday = MonthLength(year, mon)
      BY <2>9 DEF NextMonth
    <3>2. LeapDay(year, mon + 1) = LeapDay(year, mon) + (IF isleap(year) /\ mon = 1 THEN 1 ELSE 0)
      BY <2>1 DEF LeapDay
    <3>3. day + 1 = FirstOf(year) + spm(mon + 1) + LeapDay(year, mon + 1) + 1 - 1
      BY <2>1, <2>4, <2>5, <2>6, <2>7, <3>1, <3>2
    <3>4. MonthLength(year, mon + 1) >= 1
      BY <2>1, <3>1, Months DEF MonthLength
    <3>5. Civil(day + 1, year, mon + 1, 1)
      BY <2>1, <3>1, <3>3, <3>4 DEF Civil, DayOf
    <3>. QED BY <2>3, <3>1, <3>5 DEF WalkInv
  <2>10. CASE NextYear
    <3>1. year' = year + 1 /\ mon' = 0 /\ mday' = 1 /\ mon = 11 /\ mday = MonthLength(year, mon)
      BY <2>10 DEF NextYear
    <3>2. LeapDay(year, 11) = YearLength(year) - 365 /\ LeapDay(year + 1, 0) = 0
      BY DEF LeapDay, YearLength
    <3>3. spm(0) = 0 /\ spm(11) = 334 /\ spm(12) = 365 /\ 11 + 1 = 12
      BY SpmTable
    <3>4. YearLength(year) \in Int
      BY DEF YearLength
    <3>5. mday = 31
      BY <2>6, <3>1, <3>3
    <3>6. day + 1 = FirstOf(year + 1) + spm(0) + LeapDay(year + 1, 0) + 1 - 1
      BY <2>1, <2>4, <3>1, <3>2, <3>3, <3>4, <3>5
    <3>7. MonthLength(year + 1, 0) = 31
      BY DEF MonthLength
    <3>8. Civil(day + 1, year + 1, 0, 1)
      BY <2>1, <3>6, <3>7 DEF Civil, DayOf
    <3>. QED BY <2>3, <3>1, <3>8 DEF WalkInv
  <2>. QED BY <1>2, <2>8, <2>9, <2>10 DEF WalkOn
<1>. QED BY <1>1, <1>2

\* The last second of the day, and noon.
LEMMA SecondsOfDay ==
    /\ Clock(HoursPerDay - 1, MinutesPerHour - 1, SecondsPerMinute - 1)
    /\ Second(HoursPerDay - 1, MinutesPerHour - 1, SecondsPerMinute - 1) = SPD - 1
    /\ Clock(HoursPerDay \div 2, 0, 0)
    /\ Second(HoursPerDay \div 2, 0, 0) = (HoursPerDay \div 2) * SecondsPerHour
<1>. DEFINE H == HoursPerDay
            M == MinutesPerHour
            C == SecondsPerMinute
<1>1. Clock(H - 1, M - 1, C - 1) /\ Clock(H \div 2, 0, 0)
  BY Lengths DEF Clock
<1>2. (H - 1) * SecondsPerHour = H * SecondsPerHour - SecondsPerHour
  BY Lengths
<1>3. (M - 1) * C = M * C - C
  BY Lengths
<1>4. /\ H * SecondsPerHour \in Int /\ M * C \in Int /\ C \in Int
      /\ (H \div 2) * SecondsPerHour \in Int /\ 0 * C = 0
  BY Lengths
<1>5. Second(H - 1, M - 1, C - 1) = SPD - 1
  BY <1>2, <1>3, <1>4 DEF Second, SPD, SecondsPerHour
<1>6. Second(H \div 2, 0, 0) = (H \div 2) * SecondsPerHour
  BY <1>4 DEF Second
<1>. QED BY <1>1, <1>5, <1>6

\* The last second of the day of the walk, as a struct tm.
LEMMA LastSecondIs ==
    LastSecond = Tm(wday, year, mon, mday, HoursPerDay - 1, MinutesPerHour - 1,
                    SecondsPerMinute - 1)
BY DEF LastSecond, Tm

\* Noon of the day of the walk, as a struct tm.
LEMMA MiddayIs == Midday = Tm(wday, year, mon, mday, HoursPerDay \div 2, 0, 0)
<1>. DEFINE a == HoursPerDay \div 2
<1>1. Midday = [x \in {"sec", "min", "hour", "wday", "year", "mon", "mday"} |-> Midday[x]]
  BY DEF Midday, LastSecond
<1>2. /\ Midday.sec = 0 /\ Midday.min = 0 /\ Midday.hour = a /\ Midday.wday = wday
      /\ Midday.year = year /\ Midday.mon = mon /\ Midday.mday = mday
  BY DEF Midday, LastSecond
<1>. HIDE DEF a
<1>3. Midday = Tm(wday, year, mon, mday, a, 0, 0)
  BY <1>1, <1>2, TmFields
<1>. QED BY <1>3 DEF a

\* gmtime_r gives the day of the walk its date.
LEMMA WalkGmtime == WalkInv => GmtimeIsCivil
<1>. SUFFICES ASSUME WalkInv PROVE GmtimeIsCivil
  OBVIOUS
<1>1. Civil(day, year, mon, mday) /\ wday = (4 + day) % 7
  BY DEF WalkInv
<1>2. day \in Nat
  BY <1>1, CivilInYear
<1>. DEFINE H == HoursPerDay
            M == MinutesPerHour
            C == SecondsPerMinute
<1>3. gmtime_r(day * SPD + Second(H - 1, M - 1, C - 1))
        = Tm(wday, year, mon, mday, H - 1, M - 1, C - 1)
  BY <1>1, SecondsOfDay, GmtimeIs
<1>4. gmtime_r(day * SPD + Second(H \div 2, 0, 0))
        = Tm(wday, year, mon, mday, H \div 2, 0, 0)
  BY <1>1, SecondsOfDay, GmtimeIs
<1>5. (day + 1) * SPD - 1 = day * SPD + (SPD - 1)
  <2>1. (day + 1) * SPD = day * SPD + SPD /\ day * SPD \in Int
    BY <1>2, Lengths
  <2>. QED BY <2>1, Lengths
<1>6. Midday = Tm(wday, year, mon, mday, H \div 2, 0, 0)
  BY MiddayIs
<1>7. gmtime_r((day + 1) * SPD - 1) = LastSecond
  BY <1>3, <1>5, SecondsOfDay, LastSecondIs
<1>8. gmtime_r(day * SPD + (H \div 2) * SecondsPerHour) = Midday
  BY <1>4, <1>6, SecondsOfDay
<1>. QED BY <1>7, <1>8 DEF GmtimeIsCivil

\* timegm counts on from the first of the month.
LEMMA WalkTimegm == WalkInv => LateDaysRoll
<1>. SUFFICES ASSUME WalkInv, NEW d \in Nat, d <= 31
     PROVE  timegm([LastSecond EXCEPT !.mday = d]) = (day + 1 + d - mday) * SPD - 1
  BY DEF LateDaysRoll
<1>. DEFINE H == HoursPerDay
            M == MinutesPerHour
            C == SecondsPerMinute
            n == DayOf(year, mon, d)
<1>1. /\ year \in Nat /\ year >= 1970 /\ mon \in Nat /\ mon <= 11 /\ mday \in Nat
      /\ day = FirstOf(year) + spm(mon) + LeapDay(year, mon) + mday - 1 /\ day \in Nat
  BY CivilInYear DEF WalkInv, Civil, DayOf
<1>2. [LastSecond EXCEPT !.mday = d] = Tm(wday, year, mon, d, H - 1, M - 1, C - 1)
  BY LastSecondIs, TmSetDay
<1>3. timegm(Tm(wday, year, mon, d, H - 1, M - 1, C - 1)) = n * SPD + (SPD - 1)
  BY <1>1, SecondsOfDay, TimegmIs
<1>4. n = day + d - mday
  <2>1. spm(mon) \in Nat
    BY <1>1, SpmWindow
  <2>2. FirstOf(year) \in Int /\ LeapDay(year, mon) \in Int
    BY <1>1, FirstOfTypes DEF LeapDay
  <2>3. n = FirstOf(year) + spm(mon) + LeapDay(year, mon) + d - 1
    BY DEF DayOf
  <2>. HIDE DEF n
  <2>. QED BY <1>1, <2>1, <2>2, <2>3
<1>. HIDE DEF n
<1>5. n \in Int /\ day + 1 + d - mday = n + 1
  BY <1>1, <1>4
<1>6. (n + 1) * SPD = n * SPD + SPD /\ n * SPD \in Int
  BY <1>5, Lengths
<1>. QED BY <1>2, <1>3, <1>5, <1>6, Lengths

\* gmtime_r agrees with the calendar, at noon and in the last second of every
\* day from 1970 on, whatever the lengths of the day, the hour and the minute.
THEOREM GmtimeAlwaysCivil == WalkSpec => []GmtimeIsCivil
<1>1. WalkSpec => []WalkInv
  BY WalkInvInit, WalkInvNext, PTL DEF WalkSpec
<1>. QED BY <1>1, WalkGmtime, PTL

\* timegm rolls a day after the end of the month into the next one, and day 0
\* into the month before, in every month from 1970 on.
THEOREM LateDaysAlwaysRoll == WalkSpec => []LateDaysRoll
<1>1. WalkSpec => []WalkInv
  BY WalkInvInit, WalkInvNext, PTL DEF WalkSpec
<1>. QED BY <1>1, WalkTimegm, PTL

-----------------------------------------------------------------------------
(* The tick counter *)

\* The next remainder.
LEMMA ModNext ==
    ASSUME NEW D \in Nat, D > 0, NEW x \in Int
    PROVE  ((x % D) + 1) % D = (x + 1) % D
<1>. DEFINE q == x \div D
            r == x % D
<1>1. q \in Int /\ r \in 0 .. D - 1 /\ x = q * D + r
  BY DivModOf
<1>. HIDE DEF q, r
<1>2. CASE r + 1 <= D - 1
  <2>1. (q * D + (r + 1)) % D = r + 1
    BY <1>1, <1>2, DivMod
  <2>2. (0 * D + (r + 1)) % D = r + 1
    BY <1>1, <1>2, DivMod
  <2>3. 0 * D + (r + 1) = r + 1 /\ q * D + (r + 1) = x + 1
    BY <1>1
  <2>. QED BY <2>1, <2>2, <2>3 DEF r
<1>3. CASE r + 1 = D
  <2>1. ((q + 1) * D + 0) % D = 0 /\ (1 * D + 0) % D = 0
    BY <1>1, DivMod
  <2>2. (q + 1) * D + 0 = x + 1 /\ 1 * D + 0 = r + 1
    <3>1. (q + 1) * D = q * D + D /\ q * D \in Int
      BY <1>1
    <3>. QED BY <3>1, <1>1, <1>3
  <2>. QED BY <2>1, <2>2 DEF r
<1>. QED BY <1>1, <1>2, <1>3

\* The difference of two values of a counter that has not come round.
LEMMA ModDifference ==
    ASSUME NEW D \in Nat, D > 0, NEW a \in 0 .. D - 1, NEW u \in 0 .. D - 1
    PROVE  (((a + u) % D) - a) % D = u
<1>1. CASE a + u <= D - 1
  <2>1. (0 * D + (a + u)) % D = a + u /\ (0 * D + u) % D = u
    BY <1>1, DivMod
  <2>2. 0 * D + (a + u) = a + u /\ 0 * D + u = u /\ (a + u) - a = u
    OBVIOUS
  <2>. QED BY <2>1, <2>2
<1>2. CASE a + u >= D
  <2>1. (1 * D + (a + u - D)) % D = a + u - D
    BY <1>2, DivMod
  <2>2. ((-1) * D + u) % D = u
    BY DivMod
  <2>3. 1 * D + (a + u - D) = a + u /\ (a + u - D) - a = (-1) * D + u
    OBVIOUS
  <2>. QED BY <2>1, <2>2, <2>3
<1>. QED BY <1>1, <1>2

\* A difference of quotients is the quotient of the difference, or one more.
LEMMA DivDifference ==
    ASSUME NEW D \in Nat, D > 0, NEW a \in Int, NEW u \in Int
    PROVE  (u \div D) - (a \div D) \in {(u - a) \div D, ((u - a) \div D) + 1}
<1>. DEFINE qa == a \div D
            qu == u \div D
            qd == (u - a) \div D
            x == qu - qa - qd
<1>1. qa \in Int /\ a % D \in 0 .. D - 1 /\ a = qa * D + (a % D)
  BY DivModOf
<1>2. qu \in Int /\ u % D \in 0 .. D - 1 /\ u = qu * D + (u % D)
  BY DivModOf
<1>3. qd \in Int /\ (u - a) % D \in 0 .. D - 1 /\ u - a = qd * D + ((u - a) % D)
  BY DivModOf
<1>. HIDE DEF qa, qu, qd
<1>4. x \in Int /\ x * D = qu * D - qa * D - qd * D
  BY <1>1, <1>2, <1>3
<1>5. qu * D \in Int /\ qa * D \in Int /\ qd * D \in Int
  BY <1>1, <1>2, <1>3
<1>6. x * D = ((u - a) % D) + (a % D) - (u % D)
  BY <1>1, <1>2, <1>3, <1>4, <1>5
<1>. HIDE DEF x
<1>7. ~(x <= -1)
  <2>1. SUFFICES ASSUME x <= -1 PROVE FALSE
    OBVIOUS
  <2>2. x * D <= (-1) * D
    BY <1>4, <2>1, MulMono
  <2>. QED BY <1>1, <1>2, <1>3, <1>6, <2>2
<1>8. ~(x >= 2)
  <2>1. SUFFICES ASSUME x >= 2 PROVE FALSE
    OBVIOUS
  <2>2. 2 * D <= x * D
    BY <1>4, <2>1, MulMono
  <2>. QED BY <1>1, <1>2, <1>3, <1>6, <2>2
<1>9. x = 0 \/ x = 1
  BY <1>4, <1>7, <1>8
<1>. QED BY <1>1, <1>2, <1>3, <1>9 DEF x, qa, qu, qd

-----------------------------------------------------------------------------
(* The clock *)

\* Local time minus UTC.
Zone == TimeZone * SecondsPerHour

\* The tick counter counts the uptime.
TickOK ==
    /\ init_tick \in 0 .. TickMod - 1
    /\ uptime \in Nat
    /\ tick = (init_tick + uptime) % TickMod

\* The clock was set to setTo, and before the tick counter came round
\* init_time says so.
SetOK ==
    /\ setTo \in Int /\ init_time \in Int
    /\ setAt \in Nat /\ setAt <= uptime
    /\ setAt < TickMod => init_time = setTo - (setAt \div TicksPerSecond)

\* Each call has set the clock back by less than a day.
FloorOK ==
    /\ calls \in Nat /\ calls <= SetLimit
    /\ init_time + Zone + calls * SPD >= 17532 * SPD

RtcInv == TickOK /\ SetOK /\ FloorOK

\* What the assumptions say of the constants of the clock.
LEMMA RtcConstants ==
    /\ TicksPerSecond \in Nat /\ TicksPerSecond > 0
    /\ TickMod \in Nat /\ TickMod > 0
    /\ Zone \in Nat
    /\ SetLimit \in Nat
    /\ SPD \in Nat /\ SPD > 0
<1>1. ASSUME NEW a \in Nat, NEW b \in Nat PROVE a * b \in Nat
  <2>1. 0 * b <= a * b /\ a * b \in Int /\ 0 * b = 0
    BY MulMono
  <2>. QED BY <2>1
<1>. QED BY <1>1, Lengths, SoftRtcAssumption, CalendarAssumption DEF Zone

\* The seconds since init_tick.
LEMMA ElapsedIs ==
    ASSUME TickOK
    PROVE  /\ Elapsed \in Nat /\ Elapsed <= TickMod \div TicksPerSecond
           /\ uptime < TickMod => Elapsed = uptime \div TicksPerSecond
<1>. DEFINE x == (tick - init_tick) % TickMod
            T == TicksPerSecond
<1>1. tick \in Int /\ init_tick \in Int
  BY RtcConstants DEF TickOK
<1>2. x \in 0 .. TickMod - 1
  BY <1>1, RtcConstants, DivModOf
<1>3. uptime < TickMod => x = uptime
  <2>1. SUFFICES ASSUME uptime < TickMod PROVE x = uptime
    OBVIOUS
  <2>2. uptime \in 0 .. TickMod - 1 /\ init_tick \in 0 .. TickMod - 1
    BY <2>1, RtcConstants DEF TickOK
  <2>. QED BY <2>2, RtcConstants, ModDifference DEF TickOK
<1>. HIDE DEF x
<1>4. Elapsed = x \div T
  BY DEF Elapsed, x
<1>5. x \in Nat /\ x \div T \in Nat
  BY <1>2, RtcConstants
<1>6. x \div T <= TickMod \div T
  <2>1. /\ x \div T \in Int /\ x % T \in 0 .. T - 1 /\ x = (x \div T) * T + (x % T)
    BY <1>5, RtcConstants, DivModOf
  <2>2. /\ TickMod \div T \in Int /\ TickMod % T \in 0 .. T - 1
        /\ TickMod = (TickMod \div T) * T + (TickMod % T)
    BY RtcConstants, DivModOf
  <2>. DEFINE a == x \div T
              b == TickMod \div T
  <2>. HIDE DEF a, b
  <2>3. ASSUME b + 1 <= a PROVE FALSE
    <3>1. (b + 1) * T <= a * T
      BY <2>1, <2>2, <2>3, RtcConstants, MulMono DEF a, b
    <3>2. (b + 1) * T = b * T + T /\ b * T \in Int /\ a * T \in Int
      BY <2>1, <2>2, RtcConstants DEF a, b
    <3>3. a * T <= x /\ TickMod < b * T + T /\ x < TickMod
      BY <1>2, <2>1, <2>2, <3>2, RtcConstants DEF a, b
    <3>. QED BY <1>5, <3>1, <3>2, <3>3, RtcConstants
  <2>. QED BY <2>1, <2>2, <2>3 DEF a, b
<1>. QED BY <1>3, <1>4, <1>5, <1>6

\* The clock never reads a time before 1970.
LEMMA NowIs ==
    ASSUME RtcInv
    PROVE  /\ Now \in Int /\ Elapsed \in Nat /\ Now = init_time + Elapsed
           /\ Now + Zone \in Nat
<1>1. Elapsed \in Nat
  BY ElapsedIs DEF RtcInv
<1>2. /\ init_time \in Int /\ calls \in Nat /\ calls <= SetLimit
      /\ init_time + Zone + calls * SPD >= 17532 * SPD
  BY DEF RtcInv, SetOK, FloorOK
<1>3. calls * SPD <= 17532 * SPD
  <2>1. calls <= 17532
    BY <1>2, RtcConstants, SetBackAssumption
  <2>. QED BY <1>2, <2>1, RtcConstants, MulMono
<1>4. calls * SPD \in Int /\ 17532 * SPD \in Int
  BY <1>2, RtcConstants
<1>5. Now = init_time + Elapsed
  BY DEF Now
<1>. QED BY <1>1, <1>2, <1>3, <1>4, <1>5, RtcConstants

\* What the clock shows.
LEMMA LocalIs ==
    ASSUME NEW x, NEW n, NEW y, NEW m, NEW d, Civil(n, y, m, d),
           NEW h, NEW mi, NEW s, Clock(h, mi, s),
           x + Zone = n * SPD + Second(h, mi, s)
    PROVE  localtime_r(x) = Tm((4 + n) % 7, y, m, d, h, mi, s)
BY GmtimeIs DEF localtime_r, Zone

\* mktime takes local time back to UTC.
LEMMA MktimeIs ==
    ASSUME NEW tm
    PROVE  mktime(tm) = timegm(tm) - Zone
BY DEF mktime, Zone

\* The time the clock reads has a date and a time of the day.
LEMMA NowShows ==
    ASSUME RtcInv
    PROVE  \E n, y, m, d, h, mi, s :
             /\ Civil(n, y, m, d) /\ Clock(h, mi, s)
             /\ Now + Zone = n * SPD + Second(h, mi, s)
<1>1. PICK n, h, mi, s : /\ n \in Nat /\ Clock(h, mi, s)
                         /\ Now + Zone = n * SPD + Second(h, mi, s)
  BY NowIs, SecondOfDay
<1>2. PICK y, m, d : Civil(n, y, m, d)
  BY <1>1, CivilExists
<1>. QED BY <1>1, <1>2

\* The seconds of a day are numbered from 0.
LEMMA SecondRange ==
    ASSUME NEW h, NEW mi, NEW s, Clock(h, mi, s)
    PROVE  /\ Second(h, mi, s) \in Nat /\ Second(h, mi, s) < SPD
<1>1. Second(h, mi, s) \in 0 .. SPD - 1
  BY SecondSplit
<1>. QED BY <1>1, RtcConstants

\* After a call the clock reads the time it was set to, and the clock's
\* invariant holds if the time was set back by less than a day.
LEMMA AfterSet ==
    ASSUME RtcInv, NEW t \in Int, RtcSet(t)
    PROVE  /\ Now' = t /\ calls' = calls + 1
           /\ t + Zone + SPD >= Now + Zone \/ t + Zone >= 18992 * SPD => RtcInv'
<1>1. /\ init_time' = t - Elapsed /\ setTo' = t /\ setAt' = uptime
      /\ calls < SetLimit /\ calls' = calls + 1
      /\ tick' = tick /\ init_tick' = init_tick /\ uptime' = uptime
  BY DEF RtcSet
<1>2. /\ Now \in Int /\ Elapsed \in Nat /\ Now = init_time + Elapsed
  BY NowIs
<1>3. Elapsed' = Elapsed
  BY <1>1 DEF Elapsed
<1>4. Now' = t
  <2>1. Now' = init_time' + Elapsed'
    BY DEF Now
  <2>. QED BY <1>1, <1>2, <1>3, <2>1
<1>5. TickOK'
  BY <1>1 DEF RtcInv, TickOK
<1>6. SetOK'
  <2>1. uptime \in Nat /\ (uptime < TickMod => Elapsed = uptime \div TicksPerSecond)
    BY ElapsedIs DEF RtcInv, TickOK
  <2>. QED BY <1>1, <1>2, <2>1 DEF SetOK
<1>7. ASSUME t + Zone + SPD >= Now + Zone \/ t + Zone >= 18992 * SPD
      PROVE  FloorOK'
  <2>1. /\ init_time \in Int /\ calls \in Nat /\ calls < SetLimit /\ calls + 1 <= SetLimit
        /\ init_time + Zone + calls * SPD >= 17532 * SPD
    BY <1>1, RtcConstants DEF RtcInv, SetOK, FloorOK
  <2>2. /\ (calls + 1) * SPD = calls * SPD + SPD
        /\ calls * SPD \in Int /\ 17532 * SPD \in Int
    BY <2>1, RtcConstants
  <2>3. (t - Elapsed) + Zone + (calls * SPD + SPD) >= 17532 * SPD
    <3>1. CASE t + Zone + SPD >= Now + Zone
      BY <1>2, <2>1, <2>2, <3>1, RtcConstants
    <3>2. CASE t + Zone >= 18992 * SPD
      <4>1. Elapsed <= 1460 * SPD
        <5>1. Elapsed <= TickMod \div TicksPerSecond
          BY ElapsedIs DEF RtcInv
        <5>2. TickMod \div TicksPerSecond \in Int
          BY RtcConstants
        <5>. QED BY <1>2, <5>1, <5>2, RtcConstants, SetBackAssumption
      <4>2. 0 * SPD <= calls * SPD /\ 0 * SPD = 0
        BY <2>1, RtcConstants, MulMono
      <4>. QED BY <1>2, <2>1, <2>2, <3>2, <4>1, <4>2, RtcConstants
    <3>. QED BY <1>7, <3>1, <3>2
  <2>. QED BY <1>1, <2>1, <2>2, <2>3 DEF FloorOK, Zone
<1>. QED BY <1>1, <1>4, <1>5, <1>6, <1>7 DEF RtcInv

\* set_time keeps the local date and replaces the time of the day.
LEMMA SetTimeIs ==
    ASSUME RtcInv, NEW a, NEW b, NEW c, Clock(a, b, c), set_time(a, b, c),
           NEW n, NEW y, NEW m, NEW d, Civil(n, y, m, d),
           NEW h, NEW mi, NEW s, Clock(h, mi, s),
           Now + Zone = n * SPD + Second(h, mi, s)
    PROVE  RtcInv' /\ Now' + Zone = n * SPD + Second(a, b, c) /\ calls' = calls + 1
<1>. DEFINE k == (4 + n) % 7
            t == mktime(WithTime(localtime_r(Now), a, b, c))
<1>1. localtime_r(Now) = Tm(k, y, m, d, h, mi, s)
  BY LocalIs
<1>. HIDE DEF k
<1>2. WithTime(Tm(k, y, m, d, h, mi, s), a, b, c) = Tm(k, y, m, d, a, b, c)
  BY TmSetTime
<1>3. timegm(Tm(k, y, m, d, a, b, c)) = n * SPD + Second(a, b, c)
  <2>1. /\ y \in Nat /\ y >= 1970 /\ m \in Nat /\ m <= 11 /\ d \in Nat /\ d <= 31
        /\ DayOf(y, m, d) = n
    BY CivilDay
  <2>. QED BY <2>1, TimegmIs
<1>4. t = (n * SPD + Second(a, b, c)) - Zone
  <2>1. t = mktime(Tm(k, y, m, d, a, b, c))
    BY <1>1, <1>2
  <2>2. mktime(Tm(k, y, m, d, a, b, c)) = timegm(Tm(k, y, m, d, a, b, c)) - Zone
    BY MktimeIs
  <2>. QED BY <2>1, <2>2, <1>3
<1>5. /\ n * SPD \in Int /\ Second(a, b, c) \in Nat
      /\ Second(h, mi, s) \in Nat /\ Second(h, mi, s) < SPD
  <2>1. n \in Nat
    BY CivilInYear
  <2>. QED BY <2>1, RtcConstants, SecondRange
<1>. HIDE DEF t
<1>6. t \in Int /\ t + Zone = n * SPD + Second(a, b, c) /\ t + Zone + SPD >= Now + Zone
  BY <1>4, <1>5, RtcConstants
<1>7. RtcSet(t)
  BY DEF set_time, WithTime, t
<1>. QED BY <1>6, <1>7, AfterSet

\* set_date keeps the time of the day and replaces the local date.
LEMMA SetDateIs ==
    ASSUME RtcInv, NEW a \in Nat, 1 <= a, a <= 12, NEW b \in Nat, b <= 31,
           set_date(2022, a, b),
           NEW n, NEW y, NEW m, NEW d, Civil(n, y, m, d),
           NEW h, NEW mi, NEW s, Clock(h, mi, s),
           Now + Zone = n * SPD + Second(h, mi, s)
    PROVE  /\ RtcInv' /\ calls' = calls + 1
           /\ Now' + Zone = DayOf(2022, a - 1, b) * SPD + Second(h, mi, s)
<1>. DEFINE k == (4 + n) % 7
            e == a - 1
            t == mktime(WithDate(localtime_r(Now), 2022, e, b))
            v == DayOf(2022, e, b)
<1>1. localtime_r(Now) = Tm(k, y, m, d, h, mi, s)
  BY LocalIs
<1>2. e \in Nat /\ e <= 11
  OBVIOUS
<1>3. RtcSet(t)
  BY DEF set_date, WithDate
<1>. HIDE DEF k, e, t
<1>5. WithDate(Tm(k, y, m, d, h, mi, s), 2022, e, b) = Tm(k, 2022, e, b, h, mi, s)
  BY TmSetDate
<1>6. timegm(Tm(k, 2022, e, b, h, mi, s)) = v * SPD + Second(h, mi, s)
  BY <1>2, TimegmIs
<1>7. v \in Int /\ v >= 18992
  <2>1. FirstOf(2022) = 18993
    BY DEF FirstOf, Leaps
  <2>2. spm(e) \in Nat
    BY <1>2, SpmWindow
  <2>3. LeapDay(2022, e) \in Nat
    BY DEF LeapDay
  <2>. QED BY <2>1, <2>2, <2>3 DEF DayOf
<1>. HIDE DEF v
<1>8. t = (v * SPD + Second(h, mi, s)) - Zone
  <2>1. t = mktime(Tm(k, 2022, e, b, h, mi, s))
    BY <1>1, <1>5 DEF t
  <2>2. mktime(Tm(k, 2022, e, b, h, mi, s)) = timegm(Tm(k, 2022, e, b, h, mi, s)) - Zone
    BY MktimeIs
  <2>. QED BY <2>1, <2>2, <1>6
<1>9. v * SPD \in Int /\ 18992 * SPD <= v * SPD /\ Second(h, mi, s) \in Nat
  BY <1>7, RtcConstants, MulMono, SecondRange
<1>10. t \in Int /\ t + Zone = v * SPD + Second(h, mi, s) /\ t + Zone >= 18992 * SPD
  BY <1>8, <1>9, RtcConstants
<1>11. RtcInv' /\ Now' = t /\ calls' = calls + 1
  BY <1>3, <1>10, AfterSet
<1>. QED BY <1>10, <1>11 DEF v, e

\* The invariant holds once rt_soft_rtc_init has run.
LEMMA RtcInvInit == Init => RtcInv
<1>. SUFFICES ASSUME Init PROVE RtcInv
  OBVIOUS
<1>1. /\ tick \in Nat /\ tick < TickMod /\ init_tick = tick /\ uptime = 0
      /\ setTo = init_time /\ setAt = 0 /\ calls = 0
      /\ init_time = timegm([year |-> 2018, mon |-> 0, mday |-> 1, wday |-> 0,
                             hour |-> 0, min |-> 0, sec |-> 0])
  BY SoftRtcAssumption, RtcConstants DEF Init
<1>2. init_time = 17532 * SPD
  <2>1. init_time = timegm(Tm(0, 2018, 0, 1, 0, 0, 0))
    BY <1>1 DEF Tm
  <2>2. Clock(0, 0, 0)
    BY Lengths DEF Clock
  <2>3. timegm(Tm(0, 2018, 0, 1, 0, 0, 0)) = DayOf(2018, 0, 1) * SPD + Second(0, 0, 0)
    BY <2>2, TimegmIs
  <2>4. DayOf(2018, 0, 1) = 17532
    <3>1. FirstOf(2018) = 17532
      BY DEF FirstOf, Leaps
    <3>. QED BY <3>1, SpmTable DEF DayOf, LeapDay
  <2>5. Second(0, 0, 0) = 0
    BY Lengths DEF Second
  <2>. QED BY <2>1, <2>3, <2>4, <2>5, Lengths
<1>3. TickOK
  <2>1. (0 * TickMod + tick) % TickMod = tick /\ 0 * TickMod + tick = tick
    <3>1. tick \in 0 .. TickMod - 1
      BY <1>1, RtcConstants
    <3>. QED BY <3>1, RtcConstants, DivMod
  <2>. QED BY <1>1, <2>1, RtcConstants DEF TickOK
<1>4. 17532 * SPD \in Int
  BY Lengths
<1>5. SetOK
  <2>1. 0 \div TicksPerSecond = 0
    BY RtcConstants
  <2>. QED BY <1>1, <1>2, <1>4, <2>1 DEF SetOK
<1>6. FloorOK
  BY <1>1, <1>2, <1>4, RtcConstants DEF FloorOK
<1>. QED BY <1>3, <1>5, <1>6 DEF RtcInv

\* The arguments that the setters are called with.
LEMMA SetArguments ==
    /\ \A c \in SetClock : Clock(c[1], c[2], c[3])
    /\ \A m \in SetMonth : m \in Nat /\ 1 <= m /\ m <= 12
    /\ \A d \in SetDay : d \in Nat /\ d <= 31
<1>1. \A c \in SetClock : Clock(c[1], c[2], c[3])
  BY SoftRtcAssumption DEF Clock
<1>2. \A m \in SetMonth : m \in 1 .. 12
  BY SoftRtcAssumption
<1>3. \A d \in SetDay : d \in 0 .. 31
  BY SoftRtcAssumption
<1>. QED BY <1>1, <1>2, <1>3

\* A tick preserves the invariant.
LEMMA RtcInvTick == RtcInv /\ Tick => RtcInv'
<1>. SUFFICES ASSUME RtcInv, Tick PROVE RtcInv'
  OBVIOUS
<1>1. /\ tick' = (tick + 1) % TickMod /\ uptime' = uptime + 1
      /\ init_tick' = init_tick /\ init_time' = init_time /\ setTo' = setTo
      /\ setAt' = setAt /\ calls' = calls
  BY DEF Tick
<1>2. TickOK'
  <2>1. /\ init_tick \in 0 .. TickMod - 1 /\ uptime \in Nat
        /\ tick = (init_tick + uptime) % TickMod
    BY DEF RtcInv, TickOK
  <2>2. init_tick + uptime \in Int /\ (init_tick + uptime) + 1 = init_tick + (uptime + 1)
    BY <2>1, RtcConstants
  <2>3. (((init_tick + uptime) % TickMod) + 1) % TickMod = ((init_tick + uptime) + 1) % TickMod
    BY <2>2, RtcConstants, ModNext
  <2>. QED BY <1>1, <2>1, <2>2, <2>3 DEF TickOK
<1>3. SetOK'
  BY <1>1 DEF RtcInv, TickOK, SetOK
<1>4. FloorOK'
  BY <1>1 DEF RtcInv, FloorOK, Zone
<1>. QED BY <1>2, <1>3, <1>4 DEF RtcInv

\* Every step of the clock preserves the invariant.
LEMMA RtcInvNext == RtcInv /\ [Next]_vars => RtcInv'
<1>. SUFFICES ASSUME RtcInv, [Next]_vars PROVE RtcInv'
  OBVIOUS
<1>1. PICK n, y, m, d, h, mi, s :
        /\ Civil(n, y, m, d) /\ Clock(h, mi, s)
        /\ Now + Zone = n * SPD + Second(h, mi, s)
  BY NowShows
<1>2. CASE UNCHANGED vars
  BY <1>2 DEF vars, RtcInv, TickOK, SetOK, FloorOK
<1>3. CASE Tick
  BY <1>3, RtcInvTick
<1>4. CASE SetTime
  <2>1. PICK c \in SetClock : set_time(c[1], c[2], c[3])
    BY <1>4 DEF SetTime
  <2>2. Clock(c[1], c[2], c[3])
    BY SetArguments
  <2>. QED BY <1>1, <2>1, <2>2, SetTimeIs
<1>5. CASE SetDate
  <2>1. PICK a \in SetMonth, b \in SetDay : set_date(2022, a, b)
    BY <1>5 DEF SetDate
  <2>2. a \in Nat /\ 1 <= a /\ a <= 12 /\ b \in Nat /\ b <= 31
    BY SetArguments
  <2>. QED BY <1>1, <2>1, <2>2, SetDateIs
<1>. QED BY <1>2, <1>3, <1>4, <1>5 DEF Next

\* The invariant holds in every state of the clock.
LEMMA RtcInvAlways == Spec => []RtcInv
BY RtcInvInit, RtcInvNext, PTL DEF Spec

\* The invariant implies that the clock keeps time.
LEMMA RtcInvKeepsTime == RtcInv => KeepsTime
<1>. SUFFICES ASSUME RtcInv, uptime < TickMod
     PROVE  LET passed == (uptime - setAt) \div TicksPerSecond
            IN  Now - setTo \in {passed, passed + 1}
  BY DEF KeepsTime
<1>. DEFINE u == uptime \div TicksPerSecond
            a == setAt \div TicksPerSecond
            p == (uptime - setAt) \div TicksPerSecond
<1>1. /\ uptime \in Nat /\ setAt \in Nat /\ setAt <= uptime /\ setTo \in Int
      /\ (setAt < TickMod => init_time = setTo - a)
  BY DEF RtcInv, TickOK, SetOK
<1>2. init_time = setTo - a
  BY <1>1, RtcConstants
<1>3. Now = init_time + u
  BY NowIs, ElapsedIs DEF RtcInv
<1>4. u - a \in {p, p + 1}
  BY <1>1, RtcConstants, DivDifference
<1>5. u \in Int /\ a \in Int
  BY <1>1, RtcConstants, DivModOf
<1>. HIDE DEF u, a
<1>6. Now - setTo = u - a
  BY <1>1, <1>2, <1>3, <1>5
<1>. QED BY <1>4, <1>6

\* Between two settings the clock is never slow and less than a second fast,
\* until the tick counter has come round: for every length of the second, the
\* hour and the day and every range of the tick counter.
THEOREM ClockKeepsTime == Spec => []KeepsTime
BY RtcInvAlways, RtcInvKeepsTime, PTL

\* The fields that the properties of the setters compare.
LEMMA TmParts ==
    ASSUME NEW k, NEW y, NEW m, NEW d, NEW h, NEW mi, NEW s
    PROVE  /\ TimeOf(Tm(k, y, m, d, h, mi, s)) = <<h, mi, s>>
           /\ DateOf(Tm(k, y, m, d, h, mi, s)) = <<y, m, d, k>>
           /\ Tm(k, y, m, d, h, mi, s).year = y
           /\ Tm(k, y, m, d, h, mi, s).mon = m
           /\ Tm(k, y, m, d, h, mi, s).mday = d
BY DEF TimeOf, DateOf, Tm

\* set_time sets the time and leaves the date alone.
LEMMA SetTimeRight ==
    ASSUME RtcInv, NEW a, NEW b, NEW c, Clock(a, b, c), set_time(a, b, c)
    PROVE  TimeWasSet
<1>1. PICK n, y, m, d, h, mi, s :
        /\ Civil(n, y, m, d) /\ Clock(h, mi, s)
        /\ Now + Zone = n * SPD + Second(h, mi, s)
  BY NowShows
<1>. DEFINE k == (4 + n) % 7
<1>2. Local = Tm(k, y, m, d, h, mi, s)
  BY <1>1, LocalIs DEF Local
<1>3. Now' + Zone = n * SPD + Second(a, b, c)
  BY <1>1, SetTimeIs
<1>4. Local' = Tm(k, y, m, d, a, b, c)
  <2>1. localtime_r(Now') = Tm(k, y, m, d, a, b, c)
    BY <1>1, <1>3, LocalIs
  <2>. QED BY <2>1 DEF Local
<1>5. call' = <<"set_time", a, b, c>>
  BY DEF set_time
<1>. HIDE DEF k
<1>6. TimeOf(Local') = <<a, b, c>> /\ DateOf(Local') = <<y, m, d, k>>
  BY <1>4, TmParts
<1>7. DateOf(Local) = <<y, m, d, k>>
  BY <1>2, TmParts
<1>8. call'[2] = a /\ call'[3] = b /\ call'[4] = c
  BY <1>5
<1>. QED BY <1>6, <1>7, <1>8 DEF TimeWasSet

\* set_date sets the date and leaves the time alone.
LEMMA SetDateRight ==
    ASSUME RtcInv, NEW a \in Nat, 1 <= a, a <= 12, NEW b \in Nat, 1 <= b, b <= 28,
           set_date(2022, a, b)
    PROVE  DateWasSet
<1>1. PICK n, y, m, d, h, mi, s :
        /\ Civil(n, y, m, d) /\ Clock(h, mi, s)
        /\ Now + Zone = n * SPD + Second(h, mi, s)
  BY NowShows
<1>. DEFINE k == (4 + n) % 7
            e == a - 1
            v == DayOf(2022, e, b)
            g == (4 + v) % 7
<1>2. Local = Tm(k, y, m, d, h, mi, s)
  BY <1>1, LocalIs DEF Local
<1>3. Now' + Zone = v * SPD + Second(h, mi, s)
  BY <1>1, SetDateIs
<1>4. e \in Nat /\ e <= 11 /\ e + 1 = a
  OBVIOUS
<1>5. call' = <<"set_date", 2022, a, b>>
  BY DEF set_date
<1>. HIDE DEF e
<1>6. Civil(v, 2022, e, b)
  <2>1. MonthLength(2022, e) \in Nat /\ MonthLength(2022, e) >= 28
    BY <1>4, Months DEF MonthLength
  <2>. QED BY <1>4, <2>1 DEF Civil
<1>. HIDE DEF v
<1>7. Local' = Tm(g, 2022, e, b, h, mi, s)
  <2>1. localtime_r(Now') = Tm(g, 2022, e, b, h, mi, s)
    BY <1>1, <1>3, <1>6, LocalIs
  <2>. QED BY <2>1 DEF Local
<1>. HIDE DEF k, g
<1>8. /\ TimeOf(Local') = <<h, mi, s>> /\ Local'.year = 2022
      /\ Local'.mon = e /\ Local'.mday = b
  BY <1>7, TmParts
<1>9. TimeOf(Local) = <<h, mi, s>>
  BY <1>2, TmParts
<1>10. call'[2] = 2022 /\ call'[3] = a /\ call'[4] = b
  BY <1>5
<1>. QED BY <1>4, <1>8, <1>9, <1>10 DEF DateWasSet

\* Neither setter of the clock changes what it is not asked to change, nor
\* misses what it is: set_time leaves the local date alone and set_date the
\* local time, in every state of the clock.
THEOREM SettersAlwaysKeepTheRest == Spec => SettersKeepTheRest
<1>. DEFINE Right == /\ Called("set_time") => TimeWasSet
                     /\ Called("set_date") /\ call'[4] \in 1 .. 28 => DateWasSet
<1>1. RtcInv /\ [Next]_vars => [Right]_vars
  <2>. SUFFICES ASSUME RtcInv, Next PROVE Right
    OBVIOUS
  <2>1. CASE Tick
    <3>1. calls' = calls /\ calls \in Nat
      BY <2>1 DEF Tick, RtcInv, FloorOK
    <3>2. ~Called("set_time") /\ ~Called("set_date")
      BY <3>1 DEF Called
    <3>. QED BY <3>2
  <2>2. CASE SetTime
    <3>1. PICK c \in SetClock : set_time(c[1], c[2], c[3])
      BY <2>2 DEF SetTime
    <3>2. Clock(c[1], c[2], c[3])
      BY SetArguments
    <3>3. TimeWasSet
      BY <3>1, <3>2, SetTimeRight
    <3>4. call'[1] = "set_time"
      BY <3>1 DEF set_time
    <3>5. ~Called("set_date")
      BY <3>4 DEF Called
    <3>. QED BY <3>3, <3>5
  <2>3. CASE SetDate
    <3>1. PICK a \in SetMonth, b \in SetDay : set_date(2022, a, b)
      BY <2>3 DEF SetDate
    <3>2. a \in Nat /\ 1 <= a /\ a <= 12 /\ b \in Nat
      BY SetArguments
    <3>3. call'[1] = "set_date" /\ call'[4] = b
      BY <3>1 DEF set_date
    <3>4. ~Called("set_time")
      BY <3>3 DEF Called
    <3>5. call'[4] \in 1 .. 28 => 1 <= b /\ b <= 28
      BY <3>2, <3>3
    <3>6. call'[4] \in 1 .. 28 => DateWasSet
      BY <3>1, <3>2, <3>5, SetDateRight
    <3>. QED BY <3>4, <3>6
  <2>. QED BY <2>1, <2>2, <2>3 DEF Next
<1>. QED BY <1>1, RtcInvAlways, PTL DEF Spec, SettersKeepTheRest

=============================================================================
