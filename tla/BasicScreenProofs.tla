-------------------------- MODULE BasicScreenProofs --------------------------
(***************************************************************************)
(* Proofs about module BasicScreen, for all readings of the battery and    *)
(* the accelerometer, any number of steps that an int holds and every      *)
(* limit of the semaphore.                                                 *)
(***************************************************************************)
EXTENDS BasicScreen, WellFoundedInduction, TLAPS

-----------------------------------------------------------------------------
(* Least elements *)

\* Every set of naturals that has an element has a least one.
LEMMA LeastNat ==
    ASSUME NEW T \in SUBSET Nat, T # {}
    PROVE  \E n \in T : \A m \in T : n <= m
<1>1. PICK n \in T : \A m \in T : ~(<<m, n>> \in OpToRel(<, Nat))
  BY NatLessThanWellFounded, WFMin
<1>2. \A m \in T : ~(m < n)
  BY <1>1 DEF OpToRel
<1>. QED BY <1>2

-----------------------------------------------------------------------------
(* The inductive invariant *)

GetLabel == {"ctime", "i2c", "vector", "stepped", "still", "adc", "batt", "post"}
Text == {"batt", "time", "date", "steps"}
Place == {"start", "wait", "taking", "gone", "frame", "items"}

\* The clock's text and the number of steps have been written once.
Sampled == fields = Fields /\ stepString > 0

\* How far Get has written the texts.
GetOK ==
    /\ get.n <= (IF get.at = "ctime" THEN Fields ELSE I2cWaits)
    /\ get.at = "ctime" => fields >= get.n - 1
    /\ get.at # "ctime" => fields = Fields
    /\ get.at \in {"adc", "batt", "post"} => stepString > 0
    /\ get.at = "batt" => get.n \in 1 .. 4

\* A number of the battery has at most four characters, one within the range at
\* most two; nothing is ever written behind them.
BattOK ==
    /\ \A p \in 4 .. 5 : ~battString[p]
    /\ inRange => \A p \in 2 .. 5 : ~battString[p]
    /\ inRange /\ get.at = "batt" => get.n <= 2

\* Show leaves its wait only for a complete sample.
SemOK ==
    /\ sem.value > 0 => Sampled
    /\ sem.waiter => pen.item = "taking"
    /\ pen.item \in {"taking", "frame", "items"} /\ ~sem.waiter => Sampled

\* Where the pen is follows from how far the text has been drawn.  The date
\* wraps after 16 characters, at a digit of the time; its spaces are those in
\* front of the pen, the blank of the day included if it was there at that moment.
PenOK ==
    /\ pen.item = "batt" =>
         pen.pos \in 0 .. 4 /\ pen.x = 190 + 7 * pen.pos /\ pen.y = 10 /\ pen.spaces = 0
    /\ pen.item = "time" =>
         pen.pos \in 11 .. 19 /\ pen.x = 40 + 20 * (pen.pos - 11) /\ pen.y = 60 /\ pen.spaces = 0
    /\ pen.item = "date" =>
         /\ pen.pos \in 0 .. 19
         /\ pen.pos <= 15 => pen.x = 65 + 11 * pen.pos /\ pen.y = 120
         /\ pen.pos > 15 => pen.x = 11 * (pen.pos - 15) /\ pen.y = 138
         /\ pen.pos <= 3 => pen.spaces = 0
         /\ pen.pos \in 4 .. 7 => pen.spaces = 1
         /\ pen.pos = 8 => pen.spaces = 2
         /\ pen.pos \in 9 .. 10 => pen.spaces \in 2 .. 3
         /\ pen.pos > 10 => pen.spaces = 3
    /\ pen.item = "steps" =>
         /\ pen.pos \in 0 .. stepString /\ pen.x = 105 + 11 * pen.pos /\ pen.y = 180
         /\ pen.spaces = 0

IInv ==
    /\ TypeOK
    /\ GetOK
    /\ BattOK
    /\ SemOK
    /\ TextsReady
    /\ PenOK
    /\ PercentSurvives

-----------------------------------------------------------------------------
(* Facts about the texts *)

LEMMA ItemNames == DOMAIN Item = Text
BY DEF Item, Text

LEMMA ItemValues ==
    /\ Item["batt"] = [x |-> 190, y |-> 10, pos |-> 0, w |-> 7, h |-> 10, spaces |-> 99, next |-> "time"]
    /\ Item["time"] = [x |-> 40, y |-> 60, pos |-> 11, w |-> 20, h |-> 50, spaces |-> 1, next |-> "date"]
    /\ Item["date"] = [x |-> 65, y |-> 120, pos |-> 0, w |-> 11, h |-> 18, spaces |-> 4, next |-> "steps"]
    /\ Item["steps"] = [x |-> 105, y |-> 180, pos |-> 0, w |-> 11, h |-> 18, spaces |-> 99, next |-> "wait"]
BY DEF Item, Line, NoBreak

LEMMA FewDigits ==
    ASSUME NEW n \in Int, n >= -1, n <= 99
    PROVE  Digits(n) <= 2
<1>1. CASE n < 0
  BY <1>1 DEF Digits
<1>2. CASE n >= 0 /\ n <= 9
  <2>1. ~(n < 0) /\ n \in 0 .. 9 /\ n \notin 10 .. 99 /\ n \notin 100 .. 999
    BY <1>2
  <2>. QED BY <2>1 DEF Digits
<1>3. CASE n >= 10
  <2>1. ~(n < 0) /\ n \notin 0 .. 9 /\ n \in 10 .. 99 /\ n \notin 100 .. 999
    BY <1>3
  <2>. QED BY <2>1 DEF Digits
<1>. QED BY <1>1, <1>2, <1>3

\* Within the range of the comments the charge has at most two digits.
LEMMA ChargeInRange ==
    ASSUME NEW a \in 1800 .. 2606
    PROVE  Digits(Charge(a)) <= 2
<1>1. (a - 1800) % 65536 = a - 1800
  OBVIOUS
<1>2. ((a - 1800) * 100) \div 806 \in 0 .. 100
  OBVIOUS
<1>3. Charge(a) \in -1 .. 99
  BY <1>1, <1>2 DEF Charge
<1>. QED BY <1>3, FewDigits

\* Where each loop is sent next.
LEMMA StartValues ==
    ASSUME NEW item \in Text \cup {"wait"}
    PROVE  LET p == StartOf(item)
           IN  /\ p \in [item : {"wait"} \cup Text, pos : 0 .. 25, x : Nat, y : Nat, spaces : 0 .. 4]
               /\ p.item = item
               /\ p.spaces = 0
               /\ item = "batt"  => p.pos = 0  /\ p.x = 190 /\ p.y = 10
               /\ item = "time"  => p.pos = 11 /\ p.x = 40  /\ p.y = 60
               /\ item = "date"  => p.pos = 0  /\ p.x = 65  /\ p.y = 120
               /\ item = "steps" => p.pos = 0  /\ p.x = 105 /\ p.y = 180
BY ItemValues DEF StartOf, Idle, Text

-----------------------------------------------------------------------------

LEMMA InitInv == Init => IInv
<1> SUFFICES ASSUME Init PROVE IInv
  OBVIOUS
<1>1. sem \in [value : 0 .. SemMax, waiter : BOOLEAN] /\ sem.waiter = FALSE /\ sem.value = 0
  BY ScreenAssumption DEF Init
<1>2. TypeOK
  <2>1. get \in [at : GetLabel, n : 1 .. I2cWaits]
    BY DEF Init, GetLabel, I2cWaits
  <2>2. pen \in [item : Place \cup DOMAIN Item, pos : 0 .. 25,
                 x : Nat, y : Nat, spaces : 0 .. 4]
    BY DEF Init, Idle, Place
  <2>3. battString \in [0 .. 5 -> BOOLEAN]
    BY DEF Init
  <2>4. stepString \in 0 .. StepWidth /\ fields \in 0 .. Fields
    BY ScreenAssumption DEF Init, Fields
  <2>5. asleep \subseteq {"Get", "Show"} /\ aac \in Accel \cup {Rest}
    BY DEF Init
  <2>6. /\ stuck \subseteq Device /\ padded \in BOOLEAN /\ twoDigits \in BOOLEAN
        /\ percent \in BOOLEAN /\ inRange \in BOOLEAN
    BY DEF Init
  <2>. QED BY <1>1, <2>1, <2>2, <2>3, <2>4, <2>5, <2>6 DEF TypeOK, GetLabel, Place
<1>3. GetOK /\ BattOK
  BY DEF Init, GetOK, BattOK, Fields, I2cWaits
<1>4. SemOK /\ TextsReady /\ PenOK /\ PercentSurvives
  BY <1>1, ItemNames DEF Init, SemOK, TextsReady, PenOK, PercentSurvives, Idle, Text
<1>. QED BY <1>2, <1>3, <1>4 DEF IInv

-----------------------------------------------------------------------------
(* Steps of Get *)

\* What a step of Get has to show: it leaves Show's part of the state alone.
LEMMA GetPreserves ==
    ASSUME IInv,
           TypeOK', GetOK', BattOK', SemOK',
           fields' >= fields, stepString' >= stepString,
           pen' = pen, percent' = percent, inRange' => inRange
    PROVE  IInv'
<1>1. TextsReady'
  BY DEF IInv, TextsReady, TypeOK, Fields
<1>2. PenOK'
  <2>1. stepString \in Nat /\ stepString' \in Nat
    BY ScreenAssumption DEF IInv, TypeOK
  <2>. QED BY <2>1 DEF IInv, PenOK
<1>3. PercentSurvives'
  BY DEF IInv, PercentSurvives
<1>. QED BY <1>1, <1>2, <1>3 DEF IInv

LEMMA CtimeStep ==
    ASSUME IInv, GetCtime
    PROVE  IInv'
<1>1. /\ get \in [at : GetLabel, n : 1 .. I2cWaits] /\ get.at = "ctime" /\ get.n \in 1 .. 8
      /\ fields \in 0 .. 8 /\ fields >= get.n - 1
  BY DEF IInv, TypeOK, GetOK, GetCtime, GetRuns, GetLabel, I2cWaits, Fields
<1>2. /\ fields' \in 0 .. 8 /\ fields' >= fields /\ fields' >= get.n
  BY <1>1 DEF GetCtime
<1>3. /\ get' \in [at : GetLabel, n : 1 .. I2cWaits]
      /\ \/ get'.at = "ctime" /\ get'.n = get.n + 1 /\ get.n < 8
         \/ get'.at = "i2c" /\ get'.n = 1 /\ get.n = 8
  BY <1>1 DEF GetCtime, GoOn, GetLabel, I2cWaits, Fields
<1>4. UNCHANGED <<asleep, stuck, aac, twoDigits, battString, stepString, inRange, sem, pen, percent>>
  BY DEF GetCtime, ShowKept
<1>5. padded' \in BOOLEAN
  BY DEF GetCtime, IInv, TypeOK
<1>6. TypeOK'
  BY <1>2, <1>3, <1>4, <1>5 DEF IInv, TypeOK, GetLabel, Fields
<1>7. GetOK'
  BY <1>1, <1>2, <1>3, <1>4 DEF GetOK, Fields, I2cWaits
<1>8. BattOK'
  BY <1>3, <1>4 DEF IInv, BattOK
<1>9. SemOK'
  <2>1. Sampled => Sampled'
    BY <1>1, <1>2, <1>4 DEF Sampled, Fields
  <2>. QED BY <2>1, <1>4 DEF IInv, SemOK
<1>. QED BY <1>2, <1>4, <1>6, <1>7, <1>8, <1>9, GetPreserves, ScreenAssumption DEF IInv, TypeOK

\* The steps between the texts move Get on and change no text.
LEMMA QuietGetStep ==
    ASSUME IInv,
           get' \in [at : GetLabel, n : 1 .. I2cWaits],
           get'.at \in {"i2c", "vector", "stepped", "still"},
           get.at \in {"i2c", "vector"},
           aac' \in Accel \cup {Rest}, asleep' \subseteq {"Get", "Show"},
           UNCHANGED <<stuck, fields, padded, twoDigits, battString, stepString, inRange>>,
           UNCHANGED <<sem, pen, percent>>
    PROVE  IInv'
<1>1. TypeOK'
  BY DEF IInv, TypeOK, GetLabel
<1>2. GetOK'
  <2>1. get'.n <= I2cWaits /\ get'.at \notin {"ctime", "adc", "batt", "post"}
    BY DEF GetLabel, I2cWaits
  <2>2. fields' = Fields
    BY DEF IInv, GetOK
  <2>. QED BY <2>1, <2>2 DEF GetOK
<1>3. BattOK'
  BY DEF IInv, BattOK
<1>4. SemOK'
  BY DEF IInv, SemOK, Sampled
<1>5. fields' >= fields /\ stepString' >= stepString
  BY ScreenAssumption DEF IInv, TypeOK, Fields
<1>. QED BY <1>1, <1>2, <1>3, <1>4, <1>5, GetPreserves

LEMMA AccelerometerStep ==
    ASSUME IInv, GetAccelerometer
    PROVE  IInv'
<1>1. /\ get \in [at : GetLabel, n : 1 .. I2cWaits] /\ get.at = "i2c"
      /\ asleep \subseteq {"Get", "Show"} /\ aac \in Accel \cup {Rest}
  BY DEF IInv, TypeOK, GetAccelerometer, GetRuns, GetLabel
<1>2. /\ UNCHANGED <<stuck, fields, padded, twoDigits, battString, stepString, inRange>>
      /\ UNCHANGED <<sem, pen, percent>>
  BY DEF GetAccelerometer, ShowKept
<1>3. /\ aac' \in Accel \cup {Rest} /\ asleep' \subseteq {"Get", "Show"}
      /\ get' \in [at : GetLabel, n : 1 .. I2cWaits] /\ get'.at \in {"i2c", "vector"}
  <2>1. CASE get.n < I2cWaits /\ get' = [get EXCEPT !.n = @ + 1] /\ UNCHANGED <<aac, asleep>>
    BY <1>1, <2>1 DEF I2cWaits
  <2>2. CASE /\ \E a \in Accel : aac' = a
             /\ GoOn("vector")
             /\ asleep' = asleep \cup {"Get"}
    BY <1>1, <2>2 DEF I2cWaits, GoOn, GetLabel
  <2>. QED BY <2>1, <2>2 DEF GetAccelerometer
<1>. QED BY <1>1, <1>2, <1>3, QuietGetStep

LEMMA VectorStep ==
    ASSUME IInv, GetVector
    PROVE  IInv'
<1>1. get.at = "vector" /\ asleep \subseteq {"Get", "Show"} /\ aac \in Accel \cup {Rest}
  BY DEF IInv, TypeOK, GetVector, GetRuns
<1>2. /\ UNCHANGED <<stuck, fields, padded, twoDigits, battString, stepString, inRange>>
      /\ UNCHANGED <<sem, pen, percent>> /\ aac' = aac
  BY DEF GetVector, ShowKept
<1>3. PICK step \in StepSeen(aac) :
           /\ GoOn(IF step THEN "stepped" ELSE "still")
           /\ asleep' = IF step THEN asleep \cup {"Get"} ELSE asleep
  BY DEF GetVector
<1>4. /\ asleep' \subseteq {"Get", "Show"}
      /\ get' \in [at : GetLabel, n : 1 .. I2cWaits] /\ get'.at \in {"stepped", "still"}
  <2>1. CASE step
    BY <1>1, <1>3, <2>1 DEF GoOn, GetLabel, I2cWaits
  <2>2. CASE ~step
    BY <1>1, <1>3, <2>2 DEF GoOn, GetLabel, I2cWaits
  <2>. QED BY <2>1, <2>2
<1>. QED BY <1>1, <1>2, <1>4, QuietGetStep

LEMMA StepsStep ==
    ASSUME IInv, GetSteps
    PROVE  IInv'
<1>1. /\ get.at \in {"stepped", "still"} /\ fields = Fields
      /\ stepString \in 0 .. StepWidth /\ StepWidth \in 1 .. 11
  BY ScreenAssumption DEF IInv, TypeOK, GetOK, GetSteps, GetRuns
<1>2. /\ UNCHANGED <<asleep, stuck, fields, padded, twoDigits, battString, inRange, sem, pen, percent>>
      /\ aac' = Rest
  BY DEF GetSteps, ShowKept
<1>3. stepString' \in 1 .. StepWidth /\ stepString' >= stepString
  BY <1>1 DEF GetSteps
<1>4. get' = [at |-> "adc", n |-> 1]
  BY DEF GetSteps, GoOn
<1>5. TypeOK'
  <2>1. get' \in [at : GetLabel, n : 1 .. I2cWaits]
    BY <1>4 DEF GetLabel, I2cWaits
  <2>2. stepString' \in 0 .. StepWidth
    BY <1>1, <1>3
  <2>. QED BY <2>1, <2>2, <1>2 DEF IInv, TypeOK, GetLabel
<1>6. GetOK'
  <2>1. stepString' > 0
    BY <1>1, <1>3
  <2>. QED BY <1>1, <1>2, <1>4, <2>1 DEF GetOK, I2cWaits
<1>7. BattOK'
  BY <1>2, <1>4 DEF IInv, BattOK
<1>8. SemOK'
  <2>1. Sampled => Sampled'
    BY <1>1, <1>2, <1>3 DEF Sampled
  <2>. QED BY <2>1, <1>2 DEF IInv, SemOK
<1>9. fields' >= fields
  BY <1>1, <1>2 DEF Fields
<1>. QED BY <1>2, <1>3, <1>5, <1>6, <1>7, <1>8, <1>9, GetPreserves

\* The digits are written over what is there, and change nothing behind them.
LEMMA BattStep ==
    ASSUME IInv, GetBatt
    PROVE  IInv'
<1>1. /\ get.at = "adc" /\ fields = Fields /\ stepString > 0
      /\ battString \in [0 .. 5 -> BOOLEAN] /\ inRange \in BOOLEAN
  BY DEF IInv, TypeOK, GetOK, GetBatt, GetRuns
<1>2. UNCHANGED <<asleep, stuck, aac, fields, padded, twoDigits, stepString, sem, pen, percent>>
  BY DEF GetBatt, ShowKept
<1>3. PICK adc \in Adc :
           /\ battString' = [p \in 0 .. 5 |-> battString[p] \/ p < Digits(Charge(adc))]
           /\ inRange' = (inRange /\ adc \in 1800 .. 2606)
           /\ get' = [at |-> "batt", n |-> Digits(Charge(adc))]
  BY DEF GetBatt
<1>4. PICK d \in 1 .. 4 : d = Digits(Charge(adc)) /\ (adc \in 1800 .. 2606 => d <= 2)
  <2>1. Digits(Charge(adc)) \in 1 .. 4
    BY DEF Digits
  <2>2. ASSUME adc \in 1800 .. 2606 PROVE Digits(Charge(adc)) <= 2
    BY <2>2, ChargeInRange
  <2>. QED BY <2>1, <2>2
<1>5. TypeOK'
  <2>1. get' \in [at : GetLabel, n : 1 .. I2cWaits]
    BY <1>3, <1>4 DEF GetLabel, I2cWaits
  <2>2. battString' \in [0 .. 5 -> BOOLEAN] /\ inRange' \in BOOLEAN
    BY <1>3
  <2>. QED BY <2>1, <2>2, <1>2 DEF IInv, TypeOK, GetLabel
<1>6. GetOK'
  BY <1>1, <1>2, <1>3, <1>4 DEF GetOK, I2cWaits
<1>7. BattOK'
  <2>1. \A p \in 0 .. 5 : battString'[p] <=> battString[p] \/ p < d
    BY <1>3, <1>4
  <2>2. \A p \in 4 .. 5 : ~battString[p]
    BY DEF IInv, BattOK
  <2>3. \A p \in 4 .. 5 : ~battString'[p]
    BY <2>1, <2>2
  <2>4. inRange' => d <= 2 /\ \A p \in 2 .. 5 : ~battString[p]
    <3>1. inRange' => inRange /\ adc \in 1800 .. 2606
      BY <1>3
    <3>2. inRange => \A p \in 2 .. 5 : ~battString[p]
      BY DEF IInv, BattOK
    <3>. QED BY <3>1, <3>2, <1>4
  <2>5. inRange' => \A p \in 2 .. 5 : ~battString'[p]
    BY <2>1, <2>4
  <2>6. inRange' /\ get'.at = "batt" => get'.n <= 2
    BY <1>3, <1>4, <2>4
  <2>. QED BY <2>3, <2>5, <2>6 DEF BattOK
<1>8. SemOK'
  BY <1>2 DEF IInv, SemOK, Sampled
<1>9. fields' >= fields /\ stepString' >= stepString /\ (inRange' => inRange)
  BY <1>2, <1>3, ScreenAssumption DEF IInv, TypeOK, Fields
<1>. QED BY <1>2, <1>5, <1>6, <1>7, <1>8, <1>9, GetPreserves

LEMMA BattEndStep ==
    ASSUME IInv, GetBattEnd
    PROVE  IInv'
<1>1. /\ get.at = "batt" /\ fields = Fields /\ stepString > 0 /\ get.n \in 1 .. 4
      /\ battString \in [0 .. 5 -> BOOLEAN]
  BY DEF IInv, TypeOK, GetOK, GetBattEnd, GetRuns
<1>2. UNCHANGED <<stuck, aac, fields, padded, twoDigits, stepString, inRange, sem, pen, percent>>
  BY DEF GetBattEnd, ShowKept
<1>3. /\ battString' = [battString EXCEPT ![get.n] = FALSE]
      /\ get' = [at |-> "post", n |-> 1]
      /\ asleep' = asleep \cup {"Get"}
  BY DEF GetBattEnd, GoOn
<1>4. TypeOK'
  <2>1. get' \in [at : GetLabel, n : 1 .. I2cWaits]
    BY <1>3 DEF GetLabel, I2cWaits
  <2>2. battString' \in [0 .. 5 -> BOOLEAN]
    BY <1>1, <1>3
  <2>. QED BY <2>1, <2>2, <1>2, <1>3 DEF IInv, TypeOK, GetLabel
<1>5. GetOK'
  BY <1>1, <1>2, <1>3 DEF GetOK, I2cWaits
<1>6. BattOK'
  <2>1. \A p \in 0 .. 5 : battString'[p] => battString[p]
    BY <1>1, <1>3
  <2>. QED BY <2>1, <1>2, <1>3 DEF IInv, BattOK
<1>7. SemOK'
  BY <1>2 DEF IInv, SemOK, Sampled
<1>8. fields' >= fields /\ stepString' >= stepString
  BY <1>2, ScreenAssumption DEF IInv, TypeOK, Fields
<1>. QED BY <1>2, <1>4, <1>5, <1>6, <1>7, <1>8, GetPreserves

LEMMA PostStep ==
    ASSUME IInv, GetPost
    PROVE  IInv'
<1>1. /\ get.at = "post" /\ fields = Fields /\ stepString > 0
      /\ sem \in [value : 0 .. SemMax, waiter : BOOLEAN]
  BY DEF IInv, TypeOK, GetOK, GetPost, GetRuns
<1>2. UNCHANGED <<asleep, stuck, aac, fields, padded, battString, stepString, pen, percent, inRange>>
  BY DEF GetPost
<1>3. /\ sem' \in [value : 0 .. SemMax, waiter : BOOLEAN]
      /\ get' = [at |-> "ctime", n |-> 1]
      /\ twoDigits' \in BOOLEAN
  <2>1. CASE pen.item = "gone"
    BY <1>1, <2>1 DEF GetPost, GoOn
  <2>2. CASE pen.item # "gone" /\ sem.waiter
    BY <1>1, <2>2 DEF GetPost, GoOn
  <2>3. CASE pen.item # "gone" /\ ~sem.waiter
    BY <1>1, <2>3, ScreenAssumption DEF GetPost, GoOn
  <2>. QED BY <2>1, <2>2, <2>3
<1>4. sem'.waiter = FALSE
  <2>1. CASE pen.item = "gone"
    <3>1. sem' = sem /\ ~sem.waiter
      BY <2>1 DEF GetPost, IInv, SemOK
    <3>. QED BY <1>1, <3>1
  <2>2. CASE pen.item # "gone"
    BY <1>1, <2>2, ScreenAssumption DEF GetPost
  <2>. QED BY <2>1, <2>2
<1>5. Sampled'
  BY <1>1, <1>2 DEF Sampled
<1>6. TypeOK'
  <2>1. get' \in [at : GetLabel, n : 1 .. I2cWaits]
    BY <1>3 DEF GetLabel, I2cWaits
  <2>. QED BY <2>1, <1>2, <1>3 DEF IInv, TypeOK, GetLabel
<1>7. GetOK'
  BY <1>1, <1>2, <1>3 DEF GetOK, Fields
<1>8. BattOK'
  BY <1>2, <1>3 DEF IInv, BattOK
<1>9. SemOK'
  BY <1>4, <1>5 DEF SemOK
<1>10. fields' >= fields /\ stepString' >= stepString
  BY <1>2, ScreenAssumption DEF IInv, TypeOK, Fields
<1>. QED BY <1>2, <1>6, <1>7, <1>8, <1>9, <1>10, GetPreserves

LEMMA GetStep ==
    ASSUME IInv, Get
    PROVE  IInv'
BY CtimeStep, AccelerometerStep, VectorStep, StepsStep, BattStep, BattEndStep, PostStep DEF Get

\* A timer or a device that stops answering changes nothing that the invariant speaks of.
LEMMA OutsideStep ==
    ASSUME IInv, (\E d \in Device : DeviceSticks(d)) \/ Wake("Get") \/ Wake("Show")
    PROVE  IInv'
<1>1. /\ UNCHANGED <<get, aac, fields, padded, twoDigits, battString, stepString, inRange>>
      /\ UNCHANGED <<sem, pen, percent>>
      /\ stuck' \subseteq Device /\ asleep' \subseteq {"Get", "Show"}
  BY DEF IInv, TypeOK, DeviceSticks, Wake, ShowKept, getvars
<1>2. TypeOK'
  BY <1>1 DEF IInv, TypeOK
<1>3. GetOK' /\ BattOK' /\ SemOK'
  BY <1>1 DEF IInv, GetOK, BattOK, SemOK, Sampled
<1>4. TextsReady' /\ PenOK' /\ PercentSurvives'
  BY <1>1 DEF IInv, TextsReady, PenOK, PercentSurvives
<1>. QED BY <1>2, <1>3, <1>4 DEF IInv

-----------------------------------------------------------------------------
(* Steps of Show *)

\* What a step of Show has to show: it leaves Get's part of the state alone.
LEMMA ShowPreserves ==
    ASSUME IInv, UNCHANGED getvars,
           asleep' \subseteq {"Get", "Show"},
           sem' \in [value : 0 .. SemMax, waiter : BOOLEAN],
           pen' \in [item : Place \cup Text, pos : 0 .. 25,
                     x : Nat, y : Nat, spaces : 0 .. 4],
           percent' \in BOOLEAN,
           SemOK', TextsReady', PenOK', PercentSurvives'
    PROVE  IInv'
<1>1. TypeOK'
  BY ItemNames DEF IInv, TypeOK, getvars, Place
<1>2. GetOK' /\ BattOK'
  BY DEF IInv, GetOK, BattOK, getvars
<1>. QED BY <1>1, <1>2 DEF IInv

\* Show sets out for another place, its pen at the start of the text if it is one.
LEMMA Moves ==
    ASSUME IInv, UNCHANGED <<getvars, sem>>,
           NEW item \in Text \cup {"wait", "items"},
           pen' = IF item = "items" THEN Idle("items") ELSE StartOf(item),
           asleep' = asleep \/ asleep' = asleep \cup {"Show"},
           percent' \in BOOLEAN, PercentSurvives',
           item # "wait" => Sampled,
           ~sem.waiter
    PROVE  IInv'
<1>1. /\ pen' \in [item : Place \cup Text, pos : 0 .. 25,
                   x : Nat, y : Nat, spaces : 0 .. 4]
      /\ pen'.item = item
  <2>1. CASE item = "items"
    BY <2>1 DEF Idle, Place
  <2>2. CASE item # "items"
    BY <2>2, StartValues DEF Place
  <2>. QED BY <2>1, <2>2
<1>2. Sampled' <=> Sampled
  BY DEF Sampled, getvars
<1>3. sem' = sem /\ sem \in [value : 0 .. SemMax, waiter : BOOLEAN]
  BY DEF IInv, TypeOK
<1>4. SemOK'
  BY <1>1, <1>2, <1>3 DEF IInv, SemOK, Text
<1>5. TextsReady'
  BY <1>1, <1>2, ItemNames DEF TextsReady, Sampled, Text
<1>6. PenOK'
  <2>1. CASE item \in {"items", "wait"}
    BY <1>1, <2>1 DEF PenOK
  <2>2. CASE item \in Text
    <3>1. pen' = StartOf(item)
      BY <2>2 DEF Text
    <3>2. stepString' \in Nat
      BY ScreenAssumption DEF IInv, TypeOK, getvars
    <3>. QED BY <3>1, <3>2, <2>2, StartValues DEF PenOK, Text
  <2>. QED BY <2>1, <2>2
<1>7. asleep' \subseteq {"Get", "Show"}
  BY DEF IInv, TypeOK
<1>. QED BY <1>1, <1>3, <1>4, <1>5, <1>6, <1>7, ShowPreserves

LEMMA StartStep ==
    ASSUME IInv, ShowStart
    PROVE  IInv'
<1>1. pen'.item = "wait" /\ percent' = TRUE
  BY DEF ShowStart, StartOf, Idle
<1>2. PercentSurvives'
  BY <1>1 DEF PercentSurvives
<1>. QED BY <1>1, <1>2, Moves DEF ShowStart, ShowAt

LEMMA IconsStep ==
    ASSUME IInv, ShowIcons
    PROVE  IInv'
<1>1. percent' = TRUE /\ PercentSurvives'
  BY DEF ShowIcons, PercentSurvives
<1>2. Sampled
  BY DEF ShowIcons, ShowAt, IInv, SemOK
<1>. QED BY <1>1, <1>2, Moves DEF ShowIcons, ShowAt

LEMMA ItemsStep ==
    ASSUME IInv, ShowItems
    PROVE  IInv'
<1>1. Sampled /\ ~sem.waiter /\ pen.item \in {"frame", "items"}
  BY DEF ShowItems, ShowAt, IInv, SemOK
<1>2. percent' = percent /\ percent \in BOOLEAN /\ inRange' = inRange
  BY DEF ShowItems, IInv, TypeOK, getvars
<1>3. PercentSurvives'
  BY <1>1, <1>2 DEF IInv, PercentSurvives
<1>4. CASE pen' = StartOf("batt") /\ UNCHANGED asleep
  BY <1>1, <1>2, <1>3, <1>4, Moves DEF ShowItems, Text
<1>5. CASE pen' = StartOf("wait") /\ asleep' = asleep \cup {"Show"}
  BY <1>1, <1>2, <1>3, <1>5, Moves DEF ShowItems, Text
<1>. QED BY <1>4, <1>5 DEF ShowItems

LEMMA TakeStep ==
    ASSUME IInv, ShowTake
    PROVE  IInv'
<1>1. /\ pen.item = "wait" /\ sem.waiter = FALSE /\ asleep' = asleep /\ percent' = percent
      /\ sem \in [value : 0 .. SemMax, waiter : BOOLEAN] /\ SemMax \in Nat
  BY ScreenAssumption DEF ShowTake, ShowAt, IInv, TypeOK
<1>2. Sampled' <=> Sampled
  BY DEF Sampled, ShowTake, getvars
<1>3. PICK place \in {"frame", "taking"} :
          /\ pen' = [item |-> place, pos |-> 0, x |-> 0, y |-> 0, spaces |-> 0]
          /\ sem' \in [value : 0 .. SemMax, waiter : BOOLEAN] /\ SemOK'
  <2>1. CASE sem.value > 0
    <3>1. sem' = [sem EXCEPT !.value = @ - 1] /\ pen' = Idle("frame") /\ Sampled
      BY <1>1, <2>1 DEF ShowTake, IInv, SemOK
    <3>. QED BY <3>1, <1>1, <1>2, <2>1 DEF SemOK, Idle
  <2>2. CASE ~(sem.value > 0)
    <3>1. sem' = [sem EXCEPT !.waiter = TRUE] /\ pen' = Idle("taking")
      BY <2>2 DEF ShowTake
    <3>. QED BY <3>1, <1>1, <2>2 DEF SemOK, Idle
  <2>. QED BY <2>1, <2>2
<1>5. TextsReady' /\ PenOK'
  BY <1>3, ItemNames DEF TextsReady, PenOK, Text
<1>6. PercentSurvives' /\ percent' \in BOOLEAN
  BY <1>1, <1>3 DEF PercentSurvives, IInv, TypeOK, ShowTake, getvars
<1>7. asleep' \subseteq {"Get", "Show"}
  BY <1>1 DEF IInv, TypeOK
<1>8. UNCHANGED getvars
  BY DEF ShowTake
<1>. QED BY <1>3, <1>5, <1>6, <1>7, <1>8, ShowPreserves DEF Place

\* rt_sem_take returns, to a frame or to the end of Show.
LEMMA ResumeStep ==
    ASSUME IInv, ShowResume
    PROVE  IInv'
<1>1. /\ pen.item = "taking" /\ sem.waiter = FALSE /\ Sampled
      /\ sem' = sem /\ asleep' = asleep /\ percent' = percent /\ UNCHANGED getvars
      /\ sem \in [value : 0 .. SemMax, waiter : BOOLEAN] /\ percent \in BOOLEAN
      /\ asleep \subseteq {"Get", "Show"}
  BY DEF ShowResume, ShowAt, IInv, TypeOK, SemOK
<1>2. PICK place \in {"frame", "gone"} :
          pen' = [item |-> place, pos |-> 0, x |-> 0, y |-> 0, spaces |-> 0]
  BY DEF ShowResume, Idle
<1>3. SemOK'
  BY <1>1, <1>2 DEF SemOK, Sampled, getvars
<1>4. TextsReady' /\ PenOK'
  BY <1>2, ItemNames DEF TextsReady, PenOK, Text
<1>5. PercentSurvives'
  BY <1>1, <1>2 DEF PercentSurvives, IInv, getvars
<1>. QED BY <1>1, <1>2, <1>3, <1>4, <1>5, ShowPreserves DEF Place

\* Show draws on: what is left to show is where the pen gets to.
LEMMA DrawsOn ==
    ASSUME IInv, UNCHANGED <<getvars, sem>>,
           pen.item \in Text, ~sem.waiter,
           pen' \in [item : Text, pos : 0 .. 25, x : Nat, y : Nat, spaces : 0 .. 4],
           pen'.item = pen.item,
           asleep' \subseteq {"Get", "Show"},
           percent' \in BOOLEAN, PenOK', PercentSurvives'
    PROVE  IInv'
<1>1. sem' = sem /\ sem \in [value : 0 .. SemMax, waiter : BOOLEAN]
  BY DEF IInv, TypeOK
<1>2. Sampled' <=> Sampled
  BY DEF Sampled, getvars
<1>3. SemOK'
  BY <1>1, <1>2 DEF IInv, SemOK, Text
<1>4. TextsReady'
  BY ItemNames DEF IInv, TextsReady, getvars
<1>. QED BY <1>1, <1>3, <1>4, ShowPreserves

\* A loop ends.
LEMMA Ends ==
    ASSUME IInv, UNCHANGED <<getvars, sem>>, pen.item \in Text, ~sem.waiter,
           pen' = StartOf(Item[pen.item].next),
           asleep' = asleep \cup {"Show"}, percent' = percent
    PROVE  IInv'
<1>1. Item[pen.item].next \in {"time", "date", "steps", "wait"}
  BY ItemValues DEF Text
<1>2. Sampled
  BY ItemNames DEF IInv, TextsReady, Sampled
<1>3. percent' \in BOOLEAN /\ PercentSurvives'
  <2>1. percent \in BOOLEAN /\ inRange' = inRange /\ pen.item # "start"
    BY DEF IInv, TypeOK, getvars, Text
  <2>. QED BY <2>1 DEF IInv, PercentSurvives
<1>. QED BY <1>1, <1>2, <1>3, Moves DEF Text

\* One round of a loop that neither wraps the line nor ends.
Drawn(item, x, y, spaces) ==
    /\ pen' = [pen EXCEPT !.pos = @ + 1, !.x = x + Item[item].w, !.y = y, !.spaces = spaces]
    /\ asleep' = asleep \cup {"Show"}
    /\ percent' = (percent /\ ~(item = "batt" /\ x + Item[item].w > PercentX))

LEMMA GlyphDrawn ==
    ASSUME NEW item \in Text, ShowChar(item), ~Wraps(item, pen.x),
           CharAt(item, pen.pos) = "glyph"
    PROVE  Drawn(item, pen.x, pen.y, pen.spaces + 0)
BY DEF ShowChar, Drawn

LEMMA GlyphWrapped ==
    ASSUME NEW item \in Text, ShowChar(item), Wraps(item, pen.x),
           CharAt(item, pen.pos) = "glyph",
           ~(pen.y + Item[item].h + Item[item].h >= Height)
    PROVE  Drawn(item, 0, pen.y + Item[item].h, pen.spaces + 0)
BY DEF ShowChar, Drawn

LEMMA SpaceDrawn ==
    ASSUME NEW item \in Text, ShowChar(item), ~Wraps(item, pen.x),
           CharAt(item, pen.pos) = "space", ~(pen.spaces + 1 >= Item[item].spaces)
    PROVE  Drawn(item, pen.x, pen.y, pen.spaces + 1)
BY DEF ShowChar, Drawn

LEMMA LastSpace ==
    ASSUME NEW item \in Text, ShowChar(item), ~Wraps(item, pen.x),
           CharAt(item, pen.pos) = "space", pen.spaces + 1 >= Item[item].spaces
    PROVE  /\ pen' = StartOf(Item[item].next)
           /\ asleep' = asleep \cup {"Show"} /\ percent' = percent
BY DEF ShowChar

\* Only the battery's number can reach the percent sign.
LEMMA PercentKept ==
    ASSUME IInv, UNCHANGED getvars, pen.item \in Text,
           NEW item \in Text, item # "batt", NEW x, NEW y, NEW spaces,
           Drawn(item, x, y, spaces)
    PROVE  PercentSurvives'
<1>1. percent' = percent /\ percent \in BOOLEAN /\ inRange' = inRange /\ pen.item # "start"
  BY DEF Drawn, IInv, TypeOK, getvars, Text
<1>. QED BY <1>1 DEF IInv, PercentSurvives

LEMMA DrawnFields ==
    ASSUME IInv, pen.item \in Text, pen.pos < 25,
           NEW item \in Text, NEW x \in Nat, NEW y \in Nat, NEW spaces \in 0 .. 4,
           Drawn(item, x, y, spaces)
    PROVE  /\ pen' \in [item : Text, pos : 0 .. 25, x : Nat, y : Nat, spaces : 0 .. 4]
           /\ pen'.item = pen.item /\ pen'.pos = pen.pos + 1 /\ pen'.x = x + Item[item].w
           /\ pen'.y = y /\ pen'.spaces = spaces
           /\ percent' \in BOOLEAN /\ asleep' \subseteq {"Get", "Show"}
<1>1. pen \in [item : Place \cup Text, pos : 0 .. 25,
               x : Nat, y : Nat, spaces : 0 .. 4]
  BY ItemNames DEF IInv, TypeOK, Place
<1>2. pen.item \in Text /\ pen.pos + 1 \in 0 .. 25
  BY <1>1
<1>3. x + Item[item].w \in Nat
  BY ItemValues DEF Text
<1>4. /\ pen' = [pen EXCEPT !.pos = pen.pos + 1, !.x = x + Item[item].w, !.y = y, !.spaces = spaces]
      /\ percent' \in BOOLEAN /\ asleep' \subseteq {"Get", "Show"}
  BY DEF Drawn, IInv, TypeOK
<1>. QED BY <1>1, <1>2, <1>3, <1>4

\* The battery's loop: at most four characters, two within the range.
LEMMA BattCharStep ==
    ASSUME IInv, ShowChar("batt")
    PROVE  IInv' /\ (pen'.item # pen.item => pen.pos <= 5)
<1>1. /\ pen.item = "batt" /\ ~sem.waiter /\ UNCHANGED <<getvars, sem>>
      /\ pen.pos \in 0 .. 4 /\ pen.x = 190 + 7 * pen.pos /\ pen.y = 10 /\ pen.spaces = 0
      /\ asleep \subseteq {"Get", "Show"} /\ percent \in BOOLEAN
      /\ pen \in [item : Place \cup DOMAIN Item, pos : 0 .. 25,
                  x : Nat, y : Nat, spaces : 0 .. 4]
  BY DEF ShowChar, ShowAt, IInv, TypeOK, PenOK, Place
<1>2. ~Wraps("batt", pen.x)
  BY <1>1, ItemValues DEF Wraps, Width
<1>3. CASE battString[pen.pos]
  <2>1. pen.pos \in 0 .. 3
    BY <1>1, <1>3 DEF IInv, BattOK
  <2>2. CharAt("batt", pen.pos) = "glyph"
    BY <1>3 DEF CharAt
  <2>3. Drawn("batt", pen.x, pen.y, 0)
    BY <1>1, <1>2, <2>2, GlyphDrawn DEF Text
  <2>4. /\ pen' \in [item : Text, pos : 0 .. 25, x : Nat, y : Nat, spaces : 0 .. 4]
        /\ pen'.item = "batt" /\ pen'.pos = pen.pos + 1 /\ pen'.x = pen.x + 7
        /\ pen'.y = 10 /\ pen'.spaces = 0
        /\ percent' \in BOOLEAN /\ asleep' \subseteq {"Get", "Show"}
    BY <1>1, <2>1, <2>3, DrawnFields, ItemValues DEF Text
  <2>5. PenOK'
    BY <1>1, <2>1, <2>4 DEF PenOK
  <2>6. PercentSurvives'
    <3>1. inRange' = inRange /\ pen.item # "start"
      BY <1>1 DEF getvars
    <3>2. inRange => pen.pos \in 0 .. 1
      BY <1>3, <2>1 DEF IInv, BattOK
    <3>3. inRange => ~(pen.x + 7 > 210)
      BY <1>1, <3>2
    <3>4. percent' = (percent /\ ~(pen.x + 7 > 210))
      BY <2>3, ItemValues DEF Drawn, PercentX
    <3>. QED BY <3>1, <3>3, <3>4 DEF IInv, PercentSurvives
  <2>7. IInv'
    BY <1>1, <2>4, <2>5, <2>6, DrawsOn DEF Text
  <2>. QED BY <1>1, <2>4, <2>7
<1>4. CASE ~battString[pen.pos]
  <2>1. CharAt("batt", pen.pos) = "end"
    BY <1>4 DEF CharAt
  <2>2. pen' = StartOf(Item["batt"].next) /\ asleep' = asleep \cup {"Show"} /\ percent' = percent
    BY <2>1 DEF ShowChar
  <2>3. IInv'
    BY <1>1, <2>2, Ends DEF Text
  <2>. QED BY <1>1, <2>3
<1>. QED BY <1>3, <1>4

\* The time's loop starts at the hours and ends at the space behind the seconds.
LEMMA TimeCharStep ==
    ASSUME IInv, ShowChar("time")
    PROVE  IInv' /\ (pen'.item # pen.item => pen.pos = 19)
<1>1. /\ pen.item = "time" /\ ~sem.waiter /\ UNCHANGED <<getvars, sem>>
      /\ pen.pos \in 11 .. 19 /\ pen.x = 40 + 20 * (pen.pos - 11) /\ pen.y = 60 /\ pen.spaces = 0
  BY DEF ShowChar, ShowAt, IInv, PenOK
<1>2. ~Wraps("time", pen.x)
  BY <1>1, ItemValues DEF Wraps, Width
<1>3. CASE pen.pos \in 11 .. 18
  <2>1. CharAt("time", pen.pos) = "glyph"
    BY <1>3 DEF CharAt, CtimeChar
  <2>2. Drawn("time", pen.x, pen.y, 0)
    BY <1>1, <1>2, <2>1, GlyphDrawn DEF Text
  <2>3. /\ pen' \in [item : Text, pos : 0 .. 25, x : Nat, y : Nat, spaces : 0 .. 4]
        /\ pen'.item = "time" /\ pen'.pos = pen.pos + 1 /\ pen'.x = pen.x + 20
        /\ pen'.y = 60 /\ pen'.spaces = 0
        /\ percent' \in BOOLEAN /\ asleep' \subseteq {"Get", "Show"}
    <3>1. pen.x \in Nat /\ pen.y \in Nat /\ pen.pos < 25 /\ "time" \in Text /\ Item["time"].w = 20
      BY <1>1, <1>3, ItemValues DEF Text
    <3>. QED BY <1>1, <2>2, <3>1, DrawnFields
  <2>4. PenOK'
    BY <1>1, <1>3, <2>3 DEF PenOK
  <2>5. PercentSurvives'
    BY <1>1, <2>2, PercentKept DEF Text
  <2>6. IInv'
    BY <1>1, <2>3, <2>4, <2>5, DrawsOn DEF Text
  <2>. QED BY <1>1, <2>3, <2>6
<1>4. CASE pen.pos = 19
  <2>1. CharAt("time", pen.pos) = "space"
    BY <1>4 DEF CharAt, CtimeChar
  <2>2. pen' = StartOf(Item["time"].next) /\ asleep' = asleep \cup {"Show"} /\ percent' = percent
    BY <1>1, <1>2, <2>1, LastSpace, ItemValues DEF Text
  <2>3. IInv'
    BY <1>1, <2>2, Ends DEF Text
  <2>. QED BY <1>4, <2>3
<1>. QED BY <1>1, <1>3, <1>4

\* A character of the date that is drawn takes the pen where PenOK says.
LEMMA DateDrawn ==
    ASSUME IInv, UNCHANGED <<getvars, sem>>, pen.item = "date", ~sem.waiter,
           pen.pos \in 0 .. 18,
           NEW x \in Nat, NEW y \in Nat, NEW spaces \in 0 .. 4,
           Drawn("date", x, y, spaces),
           pen.pos < 15 => x = 65 + 11 * pen.pos /\ y = 120,
           pen.pos >= 15 => x = 11 * (pen.pos - 15) /\ y = 138,
           pen.pos < 3 => spaces = 0,
           pen.pos \in 3 .. 6 => spaces = 1,
           pen.pos = 7 => spaces = 2,
           pen.pos \in 8 .. 9 => spaces \in 2 .. 3,
           pen.pos >= 10 => spaces = 3
    PROVE  IInv' /\ pen'.item = pen.item
<1>1. /\ pen' \in [item : Text, pos : 0 .. 25, x : Nat, y : Nat, spaces : 0 .. 4]
      /\ pen'.item = "date" /\ pen'.pos = pen.pos + 1 /\ pen'.x = x + 11
      /\ pen'.y = y /\ pen'.spaces = spaces
      /\ percent' \in BOOLEAN /\ asleep' \subseteq {"Get", "Show"}
  <2>1. pen.item \in Text /\ pen.pos < 25 /\ "date" \in Text /\ Item["date"].w = 11
    BY ItemValues DEF Text
  <2>. QED BY <2>1, DrawnFields
<1>2. PenOK'
  BY <1>1 DEF PenOK
<1>3. PercentSurvives'
  BY PercentKept DEF Text
<1>. QED BY <1>1, <1>2, <1>3, DrawsOn DEF Text

\* The date's loop: its fourth space is the one behind a day of one digit or, when
\* the day had two digits as it was drawn, the one behind the seconds.
LEMMA DateCharStep ==
    ASSUME IInv, ShowChar("date")
    PROVE  IInv' /\ (pen'.item # pen.item => pen.pos \in {10, 19})
<1>1. /\ pen.item = "date" /\ ~sem.waiter /\ UNCHANGED <<getvars, sem>>
      /\ pen.pos \in 0 .. 19
      /\ pen.pos <= 15 => pen.x = 65 + 11 * pen.pos /\ pen.y = 120
      /\ pen.pos > 15 => pen.x = 11 * (pen.pos - 15) /\ pen.y = 138
  BY DEF ShowChar, ShowAt, IInv, PenOK
<1>2. /\ pen.pos <= 3 => pen.spaces = 0
      /\ pen.pos \in 4 .. 7 => pen.spaces = 1
      /\ pen.pos = 8 => pen.spaces = 2
      /\ pen.pos \in 9 .. 10 => pen.spaces \in 2 .. 3
      /\ pen.pos > 10 => pen.spaces = 3
  BY <1>1 DEF IInv, PenOK
<1>3. Wraps("date", pen.x) <=> pen.pos = 15
  BY <1>1, ItemValues DEF Wraps, Width
<1>4. CASE pen.pos \in {0, 1, 2, 4, 5, 6, 9, 11, 12, 13, 14, 16, 17, 18} \/ (pen.pos = 8 /\ ~padded)
  <2>1. CharAt("date", pen.pos) = "glyph"
    BY <1>4 DEF CharAt, CtimeChar
  <2>2. Drawn("date", pen.x, pen.y, pen.spaces)
    BY <1>1, <1>2, <1>3, <1>4, <2>1, GlyphDrawn DEF Text
  <2>3. IInv' /\ pen'.item = pen.item
    BY <1>1, <1>2, <1>4, <2>2, DateDrawn
  <2>. QED BY <2>3
<1>5. CASE pen.pos = 15
  <2>1. CharAt("date", pen.pos) = "glyph"
    BY <1>5 DEF CharAt, CtimeChar
  <2>2. Drawn("date", 0, 138, 3)
    BY <1>1, <1>2, <1>3, <1>5, <2>1, GlyphWrapped, ItemValues DEF Text, Height
  <2>3. IInv' /\ pen'.item = pen.item
    BY <1>1, <1>5, <2>2, DateDrawn
  <2>. QED BY <2>3
<1>6. CASE pen.pos \in {3, 7} \/ (pen.pos = 8 /\ padded) \/ (pen.pos = 10 /\ pen.spaces = 2)
  <2>1. CharAt("date", pen.pos) = "space"
    BY <1>6 DEF CharAt, CtimeChar
  <2>2. pen.spaces \in 0 .. 2
    BY <1>2, <1>6
  <2>3. Drawn("date", pen.x, pen.y, pen.spaces + 1)
    BY <1>3, <1>6, <2>1, <2>2, SpaceDrawn, ItemValues DEF Text
  <2>4. IInv' /\ pen'.item = pen.item
    BY <1>1, <1>2, <1>6, <2>2, <2>3, DateDrawn
  <2>. QED BY <2>4
<1>7. CASE pen.pos \in {10, 19} /\ pen.spaces = 3
  <2>1. CharAt("date", pen.pos) = "space"
    BY <1>7 DEF CharAt, CtimeChar
  <2>2. pen' = StartOf(Item["date"].next) /\ asleep' = asleep \cup {"Show"} /\ percent' = percent
    BY <1>3, <1>7, <2>1, LastSpace, ItemValues DEF Text
  <2>3. IInv'
    BY <1>1, <2>2, Ends DEF Text
  <2>. QED BY <1>7, <2>3
<1>8. padded \in BOOLEAN
  BY DEF IInv, TypeOK
<1>. QED BY <1>1, <1>2, <1>4, <1>5, <1>6, <1>7, <1>8

\* The steps' loop: an int has at most eleven characters, which fit one line.
LEMMA StepsCharStep ==
    ASSUME IInv, ShowChar("steps")
    PROVE  IInv'
<1>1. /\ pen.item = "steps" /\ ~sem.waiter /\ UNCHANGED <<getvars, sem>>
      /\ pen.pos \in 0 .. stepString /\ pen.x = 105 + 11 * pen.pos /\ pen.y = 180
      /\ pen.spaces = 0 /\ stepString \in 0 .. 11
  BY ScreenAssumption DEF ShowChar, ShowAt, IInv, TypeOK, PenOK
<1>2. ~Wraps("steps", pen.x)
  BY <1>1, ItemValues DEF Wraps, Width
<1>3. CASE pen.pos < stepString
  <2>1. CharAt("steps", pen.pos) = "glyph"
    BY <1>3 DEF CharAt
  <2>2. Drawn("steps", pen.x, pen.y, 0)
    BY <1>1, <1>2, <2>1, GlyphDrawn DEF Text
  <2>3. /\ pen' \in [item : Text, pos : 0 .. 25, x : Nat, y : Nat, spaces : 0 .. 4]
        /\ pen'.item = "steps" /\ pen'.pos = pen.pos + 1 /\ pen'.x = pen.x + 11
        /\ pen'.y = 180 /\ pen'.spaces = 0
        /\ percent' \in BOOLEAN /\ asleep' \subseteq {"Get", "Show"}
    BY <1>1, <1>3, <2>2, DrawnFields, ItemValues DEF Text
  <2>4. PenOK'
    <3>1. stepString' = stepString
      BY <1>1 DEF getvars
    <3>. QED BY <1>1, <1>3, <2>3, <3>1 DEF PenOK
  <2>5. PercentSurvives'
    BY <1>1, <2>2, PercentKept DEF Text
  <2>. QED BY <1>1, <2>3, <2>4, <2>5, DrawsOn DEF Text
<1>4. CASE ~(pen.pos < stepString)
  <2>1. CharAt("steps", pen.pos) = "end"
    BY <1>4 DEF CharAt
  <2>2. pen' = StartOf(Item["steps"].next) /\ asleep' = asleep \cup {"Show"} /\ percent' = percent
    BY <2>1 DEF ShowChar
  <2>. QED BY <1>1, <2>2, Ends DEF Text
<1>. QED BY <1>3, <1>4

LEMMA ShowStep ==
    ASSUME IInv, Show
    PROVE  IInv'
<1>1. CASE \E item \in DOMAIN Item : ShowChar(item)
  BY <1>1, ItemNames, BattCharStep, TimeCharStep, DateCharStep, StepsCharStep DEF Text
<1>. QED BY <1>1, StartStep, TakeStep, ResumeStep, IconsStep, ItemsStep DEF Show

LEMMA StutterStep ==
    ASSUME IInv, UNCHANGED vars
    PROVE  IInv'
<1>1. TypeOK' /\ GetOK' /\ BattOK' /\ SemOK'
  BY DEF IInv, TypeOK, GetOK, BattOK, SemOK, Sampled, vars
<1>2. TextsReady' /\ PenOK' /\ PercentSurvives'
  BY DEF IInv, TextsReady, PenOK, PercentSurvives, vars
<1>. QED BY <1>1, <1>2 DEF IInv

LEMMA NextInv == IInv /\ [Next]_vars => IInv'
BY GetStep, OutsideStep, ShowStep, StutterStep DEF Next

LEMMA InPlace == IInv => GlyphsInPlace
<1> SUFFICES ASSUME IInv, pen.item \in Text
             PROVE  pen.x <= Width /\ pen.y + Item[pen.item].h <= Bottom[pen.item]
  BY ItemNames DEF GlyphsInPlace
<1>1. CASE pen.item = "batt"
  BY <1>1, ItemValues DEF IInv, PenOK, Width, Bottom
<1>2. CASE pen.item = "time"
  BY <1>2, ItemValues DEF IInv, PenOK, Width, Bottom
<1>3. CASE pen.item = "date"
  BY <1>3, ItemValues DEF IInv, PenOK, Width, Bottom
<1>4. CASE pen.item = "steps"
  <2>1. pen.pos \in 0 .. 11
    BY <1>4, ScreenAssumption DEF IInv, TypeOK, PenOK
  <2>. QED BY <1>4, <2>1, ItemValues DEF IInv, PenOK, Width, Height, Bottom
<1>. QED BY <1>1, <1>2, <1>3, <1>4 DEF Text

-----------------------------------------------------------------------------
(* Theorems *)

\* Whatever the battery and the accelerometer read, and however Get and Show
\* interleave: Show draws only texts that Get has written, every character lies on
\* the panel and in its item's rows, and readings within the range leave the
\* percent sign whole.
THEOREM ScreenInvariant == Spec => [](TypeOK /\ TextsReady /\ PercentSurvives /\ GlyphsInPlace)
<1>1. IInv => TypeOK /\ TextsReady /\ PercentSurvives /\ GlyphsInPlace
  BY InPlace DEF IInv
<1>. QED BY <1>1, InitInv, NextInv, PTL DEF Spec

\* Battery readings within the range of the comments never cost the percent sign,
\* however often Get rewrites the number while Show draws it.
THEOREM PercentAlwaysSurvives == Spec => []PercentSurvives
<1>1. IInv => PercentSurvives
  BY DEF IInv
<1>. QED BY <1>1, InitInv, NextInv, PTL DEF Spec

\* A text that Get has not written yet is never drawn.
THEOREM TextsAlwaysReady == Spec => []TextsReady
<1>1. IInv => TextsReady
  BY DEF IInv
<1>. QED BY <1>1, InitInv, NextInv, PTL DEF Spec

\* Whatever Get does to the texts between two characters, the loop of the time
\* ends exactly after the seconds, the loop of the date not before its day is drawn
\* nor after the blank before the year, and that of the battery at a terminator.
THEOREM LinesAlwaysEnd == Spec => LinesEnd
<1> DEFINE Ended == /\ pen.item = "time" => pen.pos = 19
                    /\ pen.item = "date" => pen.pos \in 10 .. 19
                    /\ pen.item = "batt" => pen.pos <= 5
<1>1. ASSUME IInv, [Next]_vars, pen'.item # pen.item PROVE Ended
  <2>1. CASE pen.item \notin {"batt", "time", "date"}
    BY <2>1
  <2>2. CASE pen.item \in {"batt", "time", "date"}
    <3>1. \E item \in Text : ShowChar(item)
      BY <1>1, <2>2, ItemNames DEF Next, Get, GetCtime, GetAccelerometer, GetVector, GetSteps,
         GetBatt, GetBattEnd, GetPost, DeviceSticks, Wake, ShowKept, Show, ShowStart, ShowTake,
         ShowResume, ShowIcons, ShowItems, ShowAt, vars
    <3>2. ShowChar(pen.item)
      BY <3>1 DEF ShowChar, ShowAt
    <3>. QED BY <1>1, <2>2, <3>2, BattCharStep, TimeCharStep, DateCharStep
  <2>. QED BY <2>1, <2>2
<1>2. IInv /\ [Next]_vars => [pen'.item # pen.item => Ended]_vars
  BY <1>1
<1>. QED BY <1>2, InitInv, NextInv, PTL DEF Spec, LinesEnd

-----------------------------------------------------------------------------
(* The steps *)

\* Every natural number has an integer root, so sqrt and its conversion to int
\* give one value.
LEMMA RootExists ==
    ASSUME NEW n \in Nat
    PROVE  \E r \in Nat : r * r <= n /\ n < (r + 1) * (r + 1)
<1> DEFINE T == {k \in Nat : n < (k + 1) * (k + 1)}
<1>1. n \in T
  <2>1. (n + 1) * (n + 1) = n * n + 2 * n + 1 /\ n * n \in Nat
    OBVIOUS
  <2>. QED BY <2>1
<1>2. T \in SUBSET Nat /\ T # {}
  BY <1>1
<1>. HIDE DEF T
<1>3. PICK r \in T : \A k \in T : r <= k
  BY <1>2, LeastNat
<1>4. r \in Nat /\ n < (r + 1) * (r + 1)
  BY <1>3 DEF T
<1>5. r * r <= n
  <2>1. CASE r = 0
    BY <2>1
  <2>2. CASE r # 0
    <3>1. r - 1 \in Nat /\ ~(r <= r - 1)
      BY <1>4, <2>2
    <3>2. r - 1 \notin T
      BY <1>3, <3>1
    <3>3. ~(n < ((r - 1) + 1) * ((r - 1) + 1))
      BY <3>1, <3>2 DEF T
    <3>4. (r - 1) + 1 = r /\ r * r \in Nat
      BY <1>4
    <3>. QED BY <3>3, <3>4
  <2>. QED BY <2>1, <2>2
<1>. QED BY <1>4, <1>5

\* Squares are ordered as their roots.
LEMMA Squares ==
    ASSUME NEW a \in Nat, NEW b \in Nat, a <= b
    PROVE  a * a <= b * b
<1>1. a * a <= a * b /\ a * b <= b * b
  OBVIOUS
<1>2. a * a \in Nat /\ a * b \in Nat /\ b * b \in Nat
  OBVIOUS
<1>. QED BY <1>1, <1>2

\* The sum of the squares is a natural number.
LEMMA NormNat ==
    ASSUME NEW a \in Accel \cup {Rest}
    PROVE  Norm2(a) \in Nat
<1>1. a[1] \in Int /\ a[2] \in Int /\ a[3] \in Int
  BY ScreenAssumption DEF Rest
<1>2. ASSUME NEW i \in Int PROVE i * i \in Nat
  OBVIOUS
<1>3. a[1] * a[1] \in Nat /\ a[2] * a[2] \in Nat /\ a[3] * a[3] \in Nat
  BY <1>1, <1>2
<1>. QED BY <1>3 DEF Norm2

\* What the comparison of the halved root with the threshold decides.
LEMMA StepMeans ==
    ASSUME NEW a \in Accel \cup {Rest}, Norm2(a) < 2 * Axis * Axis, NEW step \in StepSeen(a)
    PROVE  /\ step => Norm2(a) >= 4 * (threshold + 1) * (threshold + 1)
           /\ ~step => Norm2(a) < 4 * (threshold + 1) * (threshold + 1)
<1>1. PICK n : n = Norm2(a)
  OBVIOUS
<1>2. n \in Nat
  BY <1>1, NormNat
<1>3. Axis \in Nat /\ Axis > 0 /\ threshold \in Nat
  BY ScreenAssumption
<1>4. PICK m \in Nat : m = 2 * (threshold + 1)
  BY <1>3
<1>5. 4 * (threshold + 1) * (threshold + 1) = m * m
  BY <1>3, <1>4
<1>6. Axis * Axis \in Nat /\ 2 * Axis * Axis = 2 * (Axis * Axis)
      /\ (2 * Axis) * (2 * Axis) = 4 * (Axis * Axis)
  BY <1>3
<1>7. ~(n >= 2 * Axis * Axis)
  BY <1>1, <1>2, <1>6
<1> DEFINE Seen == \E v \in 0 .. 2 * Axis :
                       v * v <= n /\ n < (v + 1) * (v + 1) /\ v \div 2 > threshold
<1>8. step = Seen
  BY <1>1, <1>7 DEF StepSeen
<1>9. ASSUME Seen PROVE n >= m * m
  <2>1. PICK v \in 0 .. 2 * Axis : v * v <= n /\ v \div 2 > threshold
    BY <1>9
  <2>2. v \in Nat /\ m <= v
    BY <2>1, <1>3, <1>4
  <2>3. m * m <= v * v
    BY <2>2, Squares
  <2>4. m * m \in Nat /\ v * v \in Nat
    BY <2>2
  <2>. QED BY <2>1, <2>3, <2>4, <1>2
<1>10. ASSUME ~Seen PROVE n < m * m
  <2>1. PICK r \in Nat : r * r <= n /\ n < (r + 1) * (r + 1)
    BY <1>2, RootExists
  <2>2. r \in 0 .. 2 * Axis
    <3>1. SUFFICES ASSUME 2 * Axis <= r PROVE FALSE
      BY <1>3
    <3>2. (2 * Axis) * (2 * Axis) <= r * r
      <4>1. 2 * Axis \in Nat
        BY <1>3
      <4>. QED BY <4>1, <3>1, Squares
    <3>3. r * r \in Nat
      OBVIOUS
    <3>. QED BY <3>2, <3>3, <2>1, <1>2, <1>6, <1>7
  <2>3. ~(r \div 2 > threshold)
    BY <2>1, <2>2, <1>10
  <2>4. r + 1 \in Nat /\ r + 1 <= m
    BY <2>3, <1>3, <1>4
  <2>5. (r + 1) * (r + 1) <= m * m
    BY <2>4, Squares
  <2>6. (r + 1) * (r + 1) \in Nat /\ m * m \in Nat
    BY <2>4
  <2>. QED BY <2>1, <2>5, <2>6, <1>2
<1>. HIDE DEF Seen
<1>. QED BY <1>1, <1>5, <1>8, <1>9, <1>10

\* A step is counted exactly when the acceleration exceeds the threshold, for
\* every reading whose sum of squares fits an int.
THEOREM StepsAlwaysSound == Spec => []StepsSound
<1>1. Init => StepsSound
  BY DEF Init, StepsSound
<1>2. ASSUME IInv, StepsSound, [Next]_vars PROVE StepsSound'
  <2>1. CASE get' = get /\ aac' = aac
    BY <2>1, <1>2 DEF StepsSound
  <2>2. CASE get'.at \notin {"stepped", "still"}
    BY <2>2 DEF StepsSound
  <2>3. CASE GetVector
    <3>1. PICK step \in StepSeen(aac) : GoOn(IF step THEN "stepped" ELSE "still")
      BY <2>3 DEF GetVector
    <3>2. aac' = aac /\ aac \in Accel \cup {Rest}
      BY <1>2, <2>3 DEF GetVector, IInv, TypeOK
    <3>3. get'.at = IF step THEN "stepped" ELSE "still"
      BY <3>1 DEF GoOn
    <3>4. SUFFICES ASSUME Norm2(aac) < 2 * Axis * Axis
                   PROVE  /\ get'.at = "stepped" => Norm2(aac) >= 4 * (threshold + 1) * (threshold + 1)
                          /\ get'.at = "still"   => Norm2(aac) < 4 * (threshold + 1) * (threshold + 1)
      BY <3>2 DEF StepsSound
    <3>5. /\ step => Norm2(aac) >= 4 * (threshold + 1) * (threshold + 1)
          /\ ~step => Norm2(aac) < 4 * (threshold + 1) * (threshold + 1)
      BY <3>1, <3>2, <3>4, StepMeans
    <3>. QED BY <3>3, <3>5
  <2>4. CASE GetCtime \/ GetAccelerometer
    <3>1. get \in [at : GetLabel, n : 1 .. I2cWaits] /\ get.at \in {"ctime", "i2c"}
      BY <1>2, <2>4 DEF IInv, TypeOK, GetLabel, GetCtime, GetAccelerometer, GetRuns
    <3>2. \/ get' = [get EXCEPT !.n = @ + 1]
          \/ get' = [at |-> "i2c", n |-> 1]
          \/ get' = [at |-> "vector", n |-> 1]
      BY <2>4 DEF GetCtime, GetAccelerometer, GoOn
    <3>. QED BY <3>1, <3>2, <2>2
  <2>5. CASE GetSteps \/ GetBattEnd \/ GetPost
    BY <2>5, <2>2 DEF GetSteps, GetBattEnd, GetPost, GoOn
  <2>6. CASE GetBatt
    <3>1. get \in [at : GetLabel, n : 1 .. I2cWaits] /\ get.at \in {"adc", "batt"}
      BY <1>2, <2>6 DEF IInv, TypeOK, GetLabel, GetBatt, GetRuns
    <3>. QED BY <3>1, <2>2, <2>6 DEF GetBatt, GoOn
  <2>7. CASE (\E d \in Device : DeviceSticks(d)) \/ Show \/ (\E t \in {"Get", "Show"} : Wake(t)) \/ UNCHANGED vars
    BY <2>1, <2>7 DEF DeviceSticks, Wake, Show, ShowStart, ShowTake, ShowResume, ShowIcons, ShowItems, ShowChar,
       getvars, vars
  <2>. QED BY <1>2, <2>3, <2>4, <2>5, <2>6, <2>7 DEF Next, Get
<1>3. IInv /\ StepsSound /\ [Next]_vars => StepsSound'
  BY <1>2
<1>. QED BY <1>1, <1>3, InitInv, NextInv, PTL DEF Spec

=============================================================================
