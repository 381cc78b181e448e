----------------------------- MODULE BasicScreen -----------------------------
(***************************************************************************)
(* From the sensors to the basic screen: Get (getValues_entry) rewrites    *)
(* the texts of the clock, the step counter and the battery in place, and  *)
(* Show (showValues_entry, ST7789.c) draws them character by character.    *)
(* Show sleeps inside every character, so Get runs between any two of      *)
(* them, and Show preempts Get whenever it wakes, in the middle of a text. *)
(* The semaphore between them only says that there was a sample.           *)
(*                                                                         *)
(* A character is a glyph, a space, a newline or the end of the string:    *)
(* that decides what the drawing loops do.  Positions are in pixels.  How  *)
(* long a sleep lasts is left open.  The accelerometer is kept at its own  *)
(* ratio of widths: axes are below Axis in size, an int below 2 * Axis^2.  *)
(***************************************************************************)
EXTENDS Integers

CONSTANTS
    Adc,            \* readings of the battery channel, 12 bits
    Accel,          \* readings of the three axes, <<x, y, z>>
    Axis,           \* 2^15 in the build
    threshold,      \* 10500 in the build
    StepWidth,      \* digits of the step counter, 11 for an int
    SemMax          \* RT_SEM_VALUE_MAX, 65535 in the build

ASSUME ScreenAssumption ==
    /\ Adc \subseteq 0 .. 4095
    /\ Axis \in Nat \ {0}
    /\ Accel \subseteq (-Axis .. Axis - 1) \X (-Axis .. Axis - 1) \X (-Axis .. Axis - 1)
    /\ threshold \in Nat
    /\ StepWidth \in 1 .. 11
    /\ SemMax \in Nat \ {0}

VARIABLES
    get,            \* where Get is: [at, n], n counts within a step
    asleep,         \* which of Get and Show sleep
    stuck,          \* the devices, i2c and adc, that have stopped answering
    aac,            \* aacx, aacy, aacz
    fields,         \* how many fields of ctime's buffer were ever written
    padded,         \* the first digit of the day was replaced by a space
    twoDigits,      \* the sample being written has a day of two digits
    battString,     \* which characters of battString are not the terminator
    stepString,     \* the length of stepString
    sem,            \* dynamic_sem: value, and whether Show waits for it
    pen,            \* Show's drawing loop: item, position in the text, x, y, spaces
    percent,        \* the "%" sign is on the screen, whole
    inRange         \* every battery reading so far was within 1800 .. 2606

getvars == <<get, stuck, aac, fields, padded, twoDigits, battString, stepString, inRange>>
vars == <<get, asleep, stuck, aac, fields, padded, twoDigits, battString, stepString,
          sem, pen, percent, inRange>>

-----------------------------------------------------------------------------
(* The texts *)

\* asctime_r writes "Wed Jun 30 21:49:08 1993\n" from left to right.  Spaces
\* after weekday, month, day and time; the day has one where its first digit is 0.
CtimeChar(p) ==
    CASE p \in {3, 7, 10, 19} -> "space"
      [] p = 8                -> IF padded THEN "space" ELSE "glyph"
      [] p = 24               -> "newline"
      [] p = 25               -> "end"
      [] OTHER                -> "glyph"

\* The character Show finds at position p of the text it draws.
CharAt(item, p) ==
    CASE item = "batt"  -> IF battString[p] THEN "glyph" ELSE "end"
      [] item = "steps" -> IF p < stepString THEN "glyph" ELSE "end"
      [] OTHER          -> CtimeChar(p)

\* An item: where it starts, the size of its font, the space at which its loop
\* breaks (WriteString has none), and the item that follows.
Line(x, y, pos, w, h, spaces, next) ==
    [x |-> x, y |-> y, pos |-> pos, w |-> w, h |-> h, spaces |-> spaces, next |-> next]

NoBreak == 99

\* Variant: the date goes on to the fifth space.
Item_FiveSpaces ==
    [batt  |-> Line(190, 10, 0, 7, 10, NoBreak, "time"),
     time  |-> Line(40, 60, 11, 20, 50, 1, "date"),
     date  |-> Line(65, 120, 0, 11, 18, 5, "steps"),
     steps |-> Line(105, 180, 0, 11, 18, NoBreak, "wait")]

\* The four items of the basic screen.
Item ==
    [batt  |-> Line(190, 10, 0, 7, 10, NoBreak, "time"),
     time  |-> Line(40, 60, 11, 20, 50, 1, "date"),
     date  |-> Line(65, 120, 0, 11, 18, 4, "steps"),
     steps |-> Line(105, 180, 0, 11, 18, NoBreak, "wait")]

Width == 240     \* ST7789_WIDTH
Height == 280    \* ST7789_HEIGHT
PercentX == 210  \* where Show draws "%"

\* Variant: the charge is not decremented before it is printed.
Charge_Full(adc) == (((adc - 1800) % 65536) * 100) \div 806

\* Batt = Get_ADC_Val(1); Batt = Batt - 1800; Batt = (Batt*100)/806, all in
\* uint16_t, and the number that is printed, Batt - 1.
Charge(adc) == (((adc - 1800) % 65536) * 100) \div 806 - 1

\* How many characters itoa writes for n.
Digits(n) ==
    CASE n < 0     -> 2
      [] n \in 0 .. 9     -> 1
      [] n \in 10 .. 99   -> 2
      [] n \in 100 .. 999 -> 3
      [] OTHER            -> 4

Norm2(a) == a[1] * a[1] + a[2] * a[2] + a[3] * a[3]

\* Variant: the products are kept in 16 bits.
StepSeen_Short(a) == {((Norm2(a) % (2 * Axis)) \div 4) > threshold * threshold}

\* vector = sqrt(...), totalvector = (vector - 0)/2 > threshold.  The sum is an
\* int; when it overflows, the root and the conversion are undefined.
StepSeen(a) ==
    IF Norm2(a) >= 2 * Axis * Axis
      THEN BOOLEAN
      ELSE {\E v \in 0 .. 2 * Axis :
                v * v <= Norm2(a) /\ Norm2(a) < (v + 1) * (v + 1) /\ v \div 2 > threshold}

-----------------------------------------------------------------------------
(* getValues_entry *)

Rest == <<0, 0, 0>>

Idle(item) == [item |-> item, pos |-> 0, x |-> 0, y |-> 0, spaces |-> 0]

Init ==
    /\ get = [at |-> "ctime", n |-> 1]
    /\ asleep = {}
    /\ stuck = {}
    /\ aac = Rest
    /\ fields = 0
    /\ padded = FALSE
    /\ twoDigits \in BOOLEAN
    /\ battString = [p \in 0 .. 5 |-> FALSE]
    /\ stepString = 0
    /\ sem = [value |-> 0, waiter |-> FALSE]
    /\ pen = Idle("start")
    /\ percent = FALSE
    /\ inRange = TRUE

\* Get runs when it is awake and Show, which outranks it, cannot run.
GetRuns(at) ==
    /\ get.at = at
    /\ "Get" \notin asleep
    /\ "Show" \in asleep \/ sem.waiter \/ pen.item = "gone"

GoOn(at) == get' = [at |-> at, n |-> 1]

ShowKept == UNCHANGED <<sem, pen, percent>>

\* time(RT_NULL) and asctime_r, field by field: weekday, month, day with two
\* digits, its blank, and then hour, minute, second and year.
Fields == 8

GetCtime ==
    /\ GetRuns("ctime")
    /\ IF get.n < Fields THEN get' = [get EXCEPT !.n = @ + 1] ELSE GoOn("i2c")
    /\ fields' = IF fields < get.n THEN get.n ELSE fields
    /\ padded' = CASE get.n = 3 -> FALSE
                   [] get.n = 4 -> ~twoDigits
                   [] OTHER     -> padded
    /\ ShowKept /\ UNCHANGED <<asleep, stuck, aac, twoDigits, battString, stepString, inRange>>

\* MPU_Read_Len waits, with no timeout, for four bus events and six bytes.
I2cWaits == 10

BusAnswers == "i2c" \notin stuck

\* MPU_Get_Accelerometer, and after the last byte rt_thread_mdelay(3).
GetAccelerometer ==
    /\ GetRuns("i2c")
    /\ BusAnswers
    /\ \/ /\ get.n < I2cWaits
          /\ get' = [get EXCEPT !.n = @ + 1]
          /\ UNCHANGED <<aac, asleep>>
       \/ /\ get.n = I2cWaits
          /\ \E a \in Accel : aac' = a
          /\ GoOn("vector")
          /\ asleep' = asleep \cup {"Get"}
    /\ ShowKept /\ UNCHANGED <<stuck, fields, padded, twoDigits, battString, stepString, inRange>>

\* A step is counted, with a sleep of 500 ticks, or not.
GetVector ==
    /\ GetRuns("vector")
    /\ \E step \in StepSeen(aac) :
           /\ GoOn(IF step THEN "stepped" ELSE "still")
           /\ asleep' = IF step THEN asleep \cup {"Get"} ELSE asleep
    /\ ShowKept
    /\ UNCHANGED <<stuck, aac, fields, padded, twoDigits, battString, stepString, inRange>>

\* itoa(steps, stepString, 10): the count may have grown by a digit.
GetSteps ==
    /\ GetRuns("stepped") \/ GetRuns("still")
    /\ stepString' \in IF stepString = 0 THEN {1}
                       ELSE IF get.at = "stepped" /\ stepString < StepWidth
                              THEN {stepString, stepString + 1}
                              ELSE {stepString}
    /\ aac' = Rest
    /\ GoOn("adc")
    /\ ShowKept /\ UNCHANGED <<asleep, stuck, fields, padded, twoDigits, battString, inRange>>

\* Get_ADC_Val starts a conversion and waits, with no timeout, for its end.
ConversionEnds == "adc" \notin stuck

\* Get_ADC_Val and itoa(Batt-1, battString, 10): first the digits ...
GetBatt ==
    /\ GetRuns("adc")
    /\ ConversionEnds
    /\ \E adc \in Adc :
           /\ battString' = [p \in 0 .. 5 |-> battString[p] \/ p < Digits(Charge(adc))]
           /\ inRange' = (inRange /\ adc \in 1800 .. 2606)
           /\ get' = [at |-> "batt", n |-> Digits(Charge(adc))]
    /\ ShowKept /\ UNCHANGED <<asleep, stuck, aac, fields, padded, twoDigits, stepString>>

\* ... then the terminator; what an earlier, longer number left behind it stays.
\* rt_thread_mdelay(2)
GetBattEnd ==
    /\ GetRuns("batt")
    /\ battString' = [battString EXCEPT ![get.n] = FALSE]
    /\ GoOn("post")
    /\ asleep' = asleep \cup {"Get"}
    /\ ShowKept /\ UNCHANGED <<stuck, aac, fields, padded, twoDigits, stepString, inRange>>

\* Variant: the value is incremented although Show is suspended.
GetPost_NoResume ==
    /\ GetRuns("post")
    /\ sem' = [sem EXCEPT !.value = SemMax]
    /\ GoOn("ctime")
    /\ twoDigits' \in BOOLEAN
    /\ UNCHANGED <<asleep, stuck, aac, fields, padded, battString, stepString, pen,
                   percent, inRange>>

\* rt_sem_release(dynamic_sem), and the loop starts again with another time.
\* When Show has deleted the semaphore, the call works on freed memory (corrupt in
\* module Watch), which nobody here reads.
GetPost ==
    /\ GetRuns("post")
    /\ sem' = CASE pen.item = "gone" -> sem
                [] sem.waiter        -> [sem EXCEPT !.waiter = FALSE]
                [] OTHER -> [sem EXCEPT !.value = IF @ < SemMax THEN @ + 1 ELSE @]
    /\ GoOn("ctime")
    /\ twoDigits' \in BOOLEAN
    /\ UNCHANGED <<asleep, stuck, aac, fields, padded, battString, stepString, pen,
                   percent, inRange>>

Get ==
    \/ GetCtime \/ GetAccelerometer \/ GetVector \/ GetSteps
    \/ GetBatt \/ GetBattEnd \/ GetPost

\* The accelerometer, reset or unplugged, holds the bus, or the converter never
\* sets its end-of-conversion flag.
DeviceSticks(d) ==
    /\ d \notin stuck
    /\ stuck' = stuck \cup {d}
    /\ ShowKept
    /\ UNCHANGED <<get, asleep, aac, fields, padded, twoDigits, battString, stepString, inRange>>

\* A timer fires.
Wake(t) ==
    /\ t \in asleep
    /\ asleep' = asleep \ {t}
    /\ UNCHANGED <<getvars, sem, pen, percent>>

-----------------------------------------------------------------------------
(* showValues_entry, with menu_index 0 *)

ShowAt(item) == pen.item = item /\ "Show" \notin asleep /\ ~sem.waiter

StartOf(item) ==
    IF item = "wait" THEN Idle("wait")
    ELSE [item |-> item, pos |-> Item[item].pos, x |-> Item[item].x, y |-> Item[item].y,
          spaces |-> 0]

\* The symbols "%" and steps are drawn, with sleeps, when Show starts ...
ShowStart ==
    /\ ShowAt("start")
    /\ percent' = TRUE
    /\ pen' = StartOf("wait")
    /\ asleep' = asleep \cup {"Show"}
    /\ UNCHANGED <<getvars, sem>>

\* ... and, before the items of the frame, when the theme has changed.
ShowIcons ==
    /\ ShowAt("frame")
    /\ percent' = TRUE
    /\ pen' = Idle("items")
    /\ asleep' = asleep \cup {"Show"}
    /\ UNCHANGED <<getvars, sem>>

\* Variant: the semaphore is not waited for.
ShowTake_NoWait ==
    /\ ShowAt("wait")
    /\ pen' = Idle("frame")
    /\ UNCHANGED <<sem, asleep, getvars, percent>>

\* rt_sem_take(dynamic_sem, RT_WAITING_FOREVER): there is something to take, or
\* Show is suspended inside the call.
ShowTake ==
    /\ ShowAt("wait")
    /\ \/ /\ sem.value > 0
          /\ sem' = [sem EXCEPT !.value = @ - 1]
          /\ pen' = Idle("frame")
       \/ /\ sem.value = 0
          /\ sem' = [sem EXCEPT !.waiter = TRUE]
          /\ pen' = Idle("taking")
    /\ UNCHANGED <<asleep, getvars, percent>>

\* Once resumed, rt_sem_take returns thread->error: EOK, or what a UART interrupt
\* inside the call wrote there (MutexRelease of module Watch).  On an error Show
\* deletes the semaphore and returns.
ShowResume ==
    /\ ShowAt("taking")
    /\ pen' = Idle("frame") \/ pen' = Idle("gone")
    /\ UNCHANGED <<sem, asleep, getvars, percent>>

\* The switch on menu_index: the basic screen, or the items of a menu, which
\* leave the rows of "%" alone (module Menu).
ShowItems ==
    /\ ShowAt("frame") \/ ShowAt("items")
    /\ \/ pen' = StartOf("batt") /\ UNCHANGED asleep
       \/ pen' = StartOf("wait") /\ asleep' = asleep \cup {"Show"}
    /\ UNCHANGED <<getvars, sem, percent>>

\* Variant: a line is not wrapped.
Wraps_Never(item, x) == FALSE

\* The character would touch the right edge, and goes to the next line.
Wraps(item, x) == x + Item[item].w >= Width

\* One round of the loop of WriteString, RTC_ST7789_Time or RTC_ST7789_Date:
\* wrap the line and swallow a space at its start, skip a newline, stop at the
\* end or at the item's last space, or draw the character, sleeping.
ShowChar(item) ==
    LET c     == CharAt(item, pen.pos)
        wraps == Wraps(item, pen.x)
        x     == IF wraps THEN 0 ELSE pen.x
        y     == IF wraps THEN pen.y + Item[item].h ELSE pen.y
        full  == wraps /\ y + Item[item].h >= Height
        skips == c = "newline" \/ (wraps /\ c = "space")
        count == pen.spaces + (IF c = "space" THEN 1 ELSE 0)
        stops == c = "end" \/ full \/ (~skips /\ c = "space" /\ count >= Item[item].spaces)
    IN  /\ ShowAt(item)
        /\ \/ /\ stops                        \* and rt_thread_mdelay(1)
              /\ pen' = StartOf(Item[item].next)
              /\ asleep' = asleep \cup {"Show"}
              /\ UNCHANGED percent
           \/ /\ ~stops /\ skips
              /\ pen' = [pen EXCEPT !.pos = @ + 1, !.x = x, !.y = y]
              /\ UNCHANGED <<asleep, percent>>
           \/ /\ ~stops /\ ~skips
              /\ pen' = [pen EXCEPT !.pos = @ + 1, !.x = x + Item[item].w, !.y = y,
                                    !.spaces = count]
              /\ asleep' = asleep \cup {"Show"}
              /\ percent' = (percent /\ ~(item = "batt" /\ x + Item[item].w > PercentX))
        /\ UNCHANGED <<getvars, sem>>

Show ==
    \/ ShowStart \/ ShowTake \/ ShowResume \/ ShowIcons \/ ShowItems
    \/ \E item \in DOMAIN Item : ShowChar(item)

Device == {"i2c", "adc"}

Next ==
    \/ Get
    \/ \E d \in Device : DeviceSticks(d)
    \/ Wake("Get") \/ Wake("Show")
    \/ Show

\* Timers fire; Show, which nothing outranks here, runs whenever it is awake;
\* Get runs in Show's sleeps, one or more of which every character brings.
Fairness ==
    /\ WF_vars(Wake("Get"))
    /\ WF_vars(Wake("Show"))
    /\ WF_vars(Show)
    /\ SF_vars(Get)

Spec == Init /\ [][Next]_vars /\ Fairness

-----------------------------------------------------------------------------
(* Properties *)

TypeOK ==
    /\ get \in [at : {"ctime", "i2c", "vector", "stepped", "still", "adc", "batt", "post"},
                n : 1 .. I2cWaits]
    /\ asleep \subseteq {"Get", "Show"}
    /\ stuck \subseteq Device
    /\ aac \in Accel \cup {Rest}
    /\ fields \in 0 .. Fields
    /\ padded \in BOOLEAN
    /\ twoDigits \in BOOLEAN
    /\ battString \in [0 .. 5 -> BOOLEAN]
    /\ stepString \in 0 .. StepWidth
    /\ sem \in [value : 0 .. SemMax, waiter : BOOLEAN]
    /\ pen \in [item : {"start", "wait", "taking", "gone", "frame", "items"} \cup DOMAIN Item,
                pos : 0 .. 25, x : Nat, y : Nat, spaces : 0 .. 4]
    /\ percent \in BOOLEAN
    /\ inRange \in BOOLEAN

\* Show never draws from a text that Get has not written yet: string is a null
\* pointer and the others are empty until the first sample is complete.
TextsReady == pen.item \in DOMAIN Item => fields = Fields /\ stepString > 0

\* As long as the battery reads between the limits the comments give, 1800 and
\* 2606, the number never reaches the "%" sign next to it, which Show draws only
\* once: two characters are enough although what longer numbers left in
\* battString is never cleared and Show may read it past a new terminator.
PercentSurvives == inRange /\ pen.item # "start" => percent

\* Whatever Get does to a text while its loop draws it, the loop ends inside the
\* text: the time exactly after the seconds, the date after its day and before the
\* year, which the loop is to remove, the charge at a terminator.  That the date ends
\* with its day is not claimed: when Show found no blank in front of the day, the
\* fourth space is the one after the time.
LinesEnd ==
    [][pen'.item # pen.item =>
         /\ pen.item = "time" => pen.pos = 19
         /\ pen.item = "date" => pen.pos \in 10 .. 19
         /\ pen.item = "batt" => pen.pos <= 5]_vars

Bottom == [batt |-> 60, time |-> 120, date |-> 180, steps |-> Height]

\* Every character lies on the panel and in the rows of its own item, also when
\* a date with a day of two digits runs into a second line.
GlyphsInPlace ==
    pen.item \in DOMAIN Item =>
        /\ pen.x <= Width
        /\ pen.y + Item[pen.item].h <= Bottom[pen.item]

\* A step is counted exactly when the acceleration exceeds the threshold, as long
\* as the sum of the squares fits an int.
StepsSound ==
    Norm2(aac) < 2 * Axis * Axis =>
        /\ get.at = "stepped" => Norm2(aac) >= 4 * (threshold + 1) * (threshold + 1)
        /\ get.at = "still"   => Norm2(aac) < 4 * (threshold + 1) * (threshold + 1)

\* Three things end the redrawing of the screen, two waits of Get without a timeout
\* and a failed rt_sem_take of Show; without them a wait for the semaphore always
\* ends and frames follow each other for ever.
FramesUnlessStopped ==
    \/ <>(stuck # {})
    \/ <>(pen.item = "gone")
    \/ []<>(pen.item = "frame")

=============================================================================
