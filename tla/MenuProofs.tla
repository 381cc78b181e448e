----------------------------- MODULE MenuProofs -----------------------------
(***************************************************************************)
(* Proofs about the settings menu, for all limits of the counters, every   *)
(* radix and any number of button presses.                                 *)
(***************************************************************************)
EXTENDS Menu, TLAPS

CellType == [glyph : Glyph, hl : BOOLEAN]

\* The globals are defined for every field.
Domains ==
    /\ button \in [Fields -> Int]
    /\ value \in [Fields -> Int]
    /\ rtc \in [Fields -> Int]
    /\ str \in [Fields \ {"month"} -> Int]

\* Which steps the frame of each menu consists of.
StepsOfFrame ==
    /\ pc \in {"time", "date"} => frame = 0
    /\ pc = "itoa" => frame \in {1, 2, 3, 5}
    /\ pc \in {"clear", "clear2"} => frame \in {2, 3, 4}
    /\ pc = "mark" => frame \in 1 .. 5
    /\ pc = "mark2" => frame \in {1, 2, 3, 5}

\* Until a press disturbs the frame, the string holds the selected value, and
\* between the leading zero and the digit the zero is on the screen.
FrameFresh ==
    ~touched =>
        /\ (pc \in {"clear", "clear2", "mark", "mark2"} /\ frame # 4)
              => str[Field[frame]] = value[Field[frame]]
        /\ pc = "mark2" => /\ button[Field[frame]] < Radix
                           /\ screen[Field[frame]][1] = Cell(0, TRUE)

\* Between the time and the date of the basic screen the time is clean, but for
\* the cell behind the second, which it does not reach.
TimeClean ==
    pc = "date" => /\ \A f \in {"hour", "minute"}, i \in 1 .. 3 : ~screen[f][i].hl
                   /\ \A i \in 1 .. 2 : ~screen["second"][i].hl

\* The name of the month is one glyph; the cells after it are never drawn.
MonthOneCell == \A i \in 2 .. 3 : ~screen["month"][i].hl

\* As long as no press came between an itoa and the test of its counter, layout
\* and string belong together, so nothing inverted is drawn behind the digits.
NoResidue ==
    ~raced =>
        /\ \A f \in Fields : ~screen[f][3].hl
        /\ BeforeTest => str[Field[frame]] = value[Field[frame]]
        /\ pc = "mark2" => str[Field[frame]] < Radix

Core ==
    /\ TypeOK
    /\ Domains
    /\ CounterMatchesValue
    /\ StepsOfFrame
    /\ FrameFresh
    /\ ShownIsSet
    /\ TimeClean
    /\ MonthOneCell
    /\ BasicScreenClean

IInv == Core /\ NoResidue
-----------------------------------------------------------------------------
(* Fields, limits and digits *)

\* The month is the fourth field, the only one without a string.
LEMMA FieldFacts ==
    /\ Fields = {"hour", "minute", "second", "month", "day"}
    /\ \A m \in 1 .. 5 : Field[m] \in Fields /\ (Field[m] = "month" <=> m = 4)
<1>1. 1 .. 5 = {1, 2, 3, 4, 5}
  OBVIOUS
<1>2. /\ Field[1] = "hour" /\ Field[2] = "minute" /\ Field[3] = "second"
      /\ Field[4] = "month" /\ Field[5] = "day"
  BY DEF Field
<1>3. Fields = {"hour", "minute", "second", "month", "day"}
  BY <1>1, <1>2 DEF Fields
<1>. QED BY <1>1, <1>2, <1>3

\* Every limit is a number of at most two digits.
LEMMA MaxFacts == \A f \in Fields : Max[f] \in 1 .. Radix * Radix - 1
  BY FieldFacts, LimitsAssumption DEF Max

\* The square of the radix, the bound of every number shown, exceeds it.
LEMMA RadixFacts ==
    Radix \in Nat /\ Radix >= 2 /\ Radix * Radix \in Nat /\ Radix * Radix - 1 >= Radix
<1>1. Radix \in Nat /\ Radix >= 2
  BY LimitsAssumption
<1>. QED BY <1>1, SMT

\* The counters stay in their range when a button moves them.
LEMMA Counted ==
    ASSUME NEW f \in Fields, NEW n \in 0 .. Max[f]
    PROVE  Incremented(f, n) \in 0 .. Max[f] /\ Decremented(f, n) \in 0 .. Max[f]
<1>1. Max[f] \in Int /\ Max[f] >= 1
  BY MaxFacts, RadixFacts
<1>. QED BY <1>1 DEF Incremented, Decremented, Restart

\* The digits of a number below the radix and of one with two digits.
LEMMA Digits ==
    ASSUME NEW n \in Nat, n < Radix * Radix
    PROVE  /\ n \div Radix \in 0 .. n
           /\ n % Radix \in 0 .. Radix - 1
           /\ n < Radix => n \div Radix = 0 /\ n % Radix = n
<1>1. Radix \in Nat /\ Radix >= 2
  BY RadixFacts
<1>2. n \div Radix \in 0 .. n
  BY <1>1, SMT
<1>3. n % Radix \in 0 .. Radix - 1
  BY <1>1, SMT
<1>4. n < Radix => n \div Radix = 0 /\ n % Radix = n
  BY <1>1, SMT
<1>. QED BY <1>2, <1>3, <1>4

\* WriteString leaves glyphs in the cells, whatever it is given.
LEMMA WrittenType ==
    ASSUME NEW row \in [1 .. 3 -> CellType], NEW p \in 1 .. 2,
           NEW n \in Int, n < Radix * Radix, NEW hl \in BOOLEAN
    PROVE  Written(row, p, n, hl) \in [1 .. 3 -> CellType]
<1>1. SUFFICES ASSUME NEW i \in 1 .. 3 PROVE Written(row, p, n, hl)[i] \in CellType
  BY DEF Written
<1>2. Radix \in Nat /\ Radix >= 2 /\ Radix * Radix \in Nat /\ Radix * Radix - 1 >= Radix
  BY RadixFacts
<1>3. row[i] \in CellType
  OBVIOUS
<1>4. CASE n >= Radix
  <2>1. n \div Radix \in 0 .. Radix * Radix - 1 /\ n % Radix \in 0 .. Radix * Radix - 1
    BY <1>2, <1>4, Digits
  <2>2. Cell(n \div Radix, hl) \in CellType /\ Cell(n % Radix, hl) \in CellType
    BY <2>1 DEF Cell, CellType, Glyph
  <2>. QED BY <1>2, <1>3, <1>4, <2>2 DEF Written
<1>5. CASE n \in 0 .. Radix - 1
  <2>1. Cell(n, hl) \in CellType
    BY <1>2, <1>5 DEF Cell, CellType, Glyph
  <2>. QED BY <1>2, <1>3, <1>5, <2>1 DEF Written
<1>6. CASE n < 0
  BY <1>2, <1>3, <1>6 DEF Written
<1>. QED BY <1>2, <1>4, <1>5, <1>6

\* A number of two digits written at the first cell fills both cells.
LEMMA WrittenTwo ==
    ASSUME NEW row, NEW n \in Nat, n >= Radix, NEW hl, NEW i \in 1 .. 2
    PROVE  Written(row, 1, n, hl)[i] = Cell(Padded(n)[i], hl)
<1>1. Radix \in Nat /\ Radix >= 2
  BY RadixFacts
<1>2. CASE i = 1
  BY <1>1, <1>2 DEF Written, Padded
<1>3. CASE i = 2
  BY <1>1, <1>3 DEF Written, Padded
<1>. QED BY <1>2, <1>3

\* A number of one digit fills the cell it is written at.
LEMMA WrittenOne ==
    ASSUME NEW row, NEW n \in 0 .. Radix - 1, NEW hl
    PROVE  Written(row, 1, n, hl)[1] = Cell(n, hl) /\ Written(row, 2, n, hl)[2] = Cell(n, hl)
  BY RadixFacts DEF Written

\* A drawn field keeps the screen in shape, and the other fields as they are.
LEMMA Drawn ==
    ASSUME TypeOK, NEW f \in Fields, NEW p \in 1 .. 2, NEW n \in Int, n < Radix * Radix,
           NEW hl \in BOOLEAN, Draw(f, p, n, hl)
    PROVE  /\ screen' \in [Fields -> [1 .. 3 -> CellType]]
           /\ screen'[f] = Written(screen[f], p, n, hl)
           /\ \A g \in Fields \ {f} : screen'[g] = screen[g]
<1>1. screen \in [Fields -> [1 .. 3 -> CellType]]
  BY DEF TypeOK, CellType
<1>2. Written(screen[f], p, n, hl) \in [1 .. 3 -> CellType]
  BY <1>1, WrittenType
<1>. QED BY <1>1, <1>2 DEF Draw
-----------------------------------------------------------------------------
(* Button presses *)

\* A press disturbs the frame and leaves Show and the screen alone.
LEMMA PressKeepsShow ==
    ASSUME IInv, Interrupt, UNCHANGED show
    PROVE  StepsOfFrame' /\ FrameFresh' /\ ShownIsSet' /\ TimeClean' /\ MonthOneCell' /\ BasicScreenClean'
<1>1. touched'
  BY DEF Interrupt
<1>2. FrameFresh' /\ ShownIsSet'
  BY <1>1 DEF FrameFresh, ShownIsSet, FrameDone
<1>3. StepsOfFrame' /\ TimeClean' /\ MonthOneCell'
  BY DEF IInv, Core, show, StepsOfFrame, TimeClean, MonthOneCell
<1>4. BasicScreenClean'
  <2>1. (BasicScreenDone' <=> BasicScreenDone) /\ Inverted' = Inverted
    BY DEF show, BasicScreenDone, Inverted
  <2>2. raced => raced'
    BY DEF Interrupt
  <2>. QED BY <2>1, <2>2, Zenon DEF IInv, Core, BasicScreenClean
<1>. QED BY <1>2, <1>3, <1>4

\* up_btn or down_btn with whatever in-range numbers it counts to.
LEMMA PressStep ==
    ASSUME IInv, NEW counted \in [Fields -> Int],
           \A f \in Fields : counted[f] \in 0 .. Max[f],
           Press(counted)
    PROVE  Core'
<1>1. StepsOfFrame' /\ FrameFresh' /\ ShownIsSet' /\ TimeClean' /\ MonthOneCell' /\ BasicScreenClean'
  BY PressKeepsShow DEF Press
<1>2. /\ button' \in [Fields -> Int] /\ value' \in [Fields -> Int]
      /\ \A f \in Fields : button'[f] \in 0 .. Max[f] /\ value'[f] \in 0 .. Max[f]
      /\ CounterMatchesValue'
  <2>1. CASE menu_index \in 1 .. 5
    <3>. DEFINE g == Field[menu_index]
    <3>1. g \in Fields
      BY <2>1, FieldFacts
    <3>2. button' = [button EXCEPT ![g] = counted[g]] /\ value' = [value EXCEPT ![g] = counted[g]]
      BY <2>1 DEF Press
    <3>. HIDE DEF g
    <3>. QED BY <3>1, <3>2 DEF IInv, Core, TypeOK, Domains, CounterMatchesValue
  <2>2. CASE menu_index \notin 1 .. 5
    <3>1. button' = button /\ value' = [value EXCEPT !["hour"] = button["hour"]]
      BY <2>2 DEF Press
    <3>2. "hour" \in Fields
      BY FieldFacts
    <3>. QED BY <3>1, <3>2 DEF IInv, Core, TypeOK, Domains, CounterMatchesValue
  <2>. QED BY <2>1, <2>2
<1>3. presses' \in 0 .. PressMax /\ touched' \in BOOLEAN /\ raced' \in BOOLEAN
  BY LimitsAssumption DEF Press, Interrupt, IInv, Core, TypeOK
<1>4. UNCHANGED <<menu_index, rtc, str, pc, frame, screen>>
  BY DEF Press, show
<1>5. TypeOK' /\ Domains'
  BY <1>2, <1>3, <1>4 DEF IInv, Core, TypeOK, Domains
<1>. QED BY <1>1, <1>2, <1>5 DEF IInv, Core

\* UP preserves the invariant.
LEMMA up_btn_Step == IInv /\ up_btn => Core'
<1>. SUFFICES ASSUME IInv, up_btn PROVE Core'
  OBVIOUS
<1>. DEFINE counted == [f \in Fields |-> Incremented(f, button[f])]
<1>1. \A f \in Fields : counted[f] \in 0 .. Max[f]
  BY Counted DEF IInv, Core, TypeOK
<1>2. counted \in [Fields -> Int]
  BY <1>1, MaxFacts, RadixFacts
<1>3. Press(counted)
  BY DEF up_btn
<1>. HIDE DEF counted
<1>. QED BY <1>1, <1>2, <1>3, PressStep

\* DOWN preserves the invariant.
LEMMA down_btn_Step == IInv /\ down_btn => Core'
<1>. SUFFICES ASSUME IInv, down_btn PROVE Core'
  OBVIOUS
<1>. DEFINE counted == [f \in Fields |-> Decremented(f, button[f])]
<1>1. \A f \in Fields : counted[f] \in 0 .. Max[f]
  BY Counted DEF IInv, Core, TypeOK
<1>2. counted \in [Fields -> Int]
  BY <1>1, MaxFacts, RadixFacts
<1>3. Press(counted)
  BY DEF down_btn
<1>. HIDE DEF counted
<1>. QED BY <1>1, <1>2, <1>3, PressStep

\* SELECT preserves the invariant.
LEMMA select_btn_Step == IInv /\ select_btn => Core'
<1>. SUFFICES ASSUME IInv, select_btn PROVE Core'
  OBVIOUS
<1>1. StepsOfFrame' /\ FrameFresh' /\ ShownIsSet' /\ TimeClean' /\ MonthOneCell' /\ BasicScreenClean'
  BY PressKeepsShow DEF select_btn
<1>2. UNCHANGED <<button, value, str, pc, frame, screen>>
  BY DEF select_btn, show
<1>3. menu_index' \in 0 .. 5 /\ (rtc' = rtc \/ rtc' = value)
  BY DEF select_btn, IInv, Core, TypeOK
<1>4. presses' \in 0 .. PressMax /\ touched' \in BOOLEAN /\ raced' \in BOOLEAN
  BY LimitsAssumption DEF select_btn, Interrupt, IInv, Core, TypeOK
<1>5. TypeOK' /\ Domains' /\ CounterMatchesValue'
  BY <1>2, <1>3, <1>4 DEF IInv, Core, TypeOK, Domains, CounterMatchesValue
<1>. QED BY <1>1, <1>5 DEF IInv, Core

-----------------------------------------------------------------------------
(* The steps of Show *)

\* The switch starts a frame: nothing of it is done or disturbed yet.
LEMMA ShowSwitchStep == IInv /\ ShowSwitch => Core'
<1>. SUFFICES ASSUME IInv, ShowSwitch PROVE Core'
  OBVIOUS
<1>1. UNCHANGED <<menu_index, button, value, rtc, str, raced, presses, screen>>
  BY DEF ShowSwitch, buttons
<1>2. /\ frame' = menu_index /\ touched' = FALSE
      /\ menu_index = 0 => pc' = "time"
      /\ menu_index = 4 => pc' = "clear"
      /\ menu_index \in {1, 2, 3, 5} => pc' = "itoa"
  BY DEF ShowSwitch
<1>3. menu_index \in 0 .. 5
  BY DEF IInv, Core, TypeOK
<1>4. TypeOK' /\ Domains' /\ CounterMatchesValue'
  <2>1. frame' \in 0 .. 5 /\ pc' \in {"time", "clear", "itoa"}
    BY <1>2, <1>3
  <2>2. touched' \in BOOLEAN
    BY <1>2, Zenon
  <2>3. TypeOK'
    BY <1>1, <2>1, <2>2 DEF IInv, Core, TypeOK
  <2>. QED BY <1>1, <2>3 DEF IInv, Core, Domains, CounterMatchesValue
<1>5. StepsOfFrame' /\ FrameFresh'
  <2>1. \/ frame' = 0 /\ pc' = "time"
        \/ frame' = 4 /\ pc' = "clear"
        \/ frame' \in {1, 2, 3, 5} /\ pc' = "itoa"
    BY <1>2, <1>3
  <2>2. StepsOfFrame'
    BY <2>1 DEF StepsOfFrame
  <2>. QED BY <2>1, <2>2 DEF FrameFresh
<1>6. pc' \notin {"switch", "date"}
  BY <1>2, <1>3
<1>7. ShownIsSet' /\ TimeClean' /\ MonthOneCell' /\ BasicScreenClean'
  BY <1>1, <1>6 DEF IInv, Core, ShownIsSet, FrameDone, TimeClean, MonthOneCell, BasicScreenClean, BasicScreenDone
<1>. QED BY <1>4, <1>5, <1>7 DEF IInv, Core

\* itoa makes the string of the selected field fresh.
LEMMA ShowItoaStep == IInv /\ ShowItoa => Core'
<1>. SUFFICES ASSUME IInv, ShowItoa PROVE Core'
  OBVIOUS
<1>. DEFINE f == Field[frame]
<1>1. UNCHANGED <<menu_index, button, value, rtc, frame, touched, raced, presses, screen>>
  BY DEF ShowItoa, buttons
<1>2. frame \in {1, 2, 3, 5} /\ f \in Fields \ {"month"}
  BY FieldFacts DEF ShowItoa, IInv, Core, StepsOfFrame
<1>3. /\ str' = [str EXCEPT ![f] = value[f]]
      /\ pc' \in {"clear", "mark"} /\ (pc' = "clear" => frame \in {2, 3})
  BY DEF ShowItoa
<1>. HIDE DEF f
<1>4. str' \in [Fields \ {"month"} -> Int] /\ str'[f] = value[f]
      /\ \A g \in Fields \ {"month"} : str'[g] \in {NoString} \cup 0 .. Max[g]
  BY <1>2, <1>3 DEF IInv, Core, TypeOK, Domains
<1>5. TypeOK' /\ Domains' /\ CounterMatchesValue'
  BY <1>1, <1>3, <1>4 DEF IInv, Core, TypeOK, Domains, CounterMatchesValue
<1>6. StepsOfFrame' /\ FrameFresh'
  <2>1. StepsOfFrame'
    BY <1>1, <1>2, <1>3 DEF StepsOfFrame
  <2>2. str'[Field[frame']] = value'[Field[frame']]
    BY <1>1, <1>4 DEF f
  <2>. QED BY <1>3, <2>1, <2>2 DEF FrameFresh
<1>7. ShownIsSet' /\ TimeClean' /\ MonthOneCell' /\ BasicScreenClean'
  BY <1>1, <1>3 DEF IInv, Core, ShownIsSet, FrameDone, TimeClean, MonthOneCell, BasicScreenClean, BasicScreenDone
<1>. QED BY <1>5, <1>6, <1>7 DEF IInv, Core

\* What is drawn is the zero or a string, so it has at most two digits.
LEMMA StringBound ==
    ASSUME IInv, NEW f \in Fields \ {"month"}
    PROVE  str[f] \in Int /\ str[f] < Radix * Radix
<1>1. str[f] \in {NoString} \cup 0 .. Max[f]
  BY DEF IInv, Core, TypeOK
<1>. QED BY <1>1, MaxFacts, RadixFacts DEF NoString
\* ShowClear and ShowClear2 draw the field before the selected one, so what is
\* on the screen of the selected field stays.
LEMMA ClearStep ==
    ASSUME IInv, frame \in {2, 3, 4}, NEW p \in 1 .. 2, NEW n \in Int, n < Radix * Radix,
           Draw(Field[frame - 1], p, n, FALSE),
           pc \in {"clear", "clear2"}, pc' \in {"clear2", "mark"},
           UNCHANGED <<buttons, str, frame, touched, raced, presses>>
    PROVE  Core'
<1>1. Field[frame - 1] \in Fields /\ "month" \in Fields \ {Field[frame - 1]}
  BY FieldFacts
<1>2. screen' \in [Fields -> [1 .. 3 -> CellType]] /\ screen'["month"] = screen["month"]
  BY <1>1, Drawn, Zenon DEF IInv, Core
<1>3. /\ UNCHANGED <<menu_index, button, value, rtc, str, frame, raced, presses>>
      /\ touched' = touched /\ frame' = frame /\ str' = str /\ value' = value
  BY DEF buttons
<1>4. TypeOK' /\ Domains' /\ CounterMatchesValue'
  BY <1>2, <1>3 DEF IInv, Core, TypeOK, Domains, CounterMatchesValue, CellType
<1>5. StepsOfFrame'
  BY <1>3 DEF StepsOfFrame
<1>6. FrameFresh'
  <2>. SUFFICES ASSUME ~touched', frame' # 4
                PROVE  str'[Field[frame']] = value'[Field[frame']]
    BY DEF FrameFresh
  <2>1. ~touched /\ frame # 4
    BY <1>3 DEF IInv, Core, TypeOK
  <2>2. str[Field[frame]] = value[Field[frame]]
    BY <2>1 DEF IInv, Core, FrameFresh
  <2>. QED BY <1>3, <2>2, Zenon
<1>7. ShownIsSet' /\ TimeClean' /\ MonthOneCell' /\ BasicScreenClean'
  BY <1>2 DEF IInv, Core, ShownIsSet, FrameDone, TimeClean, MonthOneCell, BasicScreenClean, BasicScreenDone
<1>. QED BY <1>4, <1>5, <1>6, <1>7 DEF IInv, Core

\* Taking the previous field out of inverted colours preserves the invariant.
LEMMA ShowClearStep == IInv /\ (ShowClear \/ ShowClear2) => Core'
<1>. SUFFICES ASSUME IInv, ShowClear \/ ShowClear2 PROVE Core'
  OBVIOUS
<1>. DEFINE f == Field[frame - 1]
<1>1. frame \in {2, 3, 4} /\ pc \in {"clear", "clear2"}
  BY DEF ShowClear, ShowClear2, IInv, Core, StepsOfFrame
<1>2. f \in Fields \ {"month"} /\ "month" \in Fields \ {f}
  BY <1>1, FieldFacts
<1>3. str[f] \in Int /\ str[f] < Radix * Radix
  BY <1>2, StringBound
<1>4. 0 \in Int /\ 0 < Radix * Radix /\ 1 \in 1 .. 2 /\ 2 \in 1 .. 2
  BY RadixFacts
<1>5. /\ pc' \in {"clear2", "mark"}
      /\ UNCHANGED <<buttons, str, frame, touched, raced, presses>>
      /\ \/ Draw(f, 1, 0, FALSE)
         \/ Draw(f, 1, str[f], FALSE)
         \/ Draw(f, 2, str[f], FALSE)
  BY DEF ShowClear, ShowClear2
<1>6. CASE Draw(f, 1, 0, FALSE)
  BY <1>1, <1>4, <1>5, <1>6, ClearStep, Zenon
<1>7. CASE Draw(f, 1, str[f], FALSE)
  BY <1>1, <1>3, <1>4, <1>5, <1>7, ClearStep, Zenon
<1>8. CASE Draw(f, 2, str[f], FALSE)
  BY <1>1, <1>3, <1>4, <1>5, <1>8, ClearStep, Zenon
<1>. QED BY <1>5, <1>6, <1>7, <1>8

\* The shape of a step that draws the selected field.
LEMMA MarkStep ==
    ASSUME IInv, frame \in {1, 2, 3, 5}, screen' \in [Fields -> [1 .. 3 -> CellType]],
           screen'["month"] = screen["month"],
           pc \in {"mark", "mark2"}, pc' \in {"mark2", "switch"},
           UNCHANGED <<buttons, str, frame, touched, raced, presses>>,
           ~touched => IF pc' = "mark2"
                         THEN /\ button[Field[frame]] < Radix
                              /\ screen'[Field[frame]][1] = Cell(0, TRUE)
                         ELSE \A i \in 1 .. 2 : screen'[Field[frame]][i]
                                 = Cell(Padded(value[Field[frame]])[i], TRUE)
    PROVE  Core'
<1>1. /\ UNCHANGED <<menu_index, button, value, rtc, str, frame, raced, presses>>
      /\ touched' = touched
  BY DEF buttons
<1>2. TypeOK' /\ Domains' /\ CounterMatchesValue'
  BY <1>1 DEF IInv, Core, TypeOK, Domains, CounterMatchesValue, CellType
<1>3. StepsOfFrame'
  BY <1>1 DEF StepsOfFrame
<1>4. FrameFresh'
  <2>. SUFFICES ASSUME ~touched', pc' = "mark2"
                PROVE  /\ str'[Field[frame']] = value'[Field[frame']]
                       /\ button'[Field[frame']] < Radix
                       /\ screen'[Field[frame']][1] = Cell(0, TRUE)
    BY DEF FrameFresh
  <2>1. ~touched
    BY <1>1 DEF IInv, Core, TypeOK
  <2>2. str[Field[frame]] = value[Field[frame]]
    BY <2>1 DEF IInv, Core, FrameFresh
  <2>3. button[Field[frame]] < Radix /\ screen'[Field[frame]][1] = Cell(0, TRUE)
    BY <2>1
  <2>. QED BY <1>1, <2>2, <2>3
<1>5. Field[frame] # "month" /\ frame # 0
  BY FieldFacts
<1>6. ShownIsSet'
  <2>. SUFFICES ASSUME ~touched', pc' = "switch"
                PROVE  \A i \in 1 .. 2 : screen'[Field[frame']][i]
                                             = Cell(Padded(value'[Field[frame']])[i], TRUE)
    BY <1>1, <1>5 DEF ShownIsSet, FrameDone, Shows
  <2>1. ~touched
    BY <1>1 DEF IInv, Core, TypeOK
  <2>2. \A i \in 1 .. 2 : screen'[Field[frame]][i] = Cell(Padded(value[Field[frame]])[i], TRUE)
    BY <2>1
  <2>. QED BY <1>1, <2>2
<1>7. TimeClean' /\ MonthOneCell' /\ BasicScreenClean'
  BY <1>1, <1>5 DEF IInv, Core, TimeClean, MonthOneCell, BasicScreenClean, BasicScreenDone
<1>. QED BY <1>2, <1>3, <1>4, <1>6, <1>7 DEF IInv, Core

\* In an undisturbed frame the value has one digit exactly when its counter
\* does.
LEMMA SameDigits ==
    ASSUME IInv, NEW f \in Fields
    PROVE  /\ value[f] \in 0 .. Radix * Radix - 1
           /\ button[f] \in Int
           /\ value[f] < Radix <=> button[f] < Radix
<1>1. value[f] \in 0 .. Max[f] /\ button[f] \in 0 .. Max[f]
  BY DEF IInv, Core, TypeOK
<1>2. value[f] = button[f] \/ (button[f] = 0 /\ value[f] = 1)
  BY DEF IInv, Core, CounterMatchesValue
<1>. QED BY <1>1, <1>2, MaxFacts, RadixFacts

\* The first draw of the selected field: the leading zero, or both digits.
LEMMA ShowMarkStep == IInv /\ ShowMark => Core'
<1>. SUFFICES ASSUME IInv, ShowMark PROVE Core'
  OBVIOUS
<1>. DEFINE f == Field[frame]
<1>1. frame \in {1, 2, 3, 5} /\ pc = "mark"
  BY DEF ShowMark, IInv, Core, StepsOfFrame
<1>2. f \in Fields \ {"month"} /\ "month" \in Fields \ {f}
  BY <1>1, FieldFacts
<1>3. str[f] \in Int /\ str[f] < Radix * Radix
  BY <1>2, StringBound
<1>4. UNCHANGED <<buttons, str, frame, touched, raced, presses>> /\ TypeOK
  BY DEF ShowMark, IInv, Core
<1>5. ~touched => str[f] = value[f]
  BY <1>1 DEF IInv, Core, FrameFresh
<1>8. \/ button[f] < Radix /\ Draw(f, 1, 0, TRUE) /\ pc' = "mark2"
      \/ button[f] >= Radix /\ Draw(f, 1, str[f], TRUE) /\ pc' = "switch"
  BY DEF ShowMark
<1>6. CASE button[f] < Radix /\ Draw(f, 1, 0, TRUE) /\ pc' = "mark2"
  <2>1. 0 \in Int /\ 0 < Radix * Radix /\ 0 \in 0 .. Radix - 1 /\ 1 \in 1 .. 2
    BY RadixFacts
  <2>2. /\ screen' \in [Fields -> [1 .. 3 -> CellType]]
        /\ screen'[f] = Written(screen[f], 1, 0, TRUE)
      /\ screen'["month"] = screen["month"]
        /\ screen'["month"] = screen["month"]
    BY <1>2, <1>4, <1>6, <2>1, Drawn, Zenon
  <2>4. Written(screen[f], 1, 0, TRUE)[1] = Cell(0, TRUE)
    BY <2>1, WrittenOne, Zenon
  <2>3. screen'[f][1] = Cell(0, TRUE)
    BY <2>2, <2>4, Zenon
  <2>. QED BY <1>1, <1>4, <1>6, <2>2, <2>3, MarkStep
<1>7. CASE button[f] >= Radix /\ Draw(f, 1, str[f], TRUE) /\ pc' = "switch"
  <2>4. 1 \in 1 .. 2
    OBVIOUS
  <2>1. /\ screen' \in [Fields -> [1 .. 3 -> CellType]]
        /\ screen'[f] = Written(screen[f], 1, str[f], TRUE)
      /\ screen'["month"] = screen["month"]
        /\ screen'["month"] = screen["month"]
    BY <1>2, <1>3, <1>4, <1>7, <2>4, Drawn, Zenon
  <2>2. value[f] \in Nat /\ value[f] >= Radix
    BY <1>2, <1>7, SameDigits, RadixFacts
  <2>3. ~touched => \A i \in 1 .. 2 : screen'[f][i] = Cell(Padded(value[f])[i], TRUE)
    <3>1. \A i \in 1 .. 2 : Written(screen[f], 1, value[f], TRUE)[i] = Cell(Padded(value[f])[i], TRUE)
      <4>. HIDE DEF f
      <4>. DEFINE n == value[f]
      <4>1. n \in Nat /\ n >= Radix
        BY <2>2
      <4>. HIDE DEF n
      <4>2. \A i \in 1 .. 2 : Written(screen[f], 1, n, TRUE)[i] = Cell(Padded(n)[i], TRUE)
        BY <4>1, WrittenTwo, Zenon
      <4>. QED BY <4>2, Zenon DEF n
    <3>2. ~touched => screen'[f] = Written(screen[f], 1, value[f], TRUE)
      BY <1>5, <2>1, Zenon
    <3>. QED BY <3>1, <3>2, Zenon
  <2>. QED BY <1>1, <1>4, <1>7, <2>1, <2>3, MarkStep
<1>. QED BY <1>6, <1>7, <1>8

\* The digit after the leading zero completes the selected field.
LEMMA ShowMark2Step == IInv /\ ShowMark2 => Core'
<1>. SUFFICES ASSUME IInv, ShowMark2 PROVE Core'
  OBVIOUS
<1>. DEFINE f == Field[frame]
<1>1. frame \in {1, 2, 3, 5} /\ pc = "mark2" /\ pc' = "switch"
  BY DEF ShowMark2, IInv, Core, StepsOfFrame
<1>2. f \in Fields \ {"month"} /\ "month" \in Fields \ {f}
  BY <1>1, FieldFacts
<1>3. str[f] \in Int /\ str[f] < Radix * Radix
  BY <1>2, StringBound
<1>4. UNCHANGED <<buttons, str, frame, touched, raced, presses>> /\ TypeOK /\ Draw(f, 2, str[f], TRUE)
  BY DEF ShowMark2, IInv, Core
<1>7. 2 \in 1 .. 2
  OBVIOUS
<1>5. /\ screen' \in [Fields -> [1 .. 3 -> CellType]]
      /\ screen'[f] = Written(screen[f], 2, str[f], TRUE)
      /\ screen'["month"] = screen["month"]
  BY <1>2, <1>3, <1>4, <1>7, Drawn, Zenon
<1>6. ASSUME ~touched
      PROVE  \A i \in 1 .. 2 : screen'[f][i] = Cell(Padded(value[f])[i], TRUE)
  <2>7. frame # 4
    BY <1>1
  <2>1. str[f] = value[f] /\ button[f] < Radix /\ screen[f][1] = Cell(0, TRUE)
    BY <1>1, <1>6, <2>7, Zenon DEF IInv, Core, FrameFresh
  <2>2. value[f] \in 0 .. Radix - 1 /\ value[f] \in Nat /\ value[f] < Radix * Radix
    BY <1>2, <2>1, SameDigits, RadixFacts
  <2>3. screen'[f][1] = Cell(0, TRUE) /\ screen'[f][2] = Cell(value[f], TRUE)
    <3>1. /\ Written(screen[f], 2, value[f], TRUE)[1] = screen[f][1]
          /\ Written(screen[f], 2, value[f], TRUE)[2] = Cell(value[f], TRUE)
      <4>. HIDE DEF f
      <4>. DEFINE n == value[f]
      <4>1. n \in 0 .. Radix - 1
        BY <2>2
      <4>. HIDE DEF n
      <4>2. Written(screen[f], 2, n, TRUE)[1] = screen[f][1]
        BY <4>1, RadixFacts DEF Written
      <4>3. Written(screen[f], 2, n, TRUE)[2] = Cell(n, TRUE)
        BY <4>1, WrittenOne, Zenon
      <4>. QED BY <4>2, <4>3, Zenon DEF n
    <3>2. screen'[f] = Written(screen[f], 2, value[f], TRUE)
      BY <1>5, <2>1, Zenon
    <3>. QED BY <2>1, <3>1, <3>2, Zenon
  <2>4. value[f] \div Radix = 0 /\ value[f] % Radix = value[f]
    BY <2>2, Digits, RadixFacts
  <2>5. Padded(value[f])[1] = 0 /\ Padded(value[f])[2] = value[f]
    BY <2>4 DEF Padded
  <2>6. 1 .. 2 = {1, 2}
    OBVIOUS
  <2>. QED BY <2>3, <2>5, <2>6, Zenon
<1>. QED BY <1>1, <1>4, <1>5, <1>6, MarkStep
\* The month's name is the name of the value that SELECT would set.
LEMMA ShowMonthStep == IInv /\ ShowMonth => Core'
<1>. SUFFICES ASSUME IInv, ShowMonth PROVE Core'
  OBVIOUS
<1>. DEFINE n == IF button["month"] \in 1 .. MonthMax THEN button["month"] ELSE 1
<1>1. /\ pc' = "switch" /\ frame = 4 /\ touched' = touched
      /\ UNCHANGED <<menu_index, button, value, rtc, str, frame, raced, presses>>
      /\ screen' = [screen EXCEPT !["month"][1] = Cell(n, TRUE)]
  BY DEF ShowMonth, buttons
<1>2. "month" \in Fields /\ Field[4] = "month" /\ Max["month"] = MonthMax
  BY FieldFacts DEF Field, Max
<1>3. /\ button["month"] \in 0 .. MonthMax
      /\ value["month"] = button["month"] \/ (button["month"] = 0 /\ value["month"] = 1)
      /\ MonthMax \in 1 .. Radix * Radix - 1
  BY <1>2, LimitsAssumption DEF IInv, Core, TypeOK, CounterMatchesValue
<1>4. n \in 1 .. Radix * Radix - 1 /\ (value["month"] >= 1 => n = value["month"])
  BY <1>3, RadixFacts
<1>. HIDE DEF n
<1>5. Cell(n, TRUE) \in CellType
  BY <1>4, RadixFacts DEF Cell, CellType, Glyph
<1>6. screen \in [Fields -> [1 .. 3 -> CellType]]
  BY DEF IInv, Core, TypeOK, CellType
<1>7. /\ screen' \in [Fields -> [1 .. 3 -> CellType]]
      /\ screen'["month"][1] = Cell(n, TRUE) /\ screen'["month"][2] = screen["month"][2]
  <2>. DEFINE c == Cell(n, TRUE)
  <2>. HIDE DEF c
  <2>1. screen' = [screen EXCEPT !["month"] = [screen["month"] EXCEPT ![1] = c]] /\ c \in CellType
    BY <1>1, <1>5 DEF c
  <2>2. /\ screen' \in [Fields -> [1 .. 3 -> CellType]]
        /\ screen'["month"][1] = c /\ screen'["month"][2] = screen["month"][2]
    BY <1>2, <1>6, <2>1
  <2>. QED BY <2>2 DEF c
<1>8. TypeOK' /\ Domains' /\ CounterMatchesValue'
  BY <1>1, <1>7 DEF IInv, Core, TypeOK, Domains, CounterMatchesValue, CellType
<1>9. StepsOfFrame' /\ FrameFresh' /\ TimeClean' /\ MonthOneCell' /\ BasicScreenClean'
  BY <1>1, <1>7 DEF IInv, Core, StepsOfFrame, FrameFresh, TimeClean, MonthOneCell, BasicScreenClean, BasicScreenDone
<1>10. ShownIsSet'
  BY <1>1, <1>2, <1>4, <1>7 DEF ShownIsSet, FrameDone
<1>. QED BY <1>8, <1>9, <1>10 DEF IInv, Core

\* A glyph of the clock is a glyph in normal colours.
LEMMA ClockType == Clock \in CellType /\ ~Clock.hl
  BY DEF Clock, Cell, CellType, Glyph

\* The time of the basic screen covers hour, minute and second.
LEMMA ShowTimeStep == IInv /\ ShowTime => Core'
<1>. SUFFICES ASSUME IInv, ShowTime PROVE Core'
  OBVIOUS
<1>1. /\ pc = "time" /\ pc' = "date" /\ touched' = touched
      /\ UNCHANGED <<menu_index, button, value, rtc, str, frame, raced, presses>>
  BY DEF ShowTime, buttons
<1>2. screen \in [Fields -> [1 .. 3 -> CellType]]
  BY DEF IInv, Core, TypeOK, CellType
<1>3. screen' = [f \in Fields |->
                    CASE f \in {"hour", "minute"} -> [i \in 1 .. 3 |-> Clock]
                      [] f = "second" -> [screen[f] EXCEPT ![1] = Clock, ![2] = Clock]
                      [] OTHER -> screen[f]]
  BY DEF ShowTime
<1>4. screen' \in [Fields -> [1 .. 3 -> CellType]]
  BY <1>2, <1>3, ClockType
<1>5. /\ \A f \in {"hour", "minute"}, i \in 1 .. 3 : screen'[f][i] = Clock
      /\ \A i \in 1 .. 2 : screen'["second"][i] = Clock
  BY <1>2, <1>3, FieldFacts
<1>6. TypeOK' /\ Domains' /\ CounterMatchesValue'
  BY <1>1, <1>4 DEF IInv, Core, TypeOK, Domains, CounterMatchesValue, CellType
<1>7. StepsOfFrame' /\ FrameFresh' /\ ShownIsSet' /\ BasicScreenClean'
  BY <1>1 DEF IInv, Core, StepsOfFrame, FrameFresh, ShownIsSet, FrameDone, BasicScreenClean, BasicScreenDone
<1>8. TimeClean' /\ MonthOneCell'
  <2>1. screen'["month"] = screen["month"]
    BY <1>3, FieldFacts
  <2>. QED BY <1>5, <2>1, ClockType DEF IInv, Core, TimeClean, MonthOneCell
<1>. QED BY <1>6, <1>7, <1>8 DEF IInv, Core

\* The date of the basic screen covers month and day, and ends its frame.
LEMMA ShowDateStep == IInv /\ ShowDate => Core'
<1>. SUFFICES ASSUME IInv, ShowDate PROVE Core'
  OBVIOUS
<1>1. /\ pc = "date" /\ pc' = "switch" /\ frame = 0 /\ touched' = touched
      /\ UNCHANGED <<menu_index, button, value, rtc, str, frame, raced, presses>>
  BY DEF ShowDate, buttons, IInv, Core, StepsOfFrame
<1>2. screen \in [Fields -> [1 .. 3 -> CellType]] /\ "month" \in Fields /\ "day" \in Fields
  BY FieldFacts DEF IInv, Core, TypeOK, CellType
<1>3. PICK last \in {screen["day"][3], Clock} :
          screen' = [screen EXCEPT !["month"][1] = Clock,
                                   !["day"] = [i \in 1 .. 3 |-> IF i = 3 THEN last ELSE Clock]]
  BY DEF ShowDate
<1>4. last \in CellType
  BY <1>2, ClockType
<1>5. screen' \in [Fields -> [1 .. 3 -> CellType]]
  BY <1>2, <1>3, <1>4, ClockType
<1>6. TypeOK' /\ Domains' /\ CounterMatchesValue'
  BY <1>1, <1>5 DEF IInv, Core, TypeOK, Domains, CounterMatchesValue, CellType
<1>7. StepsOfFrame' /\ FrameFresh' /\ ShownIsSet' /\ TimeClean'
  BY <1>1 DEF StepsOfFrame, FrameFresh, ShownIsSet, FrameDone, TimeClean
<1>8. /\ \A i \in 1 .. 2 : screen'["day"][i] = Clock
      /\ screen'["day"][3] \in {screen["day"][3], Clock}
      /\ screen'["month"][1] = Clock
      /\ \A i \in 2 .. 3 : screen'["month"][i] = screen["month"][i]
      /\ \A f \in {"hour", "minute", "second"} : screen'[f] = screen[f]
  BY <1>2, <1>3, FieldFacts
<1>9. MonthOneCell'
  BY <1>8 DEF IInv, Core, MonthOneCell
<1>10. /\ \A f \in {"hour", "minute"}, i \in 1 .. 3 : ~screen'[f][i].hl
       /\ \A i \in 1 .. 2 : ~screen'["second"][i].hl
  BY <1>1, <1>8 DEF IInv, Core, TimeClean
<1>11. \A f \in Fields, i \in 1 .. 3 :
          screen'[f][i].hl => f \in {"second", "day"} /\ i = 3
  BY <1>8, <1>9, <1>10, FieldFacts, ClockType DEF MonthOneCell
<1>12. Inverted' \subseteq {<<"second", 3>>, <<"day", 3>>}
  BY <1>11 DEF Inverted
<1>13. ASSUME ~raced' PROVE Inverted' = {}
  <2>1. ~screen["second"][3].hl /\ ~screen["day"][3].hl
    BY <1>1, <1>13, FieldFacts, Zenon DEF IInv, NoResidue
  <2>2. ~screen'["second"][3].hl /\ ~screen'["day"][3].hl
    BY <1>8, <2>1, ClockType
  <2>. QED BY <1>11, <2>2 DEF Inverted
<1>14. BasicScreenClean'
  BY <1>12, <1>13, Zenon DEF BasicScreenClean
<1>. QED BY <1>6, <1>7, <1>9, <1>14 DEF Core
-----------------------------------------------------------------------------
(* What is left behind the digits *)

\* WriteString leaves the third cell alone, or puts it in normal colours, unless
\* it writes two inverted digits from the second cell on.
LEMMA WrittenThird ==
    ASSUME NEW row, NEW p \in 1 .. 2, NEW n \in Int, NEW hl \in BOOLEAN,
           ~row[3].hl, p = 1 \/ n < Radix \/ ~hl
    PROVE  ~Written(row, p, n, hl)[3].hl
<1>1. Radix \in Nat /\ Radix >= 2
  BY RadixFacts
<1>2. CASE p = 1 \/ n < Radix
  <2>1. Written(row, p, n, hl)[3] = row[3]
    BY <1>1, <1>2 DEF Written
  <2>. QED BY <2>1
<1>3. CASE p = 2 /\ n >= Radix /\ ~hl
  <2>1. Written(row, p, n, hl)[3] = Cell(n % Radix, hl)
    BY <1>1, <1>3 DEF Written
  <2>2. Cell(n % Radix, hl).hl = hl
    BY DEF Cell
  <2>. QED BY <1>3, <2>1, <2>2
<1>. QED BY <1>1, <1>2, <1>3

\* The same of the whole screen.
LEMMA DrawnThird ==
    ASSUME TypeOK, NEW f \in Fields, NEW p \in 1 .. 2, NEW n \in Int, n < Radix * Radix,
           NEW hl \in BOOLEAN, Draw(f, p, n, hl),
           \A g \in Fields : ~screen[g][3].hl, p = 1 \/ n < Radix \/ ~hl
    PROVE  \A g \in Fields : ~screen'[g][3].hl
<1>1. /\ screen'[f] = Written(screen[f], p, n, hl)
      /\ \A g \in Fields \ {f} : screen'[g] = screen[g]
  BY Drawn, Zenon
<1>2. ~Written(screen[f], p, n, hl)[3].hl
  BY WrittenThird, Zenon
<1>. QED BY <1>1, <1>2, Zenon

\* Every step preserves NoResidue: a press in the gap sets raced, and without
\* one the test of the counter chooses the layout that the string has.
LEMMA ResidueStep == IInv /\ [Next]_vars => NoResidue'
<1>. SUFFICES ASSUME IInv, [Next]_vars, ~raced'
              PROVE  /\ \A f \in Fields : ~screen'[f][3].hl
                     /\ BeforeTest' => str'[Field[frame']] = value'[Field[frame']]
                     /\ pc' = "mark2" => str'[Field[frame']] < Radix
  BY Zenon DEF NoResidue
<1>0. Core /\ TypeOK
  BY DEF IInv, Core
<1>1. ~raced
  BY DEF Next, up_btn, down_btn, Press, select_btn, Interrupt, Show, ShowSwitch, ShowItoa,
     ShowClear, ShowClear2, ShowMark, ShowMark2, ShowMonth, ShowTime, ShowDate, vars
<1>2. /\ \A f \in Fields : ~screen[f][3].hl
      /\ BeforeTest => str[Field[frame]] = value[Field[frame]]
      /\ pc = "mark2" => str[Field[frame]] < Radix
  BY <1>1, Zenon DEF IInv, NoResidue
<1>3. 0 \in Int /\ 0 < Radix /\ 0 < Radix * Radix /\ 1 \in 1 .. 2 /\ 2 \in 1 .. 2
  BY RadixFacts
<1>4. CASE up_btn \/ down_btn \/ select_btn
  <2>1. UNCHANGED show /\ raced' = (raced \/ BeforeTest)
    BY <1>4 DEF up_btn, down_btn, Press, select_btn, Interrupt
  <2>2. ~BeforeTest
    BY <2>1, Zenon
  <2>3. ~BeforeTest'
    BY <2>1, <2>2 DEF show, BeforeTest
  <2>4. screen' = screen /\ str' = str /\ pc' = pc /\ frame' = frame
    BY <2>1 DEF show
  <2>. QED BY <1>2, <2>3, <2>4, Zenon
<1>5. CASE ShowSwitch
  <2>1. pc' \in {"time", "clear", "itoa"} /\ (pc' = "clear" => frame' = 4) /\ screen' = screen
    BY <1>0, <1>5 DEF ShowSwitch, TypeOK
  <2>. QED BY <1>2, <2>1 DEF BeforeTest
<1>6. CASE ShowItoa
  <2>1. Field[frame] \in Fields \ {"month"}
    BY <1>6, FieldFacts DEF ShowItoa, IInv, Core, StepsOfFrame
  <2>2. /\ str' = [str EXCEPT ![Field[frame]] = value[Field[frame]]]
        /\ pc' # "mark2" /\ frame' = frame /\ value' = value /\ screen' = screen
    BY <1>6 DEF ShowItoa, buttons
  <2>3. str'[Field[frame']] = value'[Field[frame']]
    BY <2>1, <2>2 DEF IInv, Core, Domains
  <2>. QED BY <1>2, <2>2, <2>3
<1>7. CASE ShowClear \/ ShowClear2
  <2>. DEFINE f == Field[frame - 1]
  <2>1. frame \in {2, 3, 4} /\ pc \in {"clear", "clear2"} /\ pc' \in {"clear2", "mark"}
    BY <1>7 DEF ShowClear, ShowClear2, IInv, Core, StepsOfFrame
  <2>2. f \in Fields /\ f \in Fields \ {"month"}
    BY <2>1, FieldFacts
  <2>3. str[f] \in Int /\ str[f] < Radix * Radix
    BY <2>2, StringBound
  <2>4. frame' = frame /\ str' = str /\ value' = value
    BY <1>7 DEF ShowClear, ShowClear2, buttons
  <2>5. Draw(f, 1, 0, FALSE) \/ Draw(f, 1, str[f], FALSE) \/ Draw(f, 2, str[f], FALSE)
    BY <1>7 DEF ShowClear, ShowClear2
  <2>6. \A g \in Fields : ~screen'[g][3].hl
    BY <1>0, <1>2, <1>3, <2>2, <2>3, <2>5, DrawnThird, Zenon
  <2>7. BeforeTest' => BeforeTest
    BY <2>1, <2>4 DEF BeforeTest
  <2>. QED BY <1>2, <2>1, <2>4, <2>6, <2>7
<1>8. CASE ShowMark
  <2>. DEFINE f == Field[frame]
  <2>1. frame \in {1, 2, 3, 5} /\ pc = "mark" /\ pc' \in {"mark2", "switch"}
    <3>1. pc = "mark" /\ frame # 4 /\ pc' \in {"mark2", "switch"}
      BY <1>8 DEF ShowMark
    <3>2. frame \in 1 .. 5
      BY <3>1 DEF IInv, Core, StepsOfFrame
    <3>. QED BY <3>1, <3>2
  <2>2. f \in Fields /\ f \in Fields \ {"month"}
    BY <2>1, FieldFacts
  <2>3. str[f] \in Int /\ str[f] < Radix * Radix
    BY <2>2, StringBound
  <2>4. frame' = frame /\ str' = str /\ value' = value
    BY <1>8 DEF ShowMark, buttons
  <2>5. Draw(f, 1, 0, TRUE) \/ Draw(f, 1, str[f], TRUE)
    BY <1>8 DEF ShowMark
  <2>6. \A g \in Fields : ~screen'[g][3].hl
    BY <1>0, <1>2, <1>3, <2>2, <2>3, <2>5, DrawnThird, Zenon
  <2>7. str[f] = value[f]
    BY <1>2, <2>1 DEF BeforeTest
  <2>8. pc' = "mark2" => button[f] < Radix
    BY <1>8 DEF ShowMark
  <2>9. pc' = "mark2" => str[f] < Radix
    BY <2>2, <2>7, <2>8, SameDigits
  <2>10. ~BeforeTest'
    BY <2>1 DEF BeforeTest
  <2>. QED BY <2>4, <2>6, <2>9, <2>10
<1>9. CASE ShowMark2
  <2>. DEFINE f == Field[frame]
  <2>1. frame \in {1, 2, 3, 5} /\ pc = "mark2" /\ pc' = "switch" /\ Draw(f, 2, str[f], TRUE)
    BY <1>9 DEF ShowMark2, IInv, Core, StepsOfFrame
  <2>2. f \in Fields /\ f \in Fields \ {"month"}
    BY <2>1, FieldFacts
  <2>3. str[f] \in Int /\ str[f] < Radix * Radix
    BY <2>2, StringBound
  <2>4. str[f] < Radix
    BY <1>2, <2>1
  <2>5. \A g \in Fields : ~screen'[g][3].hl
    BY <1>0, <1>2, <1>3, <2>1, <2>2, <2>3, <2>4, DrawnThird, Zenon
  <2>. QED BY <2>1, <2>5 DEF BeforeTest
<1>10. CASE ShowMonth \/ ShowTime \/ ShowDate
  <2>1. screen \in [Fields -> [1 .. 3 -> CellType]]
    BY <1>0 DEF TypeOK, CellType
  <2>2. pc' \in {"switch", "date"}
    BY <1>10 DEF ShowMonth, ShowTime, ShowDate
  <2>3. \A f \in Fields : screen'[f][3] = screen[f][3] \/ screen'[f][3] = Clock
    <3>1. CASE ShowMonth
      BY <2>1, <3>1, FieldFacts DEF ShowMonth
    <3>2. CASE ShowTime
      BY <2>1, <3>2, FieldFacts DEF ShowTime
    <3>3. CASE ShowDate
      BY <2>1, <3>3, FieldFacts DEF ShowDate
    <3>. QED BY <1>10, <3>1, <3>2, <3>3
  <2>4. \A f \in Fields : ~screen'[f][3].hl
    BY <1>2, <2>3, ClockType
  <2>. QED BY <2>2, <2>4 DEF BeforeTest
<1>11. CASE UNCHANGED vars
  <2>1. screen' = screen /\ str' = str /\ value' = value /\ pc' = pc /\ frame' = frame
    BY <1>11 DEF vars
  <2>2. BeforeTest' => BeforeTest
    BY <2>1 DEF BeforeTest
  <2>. QED BY <1>2, <2>1, <2>2
<1>. QED BY <1>4, <1>5, <1>6, <1>7, <1>8, <1>9, <1>10, <1>11 DEF Next, Show
-----------------------------------------------------------------------------
(* The theorem *)

\* The invariant holds at power-up.
LEMMA InitIInv == Init => IInv
<1>. SUFFICES ASSUME Init PROVE IInv
  OBVIOUS
<1>1. Cell(Blank, FALSE) \in CellType /\ ~Cell(Blank, FALSE).hl
  BY DEF Cell, CellType, Glyph
<1>2. /\ screen \in [Fields -> [1 .. 3 -> CellType]]
      /\ \A f \in Fields, i \in 1 .. 3 : ~screen[f][i].hl
  BY <1>1 DEF Init
<1>3. \A f \in Fields : 0 \in 0 .. Max[f] /\ 1 \in 0 .. Max[f]
  BY MaxFacts, RadixFacts
<1>4. PressMax \in Nat
  BY LimitsAssumption
<1>5. touched = FALSE /\ pc = "switch" /\ frame = 0 /\ menu_index = 0 /\ presses = 0
  BY DEF Init
<1>6. raced = FALSE /\ touched \in BOOLEAN /\ raced \in BOOLEAN
  BY <1>5, Zenon DEF Init
<1>7. TypeOK
  <2>1. \A f \in Fields : button[f] \in 0 .. Max[f] /\ value[f] \in 0 .. Max[f] /\ rtc[f] \in 0 .. Max[f]
    BY <1>3 DEF Init
  <2>2. \A f \in Fields \ {"month"} : str[f] \in {NoString} \cup 0 .. Max[f]
    BY DEF Init
  <2>. QED BY <1>2, <1>4, <1>5, <1>6, <2>1, <2>2 DEF TypeOK, CellType
<1>8. Domains /\ CounterMatchesValue
  BY DEF Init, Domains, CounterMatchesValue, NoString
<1>9. StepsOfFrame /\ FrameFresh /\ ShownIsSet /\ TimeClean
  BY <1>5 DEF StepsOfFrame, FrameFresh, ShownIsSet, TimeClean
<1>10. MonthOneCell /\ BasicScreenClean
  <2>1. Inverted = {}
    BY <1>2 DEF Inverted
  <2>. QED BY <1>2, <2>1, FieldFacts DEF MonthOneCell, BasicScreenClean
<1>11. NoResidue
  BY <1>2, <1>5 DEF NoResidue, BeforeTest
<1>. QED BY <1>7, <1>8, <1>9, <1>10, <1>11 DEF IInv, Core

\* Every press and every step of Show preserves the invariant.
LEMMA NextIInv == IInv /\ [Next]_vars => IInv'
<1>. SUFFICES ASSUME IInv, [Next]_vars PROVE IInv'
  OBVIOUS
<1>1. CASE up_btn
  BY <1>1, up_btn_Step, ResidueStep DEF IInv
<1>2. CASE down_btn
  BY <1>2, down_btn_Step, ResidueStep DEF IInv
<1>3. CASE select_btn
  BY <1>3, select_btn_Step, ResidueStep DEF IInv
<1>4. CASE Show
  <2>1. Core'
    BY <1>4, ShowSwitchStep, ShowItoaStep, ShowClearStep, ShowMarkStep, ShowMark2Step,
       ShowMonthStep, ShowTimeStep, ShowDateStep DEF Show
  <2>. QED BY <2>1, ResidueStep DEF IInv
<1>5. CASE UNCHANGED vars
  <2>1. (TypeOK /\ Domains /\ CounterMatchesValue /\ StepsOfFrame)'
    BY <1>5 DEF vars, IInv, Core, TypeOK, Domains, CounterMatchesValue, StepsOfFrame
  <2>2. (FrameFresh /\ ShownIsSet /\ TimeClean /\ MonthOneCell)'
    BY <1>5 DEF vars, IInv, Core, FrameFresh, ShownIsSet, FrameDone, Shows, TimeClean, MonthOneCell
  <2>3. BasicScreenClean'
    BY <1>5 DEF vars, IInv, Core, BasicScreenClean, BasicScreenDone, Inverted
  <2>. QED BY <2>1, <2>2, <2>3, ResidueStep DEF IInv, Core
<1>. QED BY <1>1, <1>2, <1>3, <1>4, <1>5 DEF Next

\* For all limits of the counters and any presses at any point of a frame: the
\* counters and the values of up_btn and down_btn stay in range and agree, an
\* undisturbed frame of showValues_entry shows the value that SELECT would set,
\* and of what the menus have inverted the basic screen leaves only what stands
\* behind the second and the day, if a press raced with an itoa.
THEOREM MenuInvariant ==
    Spec => [](TypeOK /\ CounterMatchesValue /\ ShownIsSet /\ BasicScreenClean)
<1>1. Init => IInv
  BY InitIInv
<1>2. IInv /\ [Next]_vars => IInv'
  BY NextIInv
<1>3. IInv => TypeOK /\ CounterMatchesValue /\ ShownIsSet /\ BasicScreenClean
  BY DEF IInv, Core
<1>. QED BY <1>1, <1>2, <1>3, PTL DEF Spec

\* However presses fall into the frames of showValues_entry, the basic screen
\* leaves no digit and no colon inverted, and no cell at all unless a press came
\* between an itoa and the test of its counter; after one, only the cells behind
\* the second and behind the day can stay inverted.
THEOREM MenuLeavesScreenClean == Spec => []BasicScreenClean
BY MenuInvariant, PTL
=============================================================================
