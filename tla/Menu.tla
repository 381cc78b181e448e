-------------------------------- MODULE Menu --------------------------------
(***************************************************************************)
(* The settings menu of the watch (applications/watch.c): the interrupt    *)
(* handlers of the UP, DOWN and SELECT buttons, and the part of the Show   *)
(* thread that draws the selected field.  A handler runs to its end, but   *)
(* it may come between any two steps of Show: between itoa and the test of *)
(* the counter, and in the rt_thread_mdelay(1) after every draw.           *)
(***************************************************************************)
EXTENDS Integers

CONSTANTS
    HourMax, MinuteMax, SecondMax,  \* 23, 59, 59 in the code
    MonthMax, DayMax,               \* 12, 31 in the code
    Radix,                          \* of itoa and of the "< 10" tests, 10 in the code
    PressMax                        \* bound on the number of button presses

Field == <<"hour", "minute", "second", "month", "day">>
Fields == {Field[m] : m \in 1 .. 5}
Max == [hour |-> HourMax, minute |-> MinuteMax, second |-> SecondMax,
        month |-> MonthMax, day |-> DayMax]

\* The counters have one or two digits.
ASSUME LimitsAssumption ==
    /\ Radix \in Nat /\ Radix >= 2
    /\ HourMax \in 1 .. Radix * Radix - 1
    /\ MinuteMax \in 1 .. Radix * Radix - 1
    /\ SecondMax \in 1 .. Radix * Radix - 1
    /\ MonthMax \in 1 .. Radix * Radix - 1
    /\ DayMax \in 1 .. Radix * Radix - 1
    /\ PressMax \in Nat

VARIABLES
    menu_index,   \* 0: basic screen, 1 .. 5: the field being set
    button,       \* hoursbutton, minutesbutton, ... : the counters
    value,        \* Hour, Minute, Second, Month, Day
    rtc,          \* the arguments of the latest set_time and set_date
    str,          \* Hour_str, Minute_str, Second_str, Day_str
    pc, frame,    \* Show: its next step, and the menu_index its switch has read
    touched,      \* a button was pressed since the switch of this frame
    raced,        \* a button was ever pressed between an itoa and the test of its counter
    presses,      \* number of button presses
    screen        \* the cells of each field: two digits and the cell after them

vars == <<menu_index, button, value, rtc, str, pc, frame, touched, raced, presses,
          screen>>
buttons == <<menu_index, button, value, rtc>>
show == <<str, pc, frame, screen>>

NoString == -1    \* the character arrays start as empty strings
Blank == -1       \* nothing was drawn in the cell yet
FromClock == -2   \* the cell shows a glyph of the clock's own time or date
Cell(glyph, highlighted) == [glyph |-> glyph, hl |-> highlighted]

Init ==
    /\ menu_index = 0
    /\ button = [f \in Fields |-> 0]
    /\ value = [f \in Fields |-> IF f \in {"month", "day"} THEN 1 ELSE 0]
    /\ rtc = value
    /\ str = [f \in Fields \ {"month"} |-> NoString]
    /\ pc = "switch"
    /\ frame = 0
    /\ touched = FALSE
    /\ raced = FALSE
    /\ presses = 0
    /\ screen = [f \in Fields |-> [i \in 1 .. 3 |-> Cell(Blank, FALSE)]]

-----------------------------------------------------------------------------
(* Button interrupts *)

\* Show has converted the selected number and not yet tested its counter.
BeforeTest == pc \in {"clear", "clear2", "mark"} /\ frame # 4

Interrupt ==
    /\ presses < PressMax
    /\ presses' = presses + 1
    /\ touched' = TRUE
    /\ raced' = (raced \/ BeforeTest)

\* What a counter is set to when it leaves its range.
Restart(f) == IF f \in {"month", "day"} THEN 1 ELSE 0

Incremented(f, n) == IF n + 1 > Max[f] THEN Restart(f) ELSE n + 1

Decremented(f, n) == IF n - 1 < 0 THEN Restart(f) ELSE n - 1

\* up_btn and down_btn: the field of the current menu follows its counter; on
\* the basic screen the default case copies the hour counter.
Press(counted) ==
    /\ \/ /\ menu_index \in 1 .. 5
          /\ LET f == Field[menu_index]
             IN  /\ button' = [button EXCEPT ![f] = counted[f]]
                 /\ value' = [value EXCEPT ![f] = counted[f]]
       \/ /\ menu_index \notin 1 .. 5
          /\ value' = [value EXCEPT !["hour"] = button["hour"]]
          /\ UNCHANGED button
    /\ Interrupt
    /\ UNCHANGED <<menu_index, rtc, show>>

up_btn == Press([f \in Fields |-> Incremented(f, button[f])])
down_btn == Press([f \in Fields |-> Decremented(f, button[f])])

\* The next menu; after the last one set_time(Hour, Minute, Second) and
\* set_date(2022, Month, Day) are called and the basic screen comes back.
select_btn ==
    /\ \/ menu_index < 5 /\ menu_index' = menu_index + 1 /\ UNCHANGED rtc
       \/ menu_index = 5 /\ menu_index' = 0 /\ rtc' = value
    /\ Interrupt
    /\ UNCHANGED <<button, value, show>>

-----------------------------------------------------------------------------
(* Show: one frame of showValues_entry *)

\* The row after WriteString of number n at cell p: one or two glyphs.
Written(row, p, n, hl) ==
    [i \in 1 .. 3 |->
        CASE i = p /\ n \in 0 .. Radix - 1 -> Cell(n, hl)
          [] i = p /\ n >= Radix           -> Cell(n \div Radix, hl)
          [] i = p + 1 /\ n >= Radix       -> Cell(n % Radix, hl)
          [] OTHER                         -> row[i]]

Draw(f, p, n, hl) == screen' = [screen EXCEPT ![f] = Written(@, p, n, hl)]

\* The switch on menu_index.
ShowSwitch ==
    /\ pc = "switch"
    /\ frame' = menu_index
    /\ pc' = CASE menu_index = 0 -> "time" [] menu_index = 4 -> "clear" [] OTHER -> "itoa"
    /\ touched' = FALSE
    /\ UNCHANGED <<buttons, str, raced, presses, screen>>

\* itoa(Hour, Hour_str, 10) and its like.
ShowItoa ==
    /\ pc = "itoa"
    /\ str' = [str EXCEPT ![Field[frame]] = value[Field[frame]]]
    /\ pc' = IF frame \in {2, 3} THEN "clear" ELSE "mark"
    /\ UNCHANGED <<buttons, frame, touched, raced, presses, screen>>

\* "Clear the previous selection": the field before is drawn in normal
\* colours, from the string left by its own frames; a counter of one digit
\* gets a leading zero first.
ShowClear ==
    LET f == Field[frame - 1]
    IN  /\ pc = "clear"
        /\ \/ button[f] < Radix /\ Draw(f, 1, 0, FALSE) /\ pc' = "clear2"
           \/ button[f] >= Radix /\ Draw(f, 1, str[f], FALSE) /\ pc' = "mark"
        /\ UNCHANGED <<buttons, str, frame, touched, raced, presses>>

ShowClear2 ==
    LET f == Field[frame - 1]
    IN  /\ pc = "clear2"
        /\ Draw(f, 2, str[f], FALSE)
        /\ pc' = "mark"
        /\ UNCHANGED <<buttons, str, frame, touched, raced, presses>>

\* Variant: the leading zero is forgotten.
ShowMark_NoZero ==
    LET f == Field[frame]
    IN  /\ pc = "mark" /\ frame # 4
        /\ IF button[f] < Radix THEN Draw(f, 2, str[f], TRUE) ELSE Draw(f, 1, str[f], TRUE)
        /\ pc' = "switch"
        /\ UNCHANGED <<buttons, str, frame, touched, raced, presses>>

\* The selected field in inverted colours.
ShowMark ==
    LET f == Field[frame]
    IN  /\ pc = "mark" /\ frame # 4
        /\ \/ button[f] < Radix /\ Draw(f, 1, 0, TRUE) /\ pc' = "mark2"
           \/ button[f] >= Radix /\ Draw(f, 1, str[f], TRUE) /\ pc' = "switch"
        /\ UNCHANGED <<buttons, str, frame, touched, raced, presses>>

ShowMark2 ==
    LET f == Field[frame]
    IN  /\ pc = "mark2"
        /\ Draw(f, 2, str[f], TRUE)
        /\ pc' = "switch"
        /\ UNCHANGED <<buttons, str, frame, touched, raced, presses>>

\* The name of the month is chosen by the counter; "Jan" is the default.
ShowMonth ==
    LET n == IF button["month"] \in 1 .. MonthMax THEN button["month"] ELSE 1
    IN  /\ pc = "mark" /\ frame = 4
        /\ screen' = [screen EXCEPT !["month"][1] = Cell(n, TRUE)]
        /\ pc' = "switch"
        /\ UNCHANGED <<buttons, str, frame, touched, raced, presses>>

Clock == Cell(FromClock, FALSE)

\* Variant: the time string is drawn without its last field.
ShowTime_NoSeconds ==
    /\ pc = "time"
    /\ screen' = [f \in Fields |-> IF f \in {"hour", "minute"}
                                     THEN [i \in 1 .. 3 |-> Clock] ELSE screen[f]]
    /\ pc' = "date"
    /\ UNCHANGED <<buttons, str, frame, touched, raced, presses>>

\* Basic screen, RTC_ST7789_Time: eight glyphs from the hour's first digit to
\* the second's last one, the colons included.
ShowTime ==
    /\ pc = "time"
    /\ screen' = [f \in Fields |->
                    CASE f \in {"hour", "minute"} -> [i \in 1 .. 3 |-> Clock]
                      [] f = "second" -> [screen[f] EXCEPT ![1] = Clock, ![2] = Clock]
                      [] OTHER -> screen[f]]
    /\ pc' = "date"
    /\ UNCHANGED <<buttons, str, frame, touched, raced, presses>>

\* RTC_ST7789_Date: weekday, month and day; what follows the day is drawn
\* over only when the day of the month has two digits.
ShowDate ==
    /\ pc = "date"
    /\ \E last \in {screen["day"][3], Clock} :
          screen' = [screen EXCEPT !["month"][1] = Clock,
                                   !["day"] = [i \in 1 .. 3 |-> IF i = 3 THEN last ELSE Clock]]
    /\ pc' = "switch"
    /\ UNCHANGED <<buttons, str, frame, touched, raced, presses>>

Show == \/ ShowSwitch \/ ShowItoa \/ ShowClear \/ ShowClear2 \/ ShowMark \/ ShowMark2
        \/ ShowMonth \/ ShowTime \/ ShowDate

Next == up_btn \/ down_btn \/ select_btn \/ Show

Spec == Init /\ [][Next]_vars

-----------------------------------------------------------------------------
(* Properties *)

Glyph == {Blank, FromClock} \cup 0 .. Radix * Radix - 1

TypeOK ==
    /\ menu_index \in 0 .. 5
    /\ \A f \in Fields : /\ button[f] \in 0 .. Max[f]
                         /\ value[f] \in 0 .. Max[f]
                         /\ rtc[f] \in 0 .. Max[f]
    /\ \A f \in Fields \ {"month"} : str[f] \in {NoString} \cup 0 .. Max[f]
    /\ pc \in {"switch", "itoa", "clear", "clear2", "mark", "mark2", "time", "date"}
    /\ frame \in 0 .. 5
    /\ touched \in BOOLEAN
    /\ raced \in BOOLEAN
    /\ presses \in 0 .. PressMax
    /\ screen \in [Fields -> [1 .. 3 -> [glyph : Glyph, hl : BOOLEAN]]]

\* The counter that chooses the layout (one digit or two) and the value that
\* is converted and handed to the clock are two variables; they agree, except
\* that a month or day counter that was never moved is 0 and stands for 1.
CounterMatchesValue ==
    \A f \in Fields : \/ value[f] = button[f]
                      \/ f \in {"month", "day"} /\ button[f] = 0 /\ value[f] = 1

Padded(n) == <<n \div Radix, n % Radix>>

Shows(f, n, hl) == \A i \in 1 .. 2 : screen[f][i] = Cell(Padded(n)[i], hl)

FrameDone == pc = "switch" /\ ~touched

\* A frame that no button press disturbed leaves the selected field on the
\* screen as the value that SELECT would set, with two digits, inverted; the
\* month by its name, if it is one.
ShownIsSet ==
    (FrameDone /\ frame # 0) =>
        LET f == Field[frame]
        IN  IF f = "month"
              THEN value[f] >= 1 => screen[f][1] = Cell(value[f], TRUE)
              ELSE Shows(f, value[f], TRUE)

BasicScreenDone == pc = "switch" /\ frame = 0

Inverted == {c \in Fields \X (1 .. 3) : screen[c[1]][c[2]].hl}

\* Whatever the presses before and during its frame, the basic screen takes off
\* every inverted digit and colon; only the cells behind the second and behind
\* the day, which it does not draw or not always, can stay inverted, and only
\* after a press has come between an itoa and the test of its counter.
BasicScreenClean ==
    BasicScreenDone =>
        /\ Inverted \subseteq {<<"second", 3>>, <<"day", 3>>}
        /\ ~raced => Inverted = {}

\* set_date is called with "month e.g: 12 (1~12)".
DateArgsDocumented == rtc["month"] \in 1 .. MonthMax /\ rtc["day"] \in 1 .. DayMax
=============================================================================
