---------------------------- MODULE CalendarWalk ----------------------------
(***************************************************************************)
(* A day-by-day walk through the Gregorian calendar from Thursday,         *)
(* 1 January 1970, as a reference for module Calendar.                     *)
(***************************************************************************)
EXTENDS Calendar

CONSTANT LastDay    \* the day the walk ends on

ASSUME LastDayAssumption == LastDay \in Nat

VARIABLES day,                    \* days since 1 January 1970
          year, mon, mday, wday   \* its date; mon counts from 0, wday from Sunday

walk == <<day, year, mon, mday, wday>>

MonthLength(y, m) ==
    CASE m = 1 -> IF y % 400 = 0 \/ (y % 4 = 0 /\ y % 100 # 0) THEN 29 ELSE 28
      [] m \in {3, 5, 8, 10} -> 30
      [] OTHER -> 31

FirstDay == day = 0 /\ year = 1970 /\ mon = 0 /\ mday = 1 /\ wday = 4

Midnight ==
    /\ day < LastDay
    /\ day' = day + 1
    /\ wday' = IF wday = 6 THEN 0 ELSE wday + 1

NextDay == mday < MonthLength(year, mon) /\ mday' = mday + 1 /\ UNCHANGED <<year, mon>>

NextMonth ==
    /\ mday = MonthLength(year, mon) /\ mon < 11
    /\ mday' = 1 /\ mon' = mon + 1
    /\ UNCHANGED year

NextYear ==
    /\ mday = MonthLength(year, mon) /\ mon = 11
    /\ mday' = 1 /\ mon' = 0 /\ year' = year + 1

WalkOn == Midnight /\ (NextDay \/ NextMonth \/ NextYear)

WalkSpec == FirstDay /\ [][WalkOn]_walk

\* The last second of the day, as civil time.
LastSecond == [year |-> year, mon |-> mon, mday |-> mday, wday |-> wday,
               hour |-> HoursPerDay - 1, min |-> MinutesPerHour - 1,
               sec |-> SecondsPerMinute - 1]

Midday == [LastSecond EXCEPT !.hour = HoursPerDay \div 2, !.min = 0, !.sec = 0]

\* gmtime_r gives the day its civil date and weekday, at noon and in the last
\* second before midnight.
GmtimeIsCivil ==
    /\ gmtime_r((day + 1) * SPD - 1) = LastSecond
    /\ gmtime_r(day * SPD + (HoursPerDay \div 2) * SecondsPerHour) = Midday

\* timegm takes the civil date back to the same second, as set_time needs it,
\* and counts days on from the first of the month for every day the menu lets
\* through, 0 and those after the end of the month included: day 0 is the last
\* day of the month before, and 31 April the first of May.
LateDaysRoll ==
    \A d \in 0 .. 31 :
        timegm([LastSecond EXCEPT !.mday = d]) = (day + 1 + d - mday) * SPD - 1
=============================================================================
