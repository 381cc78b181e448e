------------------------------ MODULE Calendar ------------------------------
(***************************************************************************)
(* The conversions between time_t and civil time that the RTC framework of *)
(* the watch uses (rt-thread/components/libc/compilers/common/time.c).     *)
(* A struct tm is a record; tm_year holds the year itself, not the year    *)
(* minus 1900.  The lengths of a day, an hour and a minute are parameters, *)
(* so that an instance can have short days; months and years are real.     *)
(***************************************************************************)
EXTENDS Integers

CONSTANTS HoursPerDay,        \* 24 in the code
          MinutesPerHour,     \* 60
          SecondsPerMinute,   \* 60
          TimeZone            \* RT_LIBC_FIXED_TIMEZONE, hours east of Greenwich: 8

ASSUME CalendarAssumption ==
    /\ HoursPerDay \in Nat \ {0}
    /\ MinutesPerHour \in Nat \ {0}
    /\ SecondsPerMinute \in Nat \ {0}
    /\ TimeZone \in Nat

SecondsPerHour == MinutesPerHour * SecondsPerMinute
SPD == HoursPerDay * SecondsPerHour

\* Days before month m of a common year, 0 <= m <= 12.
spm(m) == <<0, 31, 59, 90, 120, 151, 181, 212, 243, 273, 304, 334, 365>>[m + 1]

isleap(year) == year % 4 = 0 /\ (year % 100 # 0 \/ year % 400 = 0)

-----------------------------------------------------------------------------
(* time_t to civil time *)

\* The loop over the years: the year, and the day of the year, of day work
\* counted from the first day of year i.
YearLoop[p \in Nat \X Nat] ==
    LET work == p[1]
        i == p[2]
        k == IF isleap(i) THEN 366 ELSE 365
    IN  IF work >= k THEN YearLoop[<<work - k, i + 1>>] ELSE <<i, work>>

\* Variant: the 29th of February is not told apart.
gmtime_r_NoLeapDay(t) ==
    LET seconds == t % SPD
        y == YearLoop[<<t \div SPD, 1970>>]
        late == isleap(y[1]) /\ y[2] > 58
        work == IF late THEN y[2] - 1 ELSE y[2]
        mon == CHOOSE m \in 0 .. 11 : spm(m) <= work /\ work < spm(m + 1)
    IN  [sec |-> seconds % SecondsPerMinute,
         min |-> (seconds \div SecondsPerMinute) % MinutesPerHour,
         hour |-> (seconds \div SecondsPerMinute) \div MinutesPerHour,
         wday |-> (4 + t \div SPD) % 7,
         year |-> y[1],
         mon |-> mon,
         mday |-> 1 + work - spm(mon)]

gmtime_r(t) ==
    LET seconds == t % SPD
        y == YearLoop[<<t \div SPD, 1970>>]
        late == isleap(y[1]) /\ y[2] > 58
        work == IF late THEN y[2] - 1 ELSE y[2]
        mon == CHOOSE m \in 0 .. 11 : spm(m) <= work /\ work < spm(m + 1)
    IN  [sec |-> seconds % SecondsPerMinute,
         min |-> (seconds \div SecondsPerMinute) % MinutesPerHour,
         hour |-> (seconds \div SecondsPerMinute) \div MinutesPerHour,
         wday |-> (4 + t \div SPD) % 7,
         year |-> y[1],
         mon |-> mon,
         mday |-> (IF late /\ y[2] = 59 THEN 2 ELSE 1) + work - spm(mon)]

localtime_r(t) == gmtime_r(t + TimeZone * SecondsPerHour)

-----------------------------------------------------------------------------
(* Civil time to time_t *)

\* Values over their range are carried into the next larger unit, each by the
\* test the code makes: a value of 60 seconds, 60 minutes, 24 hours or month
\* 12 stays as it is.
Carried(tm) ==
    LET min  == tm.min + IF tm.sec > SecondsPerMinute THEN tm.sec \div SecondsPerMinute ELSE 0
        hour == tm.hour + IF min > MinutesPerHour THEN min \div MinutesPerHour ELSE 0
        mday == tm.mday + IF hour > HoursPerDay THEN hour \div HoursPerDay ELSE 0
    IN  [tm EXCEPT
           !.sec  = IF @ > SecondsPerMinute THEN @ % SecondsPerMinute ELSE @,
           !.min  = IF min > MinutesPerHour THEN min % MinutesPerHour ELSE min,
           !.hour = IF hour > HoursPerDay THEN hour % HoursPerDay ELSE hour,
           !.mday = mday,
           !.year = IF tm.mon > 12 THEN @ + tm.mon \div 12 ELSE @,
           !.mon  = IF @ > 12 THEN @ % 12 ELSE @]

\* The loop over the days: year, month and day of the month after it.
DayLoop[p \in Int \X (0 .. 11) \X Nat] ==
    LET mday == p[1]
        mon == p[2]
        year == p[3]
        left == mday - spm(mon) - IF mon = 1 /\ isleap(year) THEN 1 ELSE 0
    IN  IF mday > spm(mon + 1)
          THEN DayLoop[IF mon = 11 THEN <<left, 0, year + 1>> ELSE <<left, mon + 1, year>>]
          ELSE <<year, mon, mday>>

\* Days from 1970 to the start of the year 1970 + years.
YearStart(years) ==
    LET centuries == (years - 131) \div 100
        fourth == centuries % 4
    IN  years * 365 + (years + 1) \div 4
          - (IF years >= 131
               THEN (centuries \div 4) * 3 + 1 + (IF fourth = 3 THEN 2 ELSE fourth)
               ELSE 0)

\* Variant: day 0 is taken for the first of the month.
DayNumber_NoDayZero(start, year, mon, mday) ==
    start + spm(mon) + (IF mday = 0 THEN 0 ELSE mday - 1)
          + IF isleap(year) /\ mon > 1 THEN 1 ELSE 0

\* Day number of month mon and day mday, in a year that starts on day start.
DayNumber(start, year, mon, mday) ==
    start + spm(mon) + mday - 1 + IF isleap(year) /\ mon > 1 THEN 1 ELSE 0

\* For months 0 .. 11: with another month the code reads outside __spm.
timegm(tm) ==
    LET c == Carried(tm)
        d == DayLoop[<<c.mday, c.mon, c.year>>]
    IN  IF d[1] < 1970 THEN -1
        ELSE DayNumber(YearStart(tm.year - 1970), d[1], d[2], d[3]) * SPD
               + c.hour * SecondsPerHour + c.min * SecondsPerMinute + c.sec

mktime(tm) == timegm(tm) - TimeZone * SecondsPerHour
=============================================================================
