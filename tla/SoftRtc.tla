------------------------------- MODULE SoftRtc -------------------------------
(***************************************************************************)
(* The clock of the watch: the software RTC device, which derives the time *)
(* from the system tick (components/drivers/rtc/soft_rtc.c), and the calls *)
(* set_time and set_date (components/drivers/rtc/rtc.c) with which the     *)
(* menu sets it.  Both read the clock, convert to civil time, replace some *)
(* fields, convert back and write the clock; they run in the interrupt     *)
(* handler of the SELECT button, so no tick comes in between.              *)
(***************************************************************************)
EXTENDS Calendar

CONSTANTS
    TickMod,           \* rt_tick_t has this many values: 2^32
    TicksPerSecond,    \* RT_TICK_PER_SECOND: 1000
    BootTick,          \* rt_tick at the time of rt_soft_rtc_init
    SetClock,          \* the times <<h, m, s>> that are set in this instance
    SetMonth, SetDay,  \* the months and days that are set in this instance
    SetLimit, TickLimit   \* bounds: number of calls, ticks after the latest one

ASSUME SoftRtcAssumption ==
    /\ TicksPerSecond \in Nat \ {0}
    /\ TickMod \in Nat \ {0}
    /\ BootTick \subseteq 0 .. TickMod - 1
    /\ SetClock \subseteq (0 .. HoursPerDay - 1) \X (0 .. MinutesPerHour - 1)
                            \X (0 .. SecondsPerMinute - 1)
    /\ SetMonth \subseteq 1 .. 12
    /\ SetDay \subseteq 0 .. 31
    /\ SetLimit \in Nat
    /\ TickLimit \in Nat

\* The tick counter comes round within four years (49.7 days in the code), and
\* the calls, each of which sets the clock back by less than a day, do not take
\* it from 2018 to before 1970, where gmtime_r is not modelled.
ASSUME SetBackAssumption ==
    /\ TickMod \div TicksPerSecond <= 1460 * SPD
    /\ SetLimit <= 17532

VARIABLES
    tick,        \* rt_tick
    init_tick,   \* static of soft_rtc.c
    init_time,   \* static of soft_rtc.c
    uptime,      \* ticks since rt_soft_rtc_init, without wrap
    setTo,       \* the time_t of the latest RTC_SET_TIME
    setAt,       \* uptime at that moment
    call,        \* the latest set_time or set_date call, with its arguments
    calls        \* number of these calls

vars == <<tick, init_tick, init_time, uptime, setTo, setAt, call, calls>>

\* Whole seconds since init_tick, in the unsigned arithmetic of rt_tick_t.
Elapsed == ((tick - init_tick) % TickMod) \div TicksPerSecond

\* RT_DEVICE_CTRL_RTC_GET_TIME, time()
Now == init_time + Elapsed

\* Variant: the seconds that have already passed are not taken off.
RtcSet_KeepElapsed(t) ==
    /\ init_time' = t
    /\ setTo' = t
    /\ setAt' = uptime
    /\ calls < SetLimit /\ calls' = calls + 1
    /\ UNCHANGED <<tick, init_tick, uptime>>

\* RT_DEVICE_CTRL_RTC_SET_TIME
RtcSet(t) ==
    /\ init_time' = t - Elapsed
    /\ setTo' = t
    /\ setAt' = uptime
    /\ calls < SetLimit /\ calls' = calls + 1
    /\ UNCHANGED <<tick, init_tick, uptime>>

\* rt_soft_rtc_init: 1 January 2018, 00:00:00 UTC.
Init ==
    /\ tick \in BootTick
    /\ init_tick = tick
    /\ init_time = timegm([year |-> 2018, mon |-> 0, mday |-> 1, wday |-> 0,
                           hour |-> 0, min |-> 0, sec |-> 0])
    /\ uptime = 0
    /\ setTo = init_time
    /\ setAt = 0
    /\ call = <<"none">>
    /\ calls = 0

\* rt_tick_increase
Tick ==
    /\ uptime - setAt < TickLimit
    /\ tick' = (tick + 1) % TickMod
    /\ uptime' = uptime + 1
    /\ UNCHANGED <<init_tick, init_time, setTo, setAt, call, calls>>

\* Variant: the new time is put together with the UTC date.
set_time_Utc(hour, min, sec) ==
    /\ RtcSet(mktime([gmtime_r(Now) EXCEPT !.hour = hour, !.min = min, !.sec = sec]))
    /\ call' = <<"set_time", hour, min, sec>>

set_time(hour, min, sec) ==
    /\ RtcSet(mktime([localtime_r(Now) EXCEPT !.hour = hour, !.min = min, !.sec = sec]))
    /\ call' = <<"set_time", hour, min, sec>>

set_date(y, m, d) ==
    /\ RtcSet(mktime([localtime_r(Now) EXCEPT !.year = y, !.mon = m - 1, !.mday = d]))
    /\ call' = <<"set_date", y, m, d>>

SetTime == \E c \in SetClock : set_time(c[1], c[2], c[3])

SetDate == \E m \in SetMonth, d \in SetDay : set_date(2022, m, d)

Next == Tick \/ SetTime \/ SetDate

Spec == Init /\ [][Next]_vars

-----------------------------------------------------------------------------
(* Properties *)

Local == localtime_r(Now)
DateOf(tm) == <<tm.year, tm.mon, tm.mday, tm.wday>>
TimeOf(tm) == <<tm.hour, tm.min, tm.sec>>
Called(f) == calls' = calls + 1 /\ call'[1] = f

\* "Set system time(date not modify, local timezone)": the clock then reads
\* the time that was set, on the day it was before.
TimeWasSet ==
    /\ TimeOf(Local') = <<call'[2], call'[3], call'[4]>>
    /\ DateOf(Local') = DateOf(Local)

\* "Set system date(time not modify, local timezone)": the clock then reads
\* that date, at the time it was before.
DateWasSet ==
    /\ TimeOf(Local') = TimeOf(Local)
    /\ <<Local'.year, Local'.mon + 1, Local'.mday>> = <<call'[2], call'[3], call'[4]>>

\* Neither setter of the clock changes what it is not asked to change, nor
\* misses what it is, at any phase of the tick and on both sides of midnight
\* (dates for the days that every month has).
SettersKeepTheRest ==
    [][/\ Called("set_time") => TimeWasSet
       /\ Called("set_date") /\ call'[4] \in 1 .. 28 => DateWasSet]_vars

\* Between two settings the clock is never slow and less than a second fast,
\* until the tick counter has come round to its value at boot.
KeepsTime ==
    uptime < TickMod =>
        LET passed == (uptime - setAt) \div TicksPerSecond
        IN  Now - setTo \in {passed, passed + 1}
=============================================================================
