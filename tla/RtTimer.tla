------------------------------- MODULE RtTimer -------------------------------
(***************************************************************************)
(* The timer list of RT-Thread (src/timer.c): one level, as in the build,  *)
(* kept in the order in which the timers fire.  Ticks are unsigned and     *)
(* wrap, so "later" is decided on half of their range.                     *)
(***************************************************************************)
EXTENDS Naturals, FiniteSets, SequencesExt

CONSTANT TickMod    \* number of tick values, 2^32 in the build

ASSUME TickAssumption == TickMod \in Nat /\ TickMod >= 5

Ticks == 0 .. TickMod - 1

\* RT_TICK_MAX / 2
HalfRange == (TickMod - 1) \div 2

\* a - b on unsigned ticks
TickDiff(a, b) == (a + TickMod - b) % TickMod

\* Variant: ticks are compared as numbers, as if they never wrapped.
IsLater_NoWrap(a, b) == a > b

\* Tick a comes after tick b, as rt_timer_start decides it.
IsLater(a, b) == TickDiff(a, b) # 0 /\ TickDiff(a, b) < HalfRange

\* The test of rt_timer_check: deadline is now or less than half the range ago.
IsDue(now, deadline) == TickDiff(now, deadline) < HalfRange

\* A list entry is a record with at least the timer's thread and its
\* timeout_tick, deadline.

\* The list without the entries at places other than those in keep: what is left
\* when nodes are taken out of a linked list.
Kept(list, keep) ==
    LET place == CHOOSE f \in [1 .. Cardinality(keep) -> keep] :
                     \A i, j \in 1 .. Cardinality(keep) : i < j => f[i] < f[j]
    IN  [i \in 1 .. Cardinality(keep) |-> list[place[i]]]

\* _rt_timer_remove
TimerRemove(list, t) == Kept(list, {i \in 1 .. Len(list) : list[i].thread # t})

\* rt_timer_start: the timer, which may still be running, goes before the first
\* one that fires later than it, so behind those that fire at the same tick.
TimerStart(list, new) ==
    LET others == TimerRemove(list, new.thread)
        later  == {i \in 1 .. Len(others) : IsLater(others[i].deadline, new.deadline)}
        place  == IF later = {} THEN Len(others) + 1
                                ELSE CHOOSE i \in later : \A j \in later : i <= j
    IN  InsertAt(others, place, new)

\* How many timers one call of rt_timer_check takes off the list: it looks at
\* the head only and stops at the first timer that is not due.
TimersDue(list, now) ==
    LET alldue == {n \in 0 .. Len(list) : \A i \in 1 .. n : IsDue(now, list[i].deadline)}
    IN  CHOOSE n \in alldue : \A m \in alldue : m <= n
=============================================================================
