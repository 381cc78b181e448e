# Verification of the CH32V307 smartwatch firmware

TLA+ models of the watch application (`SmartWatch_V_1/applications`) and of the
parts of RT-Thread it runs on, checked with TLC on small instances and, for
everything but liveness, proved with TLAPS for every value of the
constants.  Paths below are relative to `SmartWatch_V_1/`; `rt` is `rt-thread/`.

## 1. The system

One CPU, five threads that matter, and four interrupt sources.

| Part | State | Operations | Talks to |
|---|---|---|---|
| main thread (`main.c`, `Main_Threads` in `watch.c`) | creates everything, then exits | create mutex and semaphore, open uart1, start serial, Get, Show | all threads |
| serial thread (priority 30) | `ch`, `Theme`, `themeChanged` | read a byte, "wait" on `dynamic_mutex`, set the theme | uart1, Show |
| Get thread (25) | `string`, `stepString`, `battString` | sample clock, accelerometer, battery; `rt_sem_release` | RTC, I2C, ADC, Show |
| Show thread (20) | what is on the LCD | `rt_sem_take`, redraw symbols, draw one frame | LCD, button globals |
| UART interrupt | receive FIFO | store bytes, call `uart_input`, which releases the mutex | serial |
| button interrupts | `menu_index`, five counters, five values | `up_btn`, `down_btn`, `select_btn` | Show, RTC |
| SysTick | `rt_tick`, timers | wake sleepers, schedule | scheduler, soft RTC |
| scheduler, threads, idle (`rt/src`) | ready lists, suspend lists, defunct list | schedule, sleep, time out, exit, reclaim | all |
| IPC (`rt/src/ipc.c`) | value, owner, hold, suspend list | take, release, delete | threads, interrupts |
| serial device (`rt/components/drivers/serial`) | ring buffer | interrupt store, read | UART interrupt, serial, shell |
| soft RTC, `set_time`, `set_date` (`rt/components/drivers/rtc`) | `init_time`, `init_tick` | get, set | tick, `select_btn`, Get |
| civil time (`rt/components/libc/compilers/common/time.c`) | none | `gmtime_r`, `timegm`, ... | RTC |
| timers (`rt/src/timer.c`) | ordered list of deadlines | start, stop, check | tick, sleeps, timed waits |
| heap (`rt/src/mem.c`) | chain of blocks, `lfree`, `used_mem` | malloc, free, realloc | every `_create` |
| shell thread `tshell` (11) | `rx_sem`, the line | open uart1, read keys | uart1 |
| accelerometer, ADC | device registers | read over I2C, convert | Get |
| LCD driver (`ST7789.c`) | pen position in its drawing loops | draw strings, time, date | Show |
| pins, boot, context switch | device registers | | |

What is hard here: an interrupt that calls a thread-only operation in the name of
whichever thread it interrupted; a mutex used as a signal; flags and strings that
are read before a sleep and used after it; button interrupts between two draws of
a frame; texts rewritten in place while they are drawn; two readers of one serial
device; a timeout that races a release; a ring that overruns; a heap that must
stay whole over any sequence of calls; waits for the bus and the converter without a
timeout; a 32-bit tick that wraps; calendar edges.  The `hazards` of `PROJECT.json`
list each one at its line.

What makes each part correct: the FIFO keeps the newest bytes in order and never
swallows a wake-up; the CPU is with the highest-priority ready thread; no release
of the semaphore is lost and it outlives its users; the mutex is never
half-released; frames go on for ever and commands are read; the field on the
screen is the value that SELECT sets; setting time or date changes nothing else;
the calendar is the Gregorian one.  A waiting call ends in exactly one way and
takes the mutex or the token with it; no priority stays inverted or inherited;
timers fire on their tick; the heap hands out disjoint regions and loses nothing;
uart1 changes hands cleanly; every line on the screen ends inside its text and its rows.

## 2. Modules

| Module | Models |
|---|---|
| `SerialFifo` | the interrupt-mode receive ring of `serial.c` |
| `DropOldestQueue` | abstract specification: a queue that keeps the newest bytes |
| `SerialFifoProofs` | proofs about the ring |
| `Watch` | threads, scheduler, semaphore, mutex, UART interrupt, tick, theme |
| `WatchProofs` | proofs about `Watch` |
| `Menu` | button interrupts and the frames of Show that draw the selected field |
| `MenuProofs` | proofs about `Menu` |
| `Calendar` | `gmtime_r`, `localtime_r`, `timegm`, `mktime` as operators |
| `CalendarWalk` | day-by-day reference walk that checks `Calendar` |
| `SoftRtc`, `MCSoftRtc` | the clock on the tick, `set_time`, `set_date`; its instance |
| `ClockProofs` | proofs about `Calendar`, `CalendarWalk` and `SoftRtc` |
| `RtTimer` | the timer list on a wrapping tick, as operators |
| `RtIpc`, `MCRtIpc` | mutex, semaphore, timed waits, sleep, tick, scheduler, for any threads; an instance of three |
| `RtIpcProofs` | proofs about `RtIpc` and `RtTimer` |
| `SmallMem` | the heap: `rt_malloc`, `rt_free`, `rt_realloc` |
| `Allocator` | abstract specification: disjoint regions that only their holder changes |
| `SmallMemProofs` | proofs about `SmallMem`, among them that it implements `Allocator` |
| `Console` | boot from the main thread on, and shell and serial thread as readers of uart1 |
| `ConsoleProofs` | proofs about `Console` |
| `BasicScreen`, `MCBasicScreen` | Get's samples and texts, and Show drawing them character by character; its instance |
| `BasicScreenProofs` | proofs about `BasicScreen` |

They meet at these places: `Watch` and `Console` use the queue that `SerialFifo`
implements and that `DropOldestQueue` specifies; `SoftRtc` computes with `Calendar`;
`RtIpc` keeps its timers with `RtTimer`; `Watch` is `RtIpc`'s kernel reduced to the
calls of the application, where an interrupt calls `rt_mutex_release`; `Menu` and
`BasicScreen` split the frames of Show; `Console` relies on `SerialKeepsCpu` of
`Watch` (the serial thread never waits); a `_create` that fails in `Watch` or
`Console` is an `rt_malloc` of `SmallMem` that finds nothing.

Names ending in `_Something` that are introduced by "Variant" are deliberately
wrong versions of the definition that follows them; they document which mistake
each property would catch and are used by nothing else.

**SerialFifo.**  `put_index`, `get_index`, `is_full` and `buffer` are the fields of
`rt_serial_rx_fifo`.  `IsrStore` is one round of the loop of `rt_hw_serial_isr`,
`IsrIndicate` its end, `ReadNone` and `ReadOne` are `_serial_int_rx` with length 1.
A thread cannot run between two rounds, so reads wait for `~inIsr`.

**Watch.**  `pc` holds a label per thread; one action is a piece of code with at
most one access to shared state, or a section with interrupts disabled.
`rt_sem_take` is three actions (`ShowTake`, `ShowSchedule`, `ShowResume`) because
interrupts are enabled between putting Show on the suspend list, scheduling and
testing `thread->error`.  `Tick` is SysTick with the timer check, `UartRx` the
whole UART interrupt including `rt_mutex_release`.  The FIFO is the queue that
`SerialFifo` implements, with the reads and stores as single steps.
`rt_thread_mdelay` is `Sleep`.  Only Show's `thread->error` is kept: no other
thread's is ever tested.  `unseen` is history: the flag was set during the latest redraw
of the symbols.  The sensor code of Get is reduced to its sleeps and to
whether a step was seen; a frame of Show to one to four items, each of which takes
`DrawTicks` ticks: `LCD_SetWindows` sleeps 22 ticks for every character, so a frame
is much longer than a sample and the semaphore runs up to its limit.

**Menu.**  `button` holds the counters, `value` the numbers that are set, `str` the
`*_str` arrays (as numbers), `screen` two digit cells per field and the cell after
them.  Show's frame is `ShowSwitch`, `ShowItoa`, `ShowClear`, `ShowMark` and so on;
a button interrupt may come before each of them.  `rtc` records the arguments of
`set_time` and `set_date`; what these do with them is `SoftRtc`.  When a frame
begins is left open: Show may start one at any moment.  `raced` is history: a press
has come between an `itoa` and the test of its counter.  Then a two-digit string can be
drawn behind a leading zero, and its second digit lands in the cell after the field.
The clock draws over that cell behind the hour and the minute, never behind the second
and not always behind the day (`BasicScreenClean`).

**Calendar, SoftRtc.**  The lengths of the day, the hour and the minute are
constants, so that instances can use short days; months, leap years and the year
offsets are those of the code.  `timegm` is defined for months 0 to 11; with month
-1 the code reads outside `__spm`.  The clock is a difference of two ticks:
`KeepsTime` is stated for less than a full turn of the tick since boot (49.7 days);
after that `time()` starts again from `init_time`, which is the latest setting less
the time from boot to it.  The loops of the code over
years and over days are the recursive functions `YearLoop` and `DayLoop`, with one
tuple as argument.  `SetBackAssumption` keeps the clock after 1970, where `gmtime_r` is
modelled: a call of `set_time` sets it back by less than a day, `set_date` sets it to
2022, so that from 2018 it would take 17,532 settings to get there.  It also says
that the tick counter comes round within four years: a setting in 2022 takes the time
since boot off, and what `init_time` then holds must not lie before 2018.

**RtTimer, RtIpc.**  A step is a section with interrupts disabled, so a waiting call
is three: suspend (with its timer started), `rt_schedule`, and the return.  A tick,
a release by an interrupt and other threads come between them.  The tick wraps at
`TickMod`; `left` and `balance` are history, used by `TimersOnTime` and
`TokensConserved` only.  `TickMod` is at least 5: timers are tested on half the
range, and with 4 values the half is 1, so that a timer of no ticks, which is looked
at only one tick later, would never be due.  `Kept` is what `rt_list_remove` leaves of
a list.  One mutex and one semaphore are modelled.  What the code
does beyond that is not claimed: with two mutexes released out of order a thread
may keep an inherited priority; an owner that is raised while it waits elsewhere is
not moved forward in that list; a waiter that times out leaves the owner raised
until it releases.  The application asks for FIFO lists, but the kernel makes every
mutex list a priority list, and its semaphore never has more than one waiter.

**SmallMem.**  `heap` maps the offset of each header to its fields; `held` is what
the clients were given.  `heap_sem` makes a section atomic.  An `rt_realloc` that
moves is `ReallocMove`, `MoveMalloc`, `MoveFree`, with other clients in between.  Two
things the code does are kept as they are: the search loop stops below
`mem_size_aligned - size`, so a free block that starts exactly there is refused
although it fits (`NoMissedBlock` allows for this one block), and a shrink may leave
less than the `MIN_SIZE_ALIGNED` that the comment at `mem.c:298` asks for.  Sizes are in
`rt_size_t`, which has `SizeMod` values: `RT_ALIGN` takes the largest ones to 0, for
which `rt_malloc` hands out a block of the minimal size and `rt_realloc` frees the block.

**Console.**  Main is followed from `rt_components_init` to its return, with each
creation that may fail.  `MainWakes` is the one timing assumption: main sleeps
for more than 800 ticks in the drivers, which is enough for `tshell` to open the
device.  If the serial thread cannot be created after the callback was replaced,
nobody reads uart1 any more, and `BytesLeave` makes no promise for that case.

**BasicScreen.**  Get's texts are kept as far as the drawing loops look at them:
glyph, space, newline or end.  Each field that `asctime_r` writes, each I2C wait and
each character is a step, and Show sleeps inside each character.  Positions are
pixels.  `stuck` holds the devices that have stopped answering: Get then never gets past
its wait in `MPU_Read_Len` or in `Get_ADC_Val`, neither of which has a timeout.
`ShowTake` suspends Show inside `rt_sem_take` and `ShowResume` is its return: without an
error Show draws a frame, with one it deletes the semaphore and is `gone`.  The error is
a choice here; where it comes from is `Watch`.  What follows from the code and is not
stated as a property: a time can be put together from two samples; the range shown is 99
to -1, not the 100 to 0 of `watch.c:269`; a shorter number leaves the last digit of a
longer one on the screen; `vectorprevious` is always 0.

## 3. Runs

The type invariants of `SerialFifo`, `Watch`, `Menu`, `Console` and `BasicScreen` are
theorems (section 4) and no run repeats them.  Passing runs:

| Run | Shows | Bounds |
|---|---|---|
| `serial_fifo` | ring = drop-oldest queue, through overrun and wrap | 4 slots, 2 bytes: every relative position of the indices |
| `watch` | mutex, wake-ups, scheduling, starvation of idle, no theme lost outside a redraw | commands for two colours and another byte, FIFO 1 (that it is a queue at any size is `serial_fifo`), semaphore limit 2, nesting limit 2: each limit is hit; step timeout 4 ticks, 2 ticks per item: a sample is shorter than a frame, as in the build |
| `watch_live` | semaphore survives quiet takes; frames and commands go on; main reclaimed when serial was not created | FIFO 1, one theme command, every creation may fail |
| `menu` | selected field shown = value set; basic screen clean but for the cells behind second and day after a race | counters 0..2, radix 2 (so both one- and two-digit numbers occur), 9 presses: a full round of six SELECTs and three more |
| `calendar` | gmtime_r and timegm against the walk | 48,300 days, to 2102; days of 12 seconds |
| `soft_rtc` | setters keep the other half; accuracy to a second | days of 8 seconds, tick of 24 values, two settings, 10 ticks after each |
| `rt_ipc` | waits end once and rightly, no inversion, tokens conserved, timers on time | 3 threads of different priority, 8 tick values (so every deadline wraps somewhere), limits 2 and 1, time limits for ever, 2 and 0 ticks |
| `small_mem` | chain, merging, accounting, no missed block; refinement of `Allocator` | 22 bytes of data, headers of 2, requests of 1, 5, 12 and 31, where sizes wrap at 32: up to three blocks, splits, exact fits, refusals and a size that wraps to 0; two clients |
| `console` | uart1 changes hands, no lost wake-up of the shell, no byte stays | 6 bytes through a FIFO of 3, semaphore limit 2: both overrun |
| `basic_screen` | texts ready, lines end, glyphs on the panel, percent sign, steps, frames | readings below and inside the battery's range: numbers of one, two and four digits; accelerations on both sides of the threshold and of the overflow, axes of 4 bits with an int in the same ratio; real positions and fonts |

Violation runs, each a disagreement between the code and its own comments:

| Run | What happens |
|---|---|
| `watch_show_killed` | a byte arrives while Show is in `rt_sem_take`; `rt_mutex_release` writes `-RT_ERROR` into Show's `thread->error`, the wait "fails", Show deletes the semaphore and Get releases freed memory |
| `menu_month_zero` | UP, DOWN in the month menu sets month 0 |

Four runs switch deadlock checking off: the calendar walk and the clock stop at
their bounds; the console stops when the peer has sent its last byte and nobody is
left to read; the screen stops when a device no longer answers and Show waits for the
next sample or is gone.

More disagreements between the code and its comments, which no run states as a
violation; each is where a property above has to stop:

* The serial thread owns its mutex and so never waits on it, although the comment at
  `watch.c:165` says it is suspended (proved, `SerialStarvesIdle`).
* A theme command that sets `themeChanged` while Show redraws the symbols is cleared
  unseen at `watch.c:314`, and nothing else redraws them: "These simbols only print
  once" (`watch.c:288`).  `ThemeNotLost` says that this is the only loss.
* The second is 10 and DOWN comes between `itoa` (`watch.c:378`) and the test of the
  counter (`watch.c:393`): "10" is drawn behind a leading zero, and its last digit stays
  inverted at x=200, which neither "Clear the previous selection" nor the time reaches.
  The same can happen behind the day.  `BasicScreenClean` says that nothing else stays.
* The line "Day of the week - Month - Day" (`watch.c:326`) goes on through the time when
  the day has two digits: the fourth space is then the one after the time.  With a day
  of one digit it does so too if Show meets the "0" that `asctime_r` writes before the
  blank.  `LinesEnd` says that it never reaches the year.
* A battery reading below 1800 wraps to a number of four digits, which is drawn over the
  percent sign, one above 2614 gives three, which reach its first column; the sign is
  printed only once.  `PercentSurvives` is about readings within 1800 .. 2606.
* With a stuck I2C bus or converter Get spins above serial and idle, which then never
  run.  `FramesUnlessStopped` names what ends the redrawing of the screen: these two
  waits and the failed `rt_sem_take` of `watch_show_killed`; `BasicScreen` leaves all
  three open, and the property says that nothing else in it does.

**Fairness** (`FairSpec` in `Watch`, `Spec` in `Console` and `BasicScreen`).  The tick
and the steps of main and Show are weakly fair: the hardware timer ticks and a CPU
that is given to a thread executes it; likewise the shell, and the timers that end a
sleep.  Get, serial and idle are strongly fair: the threads above them sleep for
whole ticks again and again, and a tick is long compared with a step, so a thread
that is current again and again gets on.  Nothing is assumed about the peer on the
UART, about the bus, the converter or creations.

`RxInTake = FALSE` in `watch_live` rules out exactly the window that
`watch_show_killed` shows to be fatal; the other runs of `Watch` leave it open.

## 4. Proofs

`SerialFifoProofs` (all `bufsz >= 2`, all alphabets):

* `FifoInvariant`: types, `FullNeverMeetsEmpty`, `NoStaleSlot`,
  `IndicatedWhenData`.  Their conjunction is inductive; lemmas state how the used
  length and the slots change when an index is bumped, with and without wrap.
* `FifoImplementsQueue`: `Spec => Abstract!Spec` under the mapping
  `queue <- Contents`; a store maps to `Arrive`, a read to `Deliver` or `Miss`, the
  end of the handler to a stutter.
* `FifoIndicates`: `IndicatedWhenData`, the part of the invariant that a reader of the
  ring relies on, on its own.

`WatchProofs` (all limits, alphabets and timeouts; `ConstantsAssumption`):

* `WatchInvariant`: `TypeOK`, `MutexConsistent`, `NoLostWakeup`, `HighestRuns`.
* `SerialStarvesIdle`: `SerialKeepsCpu`.
* `ThemeNeverLost`: `ThemeNotLost`.
* `MutexNeverTorn`, `HighestAlwaysRuns`: `MutexConsistent` and `HighestRuns`.
* `SemaphoreSurvivesQuietTakes`: if `RxInTake = FALSE`, `SemaphoreSurvives`.

The inductive invariant `IInv` adds two parts.  `ShowOK` ties the life of the
semaphore to the progress of main and Show: without it `NoLostWakeup` is not
inductive, since Show could be about to wait on a semaphore that does not exist.
`SerialOK` says that serial never sleeps, exits or waits: without it a release
could hand the mutex over and schedule.  `HighestRuns` is what shows that Show
does not execute past `rt_schedule` while it is still on the suspend list.  Each
thread has a lemma with one case per action; `Rescheduled` and `Undisturbed` carry
the scheduler argument.  `SemaphoreSurvivesQuietTakes` needs
`ShowWaitsCleanly` on top, and `ThemeNeverLost` needs `ThemeOK`, which says how far a
redraw has got and what serial has done since it began.

`MenuProofs` (all limits below the square of the radix, every radix from 2, any
number of presses; `LimitsAssumption`):

* `MenuInvariant`: `TypeOK`, `CounterMatchesValue`, `ShownIsSet`,
  `BasicScreenClean`; `MenuLeavesScreenClean` states the last of them on its own: after
  a frame of the basic screen no cell that a menu inverted is left, except behind the
  second and the day, and there only if a press has raced an `itoa`.

Here the inductive invariant has to say what a frame has done so far.
`StepsOfFrame` ties the step of Show to the menu its switch read; `FrameFresh` says
that until a press the string of the selected field is its value and that the
leading zero is already drawn when only the digit is missing; `TimeClean` covers
the gap between the time and the date of the basic screen, and `MonthOneCell` the
cells that no step draws.  `NoResidue` is what keeps the screen clean without a race:
layout and string then belong together, so no third cell is ever drawn inverted.  A
press makes the frame `touched`, which is why `FrameFresh` survives it; `SameDigits`
(counter and value have equally many digits) joins the layout, chosen by the counter, to the string,
made from the value.

`ConsoleProofs` (all FIFO sizes, semaphore limits and numbers of bytes;
`ConsoleAssumption`):

* `ConsoleInvariant`: `TypeOK`, `ShellSeesInput`, `CallbackReady`, `CommandsWhole`;
  `ShellNeverMissesInput` and `CallbackAlwaysReady` state the second and the third.

`ShellOK` strengthens `ShellSeesInput` for the gap between the shell's failed read and
its wait: a byte that came there was counted by `rx_sem`.  `MainOK` orders the boot:
mutex before `uart_input`, `uart_input` before the serial thread, and the shell past
its own opening of the device before main leaves its sleep.  `HandedOver` is why
`CommandsWhole` is inductive: serial, the lowest thread, runs only when the shell
waits, and once the callback is `uart_input` nothing releases `rx_sem` again.

`BasicScreenProofs` (all readings of battery and accelerometer, every limit of the
semaphore, up to the eleven characters of an `int`; `ScreenAssumption`):

* `ScreenInvariant`: `TypeOK`, `TextsReady`, `PercentSurvives`, `GlyphsInPlace`;
  `TextsAlwaysReady` and `PercentAlwaysSurvives` state the second and the third.
* `LinesAlwaysEnd`: the action property `LinesEnd`.

`GetOK` and `SemOK` follow a complete sample from Get through the semaphore to Show
(`TextsReady` alone says nothing about the token).  `BattOK` bounds the characters
that were ever written to `battString`: four, or two while the readings were in
range (`ChargeInRange` is the arithmetic behind it).  `PenOK` computes the pen from
the position in the text: it wraps only in the date, at the sixteenth character, and
the number of spaces seen by then depends on what the day's blank was at the moment
Show drew it, not on what it is now.

* `StepsAlwaysSound`: `StepsSound`.  It rests on `RootExists`: the least number whose
  successor has a larger square is the integer root that `sqrt` is truncated to.

`RtIpcProofs` (any finite set of threads with any priorities, all limits, every tick
range from 5; `IpcAssumption`, `TickAssumption`):

* `IpcTypes`, `SuspendedOnlyOnce`, `TakesEndRightly`, `NoInversionEver`,
  `PriorityAlwaysReturned`, `TokensNeverLost`, `TimersAlwaysOnTime`: the seven
  invariants of the run `rt_ipc`, one theorem each.

The invariant `IInv` says of the lists that nobody is on one twice or on two of them
(`Queues`), that timers are sorted by the ticks they have left and that this number
is the distance from the tick to the deadline on the circle of ticks (`ListOK`), and
of the threads how the place in a call, the error and the lists agree (`ThreadsOK`,
`Outcome`).  `OwnerOK` keeps the list of the mutex sorted by priority and the owner at
least as high as its head; `SchedOK` is where the proof found something: the current
thread need not be the highest ready one, because `rt_mutex_release` without waiters
gives an inherited priority back and does not call `rt_schedule`.  Then nobody waits
for the mutex, which is what saves `NoInversion`.  A token is in `value` or on its way
to a thread that was resumed (`Given`).  The lemmas come in four groups: what `Kept`
and `InsertAt` do to lists that are sorted and free of duplicates; arithmetic on
wrapping ticks (`TickDiffIs`, `LaterIsFurther`, `NextDistance`), which shows that the
half-range comparison orders any two pending deadlines; what suspending, resuming
and scheduling do to the invariant; and one lemma per action.

`SmallMemProofs` (every alignment, header size, minimal block and heap size, any
clients, any requests and every `SizeMod` above the heap, so also sizes that wrap;
`HeapAssumption`):

* `ChainAlwaysSound`, `UsedMemAlwaysCounts`, `NoBlockMissed`: the invariants of the run
  `small_mem`.
* `HeapImplementsAllocator`: `Spec => Abstract!Spec`, where a used block is a region
  behind its header.

`Shape` is the chain as the surgery on it sees it: aligned offsets, every block ending
at the next one with room for a header and data, links that agree in both directions
except at `heap_end`.  `SplitOK`, `JoinOK` and `MarkOK` show that cutting a block,
swallowing the next one and setting the flag keep it; `Plug1OK` and `Plug2OK` are the
two halves of `plug_holes`, which starts from a chain without free neighbours except
around the block in hand (`JoinedBut`).  They also show that its two updates of
`lfree` never change it, since no free block is below `lfree` (`Low`).  That a shrink
leaves room for a header and data follows from alignment only (`AlignedGap`):
`MIN_SIZE` alone would not do.  `used_mem` is compared with the cardinality of the set
of used bytes (`BytesLess`: blocks are disjoint).  `MoveOK` is what the three sections
of `rt_realloc` need: the block being moved is still its client's when it is freed.
Each action then gives, releases or resizes one block or none (`HeldStep`), and these
map to the steps of `Allocator`.

`ClockProofs` (all lengths of the minute, the hour and the day, every tick rate, range
of the tick counter and tick at boot, every time zone from Greenwich east;
`CalendarAssumption`, `SoftRtcAssumption`, `SetBackAssumption`):

* `TimegmOfGmtime`: `timegm(gmtime_r(t)) = t` for every natural number `t`.
* `GmtimeAlwaysCivil`, `LateDaysAlwaysRoll`: the invariants of the run `calendar`, for
  every `LastDay`, so for every day from 1970 on.
* `ClockKeepsTime`, `SettersAlwaysKeepTheRest`: what the run `soft_rtc` checks.

A recursive function is a CHOOSE, and before its equation can be used there must be a
function that satisfies it.  `LoopDefined` gives one for every loop that steps from
state to state: take a state to the result at the end of its path, and to anything if
the path has no end.  `YearLoopRule` is the equation of `YearLoop` from that;
`YearLoopIs` then finds the year, as the least counterexample.  `DayLoopShort` shows
that for the days the menu lets through (up to 31) the loop over the days, which
compares with the days from the start of the year, does nothing; that they still roll
into the next month is the addition in `DayNumber`.
`FirstOf` is the closed form of the days before a year and `Civil(n, y, m, d)` says
that day `n` has that date; `CivilExists`, `GmtimeIs` and `TimegmIs` say that every day
has a date, that `gmtime_r` returns it and that `timegm` takes it back.  `WalkInv` is
`Civil` for the walk, with the weekday.

The inductive invariant `RtcInv` of the clock has three parts.  `TickOK`: the tick is
the tick at boot plus the uptime, wrapped.  `SetOK`: `init_time` is the latest setting
less the seconds from boot to it; this is what makes the difference of two rounded
quotients, and so the second by which the clock may be fast.  `FloorOK`: after `n`
calls the clock has been set back by less than `n` days; without it `gmtime_r` could be
asked for a time before 1970.

Induction.  The library's induction theorems take an operator and cannot be
instantiated by the provers, so what would be an induction is the argument that a
least counterexample does not exist: the lemma `LeastNat` gives every nonempty set of
naturals a least element.

Only model-checked: liveness (fairness and ENABLED are outside the prover's reach).
These are `FramesForever`, `CommandsRead`, `DefunctReclaimed` (run `watch_live`),
`ShellRetires`, `BytesLeave` (`console`) and
`FramesUnlessStopped` (`basic_screen`).

## 5. Not modelled

* Registers and wires: the LCD controller's commands and SPI bytes, glyph bitmaps,
  the configuration writes of the accelerometer, ADC, pin and clock setup.  They
  have no state that the program reads back.
* The context switch in assembly: a switch is a step.
* The shell's line editor, history and command dispatch: sequential text handling
  behind `finsh_getchar`.
* RT-Thread events, mailboxes, message queues, signals, periodic and soft timers,
  `rt_*_delete` with waiters, DMA modes of the serial device: in the tree, not used
  by the watch.
* The components that are not in the build (file systems, lwIP, C++, AT and so on)
  and the HAL library: by far the largest part of the repository, none of it the
  watch's.

`PROJECT.json` gives the reason for each.

## 6. Plan

Done: all the modules above, the proofs of section 4.  Left: a composition of `Menu`
and `SoftRtc`, in which after the last SELECT the clock reads what the screen showed.
