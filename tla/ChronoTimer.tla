----------------------------- MODULE ChronoTimer -----------------------------
(***************************************************************************)
(* Timer / ChronoTimer (src/integration/timer.h, chrono_timer.{h,cc}): a   *)
(* stopwatch on std::chrono::high_resolution_clock.  That clock is the     *)
(* environment: it moves between any two steps of the program and, being   *)
(* the wall clock in the usual standard library, may be set back.          *)
(***************************************************************************)
EXTENDS Integers

CONSTANTS
  TicksPerMs,   \* ticks of the clock in one millisecond
  ClockSteps,   \* by how many ticks the clock may move at once
  MaxNow,       \* bound: the last tick of the clock
  MaxUpsets     \* bound: upsets of the clock or of the timer in one behaviour

ASSUME TimerAssumption ==
  /\ TicksPerMs \in Nat \ {0}
  /\ ClockSteps \subseteq Int
  /\ MaxNow \in Nat
  /\ MaxUpsets \in Nat

VARIABLES
  now,      \* high_resolution_clock::now(), in ticks
  start,    \* ChronoTimer::start_
  upsets    \* history: how often the timer stopped being a steady measure

timerVars == <<now, start, upsets>>

\* duration_cast to a coarser unit truncates towards zero
DurationCast(ticks) ==
  IF ticks >= 0 THEN ticks \div TicksPerMs ELSE -((-ticks) \div TicksPerMs)

\* Timer::Elapsed(), in milliseconds
Elapsed == DurationCast(now - start)

\* The constructor starts the stopwatch.
TimerInit == now = 0 /\ start = 0 /\ upsets = 0

UpsetUnless(steady) ==
  IF steady THEN upsets' = upsets
            ELSE upsets < MaxUpsets /\ upsets' = upsets + 1

\* The clock moves; setting it back is an upset.
Advance(d) ==
  /\ now + d \in 0..MaxNow
  /\ now' = now + d
  /\ UpsetUnless(d >= 0)
  /\ UNCHANGED start

\* Timer::Reset(); an upset when somebody already holds a time it measured.
Reset(unused) ==
  /\ start' = now
  /\ UpsetUnless(unused)
  /\ UNCHANGED now
=============================================================================
