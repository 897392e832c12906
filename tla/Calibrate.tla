----------------------------- MODULE Calibrate ------------------------------
(***************************************************************************)
(* The clock in loops (project1, timer.c): timer_calibrate() counts how    *)
(* many times a loop runs in a timer tick, and real_time_sleep() and       *)
(* real_time_delay() turn seconds into ticks and loops with it, in         *)
(* integers.                                                               *)
(*                                                                         *)
(* A tick lasts as long as so many loops, give or take Jitter: whether     *)
(* a loop count within Jitter of a tick ends in the same tick is open.     *)
(* Counts of loops wrap at Word; the bits that |= sets in them are not     *)
(* set before, so it is an addition.                                       *)
(***************************************************************************)
EXTENDS Integers

CONSTANTS
  FIRST,    \* 2^10 in the code: where the search starts, and how many times
            \* smaller than high_bit the bit at which refinement stops is
  Word,     \* unsigned numbers are below (2^32)
  Tick,     \* the possible lengths of a timer tick, in loops
  Jitter,
  TIMER_FREQ,
  Scale,    \* 1000 in the code: the ratio of seconds, milli-, micro- and nanoseconds
  Num       \* the arguments of the sleeps and delays

ASSUME CalibrateAssumption ==
  /\ FIRST \in Nat \ {0, 1} /\ Word \in Nat /\ FIRST < Word
  /\ Jitter \in Nat
  /\ Tick \subseteq Nat /\ \A t \in Tick : t > Jitter
  /\ TIMER_FREQ \in Nat \ {0} /\ Scale \in Nat \ {0}
  /\ Num \subseteq Int

\* n has no odd divisor but 1.
PowerOf2(n) == \A d \in 2 .. n : n % d = 0 => d % 2 = 0

\* 2^10 and 2^32 in the code: the bits that the refinement tries are all whole, down to
\* high_bit / FIRST.
ASSUME PowerAssumption == PowerOf2(FIRST) /\ PowerOf2(Word) /\ Word % FIRST = 0

VARIABLES
  tick,            \* how many loops a tick lasts
  pc,
  loops_per_tick,
  high_bit,
  test_bit,
  call             \* the last sleep or delay: what was asked for (num / denom
                   \* seconds) and what came of it (ticks slept, loops waited)

bits == <<loops_per_tick, high_bit, test_bit>>
vars == <<tick, pc, bits, call>>

NoCall == [num |-> 0, denom |-> 1, ticks |-> 0, loops |-> 0]

Init ==
  /\ tick \in Tick
  /\ pc = "approximate"
  /\ loops_per_tick = FIRST
  /\ high_bit = 0
  /\ test_bit = 0
  /\ call = NoCall

-----------------------------------------------------------------------------
(***************************************************************************)
(* timer_calibrate()                                                       *)
(***************************************************************************)

\* What too_many_loops() may return: loops that begin with a tick outlast it.
MayBeTooMany(loops) == loops + Jitter >= tick
MayFit(loops) == loops <= tick + Jitter

\* loops_per_tick << 1
Shifted == (2 * loops_per_tick) % Word

\* Mutant: looks at the present value, not at the next one.
Double_late ==
  /\ pc = "approximate" /\ MayFit(loops_per_tick)
  /\ loops_per_tick' = Shifted
  /\ pc' = IF Shifted = 0 THEN "assert" ELSE pc
  /\ UNCHANGED <<tick, high_bit, test_bit, call>>

Double ==
  /\ pc = "approximate" /\ MayFit(Shifted)
  /\ loops_per_tick' = Shifted
  /\ pc' = IF Shifted = 0 THEN "assert" ELSE pc
  /\ UNCHANGED <<tick, high_bit, test_bit, call>>

Approximated ==
  /\ pc = "approximate" /\ MayBeTooMany(Shifted)
  /\ high_bit' = loops_per_tick
  /\ test_bit' = loops_per_tick \div 2
  /\ pc' = "refine"
  /\ UNCHANGED <<tick, loops_per_tick, call>>

\* One round: the bit is tried on top of high_bit, not of what has been found so far.
Refine ==
  /\ pc = "refine" /\ test_bit # high_bit \div FIRST
  /\ \/ /\ MayFit(high_bit + test_bit)
        /\ loops_per_tick' = loops_per_tick + test_bit
     \/ /\ MayBeTooMany(high_bit + test_bit)
        /\ UNCHANGED loops_per_tick
  /\ test_bit' = test_bit \div 2
  /\ UNCHANGED <<tick, pc, high_bit, call>>

Refined ==
  /\ pc = "refine" /\ test_bit = high_bit \div FIRST
  /\ pc' = "calibrated"
  /\ UNCHANGED <<tick, bits, call>>

-----------------------------------------------------------------------------
(***************************************************************************)
(* The sleeps and delays                                                   *)
(***************************************************************************)

\* Milli-, micro- and nanoseconds.
Denom == {Scale, Scale * Scale, Scale * Scale * Scale}

\* Division of C, towards zero.
Quotient(a, b) == IF a >= 0 THEN a \div b ELSE - ((- a) \div b)

\* busy_wait(): no loops for a negative count.
busy_wait(loops) == IF loops > 0 THEN loops ELSE 0

\* Mutant: scales down before it multiplies.
delay_loops_early(num, denom) ==
  busy_wait(Quotient(Quotient(num, Scale) * loops_per_tick * TIMER_FREQ, denom \div Scale))

\* real_time_delay()
delay_loops(num, denom) ==
  busy_wait(Quotient(Quotient(loops_per_tick * num, Scale) * TIMER_FREQ, denom \div Scale))

\* timer_mdelay(), timer_udelay(), timer_ndelay().
Delay(num, denom) ==
  /\ pc = "calibrated"
  /\ call' = [num |-> num, denom |-> denom, ticks |-> 0, loops |-> delay_loops(num, denom)]
  /\ pc' = "delayed"
  /\ UNCHANGED <<tick, bits>>

\* timer_msleep(), timer_usleep(), timer_nsleep(): timer_sleep(), or a delay if that
\* would be for no tick.
Sleep(num, denom) ==
  LET ticks == Quotient(num * TIMER_FREQ, denom) IN
  /\ pc = "calibrated"
  /\ call' = [num |-> num, denom |-> denom,
              ticks |-> IF ticks > 0 THEN ticks ELSE 0,
              loops |-> IF ticks > 0 THEN 0 ELSE delay_loops(num, denom)]
  /\ pc' = "slept"
  /\ UNCHANGED <<tick, bits>>

-----------------------------------------------------------------------------
Next ==
  \/ Double \/ Approximated
  \/ Refine \/ Refined
  \/ \E num \in Num, denom \in Denom : Delay(num, denom) \/ Sleep(num, denom)

Spec == Init /\ [][Next]_vars

-----------------------------------------------------------------------------
(***************************************************************************)
(* Properties.                                                             *)
(***************************************************************************)

Calibrated == pc \in {"calibrated", "delayed", "slept"}

\* timer_calibrate(): although each bit is tried on its own (line 63), what comes out is
\* not below half a tick and, unless a tick is shorter than the search's first guess,
\* less than two ticks, by as much as the approximation high_bit allows; and the ASSERT
\* of line 57 fails only if a tick takes half of all numbers.
Accurate ==
  /\ Calibrated =>
       /\ tick <= 2 * loops_per_tick + Jitter
       /\ FIRST <= tick => loops_per_tick + high_bit <= 2 * (tick + Jitter)
  /\ pc = "assert" /\ FIRST <= tick => Word <= 2 * (tick + Jitter)

\* The loops of an exact delay of num / denom seconds, times denom.
Exact(num, loops) == num * TIMER_FREQ * loops

\* real_time_delay() and real_time_sleep(), with what timer_calibrate() has measured:
\* a delay is not shorter than asked for, but for the last bit of loops_per_tick and the
\* rounding of two divisions, and not twice as long; a sleep is rounded down to whole
\* ticks, and one that is a delay instead is for less than a tick.
TimeKept ==
  /\ pc \in {"delayed", "slept"} /\ call.ticks = 0 =>
       LET least == tick - Jitter - 2 * (high_bit \div FIRST) IN
       /\ call.num <= 0 => call.loops = 0
       /\ call.num > 0 =>
            /\ (call.loops + 1) * call.denom + Scale * TIMER_FREQ > Exact(call.num, least)
            /\ FIRST <= tick =>
                 call.loops * call.denom <= Exact(call.num, 2 * (tick + Jitter) - high_bit)
  /\ pc = "slept" =>
       IF call.ticks > 0
         THEN /\ call.ticks * call.denom <= call.num * TIMER_FREQ
              /\ call.num * TIMER_FREQ < (call.ticks + 1) * call.denom
         ELSE call.loops < loops_per_tick
=============================================================================
