------------------------------- MODULE MCAlarm -------------------------------
(***************************************************************************)
(* Alarm on small instances.                                               *)
(***************************************************************************)
EXTENDS Alarm

CONSTANTS a, b, c

\* The idle thread's page and main's are told apart from the others by name.
Pages5 == {main, idle, a, b, c}

\* Sleeps into the past, of no ticks, and of two; one that ends with the next tick.
SleepArgs == {-1, 0, 2}
NextTick == {0}

\* Pages other than main's and the idle thread's are interchangeable.
PageSymmetry == Permutations({a, b, c})
=============================================================================
