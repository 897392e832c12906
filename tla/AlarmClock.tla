----------------------------- MODULE AlarmClock -----------------------------
(***************************************************************************)
(* What timer_sleep() promises its callers, without a scheduler: a clock   *)
(* and the set of sleeping threads, each with the tick it asked to be      *)
(* woken at.  A thread leaves the set only at a tick, never before its     *)
(* time, and a tick leaves nobody behind whose time has come.              *)
(*                                                                         *)
(* Alarm implements this specification (see Alarm!AlarmClockSpec).         *)
(***************************************************************************)
EXTENDS Integers

CONSTANTS
  Thread,    \* threads that may call timer_sleep()
  MaxTick    \* bound of the model: the clock stops counting here

VARIABLES
  now,       \* the number of ticks since boot
  asleep     \* pairs <<t, d>>: t sleeps until tick d

vars == <<now, asleep>>

TypeOK ==
  /\ now \in Nat
  /\ asleep \subseteq Thread \X Int

Init ==
  /\ now = 0
  /\ asleep = {}

\* A thread that is awake goes to sleep until some tick (in the past perhaps).
Sleep(t) ==
  /\ \A x \in asleep : x[1] # t
  /\ \E y \in asleep' :
       /\ y[1] = t /\ y[2] \in Int
       /\ asleep' = asleep \union {y}
  /\ UNCHANGED now

\* The clock ticks, and everybody whose time has come is woken.
Tick ==
  /\ now' = IF now < MaxTick THEN now + 1 ELSE now
  /\ asleep' = {x \in asleep : x[2] > now'}

Next ==
  \/ \E t \in Thread : Sleep(t)
  \/ Tick

Spec == Init /\ [][Next]_vars
=============================================================================
