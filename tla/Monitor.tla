------------------------------- MODULE Monitor -------------------------------
(***************************************************************************)
(* What locks and condition variables promise, without a scheduler: Mesa   *)
(* monitors.  A lock has one owner at most.  Waiting for a condition gives *)
(* up the lock and starts the wait in one step, so a signal given by the   *)
(* next owner is not missed; a signal releases one waiter if there is any; *)
(* and nobody stops waiting without a signal.  A signalled thread has to   *)
(* acquire the lock again like everybody else.                             *)
(*                                                                         *)
(* PriSync implements this specification (see PriSync!MonitorSpec).        *)
(***************************************************************************)
CONSTANTS
  Thread,
  Lock,
  Cond,
  LockOf,    \* the lock a condition is used with
  None

VARIABLES
  owner,     \* who owns each lock
  waiting,   \* the threads that wait for each condition
  signalled  \* the threads that have been signalled and do not know it yet

vars == <<owner, waiting, signalled>>

Init ==
  /\ owner = [l \in Lock |-> None]
  /\ waiting = [c \in Cond |-> {}]
  /\ signalled = {}

Acquire(l) ==
  /\ owner[l] = None
  /\ \E t \in Thread : owner' = [owner EXCEPT ![l] = t]
  /\ UNCHANGED <<waiting, signalled>>

Release(l) ==
  /\ owner[l] # None
  /\ owner' = [owner EXCEPT ![l] = None]
  /\ UNCHANGED <<waiting, signalled>>

\* The owner of the lock waits for the condition.
Wait(c) ==
  /\ owner[LockOf[c]] # None
  /\ owner' = [owner EXCEPT ![LockOf[c]] = None]
  /\ waiting' = [waiting EXCEPT ![c] = @ \union {owner[LockOf[c]]}]
  /\ UNCHANGED signalled

\* The owner of the lock signals the condition, w is the one released.
Signal(c) ==
  /\ owner[LockOf[c]] # None
  /\ \E w \in waiting[c] :
       /\ waiting' = [waiting EXCEPT ![c] = @ \ {w}]
       /\ signalled' = signalled \union {w}
  /\ UNCHANGED owner

Wake ==
  /\ \E t \in signalled : signalled' = signalled \ {t}
  /\ UNCHANGED <<owner, waiting>>

Next ==
  \/ \E l \in Lock : Acquire(l) \/ Release(l)
  \/ \E c \in Cond : Wait(c) \/ Signal(c)
  \/ Wake

Spec == Init /\ [][Next]_vars
=============================================================================
