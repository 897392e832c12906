---------------------------- MODULE ProcessTable ----------------------------
(***************************************************************************)
(* What process_execute(), process_wait(), exit() and kill() do, without   *)
(* threads, semaphores or memory: every process ends once, keeps its exit  *)
(* status until its parent has taken it, is taken by its parent only and   *)
(* only once, and does not vanish before that.                             *)
(*                                                                         *)
(* process.c 107-109 says of process_wait(): "If it was terminated by the  *)
(* kernel (i.e. killed due to an exception), returns -1."  kill() sets no  *)
(* status, so the parent is told 0 (see Kill below).                       *)
(*                                                                         *)
(* Process implements this specification (see Process!TableSpec).          *)
(***************************************************************************)
EXTENDS Integers

CONSTANTS
  Tid,      \* thread identifiers
  root,     \* the tid of the process that is there at first
  Status    \* exit statuses

VARIABLES
  state,    \* of each tid
  children, \* the children whose status each process has not taken
  status,   \* the exit status of those that have ended (0 of the others)
  answer    \* what the last call of each process returned (0 before)

vars == <<state, children, status, answer>>

Init ==
  /\ state = [k \in Tid |-> IF k = root THEN "running" ELSE "unused"]
  /\ children = [k \in Tid |-> {}]
  /\ status = [k \in Tid |-> 0]
  /\ answer = [k \in Tid |-> 0]

Create(p, k) ==
  /\ state[p] = "running" /\ state[k] = "unused"
  /\ state' = [state EXCEPT ![k] = "running"]
  /\ children' = [children EXCEPT ![p] = @ \union {k}]
  /\ UNCHANGED <<status, answer>>

\* A call that takes no status: a process may have been executed, or not.
Answer(p) ==
  /\ state[p] = "running"
  /\ \E n \in children[p] \union {-1} : answer' = [answer EXCEPT ![p] = n]
  /\ UNCHANGED <<state, children, status>>

\* The call exit(), by the program or by the kernel on its behalf.
Exit(k) ==
  /\ state[k] = "running"
  /\ state' = [state EXCEPT ![k] = "exited"]
  /\ \E s \in Status : status' = [status EXCEPT ![k] = s]
  /\ UNCHANGED <<children, answer>>

\* An exception: the status stays what it was when the process was created, 0.
Kill(k) ==
  /\ state[k] = "running"
  /\ state' = [state EXCEPT ![k] = "killed"]
  /\ UNCHANGED <<children, status, answer>>

\* The parent takes the status of a child that has ended.
Collect(p, k) ==
  /\ state[p] = "running" /\ state[k] \in {"exited", "killed"}
  /\ k \in children[p]
  /\ state' = [state EXCEPT ![k] = "collected"]
  /\ children' = [children EXCEPT ![p] = @ \ {k}]
  /\ answer' = [answer EXCEPT ![p] = status[k]]
  /\ status' = [status EXCEPT ![k] = 0]

\* Its memory is freed; its own children are left without a parent.
Vanish(k) ==
  /\ state[k] = "collected"
  /\ state' = [state EXCEPT ![k] = "gone"]
  /\ children' = [children EXCEPT ![k] = {}]
  /\ answer' = [answer EXCEPT ![k] = 0]
  /\ UNCHANGED status

Next ==
  \/ \E p, k \in Tid : Create(p, k) \/ Collect(p, k)
  \/ \E k \in Tid : Answer(k) \/ Exit(k) \/ Kill(k) \/ Vanish(k)

Spec == Init /\ [][Next]_vars
=============================================================================
