------------------------------- MODULE Process -------------------------------
(***************************************************************************)
(* project4: user processes.  process_execute() creates a thread and waits *)
(* until it has loaded its program; exit() leaves the status in the struct *)
(* thread, which stays until the parent has taken it in process_wait().    *)
(*                                                                         *)
(* Each thread is preempted anywhere: the steps of different threads       *)
(* interleave freely, and a call of sema_down() or sema_up() is one step.  *)
(* Which thread runs next is left to Alarm and PriSync.  The fields are    *)
(* those of threads/thread.h; the version of thread.c that sets them up is *)
(* not in the repository, and is modelled from how process.c uses them.    *)
(***************************************************************************)
EXTENDS Integers, Sequences, FiniteSets, SequencesExt

CONSTANTS
  Thread,   \* the pages a struct thread may live in
  main,     \* the thread that runs the first program
  None,     \* NULL
  Status,   \* what programs pass to exit()
  MaxTid    \* bound: no thread is created with a greater tid

ASSUME ProcessAssumption ==
  /\ main \in Thread
  /\ None \notin Thread
  /\ Status \subseteq Int
  /\ MaxTid \in Nat \ {0}

VARIABLES
  tid,          \* t->tid, 0 for a page that holds no thread
  next_tid,
  parent,       \* t->parent
  killed,       \* history: t was ended by kill(), of which the code keeps no trace
  child,        \* t->child
  exit_status,  \* t->exit_status
  child_lock,   \* semaphores: upped when the thread exits,
  mem_lock,     \* ... when its parent has taken its status,
  load_lock,    \* ... and when a child of its has been loaded
  pc,
  success,      \* `success' of start_process()
  new_tid,      \* `tid' of process_execute(), `child_tid' of process_wait()
  caller,       \* who has called process_wait()
  wait_on,      \* `t' of process_wait()
  result,       \* `exit_status' of process_wait()
  eax           \* what the last call of exec() or wait() returned

fields == <<tid, next_tid, parent, killed>>
semas == <<child_lock, mem_lock, load_lock>>
frame == <<success, new_tid, caller, wait_on, result>>
vars == <<fields, child, exit_status, semas, pc, frame, eax>>

TID_ERROR == -1

Label ==
  {"none", "user", "load_down", "scan", "find", "wait_down", "wait_read",
   "wait_remove", "wait_up", "start", "load_up", "load_exit", "exit_up", "exit_down"}

At(t, l) == pc[t] = l

Goto(t, l) == pc' = [pc EXCEPT ![t] = l]

\* The call is over and returns n.
Return(t, n) == Goto(t, "user") /\ eax' = [eax EXCEPT ![t] = n]

Init ==
  /\ tid = [t \in Thread |-> IF t = main THEN 1 ELSE 0]
  /\ next_tid = 2
  /\ parent = [t \in Thread |-> None]
  /\ killed = [t \in Thread |-> FALSE]
  /\ child = [t \in Thread |-> <<>>]
  /\ exit_status = [t \in Thread |-> 0]
  /\ child_lock = [t \in Thread |-> 0]
  /\ mem_lock = [t \in Thread |-> 0]
  /\ load_lock = [t \in Thread |-> 0]
  /\ pc = [t \in Thread |-> IF t = main THEN "user" ELSE "none"]
  /\ success = [t \in Thread |-> FALSE]
  /\ new_tid = [t \in Thread |-> 0]
  /\ caller = [t \in Thread |-> "wait"]
  /\ wait_on = [t \in Thread |-> None]
  /\ result = [t \in Thread |-> 0]
  /\ eax = [t \in Thread |-> 0]

-----------------------------------------------------------------------------
(***************************************************************************)
(* process_execute()                                                       *)
(***************************************************************************)

\* No page for the command line, or no such file.
ExecFail(t) ==
  /\ At(t, "user")
  /\ eax' = [eax EXCEPT ![t] = -1]
  /\ UNCHANGED <<fields, child, exit_status, semas, pc, frame>>

\* thread_create() does not find a page for the struct thread.
ExecNoPage(t) ==
  /\ At(t, "user")
  /\ \A c \in Thread : tid[c] # 0
  /\ new_tid' = [new_tid EXCEPT ![t] = TID_ERROR]
  /\ Goto(t, "load_down")
  /\ UNCHANGED <<fields, child, exit_status, semas, success, caller, wait_on, result, eax>>

\* thread_create() sets the fields of the new thread c, zero unless given here.
ExecCreate(t, c) ==
  /\ At(t, "user")
  /\ tid[c] = 0
  /\ next_tid <= MaxTid
  /\ tid' = [tid EXCEPT ![c] = next_tid]
  /\ next_tid' = next_tid + 1
  /\ parent' = [parent EXCEPT ![c] = t]
  /\ child' = [child EXCEPT ![t] = Append(@, c), ![c] = <<>>]
  /\ exit_status' = [exit_status EXCEPT ![c] = 0]
  /\ child_lock' = [child_lock EXCEPT ![c] = 0]
  /\ mem_lock' = [mem_lock EXCEPT ![c] = 0]
  /\ load_lock' = [load_lock EXCEPT ![c] = 0]
  /\ new_tid' = [new_tid EXCEPT ![t] = next_tid]
  /\ pc' = [pc EXCEPT ![t] = "load_down", ![c] = "start"]
  /\ UNCHANGED <<killed, success, caller, wait_on, result, eax>>

\* Mutant: process_execute() does not wait for the child.
ExecDown_skip(t) ==
  /\ At(t, "load_down")
  /\ Goto(t, "scan")
  /\ UNCHANGED <<fields, child, exit_status, semas, frame, eax>>

\* sema_down (&thread_current ()->load_lock)
ExecDown(t) ==
  /\ At(t, "load_down")
  /\ load_lock[t] > 0
  /\ load_lock' = [load_lock EXCEPT ![t] = @ - 1]
  /\ Goto(t, "scan")
  /\ UNCHANGED <<fields, child, exit_status, child_lock, mem_lock, frame, eax>>

Failed(t) == \E c \in ToSet(child[t]) : exit_status[c] = -1

\* The new child is waited for if any child has failed.
ExecScan(t) ==
  /\ At(t, "scan")
  /\ \/ /\ Failed(t)
        /\ caller' = [caller EXCEPT ![t] = "exec"]
        /\ Goto(t, "find")
        /\ UNCHANGED <<new_tid, eax>>
     \/ /\ ~ Failed(t)
        /\ Return(t, new_tid[t])
        /\ new_tid' = [new_tid EXCEPT ![t] = 0]
        /\ UNCHANGED caller
  /\ UNCHANGED <<fields, child, exit_status, semas, success, wait_on, result>>

-----------------------------------------------------------------------------
(***************************************************************************)
(* start_process()                                                         *)
(***************************************************************************)

Load(t) ==
  /\ At(t, "start")
  /\ \E s \in BOOLEAN : success' = [success EXCEPT ![t] = s]
  /\ Goto(t, "load_up")
  /\ UNCHANGED <<fields, child, exit_status, semas, new_tid, caller, wait_on, result, eax>>

\* Mutant: a child that fails to load exits without telling its parent.
LoadUp_success(t) ==
  /\ At(t, "load_up")
  /\ load_lock' = [load_lock EXCEPT ![parent[t]] = IF success[t] THEN @ + 1 ELSE @]
  /\ Goto(t, IF success[t] THEN "user" ELSE "load_exit")
  /\ UNCHANGED <<fields, child, exit_status, child_lock, mem_lock, frame, eax>>

\* sema_up (&thread_current ()->parent->load_lock)
LoadUp(t) ==
  /\ At(t, "load_up")
  /\ load_lock' = [load_lock EXCEPT ![parent[t]] = @ + 1]
  /\ Goto(t, IF success[t] THEN "user" ELSE "load_exit")
  /\ UNCHANGED <<fields, child, exit_status, child_lock, mem_lock, frame, eax>>

-----------------------------------------------------------------------------
(***************************************************************************)
(* exit(), kill(), process_exit()                                          *)
(***************************************************************************)

\* exit (s), which sets the status and calls thread_exit().
exit(t, s) ==
  /\ exit_status' = [exit_status EXCEPT ![t] = s]
  /\ Goto(t, "exit_up")
  /\ UNCHANGED <<fields, child, semas, frame, eax>>

\* if (!success) exit (-1);
LoadExit(t) == At(t, "load_exit") /\ exit(t, -1)

\* The program calls exit (s), or the kernel exit (-1) for it.
Exit(t, s) == At(t, "user") /\ t # main /\ exit(t, s)

\* kill() of an exception handler calls thread_exit() itself, and sets no status.
Kill(t) ==
  /\ At(t, "user") /\ t # main
  /\ killed' = [killed EXCEPT ![t] = TRUE]
  /\ Goto(t, "exit_up")
  /\ UNCHANGED <<tid, next_tid, parent, child, exit_status, semas, frame, eax>>

\* process_exit(): sema_up (&cur->child_lock) ...
ExitUp(t) ==
  /\ At(t, "exit_up")
  /\ child_lock' = [child_lock EXCEPT ![t] = @ + 1]
  /\ Goto(t, "exit_down")
  /\ UNCHANGED <<fields, child, exit_status, mem_lock, load_lock, frame, eax>>

\* The page of t is freed (and its fields cleared, for want of a value).
Free(t) ==
  /\ tid' = [tid EXCEPT ![t] = 0]
  /\ parent' = [parent EXCEPT ![t] = None]
  /\ killed' = [killed EXCEPT ![t] = FALSE]
  /\ child' = [child EXCEPT ![t] = <<>>]
  /\ exit_status' = [exit_status EXCEPT ![t] = 0]
  /\ child_lock' = [child_lock EXCEPT ![t] = 0]
  /\ mem_lock' = [mem_lock EXCEPT ![t] = 0]
  /\ load_lock' = [load_lock EXCEPT ![t] = 0]
  /\ success' = [success EXCEPT ![t] = FALSE]
  /\ eax' = [eax EXCEPT ![t] = 0]
  /\ Goto(t, "none")
  /\ UNCHANGED <<next_tid, new_tid, caller, wait_on, result>>

\* Mutant: a thread that exits is freed at once.
ExitDown_skip(t) == At(t, "exit_down") /\ Free(t)

\* ... and sema_down (&cur->mem_lock), after which thread_exit() has the next
\* thread free the page.
ExitDown(t) == At(t, "exit_down") /\ mem_lock[t] > 0 /\ Free(t)

-----------------------------------------------------------------------------
(***************************************************************************)
(* process_wait()                                                          *)
(***************************************************************************)

\* The system call wait (k).
Wait(t, k) ==
  /\ At(t, "user")
  /\ new_tid' = [new_tid EXCEPT ![t] = k]
  /\ caller' = [caller EXCEPT ![t] = "wait"]
  /\ Goto(t, "find")
  /\ UNCHANGED <<fields, child, exit_status, semas, success, wait_on, result, eax>>

\* Mutant: process_wait() takes any child, whatever its tid.
WaitFind_any(t) ==
  /\ At(t, "find")
  /\ \E c \in ToSet(child[t]) : wait_on' = [wait_on EXCEPT ![t] = c]
  /\ Goto(t, "wait_down")
  /\ UNCHANGED <<fields, child, exit_status, semas, success, new_tid, caller, result, eax>>

\* The list of children is searched for the tid.
WaitFind(t) ==
  LET found == {c \in ToSet(child[t]) : tid[c] = new_tid[t]} IN
  /\ At(t, "find")
  /\ \/ /\ found = {}
        /\ Return(t, -1)
        /\ new_tid' = [new_tid EXCEPT ![t] = 0]
        /\ caller' = [caller EXCEPT ![t] = "wait"]
        /\ UNCHANGED wait_on
     \/ /\ \E c \in found : wait_on' = [wait_on EXCEPT ![t] = c]
        /\ Goto(t, "wait_down")
        /\ UNCHANGED <<new_tid, caller, eax>>
  /\ UNCHANGED <<fields, child, exit_status, semas, success, result>>

\* Mutant: process_wait() does not wait.
WaitDown_skip(t) ==
  /\ At(t, "wait_down")
  /\ Goto(t, "wait_read")
  /\ UNCHANGED <<fields, child, exit_status, semas, frame, eax>>

\* sema_down (&t->child_lock)
WaitDown(t) ==
  /\ At(t, "wait_down")
  /\ child_lock[wait_on[t]] > 0
  /\ child_lock' = [child_lock EXCEPT ![wait_on[t]] = @ - 1]
  /\ Goto(t, "wait_read")
  /\ UNCHANGED <<fields, child, exit_status, mem_lock, load_lock, frame, eax>>

\* exit_status = t->exit_status;
WaitRead(t) ==
  /\ At(t, "wait_read")
  /\ result' = [result EXCEPT ![t] = exit_status[wait_on[t]]]
  /\ Goto(t, "wait_remove")
  /\ UNCHANGED <<fields, child, exit_status, semas, success, new_tid, caller, wait_on, eax>>

\* list_remove (&t->child_elem)
WaitRemove(t) ==
  /\ At(t, "wait_remove")
  /\ \E i \in DOMAIN child[t] :
       /\ child[t][i] = wait_on[t]
       /\ child' = [child EXCEPT ![t] = RemoveAt(@, i)]
  /\ Goto(t, "wait_up")
  /\ UNCHANGED <<fields, exit_status, semas, frame, eax>>

\* Mutant: the child is not told that its status has been taken.
WaitUp_silent(t) ==
  /\ At(t, "wait_up")
  /\ wait_on' = [wait_on EXCEPT ![t] = None]
  /\ result' = [result EXCEPT ![t] = 0]
  /\ new_tid' = [new_tid EXCEPT ![t] = 0]
  /\ caller' = [caller EXCEPT ![t] = "wait"]
  /\ Return(t, result[t])
  /\ UNCHANGED <<fields, child, exit_status, semas, success>>

\* sema_up (&t->mem_lock); return exit_status;
WaitUp(t) ==
  /\ At(t, "wait_up")
  /\ mem_lock' = [mem_lock EXCEPT ![wait_on[t]] = @ + 1]
  /\ wait_on' = [wait_on EXCEPT ![t] = None]
  /\ result' = [result EXCEPT ![t] = 0]
  /\ new_tid' = [new_tid EXCEPT ![t] = 0]
  /\ caller' = [caller EXCEPT ![t] = "wait"]
  /\ Return(t, result[t])
  /\ UNCHANGED <<fields, child, exit_status, child_lock, load_lock, success>>

-----------------------------------------------------------------------------
\* A step the kernel takes by itself.
Step(t) ==
  \/ ExecDown(t) \/ ExecScan(t)
  \/ Load(t) \/ LoadUp(t) \/ LoadExit(t)
  \/ WaitFind(t) \/ WaitDown(t) \/ WaitRead(t) \/ WaitRemove(t) \/ WaitUp(t)
  \/ ExitUp(t) \/ ExitDown(t)

\* What a program does.
UserStep(t) ==
  \/ ExecFail(t) \/ ExecNoPage(t)
  \/ \E c \in Thread : ExecCreate(t, c)
  \/ \E k \in 1 .. MaxTid : Wait(t, k)
  \/ \E s \in Status \union {-1} : Exit(t, s)
  \/ Kill(t)

Next == \E t \in Thread : Step(t) \/ UserStep(t)

\* A thread that can go on in the kernel does: the scheduler is fair (see
\* Alarm!ReadyRuns), and only one thread ever downs each of these semaphores.
Fairness == \A t \in Thread : WF_vars(Step(t))

Spec == Init /\ [][Next]_vars /\ Fairness

-----------------------------------------------------------------------------
(***************************************************************************)
(* Properties.                                                             *)
(***************************************************************************)

TypeOK ==
  /\ tid \in [Thread -> 0 .. MaxTid]
  /\ next_tid \in 2 .. MaxTid + 1
  /\ parent \in [Thread -> Thread \union {None}]
  /\ killed \in [Thread -> BOOLEAN]
  /\ child \in [Thread -> Seq(Thread)]
  /\ exit_status \in [Thread -> Status \union {-1, 0}]
  /\ child_lock \in [Thread -> 0 .. 1]
  /\ mem_lock \in [Thread -> 0 .. 1]
  /\ load_lock \in [Thread -> 0 .. 1]
  /\ pc \in [Thread -> Label]
  /\ success \in [Thread -> BOOLEAN]
  /\ new_tid \in [Thread -> -1 .. MaxTid]
  /\ caller \in [Thread -> {"exec", "wait"}]
  /\ wait_on \in [Thread -> Thread \union {None}]
  /\ result \in [Thread -> Status \union {-1, 0}]
  /\ eax \in [Thread -> Int]

Live(t) == tid[t] # 0

WaitLabel == {"wait_down", "wait_read", "wait_remove", "wait_up"}

\* No struct thread is freed while somebody may still follow a pointer to it:
\* the parent its list of children and `t' of process_wait(), the child
\* `parent' until it has been loaded.
NoDanglingPointer ==
  /\ \A t \in Thread : \A c \in ToSet(child[t]) : Live(c)
  /\ \A t \in Thread : pc[t] \in WaitLabel => Live(wait_on[t])
  /\ \A t \in Thread :
       pc[t] \in {"start", "load_up"} =>
         Live(parent[t]) /\ pc[parent[t]] = "load_down"

\* t is in process_execute(), after the new child has been loaded.
InExec(t) == pc[t] = "scan" \/ (caller[t] = "exec" /\ pc[t] \in {"find"} \union WaitLabel)

\* A child of t that has exited with -1, and is not the one t has just created.
OldFailure(t) == \E c \in ToSet(child[t]) : exit_status[c] = -1 /\ tid[c] # new_tid[t]

\* process_execute() returns the tid of the new child, or -1, unless an earlier
\* child has failed and nobody has waited for it: `if (t->exit_status == -1)' tells
\* the failure of one child from that of another only if there is one.  The new
\* child may have run, failed and changed its status at any point of the call.
ExecAnswers ==
  [][\A t \in Thread : InExec(t) /\ pc'[t] = "user" =>
       eax'[t] \in {new_tid[t], -1} \/ OldFailure(t)]_vars

\* process_wait() and process_exit(): a parent that waits for a child that exits gets
\* its answer, and then the child gets past mem_lock and its page is freed.
WaitEnds ==
  \A t, c \in Thread :
    pc[t] = "wait_down" /\ wait_on[t] = c /\ pc[c] = "exit_up" ~> ~ Live(c) /\ wait_on[t] # c

\* process_execute() returns once the child it has created has loaded its program.
LoadedReturns ==
  \A t \in Thread : pc[t] = "load_down" /\ new_tid[t] # TID_ERROR ~> pc[t] # "load_down"

\* The processes of this module are those of ProcessTable: wait() gives a parent the
\* status its child has passed to exit(), and 0, not -1, for a child that was killed.
ThreadOf(k) == CHOOSE t \in Thread : tid[t] = k
Known(k) == \E t \in Thread : tid[t] = k
Collected(t) == mem_lock[t] > 0
StateOf(k) ==
  IF k >= next_tid THEN "unused"
  ELSE IF ~ Known(k) THEN "gone"
  ELSE IF Collected(ThreadOf(k)) THEN "collected"
  ELSE IF pc[ThreadOf(k)] # "exit_down" THEN "running"
  ELSE IF killed[ThreadOf(k)] THEN "killed" ELSE "exited"
ChildrenOf(t) ==
  {tid[c] : c \in ToSet(child[t])} \union
  (IF pc[t] = "wait_up" THEN {tid[wait_on[t]]} ELSE {})
Table == INSTANCE ProcessTable WITH
  Tid <- 1 .. MaxTid, root <- 1, Status <- Status \union {-1, 0},
  state <- [k \in 1 .. MaxTid |-> StateOf(k)],
  children <- [k \in 1 .. MaxTid |-> IF Known(k) THEN ChildrenOf(ThreadOf(k)) ELSE {}],
  status <- [k \in 1 .. MaxTid |->
               IF StateOf(k) \in {"exited", "killed"} THEN exit_status[ThreadOf(k)] ELSE 0],
  answer <- [k \in 1 .. MaxTid |-> IF Known(k) THEN eax[ThreadOf(k)] ELSE 0]
TableSpec == Table!Init /\ [][Table!Next]_(Table!vars)

-----------------------------------------------------------------------------
(***************************************************************************)
(* What the comments say and the code does not do.                         *)
(***************************************************************************)

\* process.c 29-30: process_execute() "returns the new process's thread id, or
\* TID_ERROR if the thread cannot be created."  It returns in both cases.
ExecReturns == \A t \in Thread : pc[t] = "load_down" ~> pc[t] # "load_down"
=============================================================================
