------------------------------- MODULE PriSync -------------------------------
(***************************************************************************)
(* project2: the priority scheduler (thread.c), priority donation, and     *)
(* semaphores, locks and condition variables (synch.c).                    *)
(*                                                                         *)
(* As in Alarm, there is one CPU, a region with interrupts off is one      *)
(* action, and each step between two interrupts-on accesses to shared      *)
(* state is an action of its own; the list functions are taken to be       *)
(* atomic.  Where the code would fault or fail an assertion, the kernel    *)
(* panics and nothing moves any more.                                      *)
(*                                                                         *)
(* Nothing in the code keeps a donation_elem from being put on a second    *)
(* list, or its page from being freed while it is on one.  The kernel goes *)
(* on, with donations lists that are torn: a walk along one of them may    *)
(* then come to any thread, to memory that faults, or to no end.           *)
(*                                                                         *)
(* tids, the ticks sleepers asked for and the order of sleeping_list are   *)
(* left to Alarm: here any sleepers may be due at any tick, in any order.  *)
(* The loop of remove_lock() is one action: only its caller takes elements *)
(* off the list, and one that comes in is either passed or not.            *)
(***************************************************************************)
EXTENDS Integers, Sequences, FiniteSets, SequencesExt, PriList

CONSTANTS
  Thread,        \* the pages a struct thread may live in
  Started,       \* those that hold a thread at first
  idle,          \* the idle thread
  None,          \* NULL
  Page,          \* the address of each page, up to order
  InitPriority,  \* the priority each of Started was created with
  Priorities,    \* arguments of thread_create() and thread_set_priority()
  TIME_SLICE,
  Lock,
  tid_lock,      \* the lock of allocate_tid()
  LockRank,      \* a thread acquires locks in increasing rank only
  Sema,          \* semaphores other than those in locks
  DeviceSema,    \* those an interrupt handler ups
  MaxValue,      \* bound: nobody ups a semaphore beyond this value
  Cond,
  LockOf,        \* the lock a condition variable is used with
  Calls          \* bound: what each thread of this instance calls

ASSUME PriThreadAssumption ==
  /\ Started \subseteq Thread
  /\ IsFiniteSet(Started)
  /\ idle \in Thread \ Started
  /\ None \notin Thread \union Lock \union Sema \union Cond \union {"intr_context"}
  /\ Page \in [Thread -> Nat]
  /\ \A t, u \in Thread : Page[t] = Page[u] => t = u

ASSUME PriorityAssumption ==
  /\ InitPriority \in [Started -> Nat]
  /\ Priorities \subseteq Nat
  /\ TIME_SLICE \in Nat \ {0}
  /\ MaxValue \in Nat

CallName == {"acquire", "release", "try", "down", "up", "wait", "signal", "broadcast",
             "set_priority", "create", "sleep", "yield", "exit"}

ASSUME SyncAssumption ==
  /\ tid_lock \in Lock
  /\ LockRank \in [Lock -> Nat]
  /\ DeviceSema \subseteq Sema
  /\ LockOf \in [Cond -> Lock]
  /\ Calls \in [Thread -> SUBSET CallName]
  /\ Thread \intersect (Lock \union Sema) = {}
  /\ Lock \intersect Sema = {}
  /\ Cond \intersect (Lock \union Sema) = {}

VARIABLES
  current,        \* the thread on the CPU
  status,         \* t->status, "FREE" for a page that holds no thread
  ready_list,
  sleepers,       \* the threads on sleeping_list
  thread_ticks,
  in_timer,       \* the timer interrupt handler runs
  priority,       \* t->priority
  init_priority,  \* t->init_priority
  waiting_lock,   \* t->waiting_lock
  donations,      \* t->donations, all empty once they are torn ...
  torn,           \* ... which they are for good
  value,          \* semaphore values ...
  waiters,        \* ... and wait lists
  holder,         \* lock->holder
  cond_waiters,   \* cond->waiters, by the thread whose frame holds the element
  pc,             \* where each thread stands
  op,             \* the lock, semaphore or condition it operates on
  ret,            \* where it goes on when the call is over
  lock_holder,    \* the pointer lock_acquire() and donate_priority() work with
  child,          \* `t' in the stack frame of thread_create() ...
  arg,            \* ... and its argument `priority'
  high,           \* `high_d_priority' in that of reset_priority()
  panic           \* why the kernel has stopped, None while it runs

schedVars == <<current, status, ready_list, thread_ticks>>
priVars == <<priority, init_priority>>
donVars == <<waiting_lock, donations, torn>>
semaVars == <<value, waiters>>
localVars == <<child, arg, high>>
callVars == <<op, ret, lock_holder, localVars>>
vars == <<schedVars, sleepers, in_timer, priVars, donVars, semaVars, holder,
          cond_waiters, pc, callVars, panic>>

\* Every semaphore: those inside locks, those in the frame of a thread that
\* waits for a condition, and the others.
AnySema == Lock \union Thread \union Sema

Status == {"FREE", "RUNNING", "READY", "BLOCKED", "DYING"}

\* A thread that resumes inside sema_down() runs with interrupts off.
IntrOff == {"woken", "cw_woken"}
AcquireLabel ==
  {"acq_test", "acq_read", "acq_insert", "donate", "write", "chain", "chain_read"}
Label == IntrOff \union AcquireLabel \union
  {"none", "run", "down", "own", "try_own", "remove", "reset1", "reset2", "reset3",
   "reset4", "up", "steal", "cw_down", "cw_lock", "broadcast", "create_release",
   "create_unblock", "create_yield", "idle"}

-----------------------------------------------------------------------------
(***************************************************************************)
(* The scheduler.                                                          *)
(***************************************************************************)

\* Thread t executes its own code.
Running(t) == panic = None /\ current = t /\ ~ in_timer

At(t, l) == Running(t) /\ pc[t] = l

Goto(t, l) == pc' = [pc EXCEPT ![t] = l]

\* t's call is over.  cond_wait(), which called lock_release(), still needs its lock.
Return(t) ==
  /\ Goto(t, ret[t])
  /\ ret' = [ret EXCEPT ![t] = "run"]
  /\ op' = [op EXCEPT ![t] = IF ret[t] = "cw_down" THEN @ ELSE None]

\* A NULL or dangling pointer is followed, or an assertion fails.
Panic(why) ==
  /\ panic' = why
  /\ UNCHANGED <<schedVars, sleepers, in_timer, priVars, donVars, semaVars, holder,
                 cond_waiters, pc, callVars>>

\* thread_schedule_tail(): a dying thread's page is freed by its successor.
Reaped(st) == [t \in Thread |-> IF st[t] = "DYING" THEN "FREE" ELSE st[t]]

SwitchTo(next, st) ==
  /\ current' = next
  /\ status' = [Reaped(st) EXCEPT ![next] = "RUNNING"]
  /\ thread_ticks' = 0

\* Mutant: no list_sort().
Schedule_unsorted(rl, st) ==
  \/ rl = <<>> /\ ready_list' = rl /\ SwitchTo(idle, st)
  \/ rl # <<>> /\ ready_list' = Tail(rl) /\ SwitchTo(Head(rl), st)

\* schedule(): next_thread_to_run() sorts the run queue by priority first.
Schedule(rl, st) ==
  \/ rl = <<>> /\ ready_list' = rl /\ SwitchTo(idle, st)
  \/ \E s \in Sorted(rl, priority) :
       /\ s # <<>>
       /\ ready_list' = Tail(s)
       /\ SwitchTo(Head(s), st)

\* thread_block() of the running thread t.
thread_block(t) == Schedule(ready_list, [status EXCEPT ![t] = "BLOCKED"])

\* thread_yield() of the running thread t, called with run queue rl and status st.
thread_yield(t, rl, st) ==
  \/ t = idle /\ Schedule(rl, [st EXCEPT ![t] = "READY"])
  \/ /\ t # idle
     /\ \E r \in Inserted(rl, t, priority) : Schedule(r, [st EXCEPT ![t] = "READY"])

\* The test of steal_running_by_priority(): it looks at the front of rl only.
Stolen(rl) == rl # <<>> /\ priority[Head(rl)] > priority[current]

\* Mutant: nobody is preempted.
steal_never(rl, st, intr) ==
  /\ ready_list' = rl
  /\ status' = st
  /\ UNCHANGED <<current, thread_ticks, panic>>

\* steal_running_by_priority(), called with run queue rl and status st.  In an
\* interrupt handler (intr) thread_yield()'s ASSERT (!intr_context ()) fails.
steal(rl, st, intr) ==
  \/ Stolen(rl) /\ ~ intr /\ thread_yield(current, rl, st) /\ UNCHANGED panic
  \/ /\ ~ Stolen(rl) \/ intr
     /\ ready_list' = rl
     /\ status' = st
     /\ panic' = IF Stolen(rl) THEN "intr_context" ELSE panic
     /\ UNCHANGED <<current, thread_ticks>>

-----------------------------------------------------------------------------
(***************************************************************************)
(* Semaphores.                                                             *)
(***************************************************************************)

\* Mutants: no test at all; `if' instead of `while', so a thread that has been
\* woken does not look at the value again.
sema_down_unguarded(t, s, start, again, done) ==
  /\ Running(t)
  /\ pc[t] \in {start, again}
  /\ value' = [value EXCEPT ![s] = @ - 1]
  /\ Goto(t, done)
  /\ UNCHANGED <<schedVars, waiters, sleepers, in_timer, priVars, donVars, holder,
                 cond_waiters, callVars, panic>>
sema_down_if(t, s, start, again, done) ==
  /\ Running(t)
  /\ pc[t] \in {start, again}
  /\ \/ /\ value[s] > 0 \/ pc[t] = again
        /\ value' = [value EXCEPT ![s] = @ - 1]
        /\ Goto(t, done)
        /\ UNCHANGED <<schedVars, waiters>>
     \/ /\ value[s] = 0 /\ pc[t] = start
        /\ \E w \in Inserted(waiters[s], t, priority) :
             waiters' = [waiters EXCEPT ![s] = w]
        /\ Goto(t, again)
        /\ thread_block(t)
        /\ UNCHANGED value
  /\ UNCHANGED <<sleepers, in_timer, priVars, donVars, holder, cond_waiters,
                 callVars, panic>>

\* sema_down(s) by t: called at label start, it resumes at again.
sema_down(t, s, start, again, done) ==
  /\ Running(t)
  /\ pc[t] \in {start, again}
  /\ \/ /\ value[s] > 0
        /\ value' = [value EXCEPT ![s] = @ - 1]
        /\ Goto(t, done)
        /\ UNCHANGED <<schedVars, waiters>>
     \/ /\ value[s] = 0
        /\ \E w \in Inserted(waiters[s], t, priority) :
             waiters' = [waiters EXCEPT ![s] = w]
        /\ Goto(t, again)
        /\ thread_block(t)
        /\ UNCHANGED value
  /\ UNCHANGED <<sleepers, in_timer, priVars, donVars, holder, cond_waiters,
                 callVars, panic>>

\* Mutants: nobody is woken; list_begin() instead of list_pop_front().
sema_up_silent(s, intr) ==
  /\ value' = [value EXCEPT ![s] = @ + 1]
  /\ UNCHANGED waiters
  /\ steal(ready_list, status, intr)
sema_up_keep(s, intr) ==
  /\ value' = [value EXCEPT ![s] = @ + 1]
  /\ \/ waiters[s] = <<>> /\ UNCHANGED waiters /\ steal(ready_list, status, intr)
     \/ \E w \in Sorted(waiters[s], priority) :
          /\ w # <<>>
          /\ waiters' = [waiters EXCEPT ![s] = w]
          /\ \E rl \in Inserted(ready_list, Head(w), priority) :
               steal(rl, [status EXCEPT ![Head(w)] = "READY"], intr)

\* sema_up(s): the wait list is sorted, its first thread unblocked.
sema_up(s, intr) ==
  /\ value' = [value EXCEPT ![s] = @ + 1]
  /\ \/ waiters[s] = <<>> /\ UNCHANGED waiters /\ steal(ready_list, status, intr)
     \/ \E w \in Sorted(waiters[s], priority) :
          /\ w # <<>>
          /\ waiters' = [waiters EXCEPT ![s] = Tail(w)]
          /\ \E rl \in Inserted(ready_list, Head(w), priority) :
               steal(rl, [status EXCEPT ![Head(w)] = "READY"], intr)

\* A call of sema_down(s), which begins with interrupts on.
SemaDownCall(t, s) ==
  /\ At(t, "run")
  /\ op' = [op EXCEPT ![t] = s]
  /\ Goto(t, "down")
  /\ UNCHANGED <<schedVars, sleepers, in_timer, priVars, donVars, semaVars, holder,
                 cond_waiters, ret, lock_holder, localVars, panic>>

\* Where a thread that has downed the semaphore op[t] goes on: lock_acquire()
\* has more to do.
AfterDown(t) == IF op[t] \in Lock THEN "own" ELSE "run"

SemaDown(t) == sema_down(t, op[t], "down", "woken", AfterDown(t))

SemaUpCall(t, s) ==
  /\ At(t, "run")
  /\ value[s] < MaxValue
  /\ sema_up(s, FALSE)
  /\ UNCHANGED <<sleepers, in_timer, priVars, donVars, holder, cond_waiters, pc,
                 callVars>>

\* sema_up (&lock->semaphore), at the end of lock_release().
SemaUp(t) ==
  /\ At(t, "up")
  /\ sema_up(op[t], FALSE)
  /\ Return(t)
  /\ UNCHANGED <<sleepers, in_timer, priVars, donVars, holder, cond_waiters,
                 lock_holder, localVars>>

-----------------------------------------------------------------------------
(***************************************************************************)
(* Locks and priority donation.                                            *)
(***************************************************************************)

\* What lock_acquire() and lock_release() leave alone until they reach the
\* semaphore.
lockFrame == <<schedVars, sleepers, in_timer, semaVars, cond_waiters, localVars>>

Holds(t) == {l \in Lock : holder[l] = t}

\* Threads acquire locks in one order, and never one they hold.
MayAcquire(t, l) == \A k \in Holds(t) : LockRank[k] < LockRank[l]

LockAcquire(t, l) ==
  /\ At(t, "run")
  /\ l # tid_lock
  /\ MayAcquire(t, l)
  /\ op' = [op EXCEPT ![t] = l]
  /\ ret' = [ret EXCEPT ![t] = "run"]
  /\ Goto(t, "acq_test")
  /\ UNCHANGED <<lockFrame, priVars, donVars, holder, lock_holder, panic>>

\* if (lock->holder != NULL) waiting_lock = lock;
AcqTest(t) ==
  /\ At(t, "acq_test")
  /\ \/ /\ holder[op[t]] = None
        /\ Goto(t, "down")
        /\ UNCHANGED waiting_lock
     \/ /\ holder[op[t]] # None
        /\ waiting_lock' = [waiting_lock EXCEPT ![t] = op[t]]
        /\ Goto(t, "acq_read")
  /\ UNCHANGED <<lockFrame, priVars, donations, torn, holder, op, ret, lock_holder, panic>>

\* The argument &lock->holder->donations: lock->holder is read once more.
AcqRead(t) ==
  /\ At(t, "acq_read")
  /\ lock_holder' = [lock_holder EXCEPT ![t] = holder[op[t]]]
  /\ Goto(t, "acq_insert")
  /\ UNCHANGED <<lockFrame, priVars, donVars, holder, op, ret, panic>>

\* A struct thread that is there to be read and written.
Live(t) == t # None /\ status[t] # "FREE"

\* The list of a live thread holds t's donation_elem.
Donates(t) == \E u \in Thread : Live(u) /\ t \in ToSet(donations[u])

\* From now on no donations list can be relied on ...
Tear ==
  /\ torn' = TRUE
  /\ donations' = [t \in Thread |-> <<>>]

\* ... and whoever walks along one may fault or fail an assertion of list.c.
Lost == torn /\ Panic("donations torn")

\* compare() takes a donation_elem for an elem: what it reads as a priority is
\* the `next' of the donor's own donations list, an address in the donor's page
\* if that list is empty and else in the page of the first thread on it.
DonorKey ==
  [t \in Thread |-> IF donations[t] = <<>> THEN 2 * Page[t]
                                           ELSE 2 * Page[Head(donations[t])] + 1]

\* list_insert_ordered (&lock->holder->donations, ...) into the list of a live
\* holder.  An element that is on a list already connects that list with this one.
AcqInsert(t) ==
  LET h == lock_holder[t] IN
  /\ At(t, "acq_insert")
  /\ \/ /\ Live(h)
        /\ \/ /\ ~ torn /\ ~ Donates(t)
              /\ \E d \in Inserted(donations[h], t, DonorKey) :
                   donations' = [donations EXCEPT ![h] = d]
              /\ UNCHANGED torn
           \/ (torn \/ Donates(t)) /\ Tear
        /\ Goto(t, "donate")
        /\ UNCHANGED <<lockFrame, priVars, waiting_lock, holder, op, ret, lock_holder,
                       panic>>
     \/ Live(h) /\ Lost
     \/ ~ Live(h) /\ Panic("holder gone")

\* donate_priority(): lock_holder = w->holder, for the lock w points at.
ReadHolder(t, w) ==
  \/ /\ w # None
     /\ lock_holder' = [lock_holder EXCEPT ![t] = holder[w]]
     /\ Goto(t, "write")
     /\ UNCHANGED <<lockFrame, priVars, donVars, holder, op, ret, panic>>
  \/ w = None /\ Panic("waiting_lock gone")

Donate(t) == At(t, "donate") /\ ReadHolder(t, waiting_lock[t])

\* lock_holder->priority = cur->priority;
DonateWrite(t) ==
  LET h == lock_holder[t] IN
  /\ At(t, "write")
  /\ \/ /\ Live(h)
        /\ priority' = [priority EXCEPT ![h] = priority[t]]
        /\ Goto(t, "chain")
        /\ UNCHANGED <<lockFrame, init_priority, donVars, holder, op, ret, lock_holder,
                       panic>>
     \/ ~ Live(h) /\ Panic("holder gone")

\* The test of the loop along the chain of holders that wait themselves ...
DonateChain(t) ==
  LET h == lock_holder[t] IN
  /\ At(t, "chain")
  /\ \/ /\ Live(h)
        /\ \/ /\ waiting_lock[h] = None
              /\ lock_holder' = [lock_holder EXCEPT ![t] = None]
              /\ Goto(t, "down")
           \/ /\ waiting_lock[h] # None
              /\ Goto(t, "chain_read")
              /\ UNCHANGED lock_holder
        /\ UNCHANGED <<lockFrame, priVars, donVars, holder, op, ret, panic>>
     \/ ~ Live(h) /\ Panic("holder gone")

\* ... and its body, up to the assignment of the priority.
DonateNext(t) ==
  LET h == lock_holder[t] IN
  /\ At(t, "chain_read")
  /\ \/ Live(h) /\ ReadHolder(t, waiting_lock[h])
     \/ ~ Live(h) /\ Panic("holder gone")

\* waiting_lock = NULL; lock->holder = thread_current ();
Own(t) ==
  /\ At(t, "own")
  /\ waiting_lock' = [waiting_lock EXCEPT ![t] = None]
  /\ holder' = [holder EXCEPT ![op[t]] = t]
  /\ Return(t)
  /\ UNCHANGED <<lockFrame, priVars, donations, torn, lock_holder, panic>>

\* lock_try_acquire(): sema_try_down() ...
TryAcquire(t, l) ==
  /\ At(t, "run")
  /\ l \notin Holds(t) \union {tid_lock}
  /\ value[l] > 0
  /\ value' = [value EXCEPT ![l] = @ - 1]
  /\ op' = [op EXCEPT ![t] = l]
  /\ Goto(t, "try_own")
  /\ UNCHANGED <<schedVars, sleepers, in_timer, priVars, donVars, waiters, holder,
                 cond_waiters, ret, lock_holder, localVars, panic>>

\* ... and lock->holder = thread_current ().
TryOwn(t) ==
  /\ At(t, "try_own")
  /\ holder' = [holder EXCEPT ![op[t]] = t]
  /\ Return(t)
  /\ UNCHANGED <<lockFrame, priVars, donVars, lock_holder, panic>>

\* lock_release(l), to go on at label next: lock->holder = NULL;
lock_release(t, l, next) ==
  /\ holder' = [holder EXCEPT ![l] = None]
  /\ op' = [op EXCEPT ![t] = l]
  /\ ret' = [ret EXCEPT ![t] = next]
  /\ Goto(t, "remove")
  /\ UNCHANGED <<schedVars, sleepers, in_timer, semaVars, priVars, donVars,
                 lock_holder, localVars, panic>>

LockRelease(t, l) ==
  /\ At(t, "run")
  /\ l \in Holds(t)
  /\ lock_release(t, l, "run")
  /\ UNCHANGED cond_waiters

\* The donors that remove_lock() finds waiting for the lock; a torn list may lead to
\* any of the threads that wait for it.
Found(t) ==
  IF torn THEN SUBSET {u \in Thread : waiting_lock[u] = op[t]}
          ELSE {{u \in ToSet(donations[t]) : waiting_lock[u] = op[t]}}

\* remove_lock(): they are dropped, and no longer count as waiting for it.
RemoveLock(t) ==
  /\ At(t, "remove")
  /\ \/ /\ \E gone \in Found(t) :
             /\ \E d \in Without(donations[t], gone) :
                  donations' = [donations EXCEPT ![t] = d]
             /\ waiting_lock' =
                  [u \in Thread |-> IF u \in gone THEN None ELSE waiting_lock[u]]
        /\ Goto(t, "reset1")
        /\ UNCHANGED <<lockFrame, priVars, torn, holder, op, ret, lock_holder, panic>>
     \/ Lost

\* reset_priority(): priority = init_priority; ...
Reset1(t) ==
  /\ At(t, "reset1")
  /\ priority' = [priority EXCEPT ![t] = init_priority[t]]
  /\ Goto(t, "reset2")
  /\ UNCHANGED <<lockFrame, init_priority, donVars, holder, op, ret, lock_holder, panic>>

\* Where reset_priority()'s caller goes on: thread_set_priority() has no lock.
AfterReset(t) == IF op[t] = None THEN "steal" ELSE "up"

\* ... the donations are sorted ...
Reset2(t) ==
  /\ At(t, "reset2")
  /\ \/ /\ \/ /\ donations[t] = <<>>
              /\ Goto(t, AfterReset(t))
              /\ UNCHANGED donations
           \/ /\ torn
              /\ Goto(t, "reset3")
              /\ UNCHANGED donations
           \/ \E d \in Sorted(donations[t], DonorKey) :
                /\ d # <<>>
                /\ donations' = [donations EXCEPT ![t] = d]
                /\ Goto(t, "reset3")
        /\ UNCHANGED <<lockFrame, priVars, waiting_lock, torn, holder, op, ret,
                       lock_holder, panic>>
     \/ Lost

\* The priority of the first donor.  A torn list may begin with any thread, or with the
\* end of another list, where the upper half of a thread's sleeping_ticks is read.
FirstPriority(t) ==
  IF torn THEN {priority[u] : u \in Thread} \union {0} ELSE {priority[Head(donations[t])]}

\* ... the first one's priority is read and compared ...
Reset3(t) ==
  /\ At(t, "reset3")
  /\ \/ /\ \E p \in FirstPriority(t) :
             \/ /\ priority[t] < p
                /\ high' = [high EXCEPT ![t] = p]
                /\ Goto(t, "reset4")
             \/ /\ priority[t] >= p
                /\ Goto(t, AfterReset(t))
                /\ UNCHANGED high
        /\ UNCHANGED <<schedVars, sleepers, in_timer, semaVars, cond_waiters, priVars,
                       donVars, holder, op, ret, lock_holder, child, arg, panic>>
     \/ Lost

\* ... and taken over if it is greater.
Reset4(t) ==
  /\ At(t, "reset4")
  /\ priority' = [priority EXCEPT ![t] = high[t]]
  /\ high' = [high EXCEPT ![t] = 0]
  /\ Goto(t, AfterReset(t))
  /\ UNCHANGED <<schedVars, sleepers, in_timer, semaVars, cond_waiters, init_priority,
                 donVars, holder, op, ret, lock_holder, child, arg, panic>>

-----------------------------------------------------------------------------
(***************************************************************************)
(* Condition variables.                                                    *)
(***************************************************************************)

\* compare_sema() takes the first thread waiting on an element's semaphore.  Of
\* an empty list it reads the list's tail as a thread, whose priority field then
\* is the semaphore's value.
CondKey ==
  [t \in Thread |-> IF waiters[t] = <<>> THEN value[t] ELSE priority[Head(waiters[t])]]

\* cond_wait(): a semaphore of its own, queued by compare_sema(), and
\* lock_release().
CondWait(t, c) ==
  /\ At(t, "run")
  /\ LockOf[c] \in Holds(t)
  /\ \E w \in Inserted(cond_waiters[c], t, [CondKey EXCEPT ![t] = 0]) :
       cond_waiters' = [cond_waiters EXCEPT ![c] = w]
  /\ lock_release(t, LockOf[c], "cw_down")

\* cond_wait(): sema_down (&waiter.semaphore), then lock_acquire (lock).
CondDown(t) == sema_down(t, t, "cw_down", "cw_woken", "cw_lock")

CondLock(t) ==
  /\ At(t, "cw_lock")
  /\ ret' = [ret EXCEPT ![t] = "run"]
  /\ Goto(t, "acq_test")
  /\ UNCHANGED <<lockFrame, priVars, donVars, holder, op, lock_holder, panic>>

\* Mutant: list_begin() instead of list_pop_front().
cond_signal_keep(t, c) ==
  /\ LockOf[c] \in Holds(t)
  /\ \E w \in Sorted(cond_waiters[c], CondKey) :
       /\ w # <<>>
       /\ cond_waiters' = [cond_waiters EXCEPT ![c] = w]
       /\ sema_up(Head(w), FALSE)
  /\ UNCHANGED <<sleepers, in_timer, priVars, donVars, holder, ret, lock_holder,
                 localVars>>

\* cond_signal(c): the semaphore first in order is upped.
cond_signal(t, c) ==
  /\ LockOf[c] \in Holds(t)
  /\ \E w \in Sorted(cond_waiters[c], CondKey) :
       /\ w # <<>>
       /\ cond_waiters' = [cond_waiters EXCEPT ![c] = Tail(w)]
       /\ sema_up(Head(w), FALSE)
  /\ UNCHANGED <<sleepers, in_timer, priVars, donVars, holder, ret, lock_holder,
                 localVars>>

CondSignal(t, c) ==
  /\ At(t, "run")
  /\ cond_signal(t, c)
  /\ UNCHANGED <<pc, op>>

\* cond_broadcast(): signals until nobody waits.
CondBroadcast(t, c) ==
  /\ At(t, "run") \/ (At(t, "broadcast") /\ op[t] = c)
  /\ op' = [op EXCEPT ![t] = c]
  /\ \/ cond_signal(t, c) /\ Goto(t, "broadcast")
     \/ /\ cond_waiters[c] = <<>> /\ pc[t] = "broadcast"
        /\ Goto(t, "run")
        /\ UNCHANGED <<lockFrame, priVars, donVars, holder, ret, lock_holder, panic>>

-----------------------------------------------------------------------------
(***************************************************************************)
(* Threads: priorities, sleep, yield, exit, creation.                      *)
(***************************************************************************)

\* thread_set_priority(p), up to the call of reset_priority().
SetPriority(t, p) ==
  /\ At(t, "run")
  /\ priority' = [priority EXCEPT ![t] = p]
  /\ init_priority' = [init_priority EXCEPT ![t] = p]
  /\ op' = [op EXCEPT ![t] = None]
  /\ Goto(t, "reset1")
  /\ UNCHANGED <<lockFrame, donVars, holder, ret, lock_holder, panic>>

\* ... and the call of steal_running_by_priority() at its end.
Steal(t) ==
  /\ At(t, "steal")
  /\ steal(ready_list, status, FALSE)
  /\ Goto(t, "run")
  /\ UNCHANGED <<sleepers, in_timer, priVars, donVars, semaVars, holder, cond_waiters,
                 callVars>>

\* timer_sleep(): thread_toSleep() and thread_block().
Sleep(t) ==
  /\ At(t, "run")
  /\ sleepers' = sleepers \union {t}
  /\ thread_block(t)
  /\ UNCHANGED <<in_timer, priVars, donVars, semaVars, holder, cond_waiters, pc, callVars,
                 panic>>

Yield(t) ==
  /\ At(t, "run")
  /\ thread_yield(t, ready_list, status)
  /\ UNCHANGED <<sleepers, in_timer, priVars, donVars, semaVars, holder, cond_waiters,
                 pc, callVars, panic>>

\* thread_exit() of a thread that has released its locks.  The page is freed with its
\* donation_elem, whether or not a donations list still runs through it.
Exit(t) ==
  /\ At(t, "run")
  /\ Holds(t) = {}
  /\ Schedule(ready_list, [status EXCEPT ![t] = "DYING"])
  /\ Goto(t, "none")
  /\ IF Donates(t) THEN Tear ELSE UNCHANGED <<donations, torn>>
  /\ UNCHANGED <<sleepers, in_timer, priVars, waiting_lock, semaVars, holder, cond_waiters,
                 callVars, panic>>

\* thread_create(): init_thread(), then allocate_tid() begins with its lock.
CreateInit(t, p) ==
  /\ At(t, "run")
  /\ MayAcquire(t, tid_lock)
  /\ \E c \in Thread :
       /\ status[c] = "FREE"
       /\ status' = [status EXCEPT ![c] = "BLOCKED"]
       /\ priority' = [priority EXCEPT ![c] = p]
       /\ init_priority' = [init_priority EXCEPT ![c] = p]
       /\ waiting_lock' = [waiting_lock EXCEPT ![c] = None]
       /\ donations' = [donations EXCEPT ![c] = <<>>]
       /\ child' = [child EXCEPT ![t] = c]
  /\ arg' = [arg EXCEPT ![t] = p]
  /\ op' = [op EXCEPT ![t] = tid_lock]
  /\ ret' = [ret EXCEPT ![t] = "create_release"]
  /\ Goto(t, "acq_test")
  /\ UNCHANGED <<current, ready_list, thread_ticks, sleepers, in_timer, semaVars,
                 torn, holder, cond_waiters, lock_holder, high, panic>>

CreateRelease(t) ==
  /\ At(t, "create_release")
  /\ lock_release(t, tid_lock, "create_unblock")
  /\ UNCHANGED cond_waiters

\* thread_create(): thread_unblock (t) ...
CreateUnblock(t) ==
  /\ At(t, "create_unblock")
  /\ ready_list' \in Inserted(ready_list, child[t], priority)
  /\ status' = [status EXCEPT ![child[t]] = "READY"]
  /\ pc' = [pc EXCEPT ![t] = "create_yield", ![child[t]] = "run"]
  /\ child' = [child EXCEPT ![t] = None]
  /\ UNCHANGED <<current, thread_ticks, sleepers, in_timer, priVars, donVars, semaVars,
                 holder, cond_waiters, op, ret, lock_holder, arg, high, panic>>

\* ... and thread_yield() if the new thread's priority is the greater one.
CreateYield(t) ==
  /\ At(t, "create_yield")
  /\ IF arg[t] > priority[t] THEN thread_yield(t, ready_list, status)
     ELSE UNCHANGED schedVars
  /\ arg' = [arg EXCEPT ![t] = 0]
  /\ Goto(t, "run")
  /\ UNCHANGED <<sleepers, in_timer, priVars, donVars, semaVars, holder, cond_waiters,
                 op, ret, lock_holder, child, high, panic>>

\* The idle thread blocks again when an interrupt has woken it.
IdleBlock ==
  /\ Running(idle)
  /\ thread_block(idle)
  /\ UNCHANGED <<sleepers, in_timer, priVars, donVars, semaVars, holder, cond_waiters,
                 pc, callVars, panic>>

-----------------------------------------------------------------------------
(***************************************************************************)
(* Interrupts.                                                             *)
(***************************************************************************)

InterruptsOn == panic = None /\ ~ in_timer /\ pc[current] \notin IntrOff

\* timer_interrupt(): thread_tick(), and thread_awake() begins its walk.
TimerInterrupt ==
  /\ InterruptsOn
  /\ in_timer' = TRUE
  /\ thread_ticks' = thread_ticks + 1
  /\ UNCHANGED <<current, status, ready_list, sleepers, priVars, donVars, semaVars,
                 holder, cond_waiters, pc, callVars, panic>>

\* thread_awake() comes to a thread that is due.
Awake(t) ==
  /\ in_timer
  /\ sleepers' = sleepers \ {t}
  /\ ready_list' \in Inserted(ready_list, t, priority)
  /\ status' = [status EXCEPT ![t] = "READY"]
  /\ UNCHANGED <<current, thread_ticks, in_timer, priVars, donVars, semaVars, holder,
                 cond_waiters, pc, callVars, panic>>

\* The handler returns, through thread_yield() if the time slice is used up.
IntrReturn ==
  /\ in_timer
  /\ in_timer' = FALSE
  /\ IF thread_ticks >= TIME_SLICE THEN thread_yield(current, ready_list, status)
     ELSE UNCHANGED schedVars
  /\ UNCHANGED <<sleepers, priVars, donVars, semaVars, holder, cond_waiters, pc,
                 callVars, panic>>

\* A device's interrupt handler ups the semaphore its driver waits for.
DeviceInterrupt(s) ==
  /\ InterruptsOn
  /\ value[s] < MaxValue
  /\ sema_up(s, TRUE)
  /\ UNCHANGED <<sleepers, in_timer, priVars, donVars, holder, cond_waiters, pc,
                 callVars>>

Interrupt ==
  \/ TimerInterrupt
  \/ \E t \in sleepers : Awake(t)
  \/ IntrReturn
  \/ \E s \in DeviceSema : DeviceInterrupt(s)

-----------------------------------------------------------------------------
\* A step of t inside a call.
InCall(t) ==
  \/ SemaDown(t) \/ SemaUp(t)
  \/ AcqTest(t) \/ AcqRead(t) \/ AcqInsert(t) \/ Own(t) \/ TryOwn(t)
  \/ Donate(t) \/ DonateWrite(t) \/ DonateChain(t) \/ DonateNext(t)
  \/ RemoveLock(t) \/ Reset1(t) \/ Reset2(t) \/ Reset3(t) \/ Reset4(t)
  \/ CondDown(t) \/ CondLock(t)
  \/ Steal(t)
  \/ CreateRelease(t) \/ CreateUnblock(t) \/ CreateYield(t)

\* A call t may make.
Call(t) ==
  \/ \E l \in Lock : \/ "acquire" \in Calls[t] /\ LockAcquire(t, l)
                     \/ "release" \in Calls[t] /\ LockRelease(t, l)
                     \/ "try" \in Calls[t] /\ TryAcquire(t, l)
  \/ \E s \in Sema : \/ "down" \in Calls[t] /\ SemaDownCall(t, s)
                     \/ "up" \in Calls[t] /\ SemaUpCall(t, s)
  \/ \E c \in Cond : \/ "wait" \in Calls[t] /\ CondWait(t, c)
                     \/ "signal" \in Calls[t] /\ CondSignal(t, c)
                     \/ "broadcast" \in Calls[t] /\ CondBroadcast(t, c)
  \/ \E p \in Priorities : \/ "set_priority" \in Calls[t] /\ SetPriority(t, p)
                           \/ "create" \in Calls[t] /\ CreateInit(t, p)
  \/ "sleep" \in Calls[t] /\ Sleep(t)
  \/ "yield" \in Calls[t] /\ Yield(t)
  \/ "exit" \in Calls[t] /\ Exit(t)

\* All threads have called timer_sleep() and the idle thread runs.
Init ==
  /\ current = idle
  /\ status = [t \in Thread |-> IF t = idle THEN "RUNNING"
                                ELSE IF t \in Started THEN "BLOCKED" ELSE "FREE"]
  /\ ready_list = <<>>
  /\ sleepers = Started
  /\ thread_ticks = 0
  /\ in_timer = FALSE
  /\ priority = [t \in Thread |-> IF t \in Started THEN InitPriority[t] ELSE 0]
  /\ init_priority = priority
  /\ waiting_lock = [t \in Thread |-> None]
  /\ donations = [t \in Thread |-> <<>>]
  /\ torn = FALSE
  /\ value = [s \in AnySema |-> IF s \in Lock THEN 1 ELSE 0]
  /\ waiters = [s \in AnySema |-> <<>>]
  /\ holder = [l \in Lock |-> None]
  /\ cond_waiters = [c \in Cond |-> <<>>]
  /\ pc = [t \in Thread |-> IF t = idle THEN "idle"
                            ELSE IF t \in Started THEN "run" ELSE "none"]
  /\ op = [t \in Thread |-> None]
  /\ ret = [t \in Thread |-> "run"]
  /\ lock_holder = [t \in Thread |-> None]
  /\ child = [t \in Thread |-> None]
  /\ arg = [t \in Thread |-> 0]
  /\ high = [t \in Thread |-> 0]
  /\ panic = None

Next ==
  \/ \E t \in Thread : InCall(t) \/ Call(t)
  \/ IdleBlock
  \/ Interrupt

Spec == Init /\ [][Next]_vars

-----------------------------------------------------------------------------
(***************************************************************************)
(* Properties.                                                             *)
(***************************************************************************)

TypeOK ==
  /\ current \in Thread
  /\ status \in [Thread -> Status]
  /\ ready_list \in Seq(Thread)
  /\ sleepers \subseteq Thread
  /\ thread_ticks \in Nat
  /\ in_timer \in BOOLEAN
  /\ priority \in [Thread -> Nat]
  /\ init_priority \in [Thread -> Nat]
  /\ waiting_lock \in [Thread -> Lock \union {None}]
  /\ donations \in [Thread -> Seq(Thread)]
  /\ torn \in BOOLEAN
  /\ value \in [AnySema -> Nat]
  /\ waiters \in [AnySema -> Seq(Thread)]
  /\ holder \in [Lock -> Thread \union {None}]
  /\ cond_waiters \in [Cond -> Seq(Thread)]
  /\ pc \in [Thread -> Label]
  /\ op \in [Thread -> Lock \union Sema \union Cond \union {None}]
  /\ ret \in [Thread -> {"run", "cw_down", "create_release", "create_unblock"}]
  /\ lock_holder \in [Thread -> Thread \union {None}]
  /\ child \in [Thread -> Thread \union {None}]
  /\ arg \in [Thread -> Nat]
  /\ high \in [Thread -> Nat]
  /\ panic \in {None, "intr_context", "holder gone", "waiting_lock gone",
                "donations torn"}

\* t has the lock: between the two ends of the semaphore operations.
ResetLabel == {"reset1", "reset2", "reset3", "reset4"}
OwnLabel == {"own", "try_own", "remove", "up"} \union ResetLabel
Owns(t, l) == holder[l] = t \/ (op[t] = l /\ pc[t] \in OwnLabel)

\* lock_init(): a lock is held by at most a single thread at any given time,
\* although `holder' is set and cleared outside the semaphore operations; and
\* nobody has the lock exactly if the semaphore says so.
MutualExclusion ==
  \A l \in Lock :
    /\ \A t, u \in Thread : Owns(t, l) /\ Owns(u, l) => t = u
    /\ value[l] = 1 <=> \A t \in Thread : ~ Owns(t, l)
    /\ value[l] \in {0, 1}

\* The threads sema_up(s) has woken that have not run yet.
Woken(s) ==
  {t \in Thread : /\ \/ pc[t] = "woken" /\ op[t] = s
                     \/ pc[t] = "cw_woken" /\ t = s
                  /\ status[t] # "BLOCKED"}

\* No wake-up is lost: threads are left waiting for a semaphore with a positive
\* value only while as many others have been woken to take it.
NoLostWakeup ==
  \A s \in AnySema : waiters[s] # <<>> => value[s] <= Cardinality(Woken(s))

\* thread.h 71-76: `elem' is on the run queue, the list of sleepers or one wait
\* list, and where it is agrees with the status.
ElemInOneList ==
  /\ IsInjective(ready_list)
  /\ \A s \in AnySema : IsInjective(waiters[s])
  /\ \A t \in Thread :
       /\ t \in ToSet(ready_list) <=> status[t] = "READY" /\ t # idle
       /\ status[t] = "BLOCKED" /\ pc[t] # "none" /\ t # idle =>
            Cardinality({s \in AnySema : t \in ToSet(waiters[s])})
              + (IF t \in sleepers THEN 1 ELSE 0) = 1
       /\ t \in sleepers => status[t] = "BLOCKED"
       /\ \A s \in AnySema : t \in ToSet(waiters[s]) => status[t] = "BLOCKED"

(* The inductive invariant behind TypeOK and the three properties above.   *)

\* What a thread at label l operates on (o), and where it goes on (r).
Stands(l, o, r) ==
  /\ l \in AcquireLabel \union {"own", "try_own", "remove", "up",
                               "cw_down", "cw_woken", "cw_lock"} => o \in Lock
  /\ l \in ResetLabel => o \in Lock \union {None}
  /\ l \in {"down", "woken"} => o \in Lock \union Sema
  /\ r = "create_release" =>
       o = tid_lock /\ l \in AcquireLabel \union {"down", "woken", "own"}
  /\ r \in {"create_unblock", "cw_down"} =>
       o \in Lock /\ l \in ResetLabel \union {"remove", "up"}
OpInv == \A t \in Thread : Stands(pc[t], op[t], ret[t])

\* `holder' is NULL while the lock is being taken or given back; allocate_tid()
\* releases a lock it holds.
HandOver ==
  \A t \in Thread :
    /\ pc[t] \in OwnLabel /\ op[t] \in Lock => holder[op[t]] = None
    /\ pc[t] = "create_release" => holder[tid_lock] = t

\* One thread runs, and the run queue holds exactly the others that could.
QueueInv ==
  /\ \A t \in Thread : status[t] = "RUNNING" <=> t = current
  /\ \A t \in Thread : status[t] # "DYING"
  /\ status[idle] # "FREE"
  /\ IsInjective(ready_list)
  /\ \A t \in Thread : t \in ToSet(ready_list) <=> status[t] = "READY" /\ t # idle

\* Where a thread stands while its page is free, while it is being made, and
\* while it is the idle thread.
PcInv ==
  /\ pc[idle] = "idle"
  /\ \A t \in Thread \ {idle} : pc[t] # "idle"
  /\ \A t \in Thread : status[t] = "FREE" => pc[t] = "none"

\* Where a blocked thread stands tells which list it is on.
WaitsAt(t, s) == (pc[t] = "woken" /\ op[t] = s) \/ (pc[t] = "cw_woken" /\ t = s)
WaitInv ==
  /\ \A s \in AnySema : IsInjective(waiters[s])
  /\ \A t \in Thread :
       /\ t \in sleepers <=> status[t] = "BLOCKED" /\ pc[t] = "run"
       /\ \A s \in AnySema :
            t \in ToSet(waiters[s]) <=> status[t] = "BLOCKED" /\ WaitsAt(t, s)
       /\ status[t] = "BLOCKED" /\ t # idle =>
            pc[t] \in {"run", "woken", "cw_woken", "none"}

\* thread_create() owns the thread it makes until it unblocks it.
CreateRet == {"create_release", "create_unblock"}
ChildInv ==
  \A t \in Thread :
    /\ child[t] # None <=> ret[t] \in CreateRet \/ pc[t] \in CreateRet
    /\ child[t] # None =>
         /\ status[child[t]] = "BLOCKED" /\ pc[child[t]] = "none"
         /\ \A u \in Thread : child[u] = child[t] => u = t

\* The donor whose priority reset_priority() reads has not gone: only t itself takes
\* elements off its donations while they are whole.
HeadInv == \A t \in Thread : pc[t] = "reset3" => torn \/ donations[t] # <<>>

\* However many pages there are, finitely many threads exist at a time.
FiniteInv == IsFiniteSet({t \in Thread : status[t] # "FREE"})

IInv ==
  /\ TypeOK /\ OpInv /\ MutualExclusion /\ HandOver
  /\ QueueInv /\ PcInv /\ WaitInv /\ ChildInv /\ HeadInv /\ FiniteInv /\ NoLostWakeup

FrontLow == ready_list # <<>> => priority[Head(ready_list)] <= priority[current]

\* steal_running_by_priority(): the front of the run queue does not outrank a running
\* thread that is not inside a call and has seen no tick since it got the CPU, although
\* its own priority falls with the donations it loses and the queue's change places.
FrontRuns ==
  panic = None /\ ~ in_timer /\ thread_ticks = 0 /\ pc[current] = "run" => FrontLow

\* next_thread_to_run(): the thread that gets the CPU has the highest priority,
\* although donations change priorities of threads that are queued already.
PicksHighest ==
  [][current' # current =>
       \A u \in ToSet(ready_list') : priority[u] <= priority[current']]_vars

\* The locks and conditions of this module are those of Monitor.
Waiting(c) == {t \in ToSet(cond_waiters[c]) : ~ Owns(t, LockOf[c])}
Signalled ==
  {t \in Thread : /\ pc[t] \in {"cw_down", "cw_woken"}
                  /\ \A c \in Cond : t \notin ToSet(cond_waiters[c])}
Owner(l) == IF value[l] > 0 THEN None ELSE CHOOSE t \in Thread : Owns(t, l)
M == INSTANCE Monitor WITH owner <- [l \in Lock |-> Owner(l)],
                           waiting <- [c \in Cond |-> Waiting(c)],
                           signalled <- Signalled
MonitorSpec == M!Init /\ [][M!Next]_(M!vars)

-----------------------------------------------------------------------------
(***************************************************************************)
(* What the comments say and the code does not do.                         *)
(***************************************************************************)

\* thread.c 665: "Set priority to the highest priority in the donations list,
\* when donations list is not empty."
ResetToHighest ==
  [][\A t \in Thread : pc[t] \in {"reset3", "reset4"} /\ pc'[t] = AfterReset(t) =>
       \A d \in ToSet(donations[t]) : priority[d] <= priority'[t]]_vars

\* synch.c 218-220: lock_acquire() sleeps until the lock is available; it does
\* not bring the kernel down because the lock is released in the meantime.
AcquireNeverFaults == panic \notin {"holder gone", "waiting_lock gone"}

\* synch.c 133: sema_up() "may be called from an interrupt handler."
HandlerMayUp == panic # "intr_context"
=============================================================================
