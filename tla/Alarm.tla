-------------------------------- MODULE Alarm --------------------------------
(***************************************************************************)
(* project1: the kernel's round-robin scheduler, thread creation and exit  *)
(* (thread.c) and the alarm clock timer_sleep() that puts threads on a     *)
(* list of sleepers instead of busy waiting (timer.c).                     *)
(*                                                                         *)
(* There is one CPU.  A thread executes only while it is `current', and    *)
(* the timer may interrupt it wherever interrupts are on: a region with    *)
(* interrupts off is one action, up to the call of schedule() in it, and   *)
(* a statement with interrupts on is an action of its own.  pc[t] is where *)
(* thread t stands.  The interrupt handler takes several actions, during   *)
(* which (in_intr) no thread moves.                                        *)
(***************************************************************************)
EXTENDS Integers, Sequences, SequencesExt

CONSTANTS
  Thread,       \* the pages a struct thread may live in
  main,         \* initial_thread
  idle,         \* the page thread_start() creates the idle thread in
  None,         \* NULL
  TIME_SLICE,   \* # of timer ticks to give each thread
  Durations,    \* the arguments timer_sleep() is called with
  Horizon,      \* bound: timer_sleep() is called before this tick only
  MaxTick,      \* bound: `ticks' stays here once it is reached
  MaxTid        \* bound: no thread is created with a greater tid

ASSUME ThreadAssumption ==
  /\ main \in Thread
  /\ idle \in Thread
  /\ main # idle
  /\ None \notin Thread

ASSUME NumberAssumption ==
  /\ TIME_SLICE \in Nat \ {0}
  /\ Durations \subseteq Int
  /\ Horizon \in Nat
  /\ MaxTick \in Nat
  /\ MaxTid \in Nat

\* The bounds do not cut a sleep short.
ASSUME BoundAssumption ==
  \A n \in Durations : Horizon + n <= MaxTick

VARIABLES
  current,        \* the thread on the CPU; None once schedule() found nothing
  status,         \* t->status, "FREE" for a page that holds no thread
  pc,             \* where each thread stands in the code
  ready_list,
  sleeping_list,
  sleeping_ticks, \* t->sleeping_ticks
  ticks,
  thread_ticks,   \* # of timer ticks since the last switch
  idle_thread,    \* NULL until the idle thread has run
  in_intr,        \* the timer interrupt handler is executing
  yield_on_return,
  deadline,       \* start + ticks, in the stack frame of timer_sleep() (0 without)
  value,          \* semaphore values ...
  waiters,        \* ... and wait lists
  tid,            \* t->tid, 0 while it has none
  next_tid,       \* static variable of allocate_tid()
  child,          \* `t' in the stack frame of thread_create()
  new_tid         \* `tid' in the stack frame of allocate_tid() (0 without)

schedVars == <<current, status, ready_list, thread_ticks>>
intrVars == <<in_intr, yield_on_return, ticks>>
sleepVars == <<sleeping_list, sleeping_ticks, deadline>>
semaVars == <<value, waiters>>
tidVars == <<tid, next_tid, child, new_tid>>
vars == <<schedVars, intrVars, sleepVars, semaVars, tidVars, pc, idle_thread>>

Sema == {"idle_started", "tid_lock"}

Status == {"FREE", "RUNNING", "READY", "BLOCKED", "DYING"}

\* Where a thread may stand.  With interrupts off it is only seen at the
\* first three: everything else that runs with interrupts off is one action.
IntrOff == {"boot", "boot_recheck", "tid_recheck"}
Label == IntrOff \union
  {"none", "run", "sleep", "boot_down", "idle_start", "idle_up", "idle_loop",
   "hlt", "tid_down", "tid_read", "tid_write", "tid_up", "unblock"}

-----------------------------------------------------------------------------
(***************************************************************************)
(* The scheduler.                                                          *)
(***************************************************************************)

\* Thread t executes its own code.
Running(t) == current = t /\ ~in_intr

next_thread_to_run(rl) == IF rl = <<>> THEN idle_thread ELSE Head(rl)

\* thread_schedule_tail(): a dying thread's page is freed by its successor.
\* initial_thread's page was not obtained from palloc() and stays.
Reaped(st) ==
  [t \in Thread |-> IF st[t] = "DYING" /\ t # main THEN "FREE" ELSE st[t]]

\* schedule(), called with the run queue rl and the statuses st.  With nothing
\* to run, ASSERT (is_thread (next)) stops the kernel.
Schedule(rl, st) ==
  LET next == next_thread_to_run(rl) IN
  /\ current' = next
  /\ ready_list' = IF rl = <<>> THEN rl ELSE Tail(rl)
  /\ status' = [Reaped(st) EXCEPT ![next] = "RUNNING"]
  /\ thread_ticks' = 0

\* thread_block() of the running thread t.
thread_block(t) == Schedule(ready_list, [status EXCEPT ![t] = "BLOCKED"])

\* Mutant: list_push_front().
thread_unblock_front(t) ==
  /\ ready_list' = <<t>> \o ready_list
  /\ status' = [status EXCEPT ![t] = "READY"]
  /\ UNCHANGED <<current, thread_ticks>>

\* thread_unblock(t) by a thread or handler that goes on running.
thread_unblock(t) ==
  /\ ready_list' = Append(ready_list, t)
  /\ status' = [status EXCEPT ![t] = "READY"]
  /\ UNCHANGED <<current, thread_ticks>>

\* Mutant: list_push_front().
thread_yield_front(t) ==
  Schedule(IF t # idle_thread THEN <<t>> \o ready_list ELSE ready_list,
           [status EXCEPT ![t] = "READY"])

\* thread_yield() of the running thread t.
thread_yield(t) ==
  Schedule(IF t # idle_thread THEN Append(ready_list, t) ELSE ready_list,
           [status EXCEPT ![t] = "READY"])

Goto(t, l) == pc' = [pc EXCEPT ![t] = l]

-----------------------------------------------------------------------------
(***************************************************************************)
(* Semaphores, as the scheduler uses them (synch.c of the base system).    *)
(***************************************************************************)

\* Mutant: no loop around the decrement.
sema_down_unguarded(t, s, start, again, done) ==
  /\ Running(t)
  /\ pc[t] \in {start, again}
  /\ value' = [value EXCEPT ![s] = @ - 1]
  /\ Goto(t, done)
  /\ UNCHANGED <<schedVars, waiters, intrVars, sleepVars, tidVars, idle_thread>>

\* sema_down(s) by t, first called at label start, resumed at label again:
\*   while (value == 0) { push t on waiters; thread_block (); }  value--;
sema_down(t, s, start, again, done) ==
  /\ Running(t)
  /\ pc[t] \in {start, again}
  /\ \/ /\ value[s] > 0
        /\ value' = [value EXCEPT ![s] = @ - 1]
        /\ Goto(t, done)
        /\ UNCHANGED <<schedVars, waiters>>
     \/ /\ value[s] = 0
        /\ waiters' = [waiters EXCEPT ![s] = Append(@, t)]
        /\ Goto(t, again)
        /\ thread_block(t)
        /\ UNCHANGED value
  /\ UNCHANGED <<intrVars, sleepVars, tidVars, idle_thread>>

\* sema_up(s): unblock the first waiter, if any, and increment the value.
sema_up(s) ==
  /\ value' = [value EXCEPT ![s] = @ + 1]
  /\ \/ /\ waiters[s] = <<>>
        /\ UNCHANGED <<schedVars, waiters>>
     \/ /\ waiters[s] # <<>>
        /\ waiters' = [waiters EXCEPT ![s] = Tail(@)]
        /\ thread_unblock(Head(waiters[s]))

-----------------------------------------------------------------------------
(***************************************************************************)
(* Boot: thread_init() has run; thread_start() creates the idle thread,    *)
(* enables interrupts and waits until that thread has announced itself.    *)
(***************************************************************************)

Init ==
  /\ current = main
  /\ status = [t \in Thread |-> IF t = main THEN "RUNNING" ELSE "FREE"]
  /\ pc = [t \in Thread |-> IF t = main THEN "boot" ELSE "none"]
  /\ ready_list = <<>>
  /\ sleeping_list = <<>>
  /\ sleeping_ticks = [t \in Thread |-> 0]
  /\ ticks = 0
  /\ thread_ticks = 0
  /\ idle_thread = None
  /\ in_intr = FALSE
  /\ yield_on_return = FALSE
  /\ deadline = [t \in Thread |-> 0]
  /\ value = [s \in Sema |-> IF s = "tid_lock" THEN 1 ELSE 0]
  /\ waiters = [s \in Sema |-> <<>>]
  /\ tid = [t \in Thread |-> IF t = main THEN 1 ELSE 0]
  /\ next_tid = 2
  /\ child = [t \in Thread |-> None]
  /\ new_tid = [t \in Thread |-> 0]

\* thread_start() up to intr_enable(): thread_create("idle") with interrupts off.
BootCreate ==
  /\ Running(main)
  /\ pc[main] = "boot"
  /\ thread_unblock(idle)
  /\ tid' = [tid EXCEPT ![idle] = next_tid]
  /\ next_tid' = next_tid + 1
  /\ pc' = [pc EXCEPT ![main] = "boot_down", ![idle] = "idle_start"]
  /\ UNCHANGED <<intrVars, sleepVars, semaVars, idle_thread, child, new_tid>>

\* sema_down(&idle_started) at the end of thread_start().
BootDown == sema_down(main, "idle_started", "boot_down", "boot_recheck", "run")

\* Mutant: the idle thread does not register itself.
IdleStart_anonymous(t) ==
  /\ Running(t)
  /\ pc[t] = "idle_start"
  /\ Goto(t, "idle_up")
  /\ UNCHANGED <<schedVars, intrVars, sleepVars, semaVars, tidVars, idle_thread>>

\* idle(): idle_thread = thread_current ().
IdleStart(t) ==
  /\ Running(t)
  /\ pc[t] = "idle_start"
  /\ idle_thread' = t
  /\ Goto(t, "idle_up")
  /\ UNCHANGED <<schedVars, intrVars, sleepVars, semaVars, tidVars>>

\* idle(): sema_up (idle_started).
IdleUp(t) ==
  /\ Running(t)
  /\ pc[t] = "idle_up"
  /\ sema_up("idle_started")
  /\ Goto(t, "idle_loop")
  /\ UNCHANGED <<intrVars, sleepVars, tidVars, idle_thread>>

\* idle(): intr_disable (); thread_block ().  Resumed, it halts until the
\* next interrupt, which the sti/hlt pair cannot miss.
IdleBlock(t) ==
  /\ Running(t)
  /\ pc[t] = "idle_loop"
  /\ Goto(t, "hlt")
  /\ thread_block(t)
  /\ UNCHANGED <<intrVars, sleepVars, semaVars, tidVars, idle_thread>>

-----------------------------------------------------------------------------
(***************************************************************************)
(* What threads do: sleep, yield, create threads, exit.                    *)
(***************************************************************************)

\* timer_sleep(n) reads the clock with interrupts on again right after ...
SleepStart(t) ==
  /\ Running(t)
  /\ pc[t] = "run"
  /\ ticks < Horizon
  /\ \E n \in Durations : deadline' = [deadline EXCEPT ![t] = ticks + n]
  /\ Goto(t, "sleep")
  /\ UNCHANGED <<schedVars, intrVars, sleeping_list, sleeping_ticks, semaVars,
                 tidVars, idle_thread>>

\* Mutant: a deadline that has passed meanwhile is not put on the list.
SleepBlock_past(t) ==
  /\ Running(t)
  /\ pc[t] = "sleep"
  /\ sleeping_ticks' = [sleeping_ticks EXCEPT ![t] = deadline[t]]
  /\ sleeping_list' =
       IF deadline[t] > ticks THEN Append(sleeping_list, t) ELSE sleeping_list
  /\ Goto(t, "run")
  /\ thread_block(t)
  /\ UNCHANGED <<intrVars, deadline, semaVars, tidVars, idle_thread>>

\* ... and, some ticks later perhaps, puts the thread on sleeping_list
\* (thread_toSleep) and blocks it.
SleepBlock(t) ==
  /\ Running(t)
  /\ pc[t] = "sleep"
  /\ sleeping_ticks' = [sleeping_ticks EXCEPT ![t] = deadline[t]]
  /\ sleeping_list' = Append(sleeping_list, t)
  /\ Goto(t, "run")
  /\ thread_block(t)
  /\ UNCHANGED <<intrVars, deadline, semaVars, tidVars, idle_thread>>

Yield(t) ==
  /\ Running(t)
  /\ pc[t] = "run"
  /\ thread_yield(t)
  /\ UNCHANGED <<intrVars, sleepVars, semaVars, tidVars, pc, idle_thread>>

thread_exit(t) ==
  /\ Running(t)
  /\ pc[t] = "run"
  /\ Schedule(ready_list, [status EXCEPT ![t] = "DYING"])
  /\ Goto(t, "none")
  /\ UNCHANGED <<intrVars, sleepVars, semaVars, tidVars, idle_thread>>

\* thread_create(): a page is allocated and init_thread() makes it a blocked
\* thread.  (When palloc_get_page() fails, nothing happens.)
CreateInit(t) ==
  /\ Running(t)
  /\ pc[t] = "run"
  /\ next_tid <= MaxTid
  /\ \E c \in Thread :
       /\ status[c] = "FREE"
       /\ status' = [status EXCEPT ![c] = "BLOCKED"]
       /\ child' = [child EXCEPT ![t] = c]
       /\ tid' = [tid EXCEPT ![c] = 0]
       /\ sleeping_ticks' = [sleeping_ticks EXCEPT ![c] = 0]
  /\ Goto(t, "tid_down")
  /\ UNCHANGED <<current, ready_list, thread_ticks, intrVars, sleeping_list,
                 deadline, semaVars, next_tid, new_tid, idle_thread>>

\* Mutants: allocate_tid() without its lock_acquire(); without its lock_release().
TidDown_no_lock(t) ==
  /\ Running(t)
  /\ pc[t] = "tid_down"
  /\ Goto(t, "tid_read")
  /\ UNCHANGED <<schedVars, intrVars, sleepVars, semaVars, tidVars, idle_thread>>
TidUp_no_release(t) ==
  /\ Running(t)
  /\ pc[t] = "tid_up"
  /\ Goto(t, "unblock")
  /\ UNCHANGED <<schedVars, intrVars, sleepVars, semaVars, tidVars, idle_thread>>

\* allocate_tid(): lock_acquire (&tid_lock) ...
TidDown(t) == sema_down(t, "tid_lock", "tid_down", "tid_recheck", "tid_read")

\* ... tid = next_tid++, a read and a write with interrupts on ...
TidRead(t) ==
  /\ Running(t)
  /\ pc[t] = "tid_read"
  /\ new_tid' = [new_tid EXCEPT ![t] = next_tid]
  /\ Goto(t, "tid_write")
  /\ UNCHANGED <<schedVars, intrVars, sleepVars, semaVars, tid, next_tid, child,
                 idle_thread>>

TidWrite(t) ==
  /\ Running(t)
  /\ pc[t] = "tid_write"
  /\ next_tid' = new_tid[t] + 1
  /\ Goto(t, "tid_up")
  /\ UNCHANGED <<schedVars, intrVars, sleepVars, semaVars, tid, new_tid, child,
                 idle_thread>>

\* ... lock_release (&tid_lock).
TidUp(t) ==
  /\ Running(t)
  /\ pc[t] = "tid_up"
  /\ sema_up("tid_lock")
  /\ Goto(t, "unblock")
  /\ UNCHANGED <<intrVars, sleepVars, tidVars, idle_thread>>

\* thread_create(): the tid is stored and the thread put on the run queue.
CreateUnblock(t) ==
  /\ Running(t)
  /\ pc[t] = "unblock"
  /\ thread_unblock(child[t])
  /\ tid' = [tid EXCEPT ![child[t]] = new_tid[t]]
  /\ child' = [child EXCEPT ![t] = None]
  /\ new_tid' = [new_tid EXCEPT ![t] = 0]
  /\ pc' = [pc EXCEPT ![t] = "run", ![child[t]] = "run"]
  /\ UNCHANGED <<intrVars, sleepVars, semaVars, next_tid, idle_thread>>

-----------------------------------------------------------------------------
(***************************************************************************)
(* The timer interrupt.                                                    *)
(***************************************************************************)

\* Mutant: the time slice is one tick too long.
TimerInterrupt_late ==
  /\ ~in_intr
  /\ current # None
  /\ pc[current] \notin IntrOff
  /\ in_intr' = TRUE
  /\ ticks' = IF ticks < MaxTick THEN ticks + 1 ELSE ticks
  /\ thread_ticks' = thread_ticks + 1
  /\ yield_on_return' = (thread_ticks' > TIME_SLICE)
  /\ pc' = IF pc[current] = "hlt" THEN [pc EXCEPT ![current] = "idle_loop"] ELSE pc
  /\ UNCHANGED <<current, status, ready_list, sleepVars, semaVars, tidVars,
                 idle_thread>>

\* timer_interrupt(): ticks++, then thread_tick(); a halted CPU wakes up.
TimerInterrupt ==
  /\ ~in_intr
  /\ current # None
  /\ pc[current] \notin IntrOff
  /\ in_intr' = TRUE
  /\ ticks' = IF ticks < MaxTick THEN ticks + 1 ELSE ticks
  /\ thread_ticks' = thread_ticks + 1
  /\ yield_on_return' = (thread_ticks' >= TIME_SLICE)
  /\ pc' = IF pc[current] = "hlt" THEN [pc EXCEPT ![current] = "idle_loop"] ELSE pc
  /\ UNCHANGED <<current, status, ready_list, sleepVars, semaVars, tidVars,
                 idle_thread>>

\* Mutants: woken a tick late; woken only by the very tick asked for.
Expired_late(i) == sleeping_ticks[sleeping_list[i]] < ticks
Expired_exact(i) == sleeping_ticks[sleeping_list[i]] = ticks

\* The entry at position i of sleeping_list has slept long enough.
Expired(i) == sleeping_ticks[sleeping_list[i]] <= ticks

\* Mutant: no list_remove().
Awake_keep(i) ==
  /\ in_intr
  /\ Expired(i)
  /\ \A j \in 1 .. i - 1 : ~ Expired(j)
  /\ thread_unblock(sleeping_list[i])
  /\ deadline' = [deadline EXCEPT ![sleeping_list[i]] = 0]
  /\ UNCHANGED <<intrVars, sleeping_list, sleeping_ticks, semaVars, tidVars, pc,
                 idle_thread>>

\* thread_awake(ticks): one turn of its loop that finds a thread to wake, the
\* first on the list that is due.  (The caller of timer_sleep() has no more use
\* for `start' and `ticks': its frame is emptied.)
Awake(i) ==
  /\ in_intr
  /\ Expired(i)
  /\ \A j \in 1 .. i - 1 : ~ Expired(j)
  /\ sleeping_list' = RemoveAt(sleeping_list, i)
  /\ thread_unblock(sleeping_list[i])
  /\ deadline' = [deadline EXCEPT ![sleeping_list[i]] = 0]
  /\ UNCHANGED <<intrVars, sleeping_ticks, semaVars, tidVars, pc, idle_thread>>

\* The handler returns, through thread_yield() if the time slice is used up.
IntrReturn ==
  /\ in_intr
  /\ \A i \in DOMAIN sleeping_list : ~ Expired(i)
  /\ in_intr' = FALSE
  /\ yield_on_return' = FALSE
  /\ \/ yield_on_return /\ thread_yield(current)
     \/ ~ yield_on_return /\ UNCHANGED schedVars
  /\ UNCHANGED <<ticks, sleepVars, semaVars, tidVars, pc, idle_thread>>

Interrupt ==
  \/ TimerInterrupt
  \/ \E i \in DOMAIN sleeping_list : Awake(i)
  \/ IntrReturn

-----------------------------------------------------------------------------
\* A step of t inside a call, which nothing but a preemption holds up.
InCall(t) ==
  \/ t = main /\ (BootCreate \/ BootDown)
  \/ IdleStart(t) \/ IdleUp(t) \/ IdleBlock(t)
  \/ SleepBlock(t)
  \/ TidDown(t) \/ TidRead(t) \/ TidWrite(t) \/ TidUp(t) \/ CreateUnblock(t)

\* A call t may make or leave.
Call(t) == SleepStart(t) \/ Yield(t) \/ thread_exit(t) \/ CreateInit(t)

Next ==
  \/ \E t \in Thread : InCall(t) \/ Call(t)
  \/ Interrupt

\* The timer keeps ticking: the interrupt controller holds a tick that arrives
\* with interrupts off until they are on.  Between two ticks the CPU executes
\* the current thread, so a call goes on whenever its thread is given the CPU
\* again and again.  Nobody is obliged to make a call.
Fairness ==
  /\ SF_vars(TimerInterrupt)
  /\ WF_vars(\E i \in DOMAIN sleeping_list : Awake(i))
  /\ WF_vars(IntrReturn)
  /\ \A t \in Thread : SF_vars(InCall(t))

SafeSpec == Init /\ [][Next]_vars
Spec == SafeSpec /\ Fairness

-----------------------------------------------------------------------------
(***************************************************************************)
(* Properties.                                                             *)
(***************************************************************************)

TypeOK ==
  /\ current \in Thread \union {None}
  /\ status \in [Thread -> Status]
  /\ pc \in [Thread -> Label]
  /\ ready_list \in Seq(Thread)
  /\ sleeping_list \in Seq(Thread)
  /\ sleeping_ticks \in [Thread -> Int]
  /\ ticks \in Nat
  /\ thread_ticks \in Nat
  /\ idle_thread \in {None, idle}
  /\ in_intr \in BOOLEAN
  /\ yield_on_return \in BOOLEAN
  /\ deadline \in [Thread -> Int]
  /\ value \in [Sema -> Nat]
  /\ waiters \in [Sema -> Seq(Thread)]
  /\ tid \in [Thread -> Nat]
  /\ next_tid \in Nat
  /\ child \in [Thread -> Thread \union {None}]
  /\ new_tid \in [Thread -> Nat]

\* The three wait lists: thread t is asleep or waits for a semaphore.
Waits(t) == t \in ToSet(sleeping_list) \/ \E s \in Sema : t \in ToSet(waiters[s])

\* t is being made by thread_create() and is on no list yet.
Embryo(t) == \E p \in Thread : child[p] = t

\* schedule() always finds a thread to run: ASSERT (is_thread (next)) never
\* fails, not even before the idle thread has announced itself.
SchedulerFindsThread == current # None

\* thread.h 77-82: `elem' can serve as an element of the run queue and of a
\* wait list because the two are mutually exclusive.  The sleeping list is a
\* third use: exactly the ready threads are on the run queue, once; only
\* blocked threads are on a wait list, on one only, and once.  Otherwise
\* list_push_back() would corrupt the list the element is still on.
ElemInOneList ==
  /\ IsInjective(ready_list)
  /\ IsInjective(sleeping_list)
  /\ \A s \in Sema : IsInjective(waiters[s])
  /\ \A t \in Thread :
       /\ t \in ToSet(ready_list) => status[t] = "READY"
       /\ Waits(t) => status[t] = "BLOCKED"
       /\ t \in ToSet(sleeping_list) => \A s \in Sema : t \notin ToSet(waiters[s])
       /\ \A r, s \in Sema :
            t \in ToSet(waiters[r]) /\ t \in ToSet(waiters[s]) => r = s

\* No thread is lost: one that is ready is on the run queue, and one that is
\* blocked is on a list somebody will take it from.  The idle thread is the
\* exception: next_thread_to_run() knows it by name.
NoThreadLost ==
  \A t \in Thread \ {idle_thread} :
    /\ status[t] = "READY" => t \in ToSet(ready_list)
    /\ status[t] = "BLOCKED" => Waits(t) \/ Embryo(t)

\* thread.c 396-398: once it has started, the idle thread never appears in the
\* ready list.
IdleNeverReady == idle_thread # None => idle_thread \notin ToSet(ready_list)

\* thread_tick(): nobody runs longer than TIME_SLICE ticks without a switch.
QuantumBound ==
  /\ thread_ticks <= TIME_SLICE
  /\ thread_ticks = TIME_SLICE => in_intr /\ yield_on_return

(* The inductive invariant behind the four properties above.               *)

IdleLabel == {"idle_start", "idle_up", "idle_loop", "hlt"}
BootLabel == {"boot", "boot_down", "boot_recheck"}
CreateLabel == {"tid_down", "tid_recheck", "tid_read", "tid_write", "tid_up",
                "unblock"}

\* Who may stand where.
PcInv ==
  /\ pc[idle] \in IdleLabel \union {"none"}
  /\ \A t \in Thread \ {idle} : pc[t] \notin IdleLabel
  /\ \A t \in Thread \ {main} : pc[t] \notin BootLabel
  /\ \A t \in Thread : status[t] = "FREE" => pc[t] = "none"

\* One thread runs; initial_thread's page is never freed.
RunInv ==
  /\ current \in Thread
  /\ \A t \in Thread : status[t] = "RUNNING" <=> t = current
  /\ \A t \in Thread : status[t] = "DYING" => t = main
  /\ status[main] # "FREE"

\* Until it has announced itself, the idle thread never blocks: it is found
\* on the run queue.
BootInv ==
  /\ pc[main] = "boot" =>
       /\ current = main /\ idle_thread = None /\ ready_list = <<>>
       /\ pc[idle] = "none" /\ status[idle] = "FREE"
  /\ pc[main] # "boot" => pc[idle] # "none" /\ status[idle] \notin {"FREE", "DYING"}
  /\ pc[main] # "boot" /\ idle_thread = None =>
       pc[idle] = "idle_start" /\ status[idle] \in {"READY", "RUNNING"}

\* The label a thread blocked in sema_down(s) resumes at.
WaitLabel == [idle_started |-> "boot_recheck", tid_lock |-> "tid_recheck"]

\* Where a thread stands tells which list it may be on.
ListInv ==
  /\ IsInjective(ready_list)
  /\ IsInjective(sleeping_list)
  /\ \A s \in Sema : IsInjective(waiters[s])
  /\ \A t \in Thread :
       /\ t \in ToSet(ready_list) <=> status[t] = "READY" /\ t # idle_thread
       /\ t \in ToSet(sleeping_list) => status[t] = "BLOCKED" /\ pc[t] = "run"
       /\ \A s \in Sema : t \in ToSet(waiters[s]) =>
            status[t] = "BLOCKED" /\ pc[t] = WaitLabel[s]

\* Nobody is blocked without a list to be taken from.
BlockedInv ==
  \A t \in Thread \ {idle_thread} :
    status[t] = "BLOCKED" => Waits(t) \/ Embryo(t)

\* thread_create() owns the thread it makes until it unblocks it.
ChildInv ==
  \A p \in Thread :
    /\ child[p] # None <=> pc[p] \in CreateLabel
    /\ child[p] # None =>
         /\ child[p] \notin {main, idle}
         /\ status[child[p]] = "BLOCKED" /\ pc[child[p]] = "none"
         /\ \A q \in Thread : child[q] = child[p] => q = p

\* What the handler compares with the clock is what the caller computed.
SleepInv == \A t \in ToSet(sleeping_list) : sleeping_ticks[t] = deadline[t]

\* The handler only interrupts code with interrupts on.
IntrInv == in_intr => pc[current] \notin IntrOff

IInv ==
  /\ TypeOK /\ PcInv /\ RunInv /\ BootInv /\ ListInv /\ BlockedInv /\ ChildInv

\* allocate_tid(): tid_lock is held between these labels, by one thread; nobody
\* has started when the idle thread's tid is taken without it.
TidLabel == {"tid_read", "tid_write", "tid_up"}
TidLockInv ==
  /\ value["tid_lock"] <= 1
  /\ \A t \in Thread : pc[t] \in TidLabel => value["tid_lock"] = 0
  /\ \A t, u \in Thread : pc[t] \in TidLabel /\ pc[u] \in TidLabel => t = u
  /\ pc[main] = "boot" => \A t \in Thread \ {main} : pc[t] = "none"

\* ... and a tid that has been allocated is new, also while thread_create() has
\* not stored it yet.
HasTid(t) == pc[t] \in {"tid_up", "unblock"}
TidInv ==
  /\ next_tid > 0
  /\ \A t \in Thread :
       /\ tid[t] < next_tid
       /\ pc[t] = "tid_write" => new_tid[t] = next_tid
       /\ HasTid(t) => 0 < new_tid[t] /\ new_tid[t] < next_tid
  /\ \A t, u \in Thread :
       /\ HasTid(t) => tid[u] # new_tid[t]
       /\ t # u /\ HasTid(t) /\ HasTid(u) => new_tid[t] # new_tid[u]
       /\ t # u /\ tid[t] # 0 => tid[t] # tid[u]

\* allocate_tid(): no two threads have the same tid, although `next_tid++' can
\* be interrupted between its read and its write.
UniqueTids ==
  \A t, u \in Thread :
    t # u /\ status[t] # "FREE" /\ status[u] # "FREE" /\ tid[t] # 0 => tid[t] # tid[u]

\* Position of t in the run queue.
Before(t, u, rl) ==
  \E i, j \in DOMAIN rl : i < j /\ rl[i] = t /\ rl[j] = u

\* Round robin: nobody gets in front of a queued thread who was not there before.
NotOvertaken ==
  [][\A t, u \in Thread :
       t \in ToSet(ready_list) /\ t \in ToSet(ready_list')
         /\ Before(u, t, ready_list') => Before(u, t, ready_list)]_vars

\* timer_sleep() keeps the promise of AlarmClock: a caller sleeps until the tick
\* it computed on entry, however long it was preempted before it blocked, and no
\* longer.  While the handler is still walking the list, those it is bound to
\* wake count as awake.
Asleep ==
  {<<t, deadline[t]>> : t \in
     {u \in ToSet(sleeping_list) : in_intr => deadline[u] > ticks}}
AC == INSTANCE AlarmClock WITH now <- ticks, asleep <- Asleep
AlarmClockSpec == AC!Init /\ [][AC!Next]_(AC!vars)

\* Every sleeper gets the CPU again.
SleeperRuns ==
  \A t \in Thread : t \in ToSet(sleeping_list) ~> current = t

\* Round robin: every ready thread gets the CPU.
ReadyRuns ==
  \A t \in Thread \ {idle} : status[t] = "READY" ~> current = t

\* A thread that has begun to create another one completes it, and the new
\* thread runs: nobody is stuck behind tid_lock.
CreateCompletes ==
  \A t \in Thread : pc[t] = "tid_down" ~> pc[t] = "run"
=============================================================================
