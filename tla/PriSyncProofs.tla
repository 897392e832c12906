---------------------------- MODULE PriSyncProofs ----------------------------
(***************************************************************************)
(* For any number of threads, locks, semaphores and conditions, any        *)
(* priorities and any calls: the lists of the project2 kernel are sound,   *)
(* locks exclude, no wake-up is lost, the scheduler picks a thread of the  *)
(* highest priority, locks and conditions keep Monitor's promise; if       *)
(* nobody exits, the front of the run queue does not outrank who runs.     *)
(***************************************************************************)
EXTENDS PriSync, ListLemmas, FiniteSetTheorems, TLAPS

USE DEF Status

-----------------------------------------------------------------------------
(***************************************************************************)
(* The scheduler: schedule() and the functions that end in it.             *)
(***************************************************************************)

\* rl is the run queue that statuses st call for while the current thread runs.
Queued(rl, st) ==
  /\ rl \in Seq(Thread)
  /\ IsInjective(rl)
  /\ st \in [Thread -> Status]
  /\ \A t \in Thread : t \in ToSet(rl) <=> st[t] = "READY" /\ t # idle
  /\ \A t \in Thread : st[t] = "RUNNING" <=> t = current
  /\ \A t \in Thread : st[t] # "DYING"
  /\ st[idle] # "FREE"

\* What schedule() needs when it is called with run queue rl and statuses st.
MaySchedule(rl, st) ==
  /\ rl \in Seq(Thread)
  /\ IsInjective(rl)
  /\ st \in [Thread -> Status]
  /\ \A t \in Thread : t \in ToSet(rl) <=> st[t] = "READY" /\ t # idle
  /\ \A t \in Thread : st[t] # "RUNNING"
  /\ st[idle] \notin {"FREE", "DYING"}

\* The step leaves a sound scheduler: who is blocked is what st says (but for the
\* idle thread, which may have been given the CPU), dying threads are gone, and
\* nobody on the run queue outranks a thread that has just got the CPU.
Moved(st) ==
  /\ QueueInv'
  /\ current' \in Thread
  /\ status' \in [Thread -> Status]
  /\ ready_list' \in Seq(Thread)
  /\ thread_ticks' \in Nat
  /\ \A t \in Thread :
       /\ st[t] = "BLOCKED" /\ t # idle => status'[t] = "BLOCKED"
       /\ status'[t] = "BLOCKED" => st[t] = "BLOCKED" \/ t = idle
       /\ status'[t] = "FREE" <=> st[t] \in {"FREE", "DYING"}
  /\ current' # current =>
       \A u \in ToSet(ready_list') : priority[u] <= priority[current']

\* schedule() takes the first thread of the sorted run queue, or the idle thread.
LEMMA NextChosen ==
  ASSUME TypeOK, NEW rl, NEW st, MaySchedule(rl, st), Schedule(rl, st)
  PROVE  \E next \in Thread :
           /\ SwitchTo(next, st)
           /\ st[next] = "READY" \/ next = idle
           /\ ready_list' \in Seq(Thread)
           /\ IsInjective(ready_list')
           /\ ToSet(ready_list') = ToSet(rl) \ {next}
           /\ \A u \in ToSet(ready_list') : priority[u] <= priority[next]
<1> USE PriThreadAssumption
<1>1. CASE rl = <<>> /\ ready_list' = rl /\ SwitchTo(idle, st)
  <2>1. ToSet(rl) = {}
    BY <1>1 DEF ToSet
  <2> QED
    BY <1>1, <2>1 DEF MaySchedule
<1>2. CASE \E s \in Sorted(rl, priority) :
             /\ s # <<>>
             /\ ready_list' = Tail(s)
             /\ SwitchTo(Head(s), st)
  <2>1. PICK s \in Sorted(rl, priority) :
          s # <<>> /\ ready_list' = Tail(s) /\ SwitchTo(Head(s), st)
    BY <1>2
  <2>2. rl \in Seq(Thread) /\ IsInjective(rl)
    BY DEF MaySchedule
  <2>3. \A x \in ToSet(rl) : priority[x] \in Int
    <3>1. priority \in [Thread -> Nat]
      BY DEF TypeOK
    <3> QED
      BY <2>2, <3>1, ElemsInSet
  <2>4. s \in Seq(Thread) /\ ToSet(s) = ToSet(rl)
    BY <2>1, <2>2, SortedElems
  <2>5. IsInjective(s) /\ \A x \in ToSet(s) : priority[x] <= priority[Head(s)]
    BY <2>1, <2>2, <2>3, SortedOrder
  <2>6. /\ Head(s) \in Thread /\ Head(s) \in ToSet(s)
        /\ Tail(s) \in Seq(Thread) /\ IsInjective(Tail(s))
        /\ ToSet(Tail(s)) = ToSet(s) \ {Head(s)}
    BY <2>1, <2>4, <2>5, PopElems
  <2>7. st[Head(s)] = "READY"
    BY <2>4, <2>6 DEF MaySchedule
  <2> QED
    BY <2>1, <2>4, <2>5, <2>6, <2>7
<1> QED
  BY <1>1, <1>2 DEF Schedule

LEMMA ScheduleLemma ==
  ASSUME TypeOK, NEW rl, NEW st, MaySchedule(rl, st), Schedule(rl, st)
  PROVE  Moved(st)
<1> USE PriThreadAssumption
<1>1. PICK next \in Thread :
        /\ SwitchTo(next, st)
        /\ st[next] = "READY" \/ next = idle
        /\ ready_list' \in Seq(Thread)
        /\ IsInjective(ready_list')
        /\ ToSet(ready_list') = ToSet(rl) \ {next}
        /\ \A u \in ToSet(ready_list') : priority[u] <= priority[next]
  BY NextChosen
<1>2. /\ current' = next /\ thread_ticks' = 0
      /\ status' = [Reaped(st) EXCEPT ![next] = "RUNNING"]
  BY <1>1 DEF SwitchTo
<1>3. /\ st \in [Thread -> Status]
      /\ \A t \in Thread : t \in ToSet(rl) <=> st[t] = "READY" /\ t # idle
      /\ \A t \in Thread : st[t] # "RUNNING"
      /\ st[idle] \notin {"FREE", "DYING"}
  BY DEF MaySchedule
<1>4. /\ status' \in [Thread -> Status]
      /\ status'[next] = "RUNNING"
      /\ \A t \in Thread \ {next} :
           status'[t] = IF st[t] = "DYING" THEN "FREE" ELSE st[t]
  BY <1>2, <1>3 DEF Reaped
<1>5. QueueInv'
  <2>1. \A t \in Thread : t \in ToSet(ready_list') <=> status'[t] = "READY" /\ t # idle
    BY <1>1, <1>3, <1>4
  <2>2. /\ \A t \in Thread : status'[t] = "RUNNING" <=> t = current'
        /\ \A t \in Thread : status'[t] # "DYING"
        /\ status'[idle] # "FREE"
    BY <1>2, <1>3, <1>4
  <2> QED
    BY <1>1, <2>1, <2>2 DEF QueueInv
<1>6. ASSUME NEW t \in Thread
      PROVE  /\ st[t] = "BLOCKED" /\ t # idle => status'[t] = "BLOCKED"
             /\ status'[t] = "BLOCKED" => st[t] = "BLOCKED"
             /\ status'[t] = "FREE" <=> st[t] \in {"FREE", "DYING"}
  BY <1>1, <1>3, <1>4
<1> QED
  BY <1>1, <1>2, <1>4, <1>5, <1>6 DEF Moved

\* The run queue is sound before every step.
LEMMA QueuedBefore ==
  ASSUME TypeOK, QueueInv
  PROVE  Queued(ready_list, status)
BY DEF TypeOK, QueueInv, Queued

\* The run queue may be changed without a switch.
LEMMA StayLemma ==
  ASSUME TypeOK, NEW rl, NEW st, Queued(rl, st),
         ready_list' = rl, status' = st, current' = current, thread_ticks' \in Nat
  PROVE  Moved(st)
BY DEF TypeOK, Queued, Moved, QueueInv

\* thread_block(), and the end of thread_exit().
LEMMA BlockMay ==
  ASSUME TypeOK, QueueInv, NEW t \in Thread, current = t,
         NEW x \in {"BLOCKED", "DYING"}, x = "DYING" => t # idle
  PROVE  MaySchedule(ready_list, [status EXCEPT ![t] = x])
<1> DEFINE st == [status EXCEPT ![t] = x]
<1>1. /\ ready_list \in Seq(Thread) /\ IsInjective(ready_list)
      /\ status \in [Thread -> Status]
  BY DEF TypeOK, QueueInv
<1>2. st \in [Thread -> Status] /\ st[t] = x /\ \A u \in Thread \ {t} : st[u] = status[u]
  BY <1>1
<1>3. /\ \A u \in Thread : u \in ToSet(ready_list) <=> status[u] = "READY" /\ u # idle
      /\ \A u \in Thread : status[u] = "RUNNING" <=> u = t
      /\ \A u \in Thread : status[u] # "DYING"
      /\ status[idle] # "FREE" /\ idle \in Thread
  BY PriThreadAssumption DEF QueueInv
<1> HIDE DEF st
<1>4. MaySchedule(ready_list, st)
  BY <1>1, <1>2, <1>3 DEF MaySchedule
<1> QED
  BY <1>4 DEF st

LEMMA BlockLemma ==
  ASSUME TypeOK, QueueInv, NEW t \in Thread, current = t,
         NEW x \in {"BLOCKED", "DYING"}, x = "DYING" => t # idle,
         Schedule(ready_list, [status EXCEPT ![t] = x])
  PROVE  Moved([status EXCEPT ![t] = x])
BY BlockMay, ScheduleLemma

\* thread_yield(), by the thread itself, for it by steal_running_by_priority(), or
\* on return from an interrupt.
LEMMA YieldMay ==
  ASSUME TypeOK, NEW rl, NEW st, Queued(rl, st), thread_yield(current, rl, st)
  PROVE  \E r, ready :
           /\ MaySchedule(r, ready) /\ Schedule(r, ready)
           /\ \A u \in Thread :
                /\ st[u] = "BLOCKED" <=> ready[u] = "BLOCKED"
                /\ st[u] \in {"FREE", "DYING"} <=> ready[u] \in {"FREE", "DYING"}
<1> DEFINE t == current
           ready == [st EXCEPT ![t] = "READY"]
<1>1. /\ t \in Thread /\ idle \in Thread
      /\ rl \in Seq(Thread) /\ IsInjective(rl) /\ st \in [Thread -> Status]
      /\ \A u \in Thread : u \in ToSet(rl) <=> st[u] = "READY" /\ u # idle
      /\ \A u \in Thread : st[u] = "RUNNING" <=> u = t
      /\ \A u \in Thread : st[u] # "DYING"
      /\ st[idle] # "FREE"
  BY PriThreadAssumption DEF TypeOK, Queued
<1>2. /\ ready \in [Thread -> Status] /\ ready[t] = "READY"
      /\ \A u \in Thread \ {t} : ready[u] = st[u]
  BY <1>1
<1>3. PICK r : /\ r \in Seq(Thread) /\ IsInjective(r)
               /\ ToSet(r) = ToSet(rl) \union ({t} \ {idle})
               /\ Schedule(r, ready)
  <2>1. CASE t = idle
    BY <1>1, <2>1 DEF thread_yield
  <2>2. CASE t # idle
    <3>1. PICK r \in Inserted(rl, t, priority) : Schedule(r, ready)
      BY <2>2 DEF thread_yield
    <3>2. t \notin ToSet(rl)
      BY <1>1
    <3>3. r \in Seq(Thread) /\ IsInjective(r) /\ ToSet(r) = ToSet(rl) \union {t}
      BY <1>1, <3>1, <3>2, InsertedElems
    <3> QED
      BY <2>2, <3>1, <3>3
  <2> QED
    BY <2>1, <2>2
<1> HIDE DEF t, ready
<1>4. MaySchedule(r, ready)
  BY <1>1, <1>2, <1>3 DEF MaySchedule
<1>5. \A u \in Thread : /\ st[u] = "BLOCKED" <=> ready[u] = "BLOCKED"
                        /\ st[u] \in {"FREE", "DYING"} <=> ready[u] \in {"FREE", "DYING"}
  BY <1>1, <1>2
<1> QED
  BY <1>3, <1>4, <1>5

LEMMA YieldLemma ==
  ASSUME TypeOK, NEW rl, NEW st, Queued(rl, st), thread_yield(current, rl, st)
  PROVE  Moved(st)
<1>1. PICK r, ready :
        /\ MaySchedule(r, ready) /\ Schedule(r, ready)
        /\ \A u \in Thread :
             /\ st[u] = "BLOCKED" <=> ready[u] = "BLOCKED"
             /\ st[u] \in {"FREE", "DYING"} <=> ready[u] \in {"FREE", "DYING"}
  BY YieldMay
<1>2. Moved(ready)
  BY <1>1, ScheduleLemma
<1> QED
  BY <1>1, <1>2 DEF Moved

\* steal_running_by_priority() preempts the running thread or leaves it alone.
LEMMA StealLemma ==
  ASSUME TypeOK, NEW rl, NEW st, NEW intr \in BOOLEAN, Queued(rl, st),
         steal(rl, st, intr)
  PROVE  Moved(st) /\ panic' \in {panic, "intr_context"}
<1>1. CASE Stolen(rl) /\ ~ intr /\ thread_yield(current, rl, st) /\ UNCHANGED panic
  BY <1>1, YieldLemma
<1>2. CASE /\ ready_list' = rl /\ status' = st
           /\ panic' = IF Stolen(rl) THEN "intr_context" ELSE panic
           /\ UNCHANGED <<current, thread_ticks>>
  BY <1>2, StayLemma DEF TypeOK
<1> QED
  BY <1>1, <1>2 DEF steal

\* thread_unblock() queues a blocked thread.
LEMMA UnblockLemma ==
  ASSUME TypeOK, QueueInv, NEW w \in Thread, w # idle, status[w] = "BLOCKED",
         NEW rl \in Inserted(ready_list, w, priority)
  PROVE  Queued(rl, [status EXCEPT ![w] = "READY"])
<1> DEFINE st == [status EXCEPT ![w] = "READY"]
<1>1. /\ ready_list \in Seq(Thread) /\ IsInjective(ready_list)
      /\ status \in [Thread -> Status]
      /\ \A u \in Thread : u \in ToSet(ready_list) <=> status[u] = "READY" /\ u # idle
      /\ \A u \in Thread : status[u] = "RUNNING" <=> u = current
      /\ \A u \in Thread : status[u] # "DYING"
      /\ status[idle] # "FREE" /\ idle \in Thread
  BY PriThreadAssumption DEF TypeOK, QueueInv
<1>2. /\ st \in [Thread -> Status] /\ st[w] = "READY"
      /\ \A u \in Thread \ {w} : st[u] = status[u]
  BY <1>1
<1>3. w \notin ToSet(ready_list)
  BY <1>1
<1>4. /\ rl \in Seq(Thread) /\ IsInjective(rl)
      /\ ToSet(rl) = ToSet(ready_list) \union {w}
  BY <1>1, <1>3, InsertedElems
<1> HIDE DEF st
<1> QED
  <2>1. Queued(rl, st)
    BY <1>1, <1>2, <1>4 DEF Queued
  <2> QED
    BY <2>1 DEF st

-----------------------------------------------------------------------------
(***************************************************************************)
(* A step of the running thread t that moves it to label l and leaves the  *)
(* scheduler, the semaphores and the holders of locks alone.               *)
(***************************************************************************)

\* The part of TypeOK that the rest of the invariant is about, and the remainder.
CoreType ==
  /\ current \in Thread
  /\ status \in [Thread -> Status]
  /\ ready_list \in Seq(Thread)
  /\ sleepers \subseteq Thread
  /\ thread_ticks \in Nat
  /\ in_timer \in BOOLEAN
  /\ value \in [AnySema -> Nat]
  /\ waiters \in [AnySema -> Seq(Thread)]
  /\ holder \in [Lock -> Thread \union {None}]
  /\ pc \in [Thread -> Label]
  /\ op \in [Thread -> Lock \union Sema \union Cond \union {None}]
  /\ ret \in [Thread -> {"run", "cw_down", "create_release", "create_unblock"}]
  /\ child \in [Thread -> Thread \union {None}]

DataType ==
  /\ priority \in [Thread -> Nat]
  /\ init_priority \in [Thread -> Nat]
  /\ waiting_lock \in [Thread -> Lock \union {None}]
  /\ donations \in [Thread -> Seq(Thread)]
  /\ torn \in BOOLEAN
  /\ cond_waiters \in [Cond -> Seq(Thread)]
  /\ lock_holder \in [Thread -> Thread \union {None}]
  /\ arg \in [Thread -> Nat]
  /\ high \in [Thread -> Nat]
  /\ panic \in {None, "intr_context", "holder gone", "waiting_lock gone",
                "donations torn"}

LEMMA TypeParts == (TypeOK <=> CoreType /\ DataType) /\ (TypeOK <=> CoreType /\ DataType)'
BY DEF TypeOK, CoreType, DataType

\* IInv without the types of the data that nothing else depends on.
Core ==
  /\ CoreType /\ OpInv /\ MutualExclusion /\ HandOver
  /\ QueueInv /\ PcInv /\ WaitInv /\ ChildInv /\ HeadInv /\ FiniteInv /\ NoLostWakeup

LEMMA CoreParts == (IInv <=> Core /\ DataType) /\ (IInv <=> Core /\ DataType)'
BY TypeParts DEF IInv, Core

\* The labels that say something about t's status.
Fixed == {"none", "idle", "woken", "cw_woken"}

\* t goes to label l; nobody else moves.
Moves(t, l) ==
  /\ pc' = [pc EXCEPT ![t] = l]
  /\ op' \in [Thread -> Lock \union Sema \union Cond \union {None}]
  /\ ret' \in [Thread -> {"run", "cw_down", "create_release", "create_unblock"}]
  /\ \A u \in Thread \ {t} : op'[u] = op[u] /\ ret'[u] = ret[u]
  /\ l \in Label
  /\ Stands(l, op'[t], ret'[t])

\* t owns the same locks at label l.
OwnsSame(t, l) ==
  /\ \A k \in Lock : op'[t] = k /\ l \in OwnLabel <=> op[t] = k /\ pc[t] \in OwnLabel
  /\ l = "create_release" => pc[t] = l

\* t is in thread_create() at label l if it has been.
CreatesSame(t, l) ==
  l \in CreateRet \/ ret'[t] \in CreateRet <=> pc[t] \in CreateRet \/ ret[t] \in CreateRet

\* Who has donors keeps some, and t has some when it is about to read their first, as
\* long as the lists are whole.
DonorsKept(t, l) ==
  /\ \A u \in Thread \ {t} : torn \/ donations[u] # <<>> => torn' \/ donations'[u] # <<>>
  /\ l = "reset3" => torn' \/ donations'[t] # <<>>

LEMMA MovesHead ==
  ASSUME CoreType, HeadInv, NEW t \in Thread, NEW l, Moves(t, l), DonorsKept(t, l)
  PROVE  HeadInv'
BY DEF CoreType, HeadInv, Moves, DonorsKept

LEMMA MovesOp ==
  ASSUME CoreType, OpInv, NEW t \in Thread, NEW l, Moves(t, l)
  PROVE  OpInv' /\ pc' \in [Thread -> Label]
BY DEF CoreType, OpInv, Moves, Stands

\* t's new label says no more about its status than the old one did.
Loose(t, l) ==
  \/ {l, pc[t]} \intersect Fixed = {}
  \/ l = pc[t] /\ op'[t] = op[t]

\* A step of the scheduler, if any, that blocks nobody and wakes nobody up.
LEMMA MovesLists ==
  ASSUME CoreType, QueueInv, PcInv, WaitInv, ChildInv, FiniteInv, NoLostWakeup,
         NEW t \in Thread, current = t, NEW l, Loose(t, l),
         Moves(t, l), CreatesSame(t, l), Moved(status),
         UNCHANGED <<sleepers, waiters, child>>,
         value' \in [AnySema -> Nat],
         \A s \in AnySema : waiters[s] # <<>> => value'[s] <= value[s]
  PROVE  PcInv' /\ WaitInv' /\ ChildInv' /\ FiniteInv' /\ NoLostWakeup'
<1>1. /\ status[t] = "RUNNING" /\ pc \in [Thread -> Label]
      /\ pc'[t] = l /\ \A u \in Thread \ {t} : pc'[u] = pc[u]
      /\ \A u \in Thread \ {t} : op'[u] = op[u] /\ ret'[u] = ret[u]
  BY DEF QueueInv, Moves, CoreType
<1>2. /\ status' \in [Thread -> Status]
      /\ \A u \in Thread \ {idle} : status'[u] = "BLOCKED" <=> status[u] = "BLOCKED"
      /\ \A u \in Thread : status'[u] = "FREE" <=> status[u] = "FREE"
      /\ t # idle => status'[t] # "BLOCKED"
  BY <1>1 DEF Moved, QueueInv
<1>3. idle \in Thread /\ pc[idle] = "idle"
  BY PriThreadAssumption DEF PcInv
<1>a. t = idle => l = "idle"
  BY <1>3 DEF Loose, Fixed
<1>4. PcInv'
  <2>1. \A u \in Thread : status'[u] = "FREE" => u # t /\ pc[u] = "none"
    BY <1>1, <1>2 DEF PcInv
  <2>2. t # idle => l # "idle"
    BY DEF PcInv, Fixed, Loose
  <2> QED
    BY <1>1, <1>3, <1>a, <2>1, <2>2 DEF PcInv
<1>5. \A u \in Thread \ {t} : \A s \in AnySema : WaitsAt(u, s)' <=> WaitsAt(u, s)
  BY <1>1 DEF WaitsAt
<1>6. WaitInv'
  <2>1. \A s \in AnySema : ~ WaitsAt(idle, s) /\ (idle # t => ~ WaitsAt(idle, s)')
    BY <1>3, <1>5 DEF WaitsAt
  <2>2. idle # t => pc'[idle] = "idle"
    BY <1>1, <1>3
  <2> SUFFICES ASSUME NEW u \in Thread
               PROVE  /\ u \in sleepers <=> status'[u] = "BLOCKED" /\ pc'[u] = "run"
                      /\ \A s \in AnySema :
                           u \in ToSet(waiters[s]) <=> status'[u] = "BLOCKED" /\ WaitsAt(u, s)'
                      /\ status'[u] = "BLOCKED" /\ u # idle =>
                           pc'[u] \in {"run", "woken", "cw_woken", "none"}
    BY DEF WaitInv
  <2>3. CASE u = t
    <3>1. \A s \in AnySema : t \notin ToSet(waiters[s])
      BY <1>1 DEF WaitInv
    <3>2. t \notin sleepers
      BY <1>1 DEF WaitInv
    <3>3. t = idle => \A s \in AnySema : ~ WaitsAt(t, s)'
      BY <1>1, <1>a DEF WaitsAt
    <3> QED
      BY <1>1, <1>2, <1>a, <2>3, <3>1, <3>2, <3>3
  <2>4. CASE u = idle /\ u # t
    BY <1>3, <2>1, <2>2, <2>4 DEF WaitInv
  <2>5. CASE u # idle /\ u # t
    BY <1>1, <1>2, <1>5, <2>5 DEF WaitInv
  <2> QED
    BY <2>3, <2>4, <2>5
<1>7. ChildInv'
  <2>1. \A u \in Thread : u = t \/ (pc'[u] = pc[u] /\ ret'[u] = ret[u])
    BY <1>1
  <2>2. child[t] # None <=> ret'[t] \in CreateRet \/ pc'[t] \in CreateRet
    BY <1>1 DEF ChildInv, CreatesSame
  <2>3. ASSUME NEW u \in Thread, child[u] # None
        PROVE  pc'[child[u]] = "none" /\ status'[child[u]] = "BLOCKED"
    <3>1. /\ child[u] \in Thread /\ pc[child[u]] = "none" /\ status[child[u]] = "BLOCKED"
          /\ child[u] # t /\ child[u] # idle
      BY <1>1, <1>3, <2>3 DEF ChildInv, CoreType
    <3> QED
      BY <1>1, <1>2, <3>1
  <2> QED
    BY <2>1, <2>2, <2>3 DEF ChildInv
<1>8. FiniteInv'
  <2>1. {u \in Thread : status'[u] # "FREE"} = {u \in Thread : status[u] # "FREE"}
    BY <1>2
  <2> QED
    BY <2>1 DEF FiniteInv
<1>9. NoLostWakeup'
  <2> SUFFICES ASSUME NEW s \in AnySema, waiters'[s] # <<>>
               PROVE  value'[s] <= Cardinality(Woken(s)')
    BY DEF NoLostWakeup
  <2>1. ASSUME NEW u \in Thread PROVE u \in Woken(s)' <=> u \in Woken(s)
    <3>1. CASE u = t
      BY <1>1, <1>2, <1>a, <3>1 DEF Woken, Fixed, Loose
    <3>2. CASE u # t /\ u = idle
      BY <1>1, <1>3, <3>2 DEF Woken
    <3>3. CASE u # t /\ u # idle
      BY <1>1, <1>2, <3>3 DEF Woken
    <3> QED
      BY <3>1, <3>2, <3>3
  <2>2. Woken(s)' = Woken(s)
    BY <2>1 DEF Woken
  <2>3. value[s] <= Cardinality(Woken(s))
    BY DEF NoLostWakeup
  <2>4. Cardinality(Woken(s)) \in Nat /\ value[s] \in Nat /\ value'[s] \in Nat
    <3>1. Woken(s) \subseteq {u \in Thread : status[u] # "FREE"}
      BY DEF Woken, PcInv
    <3>2. IsFiniteSet(Woken(s))
      BY <3>1, FS_Subset DEF FiniteInv
    <3> QED
      BY <3>2, FS_CardinalityType DEF CoreType
  <2> QED
    BY <2>2, <2>3, <2>4
<1> QED
  BY <1>4, <1>6, <1>7, <1>8, <1>9

\* Nobody owns another lock than before.
LEMMA SameOwners ==
  ASSUME Core, NEW t \in Thread, NEW l, Moves(t, l), OwnsSame(t, l),
         UNCHANGED holder, \A k \in Lock : value'[k] = value[k]
  PROVE  MutualExclusion' /\ HandOver'
<1>1. pc'[t] = l /\ \A u \in Thread \ {t} : pc'[u] = pc[u] /\ op'[u] = op[u]
  BY DEF Moves, Core, CoreType
<1>2. \A u \in Thread, k \in Lock : Owns(u, k)' <=> Owns(u, k)
  <2> SUFFICES ASSUME NEW u \in Thread, NEW k \in Lock PROVE Owns(u, k)' <=> Owns(u, k)
    OBVIOUS
  <2>1. CASE u = t
    BY <1>1, <2>1 DEF Owns, OwnsSame
  <2>2. CASE u # t
    BY <1>1, <2>2 DEF Owns
  <2> QED
    BY <2>1, <2>2
<1>3. MutualExclusion'
  BY <1>2 DEF Core, MutualExclusion
<1>4. HandOver'
  BY <1>1 DEF Core, HandOver, OwnsSame
<1> QED
  BY <1>3, <1>4

\* Most steps change nothing but where t stands and, perhaps, who runs.
LEMMA QuietStep ==
  ASSUME Core, NEW t \in Thread, current = t, NEW l, Loose(t, l),
         Moves(t, l), OwnsSame(t, l), CreatesSame(t, l), DonorsKept(t, l), Moved(status),
         UNCHANGED <<sleepers, semaVars, holder, child>>, in_timer' \in BOOLEAN
  PROVE  Core'
<1>1. CoreType'
  <2>1. pc' \in [Thread -> Label]
    BY MovesOp DEF Core
  <2> QED
    BY <2>1 DEF Core, CoreType, Moves, Moved, semaVars
<1>2. OpInv' /\ HeadInv'
  BY MovesOp, MovesHead DEF Core
<1>3. MutualExclusion' /\ HandOver'
  BY SameOwners DEF semaVars
<1>4. PcInv' /\ WaitInv' /\ ChildInv' /\ FiniteInv' /\ NoLostWakeup'
  <2>1. value' \in [AnySema -> Nat] /\ \A s \in AnySema : value'[s] <= value[s]
    BY DEF Core, CoreType, semaVars
  <2> QED
    BY <2>1, MovesLists DEF Core, semaVars
<1> QED
  BY <1>1, <1>2, <1>3, <1>4 DEF Core, Moved

\* The scheduler stands still.
LEMMA SameSched ==
  ASSUME CoreType, QueueInv, UNCHANGED schedVars
  PROVE  Moved(status)
BY DEF CoreType, QueueInv, Moved, schedVars

-----------------------------------------------------------------------------
(***************************************************************************)
(* lock_acquire() up to its semaphore, and reset_priority().               *)
(***************************************************************************)

\* Nothing happens to what the invariant is about.
LEMMA StillCore ==
  ASSUME Core,
         UNCHANGED <<current, status, ready_list, sleepers, value, waiters, holder, pc, op,
                     ret, child, donations, torn>>,
         thread_ticks' \in Nat, in_timer' \in BOOLEAN
  PROVE  Core'
<1>1. CoreType' /\ OpInv'
  BY DEF Core, CoreType, OpInv
<1>2. MutualExclusion' /\ HandOver'
  BY DEF Core, MutualExclusion, HandOver, Owns
<1>3. QueueInv' /\ PcInv' /\ HeadInv'
  BY DEF Core, QueueInv, PcInv, HeadInv
<1>4. WaitInv'
  BY DEF Core, WaitInv, WaitsAt
<1>5. ChildInv' /\ FiniteInv'
  BY DEF Core, ChildInv, FiniteInv
<1>6. NoLostWakeup'
  <2>1. \A s \in AnySema : Woken(s)' = Woken(s)
    BY DEF Woken
  <2> QED
    BY <2>1 DEF Core, NoLostWakeup
<1> QED
  BY <1>1, <1>2, <1>3, <1>4, <1>5, <1>6 DEF Core

\* A kernel that has panicked does not move.
LEMMA PanicInv ==
  ASSUME IInv, NEW why, Panic(why),
         why \in {"holder gone", "waiting_lock gone", "donations torn"}
  PROVE  IInv'
<1>1. UNCHANGED <<current, status, ready_list, thread_ticks, sleepers, in_timer, priority,
                  init_priority, waiting_lock, donations, torn, value, waiters, holder,
                  cond_waiters, pc, op, ret, lock_holder, child, arg, high>>
  BY DEF Panic, schedVars, priVars, donVars, semaVars, callVars, localVars
<1>2. Core /\ DataType
  BY CoreParts
<1>3. Core'
  BY <1>1, <1>2, StillCore DEF Core, CoreType
<1>4. DataType'
  BY <1>1, <1>2 DEF DataType, Panic
<1> QED
  BY <1>3, <1>4, CoreParts

\* t goes on to label l, inside the same call.
GoesTo(t, l) ==
  /\ current = t
  /\ pc' = [pc EXCEPT ![t] = l]
  /\ UNCHANGED <<schedVars, sleepers, in_timer, semaVars, holder, child, op, ret>>

LEMMA GoesToMoves ==
  ASSUME CoreType, NEW t \in Thread, NEW l \in Label, GoesTo(t, l), Stands(l, op[t], ret[t])
  PROVE  Moves(t, l)
BY DEF CoreType, GoesTo, Moves

AcquireMove(t) ==
  /\ pc[t] \in AcquireLabel
  /\ \E l \in AcquireLabel \union {"down"} : GoesTo(t, l)
  /\ \A u \in Thread : torn \/ donations[u] # <<>> => torn' \/ donations'[u] # <<>>

LEMMA AcquireMoveInv ==
  ASSUME Core, NEW t \in Thread, AcquireMove(t)
  PROVE  Core'
<1>1. PICK l \in AcquireLabel \union {"down"} : GoesTo(t, l)
  BY DEF AcquireMove
<1>2. pc[t] \in AcquireLabel /\ l \in Label /\ {l, pc[t]} \intersect Fixed = {}
  BY DEF AcquireMove, AcquireLabel, Label, Fixed
<1>3. Stands(l, op[t], ret[t])
  BY <1>2 DEF Core, OpInv, Stands, AcquireLabel, ResetLabel
<1>4. Moves(t, l)
  BY <1>1, <1>2, <1>3, GoesToMoves DEF Core
<1>5. OwnsSame(t, l) /\ CreatesSame(t, l) /\ DonorsKept(t, l)
  BY <1>1, <1>2 DEF OwnsSame, CreatesSame, OwnLabel, ResetLabel, CreateRet, AcquireLabel,
                    GoesTo, DonorsKept, AcquireMove
<1> QED
  BY <1>1, <1>2, <1>4, <1>5, QuietStep, SameSched DEF GoesTo, Loose, Core, CoreType

ResetMove(t) ==
  /\ pc[t] \in ResetLabel \union {"remove"}
  /\ \E l \in ResetLabel \union {AfterReset(t)} : GoesTo(t, l) /\ DonorsKept(t, l)

LEMMA ResetMoveInv ==
  ASSUME Core, NEW t \in Thread, ResetMove(t)
  PROVE  Core'
<1>1. PICK l \in ResetLabel \union {AfterReset(t)} : GoesTo(t, l) /\ DonorsKept(t, l)
  BY DEF ResetMove
<1>2. /\ pc[t] \in ResetLabel \union {"remove"}
      /\ l \in Label /\ {l, pc[t]} \intersect Fixed = {}
  BY DEF ResetMove, ResetLabel, Label, Fixed, AfterReset
<1>3. op[t] \in Lock \union {None}
  BY <1>2 DEF Core, OpInv, Stands
<1>4. Stands(l, op[t], ret[t])
  <2>1. /\ ret[t] \in {"run", "cw_down", "create_unblock"}
        /\ ret[t] # "run" => op[t] \in Lock
    BY <1>2 DEF Core, OpInv, Stands, CoreType, ResetLabel, AcquireLabel
  <2>2. l \in ResetLabel \/ (l = "steal" /\ op[t] = None) \/ (l = "up" /\ op[t] # None)
    BY DEF AfterReset
  <2>3. None \notin Lock
    BY PriThreadAssumption
  <2> QED
    BY <1>3, <2>1, <2>2, <2>3 DEF Stands, ResetLabel, AcquireLabel
<1>5. Moves(t, l)
  BY <1>1, <1>2, <1>4, GoesToMoves DEF Core
<1>6. OwnsSame(t, l)
  <2>1. pc[t] \in OwnLabel
    BY <1>2 DEF OwnLabel
  <2>2. op[t] # None => l \in OwnLabel
    BY DEF OwnLabel, AfterReset
  <2>3. None \notin Lock
    BY PriThreadAssumption
  <2> QED
    BY <1>1, <2>1, <2>2, <2>3 DEF OwnsSame, GoesTo, AfterReset, ResetLabel
<1>7. CreatesSame(t, l)
  BY <1>1, <1>2 DEF CreatesSame, ResetLabel, CreateRet, GoesTo, AfterReset
<1> QED
  BY <1>1, <1>2, <1>5, <1>6, <1>7, QuietStep, SameSched DEF GoesTo, Loose, Core, CoreType

\* What the steps of lock_acquire() do to everything else.
LEMMA AcquireSteps ==
  ASSUME IInv, NEW t \in Thread,
         \/ AcqTest(t) \/ AcqRead(t) \/ AcqInsert(t) \/ Donate(t) \/ DonateWrite(t)
         \/ DonateChain(t) \/ DonateNext(t)
  PROVE  IInv'
<1> DEFINE Goal == AcquireMove(t) /\ DataType'
           Down == AcquireLabel \union {"down"}
<1>d. DataType /\ holder \in [Lock -> Thread \union {None}]
  BY CoreParts DEF Core, CoreType
<1> USE DEF At, Running, Goto, lockFrame, GoesTo, priVars, donVars, localVars
<1>0. ASSUME Goal PROVE IInv'
  BY <1>0, AcquireMoveInv, CoreParts
<1>1. ASSUME AcqTest(t) PROVE Goal
  <2>1. op[t] \in Lock
    BY <1>1 DEF IInv, OpInv, Stands, AcqTest, AcquireLabel
  <2>2. DataType'
    BY <1>d, <1>1, <2>1 DEF AcqTest, DataType
  <2> QED
    BY <1>1, <2>2 DEF AcqTest, AcquireMove, AcquireLabel
<1>2. ASSUME AcqRead(t) PROVE Goal
  <2>1. op[t] \in Lock
    BY <1>2 DEF IInv, OpInv, Stands, AcqRead, AcquireLabel
  <2>2. DataType'
    BY <1>d, <1>2, <2>1 DEF AcqRead, DataType
  <2> QED
    BY <1>2, <2>2 DEF AcqRead, AcquireMove, AcquireLabel
<1>3. ASSUME AcqInsert(t) PROVE IInv'
  <2> DEFINE Frame == UNCHANGED <<lockFrame, priVars, waiting_lock, holder, op, ret,
                                  lock_holder, panic>>
  <2>1. CASE /\ Live(lock_holder[t])
             /\ \E d \in Inserted(donations[lock_holder[t]], t, DonorKey) :
                  donations' = [donations EXCEPT ![lock_holder[t]] = d]
             /\ UNCHANGED torn
             /\ Goto(t, "donate")
             /\ Frame
    <3>1. lock_holder[t] \in Thread
      BY <1>d, <2>1 DEF Live, DataType
    <3>2. PICK d \in Inserted(donations[lock_holder[t]], t, DonorKey) :
                  donations' = [donations EXCEPT ![lock_holder[t]] = d]
      BY <2>1
    <3>3. d \in Seq(Thread)
      BY <1>d, <3>1, <3>2, InsertedElems DEF DataType
    <3>4. DataType'
      BY <1>d, <2>1, <3>1, <3>2, <3>3 DEF DataType
    <3>5. \A u \in Thread : donations[u] # <<>> => donations'[u] # <<>>
      <4>1. donations[lock_holder[t]] \in Seq(Thread)
        BY <1>d, <3>1 DEF DataType
      <4>2. d # <<>>
        BY <3>2, <4>1, InsertedElems
      <4> QED
        BY <1>d, <3>1, <3>2, <4>2 DEF DataType
    <3>6. AcquireMove(t)
      BY <1>3, <2>1, <3>5 DEF AcqInsert, AcquireMove, AcquireLabel
    <3> QED
      BY <1>0, <3>4, <3>6
  <2>2. CASE Tear /\ Goto(t, "donate") /\ Frame
    <3>1. DataType'
      <4>1. <<>> \in Seq(Thread)
        OBVIOUS
      <4> QED
        BY <1>d, <2>2, <4>1 DEF DataType, Tear
    <3>2. AcquireMove(t)
      BY <1>3, <2>2 DEF AcqInsert, AcquireMove, AcquireLabel, Tear
    <3> QED
      BY <1>0, <3>1, <3>2
  <2> QED
    BY <1>3, <2>1, <2>2, PanicInv DEF AcqInsert, Lost
<1>4. ASSUME NEW w \in Lock \union {None}, pc[t] \in AcquireLabel, Running(t),
             ReadHolder(t, w)
      PROVE  IInv'
  <2>1. CASE /\ w # None
             /\ lock_holder' = [lock_holder EXCEPT ![t] = holder[w]]
             /\ Goto(t, "write")
             /\ UNCHANGED <<lockFrame, priVars, donVars, holder, op, ret, panic>>
    <3>1. DataType'
      BY <1>d, <2>1 DEF DataType
    <3>2. AcquireMove(t)
      BY <1>4, <2>1 DEF AcquireMove, AcquireLabel
    <3> QED
      BY <1>0, <3>1, <3>2
  <2> QED
    BY <1>4, <2>1, PanicInv DEF ReadHolder
<1>5. ASSUME Donate(t) PROVE IInv'
  <2>1. waiting_lock[t] \in Lock \union {None} /\ pc[t] \in AcquireLabel
    BY <1>d, <1>5 DEF DataType, Donate, AcquireLabel
  <2> QED
    BY <1>4, <1>5, <2>1 DEF Donate
<1>6. ASSUME DonateWrite(t) PROVE IInv'
  <2>1. CASE /\ Live(lock_holder[t])
             /\ priority' = [priority EXCEPT ![lock_holder[t]] = priority[t]]
             /\ Goto(t, "chain")
             /\ UNCHANGED <<lockFrame, init_priority, donVars, holder, op, ret,
                            lock_holder, panic>>
    <3>1. DataType'
      BY <1>d, <2>1 DEF DataType
    <3>2. AcquireMove(t)
      BY <1>6, <2>1 DEF DonateWrite, AcquireMove, AcquireLabel
    <3> QED
      BY <1>0, <3>1, <3>2
  <2> QED
    BY <1>6, <2>1, PanicInv DEF DonateWrite
<1>7. ASSUME DonateChain(t) PROVE IInv'
  <2>1. CASE /\ \/ /\ lock_holder' = [lock_holder EXCEPT ![t] = None]
                   /\ Goto(t, "down")
                \/ /\ Goto(t, "chain_read")
                   /\ UNCHANGED lock_holder
             /\ UNCHANGED <<lockFrame, priVars, donVars, holder, op, ret, panic>>
    <3>1. DataType'
      BY <1>d, <2>1 DEF DataType
    <3>2. AcquireMove(t)
      BY <1>7, <2>1 DEF DonateChain, AcquireMove, AcquireLabel
    <3> QED
      BY <1>0, <3>1, <3>2
  <2> QED
    BY <1>7, <2>1, PanicInv DEF DonateChain
<1>8. ASSUME DonateNext(t) PROVE IInv'
  <2>1. CASE Live(lock_holder[t]) /\ ReadHolder(t, waiting_lock[lock_holder[t]])
    <3>1. lock_holder[t] \in Thread
      BY <1>d, <2>1 DEF Live, DataType
    <3>2. waiting_lock[lock_holder[t]] \in Lock \union {None}
      BY <1>d, <3>1 DEF DataType
    <3>3. pc[t] \in AcquireLabel /\ Running(t)
      BY <1>8 DEF DonateNext, AcquireLabel
    <3> QED
      BY <1>4, <2>1, <3>2, <3>3
  <2> QED
    BY <1>8, <2>1, PanicInv DEF DonateNext
<1> QED
  BY <1>0, <1>1, <1>2, <1>3, <1>5, <1>6, <1>7, <1>8

\* remove_lock() and reset_priority().
LEMMA ResetSteps ==
  ASSUME IInv, NEW t \in Thread,
         RemoveLock(t) \/ Reset1(t) \/ Reset2(t) \/ Reset3(t) \/ Reset4(t)
  PROVE  IInv'
<1> DEFINE Goal == ResetMove(t) /\ DataType'
<1>d. DataType
  BY CoreParts
<1> USE DEF At, Running, Goto, lockFrame, GoesTo, priVars, donVars, localVars, ResetLabel,
        DonorsKept, AfterReset
<1>0. ASSUME Goal PROVE IInv'
  BY <1>0, ResetMoveInv, CoreParts
<1>1. ASSUME RemoveLock(t), ~ Lost PROVE Goal
  <2>1. PICK gone \in Found(t) :
          /\ \E d \in Without(donations[t], gone) : donations' = [donations EXCEPT ![t] = d]
          /\ waiting_lock' = [u \in Thread |-> IF u \in gone THEN None ELSE waiting_lock[u]]
    BY <1>1 DEF RemoveLock
  <2>2. PICK d \in Without(donations[t], gone) : donations' = [donations EXCEPT ![t] = d]
    BY <2>1
  <2>3. d \in Seq(Thread)
    BY <1>d, <2>2, WithoutElems DEF DataType
  <2>4. DataType'
    BY <1>d, <1>1, <2>1, <2>2, <2>3 DEF RemoveLock, DataType
  <2>5. \A u \in Thread \ {t} : donations'[u] = donations[u]
    BY <1>d, <2>2 DEF DataType
  <2> QED
    BY <1>1, <2>4, <2>5 DEF RemoveLock, ResetMove
<1>2. ASSUME Reset1(t) PROVE Goal
  <2>1. DataType'
    BY <1>d, <1>2 DEF Reset1, DataType
  <2> QED
    BY <1>2, <2>1 DEF Reset1, ResetMove
<1>3. ASSUME Reset2(t), ~ Lost PROVE Goal
  <2>1. CASE /\ \/ donations[t] = <<>> /\ Goto(t, AfterReset(t))
                \/ torn /\ Goto(t, "reset3")
             /\ UNCHANGED donations
    <3>1. DataType'
      BY <1>d, <1>3, <2>1 DEF Reset2, DataType
    <3> QED
      BY <1>3, <2>1, <3>1 DEF Reset2, ResetMove
  <2>2. CASE \E d \in Sorted(donations[t], DonorKey) :
               /\ d # <<>>
               /\ donations' = [donations EXCEPT ![t] = d]
               /\ Goto(t, "reset3")
    <3>1. PICK d \in Sorted(donations[t], DonorKey) :
               /\ d # <<>>
               /\ donations' = [donations EXCEPT ![t] = d]
               /\ Goto(t, "reset3")
      BY <2>2
    <3>2. d \in Seq(Thread)
      BY <1>d, <3>1, SortedElems DEF DataType
    <3>3. DataType'
      BY <1>d, <1>3, <3>1, <3>2 DEF Reset2, DataType
    <3>4. DonorsKept(t, "reset3")
      BY <1>d, <1>3, <3>1 DEF Reset2, DataType
    <3>5. GoesTo(t, "reset3")
      BY <1>3, <3>1 DEF Reset2
    <3> QED
      BY <1>3, <3>3, <3>4, <3>5 DEF Reset2, ResetMove
  <2> QED
    BY <1>3, <2>1, <2>2 DEF Reset2
<1>4. ASSUME Reset3(t), ~ Lost PROVE Goal
  <2>1. FirstPriority(t) \subseteq Nat
    <3>1. CASE ~ torn
      <4>1. donations[t] # <<>> /\ donations[t] \in Seq(Thread)
        BY <1>d, <1>4, <3>1 DEF Reset3, IInv, HeadInv, DataType
      <4>2. Head(donations[t]) \in Thread
        BY <4>1
      <4> QED
        BY <1>d, <3>1, <4>2 DEF DataType, FirstPriority
    <3>2. CASE torn
      <4>1. {priority[u] : u \in Thread} \subseteq Nat
        BY <1>d DEF DataType
      <4> QED
        BY <3>2, <4>1 DEF FirstPriority
    <3> QED
      BY <3>1, <3>2
  <2>2. PICK p \in FirstPriority(t) :
          \/ high' = [high EXCEPT ![t] = p] /\ Goto(t, "reset4")
          \/ Goto(t, AfterReset(t)) /\ UNCHANGED high
    BY <1>4 DEF Reset3
  <2>3. DataType'
    BY <1>d, <1>4, <2>1, <2>2 DEF Reset3, DataType
  <2> QED
    BY <1>4, <2>2, <2>3 DEF Reset3, ResetMove
<1>5. ASSUME Reset4(t) PROVE Goal
  <2>1. DataType'
    BY <1>d, <1>5 DEF Reset4, DataType
  <2> QED
    BY <1>5, <2>1 DEF Reset4, ResetMove
<1>6. ASSUME Lost PROVE IInv'
  BY <1>6, PanicInv DEF Lost
<1> QED
  BY <1>0, <1>1, <1>2, <1>3, <1>4, <1>5, <1>6

-----------------------------------------------------------------------------
(***************************************************************************)
(* Calls that begin, locks that change hands.                              *)
(***************************************************************************)

LEMMA LockIsSema == Lock \subseteq AnySema /\ Sema \subseteq AnySema /\ Thread \subseteq AnySema
BY DEF AnySema

\* A thread that is in no call, or in none that comes back to it, has no return label.
LEMMA NoReturn ==
  ASSUME Core, NEW t \in Thread,
         pc[t] \in {"run", "broadcast", "try_own", "cw_lock", "create_release",
                    "create_unblock", "cw_down", "cw_woken", "create_yield", "steal"}
  PROVE  ret[t] = "run"
BY DEF Core, CoreType, OpInv, Stands, ResetLabel, AcquireLabel

\* lock_acquire(), sema_down() and thread_set_priority() are called.
LEMMA StartSteps ==
  ASSUME IInv, NEW t \in Thread,
         \/ \E l \in Lock : LockAcquire(t, l)
         \/ \E s \in Sema : SemaDownCall(t, s)
         \/ \E p \in Priorities : SetPriority(t, p)
         \/ CondLock(t)
  PROVE  IInv'
<1> USE DEF At, Running, Goto, lockFrame, priVars, donVars, localVars
<1>d. Core /\ DataType
  BY CoreParts
<1>1. ASSUME NEW l \in {"acq_test", "down", "reset1"},
             NEW o \in Lock \union Sema \union {None},
             l = "acq_test" => o \in Lock,
             l = "down" => o \in Lock \union Sema,
             l = "reset1" => o = None,
             current = t, pc[t] \in {"run", "cw_lock"},
             pc' = [pc EXCEPT ![t] = l],
             op' = [op EXCEPT ![t] = o],
             ret' = ret \/ ret' = [ret EXCEPT ![t] = "run"],
             UNCHANGED <<schedVars, sleepers, in_timer, semaVars, holder, child, donations, torn>>
      PROVE  Core'
  <2>1. ret' = ret /\ ret[t] = "run"
    BY <1>d, <1>1, NoReturn DEF Core, CoreType
  <2>2. Moves(t, l)
    <3>1. Stands(l, o, "run")
      BY <1>1 DEF Stands, AcquireLabel, ResetLabel
    <3>2. op[t] \in Lock \union Sema \union Cond \union {None} /\ op'[t] = o
      BY <1>d, <1>1 DEF Core, CoreType
    <3> QED
      BY <1>d, <1>1, <2>1, <3>1, <3>2 DEF Moves, Core, CoreType, Label, AcquireLabel
  <2>3. OwnsSame(t, l) /\ CreatesSame(t, l) /\ DonorsKept(t, l)
    <3>1. l \in OwnLabel => op'[t] \notin Lock
      BY <1>d, <1>1, PriThreadAssumption DEF Core, CoreType, OwnLabel, ResetLabel
    <3> QED
      BY <1>1, <2>1, <3>1 DEF OwnsSame, CreatesSame, DonorsKept, OwnLabel, ResetLabel, CreateRet
  <2>4. Loose(t, l)
    BY <1>1 DEF Loose, Fixed
  <2> QED
    BY <1>d, <1>1, <2>2, <2>3, <2>4, QuietStep, SameSched DEF Core, CoreType
<1>2. ASSUME NEW l \in Lock, LockAcquire(t, l) PROVE IInv'
  <2>1. Core'
    BY <1>1, <1>2 DEF LockAcquire
  <2>2. DataType'
    BY <1>d, <1>2 DEF LockAcquire, DataType
  <2> QED
    BY <2>1, <2>2, CoreParts
<1>3. ASSUME NEW s \in Sema, SemaDownCall(t, s) PROVE IInv'
  <2>1. Core'
    BY <1>1, <1>3 DEF SemaDownCall
  <2>2. DataType'
    BY <1>d, <1>3 DEF SemaDownCall, DataType
  <2> QED
    BY <2>1, <2>2, CoreParts
<1>4. ASSUME NEW p \in Priorities, SetPriority(t, p) PROVE IInv'
  <2>1. Core'
    BY <1>1, <1>4 DEF SetPriority
  <2>2. p \in Nat
    BY PriorityAssumption
  <2>3. DataType'
    BY <1>d, <1>4, <2>2 DEF SetPriority, DataType
  <2> QED
    BY <2>1, <2>3, CoreParts
<1>5. ASSUME CondLock(t) PROVE IInv'
  <2>1. op[t] \in Lock
    BY <1>d, <1>5 DEF CondLock, Core, OpInv, Stands
  <2>2. op' = [op EXCEPT ![t] = op[t]]
    BY <1>d, <1>5 DEF CondLock, Core, CoreType
  <2>3. Core'
    BY <1>1, <1>5, <2>1, <2>2 DEF CondLock
  <2>4. DataType'
    BY <1>d, <1>5 DEF CondLock, DataType
  <2> QED
    BY <2>3, <2>4, CoreParts
<1> QED
  BY <1>2, <1>3, <1>4, <1>5

\* t's call returns to where ret says, with op[t] a lock.
LEMMA ReturnMoves ==
  ASSUME Core, NEW t \in Thread, Return(t), op[t] \in Lock
  PROVE  /\ Moves(t, ret[t])
         /\ ret[t] \notin OwnLabel \union Fixed \union {"reset3"}
         /\ pc[t] \notin CreateRet => CreatesSame(t, ret[t])
<1>1. /\ ret[t] \in {"run", "cw_down", "create_release", "create_unblock"}
      /\ ret'[t] = "run" /\ op'[t] = IF ret[t] = "cw_down" THEN op[t] ELSE None
      /\ \A u \in Thread \ {t} : op'[u] = op[u] /\ ret'[u] = ret[u]
  BY DEF Return, Core, CoreType
<1>2. Stands(ret[t], op'[t], ret'[t])
  BY <1>1 DEF Stands, AcquireLabel, ResetLabel
<1>3. Moves(t, ret[t])
  BY <1>1, <1>2 DEF Moves, Return, Goto, Core, CoreType, Label
<1> QED
  BY <1>1, <1>3 DEF OwnLabel, ResetLabel, Fixed, CreatesSame, CreateRet

\* lock->holder = thread_current (), at the end of lock_acquire() and
\* lock_try_acquire().
LEMMA OwnSteps ==
  ASSUME IInv, NEW t \in Thread, Own(t) \/ TryOwn(t)
  PROVE  IInv'
<1> DEFINE k == op[t]
           l == ret[t]
<1>d. Core /\ DataType
  BY CoreParts
<1>1. /\ current = t /\ pc[t] \in {"own", "try_own"}
      /\ holder' = [holder EXCEPT ![k] = t]
      /\ Return(t)
      /\ UNCHANGED <<schedVars, sleepers, in_timer, semaVars, child, donations, torn>>
  BY DEF Own, TryOwn, At, Running, lockFrame, localVars, donVars
<1>2. k \in Lock
  BY <1>d, <1>1 DEF Core, OpInv, Stands
<1>3. /\ Moves(t, l) /\ l \notin OwnLabel \union Fixed \union {"reset3"}
      /\ CreatesSame(t, l)
  BY <1>d, <1>1, <1>2, ReturnMoves DEF CreateRet
<1>4. /\ pc'[t] = l /\ op'[t] \in {None, k}
      /\ \A u \in Thread \ {t} : pc'[u] = pc[u] /\ op'[u] = op[u]
      /\ holder'[k] = t /\ \A j \in Lock \ {k} : holder'[j] = holder[j]
      /\ None \notin Lock \union Thread
      /\ pc[t] \in OwnLabel
  BY <1>d, <1>1, <1>2, <1>3, PriThreadAssumption
     DEF Moves, Core, CoreType, Return, OwnLabel
<1>5. Owns(t, k) /\ \A u \in Thread : Owns(u, k) => u = t
  BY <1>d, <1>2, <1>4 DEF Owns, Core, MutualExclusion
<1>6. ASSUME NEW u \in Thread, NEW j \in Lock PROVE Owns(u, j)' <=> Owns(u, j)
  <2>1. CASE j = k
    BY <1>3, <1>4, <1>5, <2>1 DEF Owns
  <2>2. CASE j # k
    BY <1>3, <1>4, <2>2 DEF Owns
  <2> QED
    BY <2>1, <2>2
<1>7. MutualExclusion'
  BY <1>d, <1>1, <1>6 DEF Core, MutualExclusion, semaVars
<1>8. HandOver'
  <2>1. ASSUME NEW u \in Thread, pc'[u] \in OwnLabel, op'[u] \in Lock
        PROVE  holder'[op'[u]] = None
    <3>1. u # t
      BY <1>3, <1>4, <2>1
    <3>2. op[u] # k
      BY <1>4, <1>5, <2>1, <3>1 DEF Owns
    <3> QED
      BY <1>d, <1>4, <2>1, <3>1, <3>2 DEF Core, HandOver
  <2>2. ASSUME NEW u \in Thread, pc'[u] = "create_release"
        PROVE  holder'[tid_lock] = u
    <3>1. CASE u = t
      <4>1. k = tid_lock
        BY <1>d, <1>4, <2>2, <3>1 DEF Core, OpInv, Stands
      <4> QED
        BY <1>4, <3>1, <4>1
    <3>2. CASE u # t
      <4>1. holder[tid_lock] = u
        BY <1>d, <1>4, <2>2, <3>2 DEF Core, HandOver
      <4>2. tid_lock # k
        BY <1>5, <3>2, <4>1 DEF Owns
      <4> QED
        BY <1>4, <4>1, <4>2, SyncAssumption
    <3> QED
      BY <3>1, <3>2
  <2> QED
    BY <2>1, <2>2 DEF HandOver
<1> HIDE DEF k, l
<1>9. PcInv' /\ WaitInv' /\ ChildInv' /\ FiniteInv' /\ NoLostWakeup' /\ Moved(status)
  <2>1. Moved(status)
    BY <1>d, <1>1, SameSched DEF Core
  <2>2. Loose(t, l)
    BY <1>1, <1>3 DEF Loose, Fixed
  <2>3. value' \in [AnySema -> Nat] /\ \A s \in AnySema : value'[s] <= value[s]
    BY <1>d, <1>1 DEF Core, CoreType, semaVars
  <2> QED
    BY <1>d, <1>1, <1>3, <2>1, <2>2, <2>3, MovesLists DEF Core, semaVars
<1>10. HeadInv' /\ OpInv' /\ pc' \in [Thread -> Label]
  BY <1>d, <1>1, <1>3, MovesHead, MovesOp DEF DonorsKept, Core
<1>11. CoreType'
  BY <1>d, <1>1, <1>2, <1>3, <1>9, <1>10 DEF Core, CoreType, Moves, Moved, semaVars, k
<1>12. DataType'
  BY <1>d DEF Own, TryOwn, DataType, lockFrame, priVars, donVars, localVars
<1> QED
  BY <1>7, <1>8, <1>9, <1>10, <1>11, <1>12, CoreParts DEF Core, Moved

\* Like QuietStep, where the step changes which locks are owned.
LEMMA OwnerStep ==
  ASSUME Core, NEW t \in Thread, current = t, NEW l, Loose(t, l),
         Moves(t, l), CreatesSame(t, l), DonorsKept(t, l), Moved(status),
         MutualExclusion', HandOver',
         UNCHANGED <<sleepers, waiters, child>>, in_timer' \in BOOLEAN,
         holder' \in [Lock -> Thread \union {None}], value' \in [AnySema -> Nat],
         \A s \in AnySema : waiters[s] # <<>> => value'[s] <= value[s]
  PROVE  Core'
<1>1. OpInv' /\ HeadInv' /\ pc' \in [Thread -> Label]
  BY MovesOp, MovesHead DEF Core
<1>2. PcInv' /\ WaitInv' /\ ChildInv' /\ FiniteInv' /\ NoLostWakeup'
  BY MovesLists DEF Core
<1>3. CoreType'
  BY <1>1 DEF Core, CoreType, Moves, Moved
<1> QED
  BY <1>1, <1>2, <1>3 DEF Core, Moved

\* lock->holder = NULL, at the beginning of lock_release().
LEMMA ReleaseCore ==
  ASSUME Core, NEW t \in Thread, current = t, NEW k \in Lock, holder[k] = t,
         NEW next \in {"run", "create_unblock", "cw_down"},
         pc[t] \in {"run", "create_release"},
         next = "create_unblock" <=> pc[t] = "create_release",
         lock_release(t, k, next)
  PROVE  Core'
<1>1. /\ pc' = [pc EXCEPT ![t] = "remove"]
      /\ op' = [op EXCEPT ![t] = k]
      /\ ret' = [ret EXCEPT ![t] = next]
      /\ holder' = [holder EXCEPT ![k] = None]
      /\ UNCHANGED <<schedVars, sleepers, in_timer, semaVars, donations, torn, child>>
  BY DEF lock_release, Goto, donVars, localVars
<1>2. /\ pc'[t] = "remove" /\ op'[t] = k /\ ret'[t] = next
      /\ \A u \in Thread \ {t} : pc'[u] = pc[u] /\ op'[u] = op[u] /\ ret'[u] = ret[u]
      /\ holder'[k] = None /\ \A j \in Lock \ {k} : holder'[j] = holder[j]
      /\ None \notin Lock \union Thread
  BY <1>1, PriThreadAssumption DEF Core, CoreType
<1>3. Moves(t, "remove")
  <2>1. Stands("remove", k, next)
    BY DEF Stands, ResetLabel, AcquireLabel
  <2> QED
    BY <1>1, <1>2, <2>1 DEF Moves, Core, CoreType, Label
<1>4. ASSUME NEW u \in Thread, NEW j \in Lock PROVE Owns(u, j)' <=> Owns(u, j)
  <2>1. Owns(t, k) /\ (Owns(u, k) => u = t)
    BY DEF Owns, Core, MutualExclusion
  <2>2. pc[t] \notin OwnLabel /\ "remove" \in OwnLabel
    BY DEF OwnLabel, ResetLabel
  <2>3. CASE j = k /\ u = t
    BY <1>2, <2>1, <2>2, <2>3 DEF Owns
  <2>4. CASE j = k /\ u # t
    BY <1>2, <2>1, <2>4 DEF Owns
  <2>5. CASE j # k
    BY <1>2, <2>2, <2>5 DEF Owns
  <2> QED
    BY <2>3, <2>4, <2>5
<1>5. MutualExclusion'
  BY <1>1, <1>4 DEF Core, MutualExclusion, semaVars
<1>6. HandOver'
  <2>1. ASSUME NEW u \in Thread, pc'[u] \in OwnLabel, op'[u] \in Lock
        PROVE  holder'[op'[u]] = None
    BY <1>2, <2>1 DEF Core, HandOver
  <2>2. ASSUME NEW u \in Thread, pc'[u] = "create_release" PROVE holder'[tid_lock] = u
    <3>1. u # t /\ holder[tid_lock] = u
      BY <1>2, <2>2 DEF Core, HandOver
    <3> QED
      BY <1>2, <3>1, SyncAssumption
  <2> QED
    BY <2>1, <2>2 DEF HandOver
<1>7. CreatesSame(t, "remove") /\ DonorsKept(t, "remove") /\ Loose(t, "remove")
  <2>1. ret[t] = "run"
    BY NoReturn
  <2> QED
    BY <1>1, <1>2, <2>1 DEF CreatesSame, CreateRet, DonorsKept, Loose, Fixed
<1>8. Moved(status)
  BY <1>1, SameSched DEF Core
<1>9. holder' \in [Lock -> Thread \union {None}]
  BY <1>1 DEF Core, CoreType
<1>10. /\ value' \in [AnySema -> Nat] /\ \A s \in AnySema : value'[s] <= value[s]
       /\ in_timer' \in BOOLEAN /\ UNCHANGED <<sleepers, waiters, child>>
  BY <1>1 DEF Core, CoreType, semaVars
<1> QED
  BY <1>3, <1>5, <1>6, <1>7, <1>8, <1>9, <1>10, OwnerStep

\* lock_release(), called by a thread, by allocate_tid() and by cond_wait().
LEMMA ReleaseSteps ==
  ASSUME IInv, NEW t \in Thread,
         \/ \E k \in Lock : LockRelease(t, k)
         \/ CreateRelease(t)
         \/ \E c \in Cond : CondWait(t, c)
  PROVE  IInv'
<1>d. Core /\ DataType
  BY CoreParts
<1>1. ASSUME NEW k \in Lock, NEW next, lock_release(t, k, next),
             cond_waiters' \in [Cond -> Seq(Thread)]
      PROVE  DataType'
  BY <1>d, <1>1 DEF DataType, lock_release, priVars, donVars, localVars
<1>2. ASSUME NEW k \in Lock, LockRelease(t, k) PROVE IInv'
  <2>1. Core'
    BY <1>d, <1>2, ReleaseCore DEF LockRelease, At, Running, Holds
  <2>2. DataType'
    BY <1>d, <1>1, <1>2 DEF LockRelease, DataType
  <2> QED
    BY <2>1, <2>2, CoreParts
<1>3. ASSUME CreateRelease(t) PROVE IInv'
  <2>1. tid_lock \in Lock /\ holder[tid_lock] = t
    BY <1>d, <1>3, SyncAssumption DEF CreateRelease, At, Core, HandOver
  <2>2. Core'
    BY <1>d, <1>3, <2>1, ReleaseCore DEF CreateRelease, At, Running
  <2>3. DataType'
    BY <1>d, <1>1, <1>3, <2>1 DEF CreateRelease, DataType
  <2> QED
    BY <2>2, <2>3, CoreParts
<1>4. ASSUME NEW c \in Cond, CondWait(t, c) PROVE IInv'
  <2>1. LockOf[c] \in Lock /\ holder[LockOf[c]] = t
    BY <1>4 DEF CondWait, Holds
  <2>2. Core'
    BY <1>d, <1>4, <2>1, ReleaseCore DEF CondWait, At, Running
  <2>3. PICK w \in Inserted(cond_waiters[c], t, [CondKey EXCEPT ![t] = 0]) :
          cond_waiters' = [cond_waiters EXCEPT ![c] = w]
    BY <1>4 DEF CondWait
  <2>4. w \in Seq(Thread)
    <3>1. cond_waiters[c] \in Seq(Thread)
      BY <1>d DEF DataType
    <3> QED
      BY <2>3, <3>1, InsertedElems
  <2>5. cond_waiters' \in [Cond -> Seq(Thread)]
    BY <1>d, <2>3, <2>4 DEF DataType
  <2>6. DataType'
    BY <1>1, <1>4, <2>1, <2>5 DEF CondWait
  <2> QED
    BY <2>2, <2>6, CoreParts
<1> QED
  BY <1>2, <1>3, <1>4

-----------------------------------------------------------------------------
(***************************************************************************)
(* Semaphores: sema_down() that succeeds, and lock_try_acquire().          *)
(***************************************************************************)

\* If s is a lock's semaphore, t owns the lock from here on.
LEMMA TakeOwners ==
  ASSUME Core, NEW t \in Thread, NEW s \in AnySema, value[s] > 0,
         value' = [value EXCEPT ![s] = @ - 1], UNCHANGED holder,
         NEW l \in {"own", "try_own", "run", "cw_lock"}, Moves(t, l),
         pc[t] \notin OwnLabel,
         l \in {"own", "try_own"} => s \in Lock /\ op'[t] = s,
         s \in Lock => l \in {"own", "try_own"}
  PROVE  MutualExclusion' /\ HandOver'
<1>1. /\ pc'[t] = l /\ \A u \in Thread \ {t} : pc'[u] = pc[u] /\ op'[u] = op[u]
      /\ \A r \in AnySema \ {s} : value'[r] = value[r]
      /\ value[s] \in Nat /\ value'[s] = value[s] - 1
      /\ None \notin Thread
  BY PriThreadAssumption DEF Moves, Core, CoreType
<1>2. l \in OwnLabel <=> s \in Lock
  BY DEF OwnLabel, ResetLabel
<1>3. s \in Lock => value'[s] = 0 /\ \A u \in Thread : ~ Owns(u, s)
  BY <1>1 DEF Core, MutualExclusion
<1>4. ASSUME NEW u \in Thread, NEW j \in Lock
      PROVE  Owns(u, j)' <=> Owns(u, j) \/ (u = t /\ j = s)
  <2>1. CASE u = t
    BY <1>1, <1>2, <2>1 DEF Owns
  <2>2. CASE u # t
    BY <1>1, <2>2 DEF Owns
  <2> QED
    BY <2>1, <2>2
<1>5. MutualExclusion'
  <2> SUFFICES ASSUME NEW j \in Lock
               PROVE  /\ \A u, v \in Thread : Owns(u, j)' /\ Owns(v, j)' => u = v
                      /\ value'[j] = 1 <=> \A u \in Thread : ~ Owns(u, j)'
                      /\ value'[j] \in {0, 1}
    BY DEF MutualExclusion
  <2>1. CASE j = s
    BY <1>3, <1>4, <2>1
  <2>2. CASE j # s
    <3>1. value'[j] = value[j] /\ \A u \in Thread : Owns(u, j)' <=> Owns(u, j)
      BY <1>1, <1>4, <2>2, LockIsSema
    <3> QED
      BY <3>1 DEF Core, MutualExclusion
  <2> QED
    BY <2>1, <2>2
<1>6. HandOver'
  <2>1. ASSUME NEW u \in Thread, pc'[u] \in OwnLabel, op'[u] \in Lock
        PROVE  holder[op'[u]] = None
    <3>1. CASE u = t
      <4>1. s \in Lock /\ op'[t] = s
        BY <1>1, <1>2, <2>1, <3>1
      <4>2. holder[s] \in Thread \union {None} /\ \A v \in Thread : holder[s] # v
        BY <1>3, <4>1 DEF Owns, Core, CoreType
      <4> QED
        BY <3>1, <4>1, <4>2
    <3>2. CASE u # t
      BY <1>1, <2>1, <3>2 DEF Core, HandOver
    <3> QED
      BY <3>1, <3>2
  <2>2. ASSUME NEW u \in Thread, pc'[u] = "create_release" PROVE holder[tid_lock] = u
    BY <1>1, <2>2 DEF Core, HandOver
  <2> QED
    BY <2>1, <2>2 DEF HandOver
<1> QED
  BY <1>5, <1>6

\* A thread that was woken for s no longer is, and s is lower by one.
LEMMA TakeStep ==
  ASSUME Core, NEW t \in Thread, current = t, NEW s \in AnySema, value[s] > 0,
         value' = [value EXCEPT ![s] = @ - 1],
         NEW l \in {"own", "try_own", "run", "cw_lock"}, Moves(t, l), CreatesSame(t, l),
         pc[t] \notin {"none", "idle"}, \A r \in AnySema : WaitsAt(t, r) => r = s,
         MutualExclusion', HandOver',
         UNCHANGED <<schedVars, waiters, sleepers, in_timer, holder, child, donations, torn>>
  PROVE  Core'
<1>1. /\ pc'[t] = l /\ status[t] = "RUNNING"
      /\ \A u \in Thread \ {t} : pc'[u] = pc[u] /\ op'[u] = op[u] /\ ret'[u] = ret[u]
      /\ \A r \in AnySema \ {s} : value'[r] = value[r]
      /\ value[s] \in Nat /\ value'[s] = value[s] - 1 /\ value' \in [AnySema -> Nat]
      /\ UNCHANGED <<status, ready_list, current, thread_ticks>>
  BY DEF Moves, Core, CoreType, QueueInv, schedVars
<1>2. OpInv' /\ HeadInv' /\ pc' \in [Thread -> Label]
  BY MovesOp, MovesHead DEF Core, DonorsKept
<1>3. CoreType'
  BY <1>1, <1>2 DEF Core, CoreType, Moves
<1>4. QueueInv' /\ PcInv' /\ FiniteInv'
  <2>1. QueueInv' /\ FiniteInv'
    BY <1>1 DEF Core, QueueInv, FiniteInv
  <2>2. t # idle /\ status[t] # "FREE" /\ pc'[t] # "idle"
    BY <1>1 DEF Core, PcInv
  <2>3. PcInv'
    BY <1>1, <2>2, PriThreadAssumption DEF Core, PcInv
  <2> QED
    BY <2>1, <2>3
<1>5. WaitInv'
  <2> SUFFICES ASSUME NEW u \in Thread
               PROVE  /\ u \in sleepers <=> status[u] = "BLOCKED" /\ pc'[u] = "run"
                      /\ \A r \in AnySema :
                           u \in ToSet(waiters[r]) <=> status[u] = "BLOCKED" /\ WaitsAt(u, r)'
                      /\ status[u] = "BLOCKED" /\ u # idle =>
                           pc'[u] \in {"run", "woken", "cw_woken", "none"}
    BY <1>1 DEF Core, WaitInv
  <2>1. CASE u = t
    BY <1>1, <2>1 DEF Core, WaitInv
  <2>2. CASE u # t
    BY <1>1, <2>2 DEF Core, WaitInv, WaitsAt
  <2> QED
    BY <2>1, <2>2
<1>6. ChildInv'
  <2>1. child[t] # None <=> ret'[t] \in CreateRet \/ pc'[t] \in CreateRet
    BY <1>1 DEF Core, ChildInv, CreatesSame
  <2>2. \A u \in Thread : child[u] # None => child[u] \in Thread \ {t}
    BY <1>1 DEF Core, ChildInv, CoreType
  <2> QED
    BY <1>1, <2>1, <2>2 DEF Core, ChildInv
<1>7. NoLostWakeup'
  <2> SUFFICES ASSUME NEW r \in AnySema, waiters[r] # <<>>
               PROVE  value'[r] <= Cardinality(Woken(r)')
    BY DEF NoLostWakeup
  <2>1. Woken(r)' = Woken(r) \ {t}
    <3>1. \A u \in Thread \ {t} : u \in Woken(r)' <=> u \in Woken(r)
      BY <1>1 DEF Woken
    <3>2. t \notin Woken(r)'
      BY <1>1 DEF Woken
    <3> QED
      BY <3>1, <3>2 DEF Woken
  <2>2. r # s => t \notin Woken(r)
    BY DEF Woken, WaitsAt
  <2>3. IsFiniteSet(Woken(r))
    <3>1. Woken(r) \subseteq {u \in Thread : status[u] # "FREE"}
      BY DEF Woken, PcInv, Core
    <3> QED
      BY <3>1, FS_Subset DEF Core, FiniteInv
  <2>4. Cardinality(Woken(r)) \in Nat /\ value[r] <= Cardinality(Woken(r)) /\ value[r] \in Nat
    BY <2>3, FS_CardinalityType DEF Core, NoLostWakeup, CoreType
  <2>5. Cardinality(Woken(r) \ {t}) =
          IF t \in Woken(r) THEN Cardinality(Woken(r)) - 1 ELSE Cardinality(Woken(r))
    BY <2>3, FS_RemoveElement
  <2>6. CASE r = s
    BY <1>1, <2>1, <2>4, <2>5, <2>6
  <2>7. CASE r # s
    BY <1>1, <2>1, <2>2, <2>4, <2>5, <2>7
  <2> QED
    BY <2>6, <2>7
<1> QED
  BY <1>2, <1>3, <1>4, <1>5, <1>6, <1>7 DEF Core

\* sema_down() finds a positive value, or lock_try_acquire() does.
LEMMA TakeSteps ==
  ASSUME IInv, NEW t \in Thread,
         \/ SemaDown(t) /\ value[op[t]] > 0
         \/ CondDown(t) /\ value[t] > 0
         \/ \E k \in Lock : TryAcquire(t, k)
  PROVE  IInv'
<1>d. Core /\ DataType
  BY CoreParts
<1>1. ASSUME NEW s \in AnySema, NEW l \in {"own", "try_own", "run", "cw_lock"},
             current = t, value[s] > 0, value' = [value EXCEPT ![s] = @ - 1],
             pc' = [pc EXCEPT ![t] = l], op' \in {op, [op EXCEPT ![t] = s]},
             op' # op => op[t] \in Lock \union Sema \union Cond \union {None} /\ s \in Lock,
             pc[t] \in {"down", "woken", "cw_down", "cw_woken", "run"},
             pc[t] \in {"down", "woken"} => l = AfterDown(t),
             pc[t] \in {"cw_down", "cw_woken"} => l = "cw_lock",
             pc[t] = "run" => l = "try_own" /\ op'[t] = s /\ s \in Lock,
             pc[t] # "run" => op' = op,
             pc[t] \in {"down", "woken"} => op[t] = s,
             pc[t] \in {"cw_down", "cw_woken"} => s = t,
             UNCHANGED <<schedVars, waiters, sleepers, in_timer, holder, child, donations,
                         torn, ret>>
      PROVE  Core'
  <2>1. /\ pc'[t] = l /\ \A u \in Thread \ {t} : op'[u] = op[u]
        /\ op' \in [Thread -> Lock \union Sema \union Cond \union {None}]
        /\ Stands(pc[t], op[t], ret[t])
    BY <1>d, <1>1 DEF Core, CoreType, OpInv
  <2>2. /\ pc[t] \in {"down", "woken"} =>
             \/ l = "own" /\ s \in Lock /\ op'[t] = s
             \/ l = "run" /\ s \in Sema /\ op'[t] = s
        /\ pc[t] \in {"down", "woken"} /\ ret[t] = "create_release" => s = tid_lock
    BY <1>1, <2>1 DEF AfterDown, Stands
  <2>3. Lock \intersect (Sema \union Thread) = {} /\ tid_lock \in Lock
    BY SyncAssumption
  <2>4. Stands(l, op'[t], ret[t])
    BY <1>1, <2>1, <2>2, <2>3 DEF Stands, AcquireLabel, ResetLabel
  <2>5. Moves(t, l)
    BY <1>d, <1>1, <2>1, <2>4 DEF Moves, Core, CoreType, Label
  <2>6. CreatesSame(t, l)
    BY <1>1 DEF CreatesSame, CreateRet
  <2>7. /\ pc[t] \notin OwnLabel
        /\ l \in {"own", "try_own"} => s \in Lock /\ op'[t] = s
        /\ s \in Lock => l \in {"own", "try_own"}
    BY <1>1, <2>2, <2>3 DEF OwnLabel, ResetLabel
  <2>8. MutualExclusion' /\ HandOver'
    BY <1>d, <1>1, <2>5, <2>7, TakeOwners
  <2>9. pc[t] \notin {"none", "idle"} /\ \A r \in AnySema : WaitsAt(t, r) => r = s
    BY <1>1 DEF WaitsAt
  <2> QED
    BY <1>d, <1>1, <2>5, <2>6, <2>8, <2>9, TakeStep
<1>2. ASSUME SemaDown(t), value[op[t]] > 0 PROVE IInv'
  <2>1. op[t] \in Lock \union Sema /\ op[t] \in AnySema
    BY <1>d, <1>2, LockIsSema DEF SemaDown, sema_down, Core, OpInv, Stands
  <2>2. /\ Running(t) /\ pc[t] \in {"down", "woken"}
        /\ value' = [value EXCEPT ![op[t]] = @ - 1]
        /\ Goto(t, AfterDown(t))
        /\ UNCHANGED <<schedVars, waiters, sleepers, in_timer, priVars, donVars, holder,
                       cond_waiters, callVars, panic>>
    BY <1>2, <2>1 DEF SemaDown, sema_down
  <2>3. Core'
    <3>1. AfterDown(t) \in {"own", "run"}
      BY DEF AfterDown
    <3>2. /\ current = t /\ pc' = [pc EXCEPT ![t] = AfterDown(t)] /\ op' = op
          /\ UNCHANGED <<schedVars, waiters, sleepers, in_timer, holder, child, donations,
                         torn, ret>>
      BY <2>2 DEF Running, Goto, donVars, callVars, localVars
    <3> QED
      BY <1>1, <1>2, <2>1, <2>2, <3>1, <3>2
  <2>4. DataType'
    BY <1>d, <2>2 DEF DataType, priVars, donVars, callVars, localVars
  <2> QED
    BY <2>3, <2>4, CoreParts
<1>3. ASSUME CondDown(t), value[t] > 0 PROVE IInv'
  <2>1. t \in AnySema
    BY LockIsSema
  <2>2. /\ Running(t) /\ pc[t] \in {"cw_down", "cw_woken"}
        /\ value' = [value EXCEPT ![t] = @ - 1]
        /\ Goto(t, "cw_lock")
        /\ UNCHANGED <<schedVars, waiters, sleepers, in_timer, priVars, donVars, holder,
                       cond_waiters, callVars, panic>>
    BY <1>3, <2>1 DEF CondDown, sema_down
  <2>3. Core'
    <3>1. /\ current = t /\ pc' = [pc EXCEPT ![t] = "cw_lock"] /\ op' = op
          /\ UNCHANGED <<schedVars, waiters, sleepers, in_timer, holder, child, donations,
                         torn, ret>>
      BY <2>2 DEF Running, Goto, donVars, callVars, localVars
    <3> QED
      BY <1>1, <1>3, <2>1, <2>2, <3>1
  <2>4. DataType'
    BY <1>d, <2>2 DEF DataType, priVars, donVars, callVars, localVars
  <2> QED
    BY <2>3, <2>4, CoreParts
<1>4. ASSUME NEW k \in Lock, TryAcquire(t, k) PROVE IInv'
  <2>1. k \in AnySema /\ op[t] \in Lock \union Sema \union Cond \union {None}
    BY <1>d, LockIsSema DEF Core, CoreType
  <2>2. Core'
    BY <1>d, <1>1, <1>4, <2>1 DEF TryAcquire, At, Running, Goto, donVars, localVars, Core, CoreType
  <2>3. DataType'
    BY <1>d, <1>4 DEF TryAcquire, DataType, priVars, donVars, localVars
  <2> QED
    BY <2>2, <2>3, CoreParts
<1> QED
  BY <1>2, <1>3, <1>4

-----------------------------------------------------------------------------
(***************************************************************************)
(* The running thread stops: sema_down() of a semaphore that is 0,         *)
(* timer_sleep(), thread_exit().                                           *)
(***************************************************************************)

\* t, now with status x, has gone where its new label says; no other list element
\* has moved.
LEMMA StopStep ==
  ASSUME Core, NEW t \in Thread, current = t, pc[t] \notin {"none", "idle"},
         NEW x \in {"BLOCKED", "DYING"}, Moved([status EXCEPT ![t] = x]),
         NEW l, Moves(t, l), OwnsSame(t, l), CreatesSame(t, l), DonorsKept(t, l),
         l # "idle", x = "DYING" => l = "none",
         x = "BLOCKED" => l \in {"run", "woken", "cw_woken"},
         UNCHANGED <<value, holder, child, in_timer>>,
         waiters' \in [AnySema -> Seq(Thread)], sleepers' \subseteq Thread,
         \A s \in AnySema : IsInjective(waiters'[s]),
         \A u \in Thread \ {t} : u \in sleepers' <=> u \in sleepers,
         t \in sleepers' <=> x = "BLOCKED" /\ l = "run",
         \A u \in Thread \ {t} : \A s \in AnySema :
           u \in ToSet(waiters'[s]) <=> u \in ToSet(waiters[s]),
         \A s \in AnySema : t \in ToSet(waiters'[s]) <=> x = "BLOCKED" /\ WaitsAt(t, s)',
         \A s \in AnySema : waiters'[s] # <<>> =>
           value[s] = 0 \/ (waiters[s] # <<>> /\ ~ WaitsAt(t, s))
  PROVE  Core'
<1> DEFINE st == [status EXCEPT ![t] = x]
<1>1. /\ pc'[t] = l /\ status[t] = "RUNNING" /\ t # idle
      /\ \A u \in Thread \ {t} : pc'[u] = pc[u] /\ op'[u] = op[u] /\ ret'[u] = ret[u]
      /\ st \in [Thread -> Status] /\ st[t] = x /\ \A u \in Thread \ {t} : st[u] = status[u]
      /\ idle \in Thread /\ pc[idle] = "idle"
  BY PriThreadAssumption DEF Moves, Core, CoreType, QueueInv, PcInv
<1>2. /\ status' \in [Thread -> Status]
      /\ \A u \in Thread \ {idle} : status'[u] = "BLOCKED" <=> st[u] = "BLOCKED"
      /\ \A u \in Thread : status'[u] = "FREE" <=> st[u] \in {"FREE", "DYING"}
  BY <1>1 DEF Moved
<1>3. OpInv' /\ HeadInv' /\ pc' \in [Thread -> Label]
  BY MovesOp, MovesHead DEF Core
<1>4. MutualExclusion' /\ HandOver'
  BY SameOwners
<1>5. CoreType' /\ QueueInv'
  BY <1>3 DEF Core, CoreType, Moves, Moved
<1> HIDE DEF st
<1>6. \A u \in Thread \ {t} : /\ u # idle => (status'[u] = "BLOCKED" <=> status[u] = "BLOCKED")
                              /\ status'[u] = "FREE" <=> status[u] = "FREE"
  BY <1>1, <1>2, <1>5 DEF QueueInv, Core
<1>7. status'[t] = "BLOCKED" <=> x = "BLOCKED"
  BY <1>1, <1>2
<1>8. PcInv'
  <2>1. status'[t] = "FREE" => l = "none"
    BY <1>1, <1>2
  <2>2. pc'[idle] = "idle" /\ l # "idle"
    BY <1>1 DEF Core, PcInv
  <2>3. ASSUME NEW u \in Thread \ {t}, u # idle
        PROVE  pc'[u] # "idle" /\ (status'[u] = "FREE" => pc'[u] = "none")
    BY <1>1, <1>6, <2>3 DEF Core, PcInv
  <2>4. status'[idle] # "FREE"
    BY <1>5 DEF QueueInv
  <2> QED
    BY <1>1, <2>1, <2>2, <2>3, <2>4 DEF PcInv
<1>9. WaitInv'
  <2> SUFFICES ASSUME NEW u \in Thread
               PROVE  /\ u \in sleepers' <=> status'[u] = "BLOCKED" /\ pc'[u] = "run"
                      /\ \A s \in AnySema :
                           u \in ToSet(waiters'[s]) <=> status'[u] = "BLOCKED" /\ WaitsAt(u, s)'
                      /\ status'[u] = "BLOCKED" /\ u # idle =>
                           pc'[u] \in {"run", "woken", "cw_woken", "none"}
    BY DEF WaitInv
  <2>1. CASE u = t
    BY <1>1, <1>7, <2>1
  <2>2. CASE u = idle
    <3>1. pc'[u] = "idle" /\ pc[u] = "idle" /\ u # t
      BY <1>1, <2>2
    <3> QED
      BY <2>2, <3>1 DEF Core, WaitInv, WaitsAt
  <2>3. CASE u # t /\ u # idle
    BY <1>1, <1>6, <2>3 DEF Core, WaitInv, WaitsAt
  <2> QED
    BY <2>1, <2>2, <2>3
<1>10. ChildInv'
  <2>1. child[t] # None <=> ret'[t] \in CreateRet \/ pc'[t] \in CreateRet
    BY <1>1 DEF Core, ChildInv, CreatesSame
  <2>2. ASSUME NEW u \in Thread, child[u] # None
        PROVE  pc'[child[u]] = "none" /\ status'[child[u]] = "BLOCKED"
    <3>1. /\ child[u] \in Thread \ {t, idle}
          /\ pc[child[u]] = "none" /\ status[child[u]] = "BLOCKED"
      BY <1>1, <2>2 DEF Core, ChildInv, CoreType
    <3> QED
      BY <1>1, <1>6, <3>1
  <2> QED
    BY <1>1, <2>1, <2>2 DEF Core, ChildInv
<1>11. FiniteInv'
  <2>1. {u \in Thread : status'[u] # "FREE"} \subseteq {u \in Thread : status[u] # "FREE"}
    BY <1>1, <1>6
  <2> QED
    BY <2>1, FS_Subset DEF Core, FiniteInv
<1>12. NoLostWakeup'
  <2> SUFFICES ASSUME NEW s \in AnySema, waiters'[s] # <<>>
               PROVE  value[s] <= Cardinality(Woken(s)')
    BY DEF NoLostWakeup
  <2>1. Woken(s)' \subseteq Thread /\ IsFiniteSet(Woken(s)')
    <3>1. Woken(s)' \subseteq {u \in Thread : status'[u] # "FREE"}
      BY <1>8 DEF Woken, PcInv
    <3> QED
      BY <1>11, <3>1, FS_Subset DEF FiniteInv
  <2>2. CASE value[s] = 0
    BY <2>1, <2>2, FS_CardinalityType
  <2>3. CASE waiters[s] # <<>> /\ ~ WaitsAt(t, s) /\ value[s] # 0
    <3>1. t \notin Woken(s)
      BY <2>3 DEF Woken, WaitsAt
    <3>2. t \notin Woken(s)'
      <4>1. x # "BLOCKED" => l = "none"
        OBVIOUS
      <4> QED
        BY <1>1, <1>7, <4>1 DEF Woken
    <3>3. ASSUME NEW u \in Thread \ {t} PROVE u \in Woken(s)' <=> u \in Woken(s)
      BY <1>1, <1>6 DEF Woken
    <3>4. Woken(s)' = Woken(s)
      BY <3>1, <3>2, <3>3 DEF Woken
    <3> QED
      BY <2>3, <3>4 DEF Core, NoLostWakeup
  <2> QED
    BY <2>2, <2>3
<1> QED
  BY <1>3, <1>4, <1>5, <1>8, <1>9, <1>10, <1>11, <1>12 DEF Core

\* sema_down() queues the thread and blocks it.
LEMMA DownBlocks ==
  ASSUME Core, DataType, NEW t \in Thread, current = t, NEW s \in AnySema, value[s] = 0,
         NEW l \in {"woken", "cw_woken"}, pc[t] \in {"down", "woken", "cw_down", "cw_woken"},
         l = "woken" => pc[t] \in {"down", "woken"} /\ op[t] = s,
         l = "cw_woken" => pc[t] \in {"cw_down", "cw_woken"} /\ s = t,
         \E w \in Inserted(waiters[s], t, priority) : waiters' = [waiters EXCEPT ![s] = w],
         pc' = [pc EXCEPT ![t] = l],
         thread_block(t),
         UNCHANGED <<value, sleepers, in_timer, holder, child, donations, torn, op, ret>>
  PROVE  Core'
<1>1. PICK w \in Inserted(waiters[s], t, priority) : waiters' = [waiters EXCEPT ![s] = w]
  OBVIOUS
<1>2. status[t] = "RUNNING" /\ t # idle
  BY DEF Core, QueueInv, PcInv
<1>3. waiters[s] \in Seq(Thread) /\ IsInjective(waiters[s]) /\ t \notin ToSet(waiters[s])
  BY <1>2 DEF Core, CoreType, WaitInv
<1>4. w \in Seq(Thread) /\ IsInjective(w) /\ ToSet(w) = ToSet(waiters[s]) \union {t}
  BY <1>1, <1>3, InsertedElems
<1>5. waiters'[s] = w /\ \A r \in AnySema \ {s} : waiters'[r] = waiters[r]
  BY <1>1 DEF Core, CoreType
<1>6. Moved([status EXCEPT ![t] = "BLOCKED"])
  BY <1>2, BlockLemma, TypeParts DEF Core, thread_block
<1>7. Moves(t, l)
  <2>1. Stands(pc[t], op[t], ret[t]) /\ ret[t] \in {"run", "cw_down", "create_release", "create_unblock"}
    BY DEF Core, OpInv, CoreType
  <2>2. Stands(l, op[t], ret[t])
    BY <2>1 DEF Stands, AcquireLabel, ResetLabel
  <2> QED
    BY <2>2 DEF Moves, Core, CoreType, Label, IntrOff
<1>8. OwnsSame(t, l) /\ CreatesSame(t, l) /\ DonorsKept(t, l)
  BY DEF OwnsSame, CreatesSame, DonorsKept, OwnLabel, ResetLabel, CreateRet
<1>9. \A r \in AnySema : /\ WaitsAt(t, r)' <=> r = s
                         /\ WaitsAt(t, r) => r = s
  BY DEF WaitsAt, Core, CoreType
<1>10. /\ waiters' \in [AnySema -> Seq(Thread)]
       /\ \A r \in AnySema : IsInjective(waiters'[r])
       /\ \A u \in Thread \ {t} : \A r \in AnySema :
            u \in ToSet(waiters'[r]) <=> u \in ToSet(waiters[r])
  BY <1>1, <1>4, <1>5 DEF Core, CoreType, WaitInv
<1>11. t \notin sleepers /\ \A r \in AnySema : t \in ToSet(waiters'[r]) <=> r = s
  BY <1>2, <1>4, <1>5 DEF Core, WaitInv
<1>12. \A r \in AnySema : waiters'[r] # <<>> =>
         value[r] = 0 \/ (waiters[r] # <<>> /\ ~ WaitsAt(t, r))
  BY <1>5, <1>9
<1>13. l \notin {"idle", "none", "run"} /\ pc[t] \notin {"none", "idle"} /\ sleepers' \subseteq Thread
  BY DEF Core, CoreType
<1> QED
  BY <1>6, <1>7, <1>8, <1>9, <1>10, <1>11, <1>12, <1>13, StopStep

\* The steps that take the CPU from a thread that is not ready any more.
LEMMA StopSteps ==
  ASSUME IInv, NEW t \in Thread,
         \/ SemaDown(t) /\ ~ (value[op[t]] > 0)
         \/ CondDown(t) /\ ~ (value[t] > 0)
         \/ Sleep(t)
         \/ Exit(t)
  PROVE  IInv'
<1>d. Core /\ DataType
  BY CoreParts
<1>1. ASSUME SemaDown(t), ~ (value[op[t]] > 0) PROVE IInv'
  <2>1. op[t] \in Lock \union Sema /\ op[t] \in AnySema
    BY <1>d, <1>1, LockIsSema DEF SemaDown, sema_down, Core, OpInv, Stands
  <2>2. /\ current = t /\ pc[t] \in {"down", "woken"} /\ value[op[t]] = 0
        /\ \E w \in Inserted(waiters[op[t]], t, priority) :
             waiters' = [waiters EXCEPT ![op[t]] = w]
        /\ pc' = [pc EXCEPT ![t] = "woken"]
        /\ thread_block(t)
        /\ UNCHANGED <<value, sleepers, in_timer, holder, child, donations, torn, op, ret>>
        /\ UNCHANGED <<priVars, donVars, cond_waiters, callVars, panic>>
    BY <1>1 DEF SemaDown, sema_down, Running, Goto, donVars, callVars, localVars
  <2>3. Core'
    BY <1>d, <2>1, <2>2, DownBlocks
  <2>4. DataType'
    BY <1>d, <2>2 DEF DataType, priVars, donVars, callVars, localVars
  <2> QED
    BY <2>3, <2>4, CoreParts
<1>2. ASSUME CondDown(t), ~ (value[t] > 0) PROVE IInv'
  <2>1. t \in AnySema
    BY LockIsSema
  <2>2. /\ current = t /\ pc[t] \in {"cw_down", "cw_woken"} /\ value[t] = 0
        /\ \E w \in Inserted(waiters[t], t, priority) : waiters' = [waiters EXCEPT ![t] = w]
        /\ pc' = [pc EXCEPT ![t] = "cw_woken"]
        /\ thread_block(t)
        /\ UNCHANGED <<value, sleepers, in_timer, holder, child, donations, torn, op, ret>>
        /\ UNCHANGED <<priVars, donVars, cond_waiters, callVars, panic>>
    BY <1>2 DEF CondDown, sema_down, Running, Goto, donVars, callVars, localVars
  <2>3. Core'
    BY <1>d, <2>1, <2>2, DownBlocks
  <2>4. DataType'
    BY <1>d, <2>2 DEF DataType, priVars, donVars, callVars, localVars
  <2> QED
    BY <2>3, <2>4, CoreParts
<1>3. ASSUME current = t, pc[t] = "run"
      PROVE  /\ status[t] = "RUNNING" /\ t # idle /\ t \notin sleepers
             /\ \A s \in AnySema : t \notin ToSet(waiters[s]) /\ ~ WaitsAt(t, s)
             /\ ret[t] = "run"
             /\ pc[t] \notin OwnLabel
             /\ \A s \in AnySema : IsInjective(waiters[s])
             /\ waiters \in [AnySema -> Seq(Thread)] /\ sleepers \subseteq Thread
             /\ op[t] \in Lock \union Sema \union Cond \union {None} /\ pc \in [Thread -> Label]
             /\ op \in [Thread -> Lock \union Sema \union Cond \union {None}]
             /\ ret \in [Thread -> {"run", "cw_down", "create_release", "create_unblock"}]
             /\ DataType
  <2>1. status[t] = "RUNNING" /\ t # idle
    BY <1>d, <1>3 DEF Core, QueueInv, PcInv
  <2>2. t \notin sleepers /\ \A s \in AnySema : t \notin ToSet(waiters[s]) /\ ~ WaitsAt(t, s)
    BY <1>d, <1>3, <2>1 DEF Core, WaitInv, WaitsAt
  <2>3. ret[t] = "run"
    BY <1>d, <1>3, NoReturn
  <2>4. pc[t] \notin OwnLabel
    BY <1>3 DEF OwnLabel, ResetLabel
  <2> QED
    BY <1>d, <2>1, <2>2, <2>3, <2>4 DEF Core, CoreType, WaitInv
<1>4. ASSUME Sleep(t) PROVE IInv'
  <2>1. /\ current = t /\ pc[t] = "run" /\ sleepers' = sleepers \union {t} /\ thread_block(t)
        /\ UNCHANGED <<in_timer, priority, init_priority, waiting_lock, donations, torn, value,
                       waiters, holder, cond_waiters, pc, op, ret, lock_holder, child, arg,
                       high, panic>>
    BY <1>4 DEF Sleep, At, Running, priVars, donVars, semaVars, callVars, localVars
  <2>2. Moved([status EXCEPT ![t] = "BLOCKED"])
    BY <1>d, <1>3, <2>1, BlockLemma, TypeParts DEF Core, thread_block
  <2>3. Moves(t, "run")
    BY <1>3, <2>1 DEF Moves, Stands, AcquireLabel, ResetLabel, Label
  <2>4. OwnsSame(t, "run") /\ CreatesSame(t, "run") /\ DonorsKept(t, "run")
    BY <2>1 DEF OwnsSame, CreatesSame, DonorsKept
  <2>5. \A s \in AnySema : ~ WaitsAt(t, s)'
    BY <1>3, <2>1 DEF WaitsAt
  <2>6. Core'
    BY <1>d, <1>3, <2>1, <2>2, <2>3, <2>4, <2>5, StopStep
  <2>7. DataType'
    BY <1>d, <2>1 DEF DataType
  <2> QED
    BY <2>6, <2>7, CoreParts
<1>5. ASSUME Exit(t) PROVE IInv'
  <2>1. /\ current = t /\ pc[t] = "run"
        /\ Schedule(ready_list, [status EXCEPT ![t] = "DYING"])
        /\ pc' = [pc EXCEPT ![t] = "none"]
        /\ UNCHANGED <<in_timer, priority, init_priority, waiting_lock, value, waiters,
                       holder, cond_waiters, sleepers, op, ret, lock_holder, child, arg,
                       high, panic>>
    BY <1>5 DEF Exit, At, Running, Goto, priVars, semaVars, callVars, localVars
  <2>2. Tear \/ UNCHANGED <<donations, torn>>
    BY <1>5 DEF Exit
  <2>3. Moved([status EXCEPT ![t] = "DYING"])
    BY <1>d, <1>3, <2>1, BlockLemma, TypeParts DEF Core
  <2>4. Moves(t, "none")
    BY <1>3, <2>1 DEF Moves, Stands, AcquireLabel, ResetLabel, Label
  <2>5. DonorsKept(t, "none")
    BY <2>2 DEF DonorsKept, Tear
  <2>6. OwnsSame(t, "none") /\ CreatesSame(t, "none")
    BY <1>3, <2>1 DEF OwnsSame, CreatesSame, OwnLabel, ResetLabel, CreateRet
  <2>7. Core'
    BY <1>d, <1>3, <2>1, <2>3, <2>4, <2>5, <2>6, StopStep
  <2>8. DataType'
    <3>1. <<>> \in Seq(Thread)
      OBVIOUS
    <3> QED
      BY <1>d, <2>1, <2>2, <3>1 DEF DataType, Tear
  <2> QED
    BY <2>7, <2>8, CoreParts
<1> QED
  BY <1>1, <1>2, <1>4, <1>5

-----------------------------------------------------------------------------
(***************************************************************************)
(* The running thread may lose the CPU without blocking.                   *)
(***************************************************************************)

\* The running thread stands where it stood.
LEMMA StandsStill ==
  ASSUME Core, NEW t \in Thread, UNCHANGED <<pc, op, ret>>
  PROVE  Moves(t, pc[t]) /\ CreatesSame(t, pc[t]) /\ OwnsSame(t, pc[t]) /\ Loose(t, pc[t])
BY DEF Core, CoreType, OpInv, Moves, CreatesSame, OwnsSame, Loose

\* thread_yield(), the preemption at the end of thread_set_priority(), the idle
\* thread, and the timer.
LEMMA YieldSteps ==
  ASSUME IInv,
         \/ \E t \in Thread : Yield(t) \/ CreateYield(t) \/ Steal(t)
         \/ IdleBlock \/ TimerInterrupt \/ IntrReturn
  PROVE  IInv'
<1>d. Core /\ DataType /\ TypeOK /\ QueueInv /\ current \in Thread
  BY CoreParts, TypeParts DEF Core, CoreType
<1> USE DEF At, Running, Goto, priVars, donVars, semaVars, callVars, localVars
<1>1. ASSUME Moved(status),
             UNCHANGED <<pc, op, ret, sleepers, semaVars, holder, child, donations, torn>>,
             in_timer' \in BOOLEAN
      PROVE  Core'
  <2>1. DonorsKept(current, pc[current])
    BY <1>d, <1>1 DEF DonorsKept, Core, HeadInv
  <2> QED
    BY <1>d, <1>1, <2>1, StandsStill, QuietStep
<1>2. ASSUME NEW t \in Thread, Yield(t) PROVE IInv'
  <2>1. Moved(status)
    BY <1>d, <1>2, QueuedBefore, YieldLemma DEF Yield
  <2>2. Core'
    BY <1>d, <1>1, <1>2, <2>1 DEF Yield, Core, CoreType
  <2>3. DataType'
    BY <1>d, <1>2 DEF Yield, DataType
  <2> QED
    BY <2>2, <2>3, CoreParts
<1>3. ASSUME NEW t \in Thread, pc[t] \in {"create_yield", "steal"}, current = t, Moved(status),
             pc' = [pc EXCEPT ![t] = "run"],
             UNCHANGED <<sleepers, in_timer, semaVars, holder, child, donations, torn, op, ret>>
      PROVE  Core'
  <2>1. ret[t] = "run"
    BY <1>d, <1>3, NoReturn
  <2>2. Moves(t, "run")
    BY <1>d, <1>3, <2>1 DEF Moves, Stands, AcquireLabel, ResetLabel, Label, Core, CoreType
  <2>3. /\ OwnsSame(t, "run") /\ CreatesSame(t, "run") /\ DonorsKept(t, "run")
        /\ Loose(t, "run")
    BY <1>3 DEF OwnsSame, CreatesSame, DonorsKept, Loose, Fixed, OwnLabel, ResetLabel, CreateRet
  <2> QED
    BY <1>d, <1>3, <2>2, <2>3, QuietStep DEF Core, CoreType
<1>4. ASSUME NEW t \in Thread, CreateYield(t) PROVE IInv'
  <2>1. Moved(status)
    BY <1>d, <1>4, QueuedBefore, YieldLemma, SameSched DEF CreateYield, Core
  <2>2. Core'
    BY <1>3, <1>4, <2>1 DEF CreateYield
  <2>3. DataType'
    BY <1>d, <1>4 DEF CreateYield, DataType
  <2> QED
    BY <2>2, <2>3, CoreParts
<1>5. ASSUME NEW t \in Thread, Steal(t) PROVE IInv'
  <2>1. Moved(status) /\ panic' \in {panic, "intr_context"}
    BY <1>d, <1>5, QueuedBefore, StealLemma DEF Steal
  <2>2. Core'
    BY <1>3, <1>5, <2>1 DEF Steal
  <2>3. DataType'
    BY <1>d, <1>5, <2>1 DEF Steal, DataType
  <2> QED
    BY <2>2, <2>3, CoreParts
<1>6. ASSUME IdleBlock PROVE IInv'
  <2>1. current = idle /\ idle \in Thread
    BY <1>6, PriThreadAssumption DEF IdleBlock
  <2>2. Moved([status EXCEPT ![idle] = "BLOCKED"])
    BY <1>d, <1>6, <2>1, BlockLemma DEF IdleBlock, thread_block
  <2>3. status[idle] = "RUNNING" /\ status \in [Thread -> Status]
    BY <1>d, <2>1 DEF Core, CoreType, QueueInv
  <2>4. Moved(status)
    BY <2>1, <2>2, <2>3 DEF Moved
  <2>5. Core'
    BY <1>d, <1>1, <1>6, <2>4 DEF IdleBlock, Core, CoreType
  <2>6. DataType'
    BY <1>d, <1>6 DEF IdleBlock, DataType
  <2> QED
    BY <2>5, <2>6, CoreParts
<1>7. ASSUME TimerInterrupt PROVE IInv'
  <2>1. Core'
    BY <1>d, <1>7, StillCore DEF TimerInterrupt, Core, CoreType
  <2>2. DataType'
    BY <1>d, <1>7 DEF TimerInterrupt, DataType
  <2> QED
    BY <2>1, <2>2, CoreParts
<1>8. ASSUME IntrReturn PROVE IInv'
  <2>1. Moved(status)
    BY <1>d, <1>8, QueuedBefore, YieldLemma, SameSched DEF IntrReturn, Core
  <2>2. Core'
    BY <1>1, <1>8, <2>1 DEF IntrReturn
  <2>3. DataType'
    BY <1>d, <1>8 DEF IntrReturn, DataType
  <2> QED
    BY <2>2, <2>3, CoreParts
<1> QED
  BY <1>2, <1>4, <1>5, <1>6, <1>7, <1>8

-----------------------------------------------------------------------------
(***************************************************************************)
(* Threads are woken: sema_up(), by any of its callers, and                *)
(* thread_awake().                                                         *)
(***************************************************************************)

\* w, which was blocked where it stands, is ready; no other list element has moved
\* but that the running thread t has gone on to label l.
LEMMA WakeLists ==
  ASSUME Core, NEW t \in Thread, current = t, NEW l, Loose(t, l), Moves(t, l),
         CreatesSame(t, l), NEW w \in Thread \ {idle}, status[w] = "BLOCKED", pc[w] # "none",
         Moved([status EXCEPT ![w] = "READY"]), UNCHANGED child,
         \A s \in AnySema : IsInjective(waiters'[s]),
         \A u \in Thread : u \in sleepers' <=> u \in sleepers /\ u # w,
         \A u \in Thread : \A s \in AnySema :
           u \in ToSet(waiters'[s]) <=> u \in ToSet(waiters[s]) /\ u # w
  PROVE  /\ PcInv' /\ WaitInv' /\ ChildInv' /\ FiniteInv'
         /\ \A s \in AnySema : Woken(s)' = Woken(s) \union {u \in {w} : WaitsAt(u, s)}
<1> DEFINE st == [status EXCEPT ![w] = "READY"]
<1>1. /\ pc'[t] = l /\ status[t] = "RUNNING" /\ t # w
      /\ \A u \in Thread \ {t} : pc'[u] = pc[u] /\ op'[u] = op[u] /\ ret'[u] = ret[u]
      /\ st \in [Thread -> Status] /\ st[w] = "READY" /\ \A u \in Thread \ {w} : st[u] = status[u]
      /\ idle \in Thread /\ pc[idle] = "idle"
  BY PriThreadAssumption DEF Moves, Core, CoreType, QueueInv, PcInv
<1>2. /\ status' \in [Thread -> Status]
      /\ \A u \in Thread \ {idle} : status'[u] = "BLOCKED" <=> st[u] = "BLOCKED"
      /\ \A u \in Thread : status'[u] = "FREE" <=> st[u] \in {"FREE", "DYING"}
      /\ \A u \in Thread : st[u] # "DYING"
  BY <1>1 DEF Moved, Core, QueueInv
<1> HIDE DEF st
<1>3. /\ \A u \in Thread \ {w, idle} : status'[u] = "BLOCKED" <=> status[u] = "BLOCKED"
      /\ status'[w] # "BLOCKED"
      /\ \A u \in Thread : status'[u] = "FREE" <=> status[u] = "FREE"
  BY <1>1, <1>2
<1>4. t = idle => l = "idle"
  BY <1>1 DEF Loose, Fixed
<1>5. PcInv'
  <2>1. \A u \in Thread : status[u] = "FREE" => u # t
    BY <1>1
  <2>2. \A u \in Thread \ {idle} : pc[u] # "idle"
    BY DEF Core, PcInv
  <2>3. t # idle => l # "idle"
    BY <2>2 DEF Fixed, Loose
  <2>4. \A u \in Thread : status'[u] = "FREE" => u # t /\ pc[u] = "none"
    BY <1>3, <2>1 DEF Core, PcInv
  <2> QED
    BY <1>1, <1>4, <2>2, <2>3, <2>4 DEF PcInv
<1>6. WaitInv'
  <2> SUFFICES ASSUME NEW u \in Thread
               PROVE  /\ u \in sleepers' <=> status'[u] = "BLOCKED" /\ pc'[u] = "run"
                      /\ \A s \in AnySema :
                           u \in ToSet(waiters'[s]) <=> status'[u] = "BLOCKED" /\ WaitsAt(u, s)'
                      /\ status'[u] = "BLOCKED" /\ u # idle =>
                           pc'[u] \in {"run", "woken", "cw_woken", "none"}
    BY DEF WaitInv
  <2>1. CASE u = w
    BY <1>3, <2>1
  <2>2. CASE u = idle
    <3>1. pc'[u] = "idle"
      BY <1>1, <1>4, <2>2
    <3> QED
      BY <1>1, <2>2, <3>1 DEF Core, WaitInv, WaitsAt
  <2>3. CASE u = t /\ u # idle
    <3>1. status[u] # "BLOCKED" /\ status'[u] # "BLOCKED"
      BY <1>1, <1>3, <2>3
    <3> QED
      BY <1>1, <2>3, <3>1 DEF Core, WaitInv
  <2>4. CASE u \notin {w, idle, t}
    BY <1>1, <1>3, <2>4 DEF Core, WaitInv, WaitsAt
  <2> QED
    BY <2>1, <2>2, <2>3, <2>4
<1>7. ChildInv'
  <2>1. child[t] # None <=> ret'[t] \in CreateRet \/ pc'[t] \in CreateRet
    BY <1>1 DEF Core, ChildInv, CreatesSame
  <2>2. ASSUME NEW u \in Thread, child[u] # None
        PROVE  pc'[child[u]] = "none" /\ status'[child[u]] = "BLOCKED"
    <3>1. /\ child[u] \in Thread \ {t, idle, w}
          /\ pc[child[u]] = "none" /\ status[child[u]] = "BLOCKED"
      BY <1>1, <2>2 DEF Core, ChildInv, CoreType
    <3> QED
      BY <1>1, <1>3, <3>1
  <2> QED
    BY <1>1, <2>1, <2>2 DEF Core, ChildInv
<1>8. FiniteInv'
  <2>1. {u \in Thread : status'[u] # "FREE"} = {u \in Thread : status[u] # "FREE"}
    BY <1>3
  <2> QED
    BY <2>1 DEF Core, FiniteInv
<1>9. ASSUME NEW s \in AnySema
      PROVE  Woken(s)' = Woken(s) \union {u \in {w} : WaitsAt(u, s)}
  <2>1. ASSUME NEW u \in Thread
        PROVE  u \in Woken(s)' <=> u \in Woken(s) \/ (u = w /\ WaitsAt(w, s))
    <3>1. CASE u = w
      BY <1>1, <1>3, <3>1 DEF Woken, WaitsAt
    <3>2. CASE u = t
      <4>1. t # idle => status[t] # "BLOCKED" /\ status'[t] # "BLOCKED"
        BY <1>1, <1>3
      <4> QED
        BY <1>1, <1>4, <3>2, <4>1 DEF Woken, Fixed, Loose
    <3>3. CASE u = idle /\ u # t
      <4>1. pc'[u] = "idle" /\ pc[u] = "idle" /\ u # w
        BY <1>1, <3>3
      <4> QED
        BY <4>1 DEF Woken
    <3>4. CASE u \notin {w, t, idle}
      BY <1>1, <1>3, <3>4 DEF Woken
    <3> QED
      BY <3>1, <3>2, <3>3, <3>4
  <2> QED
    BY <2>1 DEF Woken
<1> QED
  BY <1>5, <1>6, <1>7, <1>8, <1>9

\* Whom sema_up(s) finds at the front of the sorted wait list.
LEMMA FirstWaiter ==
  ASSUME Core, DataType, NEW s \in AnySema, NEW w \in Sorted(waiters[s], priority), w # <<>>
  PROVE  /\ Head(w) \in Thread \ {idle} /\ Head(w) \in ToSet(waiters[s])
         /\ status[Head(w)] = "BLOCKED" /\ WaitsAt(Head(w), s)
         /\ Tail(w) \in Seq(Thread) /\ IsInjective(Tail(w))
         /\ ToSet(Tail(w)) = ToSet(waiters[s]) \ {Head(w)}
<1>1. waiters[s] \in Seq(Thread) /\ IsInjective(waiters[s])
  BY DEF Core, CoreType, WaitInv
<1>2. \A x \in ToSet(waiters[s]) : priority[x] \in Int
  <2>1. \A x \in Thread : priority[x] \in Nat
    BY DEF DataType
  <2> QED
    BY <1>1, <2>1, ElemsInSet
<1>3. w \in Seq(Thread) /\ ToSet(w) = ToSet(waiters[s]) /\ IsInjective(w)
  BY <1>1, <1>2, SortedElems, SortedOrder
<1>4. /\ Head(w) \in Thread /\ Head(w) \in ToSet(waiters[s])
      /\ Tail(w) \in Seq(Thread) /\ IsInjective(Tail(w))
      /\ ToSet(Tail(w)) = ToSet(waiters[s]) \ {Head(w)}
  BY <1>3, PopElems
<1>5. status[Head(w)] = "BLOCKED" /\ WaitsAt(Head(w), s)
  BY <1>4 DEF Core, WaitInv
<1>6. Head(w) # idle
  BY <1>5 DEF WaitsAt, Core, PcInv
<1> QED
  BY <1>4, <1>5, <1>6

\* sema_up(s) wakes nobody, or the first thread h of the sorted wait list.
LEMMA UpWakes ==
  ASSUME Core, DataType, NEW s \in AnySema, NEW intr \in BOOLEAN, sema_up(s, intr)
  PROVE  /\ panic' \in {panic, "intr_context"}
         /\ \/ waiters[s] = <<>> /\ UNCHANGED waiters /\ Moved(status)
            \/ \E h \in Thread \ {idle} :
                 /\ h \in ToSet(waiters[s]) /\ status[h] = "BLOCKED" /\ WaitsAt(h, s)
                 /\ waiters' \in [AnySema -> Seq(Thread)] /\ IsInjective(waiters'[s])
                 /\ ToSet(waiters'[s]) = ToSet(waiters[s]) \ {h}
                 /\ \A r \in AnySema \ {s} : waiters'[r] = waiters[r]
                 /\ Moved([status EXCEPT ![h] = "READY"])
<1>1. TypeOK /\ QueueInv
  BY TypeParts DEF Core
<1>2. CASE waiters[s] = <<>> /\ UNCHANGED waiters /\ steal(ready_list, status, intr)
  BY <1>1, <1>2, QueuedBefore, StealLemma
<1>3. CASE \E w \in Sorted(waiters[s], priority) :
             /\ w # <<>>
             /\ waiters' = [waiters EXCEPT ![s] = Tail(w)]
             /\ \E rl \in Inserted(ready_list, Head(w), priority) :
                  steal(rl, [status EXCEPT ![Head(w)] = "READY"], intr)
  <2>1. PICK w \in Sorted(waiters[s], priority) :
             /\ w # <<>>
             /\ waiters' = [waiters EXCEPT ![s] = Tail(w)]
             /\ \E rl \in Inserted(ready_list, Head(w), priority) :
                  steal(rl, [status EXCEPT ![Head(w)] = "READY"], intr)
    BY <1>3
  <2>2. PICK h : h = Head(w)
    OBVIOUS
  <2>3. /\ h \in Thread /\ h \in ToSet(waiters[s])
        /\ Tail(w) \in Seq(Thread) /\ IsInjective(Tail(w))
        /\ ToSet(Tail(w)) = ToSet(waiters[s]) \ {h}
        /\ status[h] = "BLOCKED" /\ WaitsAt(h, s) /\ h # idle
    BY <2>1, <2>2, FirstWaiter
  <2>4. Moved([status EXCEPT ![h] = "READY"]) /\ panic' \in {panic, "intr_context"}
    <3>1. PICK rl \in Inserted(ready_list, h, priority) :
            steal(rl, [status EXCEPT ![h] = "READY"], intr)
      BY <2>1, <2>2
    <3>2. Queued(rl, [status EXCEPT ![h] = "READY"])
      BY <1>1, <2>3, UnblockLemma
    <3> QED
      BY <1>1, <3>1, <3>2, StealLemma
  <2>5. /\ waiters' \in [AnySema -> Seq(Thread)] /\ waiters'[s] = Tail(w)
        /\ \A r \in AnySema \ {s} : waiters'[r] = waiters[r]
    BY <2>1, <2>3 DEF Core, CoreType
  <2> QED
    BY <2>3, <2>4, <2>5
<1> QED
  BY <1>2, <1>3 DEF sema_up

\* sema_up(s), whoever calls it, if the locks stay as they should.
LEMMA UpCore ==
  ASSUME Core, DataType, NEW t \in Thread, current = t, NEW l, Loose(t, l), Moves(t, l),
         CreatesSame(t, l), NEW s \in AnySema, NEW intr \in BOOLEAN, sema_up(s, intr),
         MutualExclusion', HandOver',
         UNCHANGED <<sleepers, in_timer, child>>,
         holder' \in [Lock -> Thread \union {None}], DonorsKept(t, l)
  PROVE  Core' /\ panic' \in {panic, "intr_context"}
<1>1. /\ value' = [value EXCEPT ![s] = @ + 1] /\ value' \in [AnySema -> Nat]
      /\ value[s] \in Nat /\ value'[s] = value[s] + 1
      /\ \A r \in AnySema \ {s} : value'[r] = value[r]
  BY DEF sema_up, Core, CoreType
<1>2. OpInv' /\ HeadInv' /\ pc' \in [Thread -> Label]
  BY MovesOp, MovesHead DEF Core
<1>3. CASE waiters[s] = <<>> /\ UNCHANGED waiters /\ Moved(status)
  <2>1. \A r \in AnySema : waiters[r] # <<>> => value'[r] <= value[r]
    BY <1>1, <1>3 DEF Core, CoreType
  <2> QED
    BY <1>1, <1>2, <1>3, <2>1, OwnerStep, UpWakes DEF Core, CoreType
<1>4. ASSUME NEW h \in Thread \ {idle},
             h \in ToSet(waiters[s]), status[h] = "BLOCKED", WaitsAt(h, s),
             waiters' \in [AnySema -> Seq(Thread)], IsInjective(waiters'[s]),
             ToSet(waiters'[s]) = ToSet(waiters[s]) \ {h},
             \A r \in AnySema \ {s} : waiters'[r] = waiters[r],
             Moved([status EXCEPT ![h] = "READY"])
      PROVE  Core'
  <2>1. pc[h] # "none" /\ \A r \in AnySema : WaitsAt(h, r) => r = s
    BY <1>4 DEF WaitsAt
  <2>2. /\ \A r \in AnySema : IsInjective(waiters'[r])
        /\ \A u \in Thread : \A r \in AnySema :
             u \in ToSet(waiters'[r]) <=> u \in ToSet(waiters[r]) /\ u # h
    <3>1. \A r \in AnySema \ {s} : h \notin ToSet(waiters[r])
      BY <1>4, <2>1 DEF Core, WaitInv
    <3>2. \A r \in AnySema : IsInjective(waiters[r])
      BY DEF Core, WaitInv
    <3>3. ASSUME NEW r \in AnySema, NEW u \in Thread
          PROVE  u \in ToSet(waiters'[r]) <=> u \in ToSet(waiters[r]) /\ u # h
      <4>1. CASE r = s
        BY <1>4, <4>1
      <4>2. CASE r # s
        BY <1>4, <3>1, <4>2
      <4> QED
        BY <4>1, <4>2
    <3>4. ASSUME NEW r \in AnySema PROVE IsInjective(waiters'[r])
      <4>1. CASE r = s
        BY <1>4, <4>1
      <4>2. CASE r # s
        BY <1>4, <3>2, <4>2
      <4> QED
        BY <4>1, <4>2
    <3> QED
      BY <3>3, <3>4
  <2>3. \A u \in Thread : u \in sleepers' <=> u \in sleepers /\ u # h
    <3>1. h \notin sleepers
      BY <1>4 DEF Core, WaitInv, WaitsAt
    <3> QED
      BY <3>1
  <2>4. /\ PcInv' /\ WaitInv' /\ ChildInv' /\ FiniteInv'
         /\ \A r \in AnySema : Woken(r)' = Woken(r) \union {u \in {h} : WaitsAt(u, r)}
    BY <1>4, <2>1, <2>2, <2>3, WakeLists
  <2>5. NoLostWakeup'
    <3> SUFFICES ASSUME NEW r \in AnySema, waiters'[r] # <<>>
                 PROVE  value'[r] <= Cardinality(Woken(r)')
      BY DEF NoLostWakeup
    <3>1. IsFiniteSet(Woken(r))
      <4>1. Woken(r) \subseteq {u \in Thread : status[u] # "FREE"}
        BY DEF Woken, PcInv, Core
      <4> QED
        BY <4>1, FS_Subset DEF Core, FiniteInv
    <3>2. CASE r = s
      <4>1. waiters[s] # <<>> /\ h \notin Woken(s) /\ Woken(s)' = Woken(s) \union {h}
        <5>1. waiters[s] # <<>>
          BY <1>4 DEF ToSet
        <5>2. h \notin Woken(s)
          BY <1>4 DEF Woken
        <5> QED
          BY <1>4, <2>4, <5>1, <5>2
      <4>2. value[s] <= Cardinality(Woken(s))
        BY <4>1 DEF Core, NoLostWakeup
      <4>3. Cardinality(Woken(s)) \in Nat
        BY <3>1, <3>2, FS_CardinalityType
      <4>4. Cardinality(Woken(s)') = Cardinality(Woken(s)) + 1
        BY <3>1, <3>2, <4>1, FS_AddElement
      <4> QED
        BY <1>1, <3>2, <4>2, <4>3, <4>4
    <3>3. CASE r # s
      <4>1. Woken(r)' = Woken(r)
        BY <2>1, <2>4, <3>3
      <4> QED
        BY <1>1, <1>4, <3>3, <4>1 DEF Core, NoLostWakeup
    <3> QED
      BY <3>2, <3>3
  <2>6. CoreType' /\ QueueInv'
    BY <1>1, <1>2, <1>4 DEF Core, CoreType, Moves, Moved
  <2> QED
    BY <1>2, <2>4, <2>5, <2>6 DEF Core
<1> QED
  BY <1>3, <1>4, UpWakes

\* sema_up(): called by a thread, at the end of lock_release(), by cond_signal() and
\* cond_broadcast(), and by a device's interrupt handler.
LEMMA UpSteps ==
  ASSUME IInv,
         \/ \E t \in Thread : \/ \E s \in Sema : SemaUpCall(t, s)
                              \/ SemaUp(t)
                              \/ \E c \in Cond : CondSignal(t, c) \/ CondBroadcast(t, c)
         \/ \E s \in DeviceSema : DeviceInterrupt(s)
  PROVE  IInv'
<1>d. Core /\ DataType /\ current \in Thread
  BY CoreParts DEF Core, CoreType
<1> USE DEF At, Running, Goto, priVars, donVars, callVars, localVars
<1>1. ASSUME panic' \in {panic, "intr_context"}, cond_waiters' \in [Cond -> Seq(Thread)],
             UNCHANGED <<priVars, donVars, lock_holder, arg, high>>
      PROVE  DataType'
  BY <1>d, <1>1 DEF DataType
\* A semaphore that is in no lock does not change who owns what.
<1>2. ASSUME NEW t \in Thread, NEW s \in AnySema, s \notin Lock,
             value' = [value EXCEPT ![s] = @ + 1], NEW l, Moves(t, l), OwnsSame(t, l),
             UNCHANGED holder
      PROVE  MutualExclusion' /\ HandOver'
  <2>1. \A k \in Lock : value'[k] = value[k]
    BY <1>d, <1>2, LockIsSema DEF Core, CoreType
  <2> QED
    BY <1>d, <1>2, <2>1, SameOwners
<1>3. ASSUME NEW s \in Sema, NEW intr \in BOOLEAN, sema_up(s, intr),
             UNCHANGED <<sleepers, in_timer, priVars, donVars, holder, cond_waiters, pc, callVars>>
      PROVE  IInv'
  <2>1. s \in AnySema /\ s \notin Lock
    BY LockIsSema, SyncAssumption
  <2>2. /\ Moves(current, pc[current]) /\ CreatesSame(current, pc[current])
        /\ OwnsSame(current, pc[current]) /\ Loose(current, pc[current])
    BY <1>d, <1>3, StandsStill
  <2>3. MutualExclusion' /\ HandOver'
    BY <1>2, <1>3, <1>d, <2>1, <2>2 DEF sema_up
  <2>4. DonorsKept(current, pc[current])
    BY <1>d, <1>3 DEF Core, HeadInv, DonorsKept
  <2>5. Core' /\ panic' \in {panic, "intr_context"}
    BY <1>d, <1>3, <2>1, <2>2, <2>3, <2>4, UpCore DEF Core, CoreType
  <2>6. DataType'
    BY <1>d, <1>1, <1>3, <2>5 DEF DataType
  <2> QED
    BY <2>5, <2>6, CoreParts
<1>4. ASSUME NEW t \in Thread, NEW s \in Sema, SemaUpCall(t, s) PROVE IInv'
  BY <1>3, <1>4 DEF SemaUpCall
<1>5. ASSUME NEW s \in DeviceSema, DeviceInterrupt(s) PROVE IInv'
  BY <1>3, <1>5, SyncAssumption DEF DeviceInterrupt
<1>6. ASSUME NEW t \in Thread, SemaUp(t) PROVE IInv'
  <2>0. PICK k, l : k = op[t] /\ l = ret[t]
    OBVIOUS
  <2>1. /\ current = t /\ pc[t] = "up" /\ sema_up(k, FALSE) /\ Return(t)
        /\ UNCHANGED <<sleepers, in_timer, priVars, donVars, holder, cond_waiters,
                       lock_holder, localVars>>
    BY <1>6, <2>0 DEF SemaUp
  <2>2. k \in Lock /\ k \in AnySema
    BY <1>d, <2>0, <2>1, LockIsSema DEF Core, OpInv, Stands
  <2>3. /\ Moves(t, l) /\ CreatesSame(t, l)
        /\ l \notin OwnLabel \union Fixed \union {"reset3"}
    BY <1>d, <2>0, <2>1, <2>2, ReturnMoves DEF CreateRet
  <2>4. /\ pc'[t] = l /\ \A u \in Thread \ {t} : pc'[u] = pc[u] /\ op'[u] = op[u]
        /\ value' = [value EXCEPT ![k] = @ + 1]
        /\ None \notin Thread /\ pc[t] \in OwnLabel /\ op[t] = k
    BY <1>d, <2>0, <2>1, <2>3, PriThreadAssumption DEF Moves, sema_up, Core, CoreType, OwnLabel
  <2>5. /\ Owns(t, k) /\ holder[k] = None
        /\ \A u \in Thread : Owns(u, k) => u = t
    BY <1>d, <2>2, <2>4 DEF Owns, Core, MutualExclusion, HandOver
  <2>6. \A u \in Thread : ~ Owns(u, k)'
    <3> SUFFICES ASSUME NEW u \in Thread PROVE ~ Owns(u, k)'
      OBVIOUS
    <3>1. CASE u = t
      BY <2>1, <2>3, <2>4, <2>5, <3>1 DEF Owns
    <3>2. CASE u # t
      <4>1. ~ Owns(u, k)
        BY <2>5, <3>2
      <4> QED
        BY <2>1, <2>4, <3>2, <4>1 DEF Owns
    <3> QED
      BY <3>1, <3>2
  <2>7. value[k] = 0 /\ value'[k] = 1
    BY <1>d, <2>2, <2>4, <2>5 DEF Core, MutualExclusion, CoreType
  <2>8. ASSUME NEW j \in Lock \ {k}, NEW u \in Thread PROVE Owns(u, j)' <=> Owns(u, j)
    <3>1. CASE u = t
      BY <2>1, <2>3, <2>4, <3>1 DEF Owns
    <3>2. CASE u # t
      BY <2>1, <2>4, <3>2 DEF Owns
    <3> QED
      BY <3>1, <3>2
  <2>9. MutualExclusion'
    <3>1. \A j \in Lock \ {k} : value'[j] = value[j]
      BY <1>d, <2>4, LockIsSema DEF Core, CoreType
    <3> QED
      BY <1>d, <2>6, <2>7, <2>8, <3>1 DEF Core, MutualExclusion
  <2>10. HandOver'
    <3>1. ASSUME NEW u \in Thread, pc'[u] = "create_release" PROVE holder[tid_lock] = u
      <4>1. u # t
        BY <1>d, <2>0, <2>1, <2>4, <3>1 DEF Core, OpInv, Stands, OwnLabel, AcquireLabel
      <4> QED
        BY <1>d, <2>4, <3>1, <4>1 DEF Core, HandOver
    <3>2. ASSUME NEW u \in Thread, pc'[u] \in OwnLabel, op'[u] \in Lock
          PROVE  holder[op'[u]] = None
      BY <1>d, <2>3, <2>4, <3>2 DEF Core, HandOver
    <3> QED
      BY <2>1, <3>1, <3>2 DEF HandOver
  <2>11. Loose(t, l) /\ DonorsKept(t, l)
    BY <2>1, <2>3 DEF Loose, Fixed, DonorsKept
  <2>12. Core' /\ panic' \in {panic, "intr_context"}
    BY <1>d, <2>1, <2>2, <2>3, <2>9, <2>10, <2>11, UpCore DEF Core, CoreType
  <2>13. DataType'
    BY <1>d, <1>1, <2>1, <2>12 DEF DataType
  <2> QED
    BY <2>12, <2>13, CoreParts
<1>7. ASSUME NEW t \in Thread, NEW c \in Cond, cond_signal(t, c), current = t,
             pc[t] \in {"run", "broadcast"},
             NEW l \in {"run", "broadcast"}, pc' = [pc EXCEPT ![t] = l],
             (op' = op /\ l = pc[t]) \/ op' = [op EXCEPT ![t] = c]
      PROVE  IInv'
  <2>1. PICK w \in Sorted(cond_waiters[c], CondKey) :
             /\ w # <<>>
             /\ cond_waiters' = [cond_waiters EXCEPT ![c] = Tail(w)]
             /\ sema_up(Head(w), FALSE)
    BY <1>7 DEF cond_signal
  <2> DEFINE s == Head(w)
  <2>2. UNCHANGED <<sleepers, in_timer, priVars, donVars, holder, ret, lock_holder, localVars>>
    BY <1>7 DEF cond_signal
  <2>3. w \in Seq(Thread)
    BY <1>d, <2>1, SortedElems DEF DataType
  <2>4. s \in Thread /\ Tail(w) \in Seq(Thread)
    BY <2>1, <2>3
  <2> HIDE DEF s
  <2>5. s \in AnySema /\ s \notin Lock /\ sema_up(s, FALSE)
    BY <2>1, <2>4, LockIsSema, SyncAssumption DEF s
  <2>6. ret[t] = "run"
    BY <1>d, <1>7, NoReturn
  <2>7. Moves(t, l)
    BY <1>d, <1>7, <2>2, <2>6 DEF Moves, Stands, AcquireLabel, ResetLabel, Label, Core, CoreType
  <2>8. CreatesSame(t, l) /\ OwnsSame(t, l) /\ Loose(t, l) /\ DonorsKept(t, l)
    BY <1>7, <2>2, <2>6
       DEF CreatesSame, CreateRet, OwnsSame, OwnLabel, ResetLabel, Loose, Fixed, DonorsKept
  <2>9. MutualExclusion' /\ HandOver'
    BY <1>2, <2>2, <2>5, <2>7, <2>8 DEF sema_up
  <2>10. Core' /\ panic' \in {panic, "intr_context"}
    BY <1>d, <1>7, <2>2, <2>5, <2>7, <2>8, <2>9, UpCore DEF Core, CoreType
  <2>11. DataType'
    BY <1>d, <1>1, <2>1, <2>2, <2>4, <2>10 DEF DataType
  <2> QED
    BY <2>10, <2>11, CoreParts
<1>8. ASSUME NEW t \in Thread, NEW c \in Cond, CondSignal(t, c) PROVE IInv'
  BY <1>d, <1>7, <1>8 DEF CondSignal, Core, CoreType
<1>9. ASSUME NEW t \in Thread, NEW c \in Cond, CondBroadcast(t, c) PROVE IInv'
  <2>1. CASE cond_signal(t, c) /\ Goto(t, "broadcast")
    BY <1>7, <1>9, <2>1 DEF CondBroadcast
  <2>2. CASE /\ cond_waiters[c] = <<>> /\ pc[t] = "broadcast"
             /\ Goto(t, "run")
             /\ UNCHANGED <<lockFrame, priVars, donVars, holder, ret, lock_holder, panic>>
    <3>1. ret[t] = "run" /\ op' = [op EXCEPT ![t] = c] /\ current = t
      BY <1>d, <1>9, <2>2, NoReturn DEF CondBroadcast
    <3>2. Moves(t, "run")
      BY <1>d, <2>2, <3>1 DEF Moves, Stands, AcquireLabel, ResetLabel, Label, Core, CoreType
    <3>3. /\ CreatesSame(t, "run") /\ OwnsSame(t, "run") /\ Loose(t, "run")
          /\ DonorsKept(t, "run")
      BY <2>2, <3>1
         DEF CreatesSame, CreateRet, OwnsSame, OwnLabel, ResetLabel, Loose, Fixed, DonorsKept
    <3>4. Core'
      BY <1>d, <2>2, <3>1, <3>2, <3>3, QuietStep, SameSched DEF lockFrame, Core, CoreType
    <3>5. DataType'
      BY <1>d, <2>2 DEF DataType, lockFrame
    <3> QED
      BY <3>4, <3>5, CoreParts
  <2> QED
    BY <1>9, <2>1, <2>2 DEF CondBroadcast
<1> QED
  BY <1>4, <1>5, <1>6, <1>8, <1>9

\* thread_awake(), in the timer interrupt.
LEMMA AwakeStep ==
  ASSUME IInv, NEW w \in sleepers, Awake(w)
  PROVE  IInv'
<1>d. Core /\ DataType /\ TypeOK /\ QueueInv /\ current \in Thread
  BY CoreParts, TypeParts DEF Core, CoreType
<1>1. /\ w \in Thread /\ w # idle /\ status[w] = "BLOCKED" /\ pc[w] = "run"
      /\ \A s \in AnySema : ~ WaitsAt(w, s) /\ w \notin ToSet(waiters[s])
  <2>1. w \in Thread /\ status[w] = "BLOCKED" /\ pc[w] = "run"
    BY <1>d DEF Core, CoreType, WaitInv
  <2>2. \A s \in AnySema : ~ WaitsAt(w, s)
    BY <2>1 DEF WaitsAt
  <2> QED
    BY <1>d, <2>1, <2>2 DEF Core, PcInv, WaitInv
<1>2. /\ sleepers' = sleepers \ {w} /\ ready_list' \in Inserted(ready_list, w, priority)
      /\ status' = [status EXCEPT ![w] = "READY"]
      /\ UNCHANGED <<current, thread_ticks, in_timer, priority, init_priority, waiting_lock,
                     donations, torn, value, waiters, holder, cond_waiters, pc, op, ret, lock_holder,
                     child, arg, high, panic>>
  BY DEF Awake, priVars, donVars, semaVars, callVars, localVars
<1>3. Moved([status EXCEPT ![w] = "READY"])
  <2>1. Queued(ready_list', [status EXCEPT ![w] = "READY"])
    BY <1>d, <1>1, <1>2, UnblockLemma
  <2> QED
    BY <1>d, <1>2, <2>1, StayLemma DEF TypeOK
<1>4. /\ Moves(current, pc[current]) /\ CreatesSame(current, pc[current])
      /\ OwnsSame(current, pc[current]) /\ Loose(current, pc[current])
  BY <1>d, <1>2, StandsStill
<1>5. /\ PcInv' /\ WaitInv' /\ ChildInv' /\ FiniteInv'
      /\ \A s \in AnySema : Woken(s)' = Woken(s) \union {u \in {w} : WaitsAt(u, s)}
  <2>1. w \in Thread \ {idle} /\ pc[w] # "none"
    BY <1>1
  <2>2. /\ \A u \in Thread : u \in sleepers' <=> u \in sleepers /\ u # w
        /\ \A u \in Thread : \A s \in AnySema :
             u \in ToSet(waiters'[s]) <=> u \in ToSet(waiters[s]) /\ u # w
        /\ \A s \in AnySema : IsInjective(waiters'[s])
    BY <1>d, <1>1, <1>2 DEF Core, WaitInv
  <2>3. UNCHANGED child
    BY <1>2
  <2> QED
    BY <1>d, <1>1, <1>3, <1>4, <2>1, <2>2, <2>3, WakeLists
<1>6. NoLostWakeup'
  <2>1. \A s \in AnySema : Woken(s)' = Woken(s)
    BY <1>1, <1>5
  <2> QED
    BY <1>d, <1>2, <2>1 DEF Core, NoLostWakeup
<1>7. MutualExclusion' /\ HandOver' /\ OpInv' /\ HeadInv'
  BY <1>d, <1>2 DEF Core, MutualExclusion, HandOver, OpInv, HeadInv, Owns
<1>8. CoreType'
  BY <1>d, <1>2, <1>3 DEF Core, CoreType, Moved
<1>9. DataType'
  BY <1>d, <1>2 DEF DataType
<1> QED
  BY <1>3, <1>5, <1>6, <1>7, <1>8, <1>9, CoreParts DEF Core, Moved

-----------------------------------------------------------------------------
(***************************************************************************)
(* thread_create().                                                        *)
(***************************************************************************)

\* init_thread() makes a thread in a free page, c, that nobody else works on.
LEMMA CreateInitStep ==
  ASSUME IInv, NEW t \in Thread, NEW p \in Priorities, CreateInit(t, p)
  PROVE  IInv'
<1>d. Core /\ DataType
  BY CoreParts
<1>1. PICK c \in Thread :
        /\ status[c] = "FREE"
        /\ status' = [status EXCEPT ![c] = "BLOCKED"]
        /\ priority' = [priority EXCEPT ![c] = p]
        /\ init_priority' = [init_priority EXCEPT ![c] = p]
        /\ waiting_lock' = [waiting_lock EXCEPT ![c] = None]
        /\ donations' = [donations EXCEPT ![c] = <<>>]
        /\ child' = [child EXCEPT ![t] = c]
  BY DEF CreateInit
<1>2. /\ current = t /\ pc[t] = "run"
      /\ pc' = [pc EXCEPT ![t] = "acq_test"]
      /\ op' = [op EXCEPT ![t] = tid_lock]
      /\ ret' = [ret EXCEPT ![t] = "create_release"]
      /\ arg' = [arg EXCEPT ![t] = p]
      /\ UNCHANGED <<current, ready_list, thread_ticks, sleepers, in_timer, value, waiters,
                     torn, holder, cond_waiters, lock_holder, high, panic>>
  BY DEF CreateInit, At, Running, Goto, semaVars
<1>3. p \in Nat /\ tid_lock \in Lock /\ None \notin Thread
  BY PriorityAssumption, SyncAssumption, PriThreadAssumption
<1>4. /\ status[t] = "RUNNING" /\ c # t /\ c # idle /\ pc[c] = "none" /\ t # idle
  BY <1>d, <1>1, <1>2 DEF Core, QueueInv, PcInv
<1>5. /\ pc'[t] = "acq_test" /\ op'[t] = tid_lock /\ ret'[t] = "create_release"
      /\ \A u \in Thread \ {t} : pc'[u] = pc[u] /\ op'[u] = op[u] /\ ret'[u] = ret[u]
      /\ status'[c] = "BLOCKED" /\ \A u \in Thread \ {c} : status'[u] = status[u]
      /\ child'[t] = c /\ \A u \in Thread \ {t} : child'[u] = child[u]
      /\ pc'[c] = "none"
  BY <1>d, <1>1, <1>2, <1>4 DEF Core, CoreType
<1>6. Moves(t, "acq_test")
  BY <1>d, <1>2, <1>3, <1>5 DEF Moves, Stands, AcquireLabel, ResetLabel, Label, Core, CoreType
<1>7. OpInv' /\ pc' \in [Thread -> Label]
  BY <1>d, <1>6, MovesOp DEF Core
<1>8. MutualExclusion' /\ HandOver'
  <2>1. OwnsSame(t, "acq_test")
    BY <1>2 DEF OwnsSame, OwnLabel, ResetLabel
  <2> QED
    BY <1>d, <1>2, <1>6, <2>1, SameOwners
<1>9. CoreType'
  BY <1>d, <1>1, <1>2, <1>3, <1>6, <1>7 DEF Core, CoreType, Moves
<1>10. QueueInv'
  <2>1. /\ c \notin ToSet(ready_list) /\ current # c
    BY <1>d, <1>1, <1>2, <1>4 DEF Core, QueueInv
  <2>2. status'[idle] # "FREE" /\ IsInjective(ready_list')
    BY <1>d, <1>2, <1>4, <1>5, PriThreadAssumption DEF Core, QueueInv
  <2>3. ASSUME NEW u \in Thread
        PROVE  /\ status'[u] = "RUNNING" <=> u = current'
               /\ status'[u] # "DYING"
               /\ u \in ToSet(ready_list') <=> status'[u] = "READY" /\ u # idle
    BY <1>d, <1>2, <1>5, <2>1 DEF Core, QueueInv
  <2> QED
    BY <2>2, <2>3 DEF QueueInv
<1>11. PcInv'
  <2>1. pc'[idle] = "idle"
    BY <1>d, <1>4, <1>5, PriThreadAssumption DEF Core, PcInv
  <2> QED
    BY <1>d, <1>4, <1>5, <2>1 DEF Core, PcInv
<1>12. \A u \in Thread : \A s \in AnySema : WaitsAt(u, s)' <=> WaitsAt(u, s)
  <2> SUFFICES ASSUME NEW u \in Thread, NEW s \in AnySema PROVE WaitsAt(u, s)' <=> WaitsAt(u, s)
    OBVIOUS
  <2>1. CASE u = t
    BY <1>2, <1>5, <2>1 DEF WaitsAt
  <2>2. CASE u # t
    BY <1>5, <2>2 DEF WaitsAt
  <2> QED
    BY <2>1, <2>2
<1>13. WaitInv'
  <2> SUFFICES ASSUME NEW u \in Thread
               PROVE  /\ u \in sleepers <=> status'[u] = "BLOCKED" /\ pc'[u] = "run"
                      /\ \A s \in AnySema :
                           u \in ToSet(waiters[s]) <=> status'[u] = "BLOCKED" /\ WaitsAt(u, s)
                      /\ status'[u] = "BLOCKED" /\ u # idle =>
                           pc'[u] \in {"run", "woken", "cw_woken", "none"}
    BY <1>d, <1>2, <1>12 DEF Core, WaitInv
  <2>1. CASE u = c
    <3>1. \A s \in AnySema : ~ WaitsAt(c, s)
      BY <1>4 DEF WaitsAt
    <3> QED
      BY <1>d, <1>1, <1>5, <2>1, <3>1 DEF Core, WaitInv
  <2>2. CASE u = t
    BY <1>d, <1>4, <1>5, <2>2 DEF Core, WaitInv
  <2>3. CASE u \notin {t, c}
    BY <1>d, <1>5, <2>3 DEF Core, WaitInv
  <2> QED
    BY <2>1, <2>2, <2>3
<1>14. ChildInv'
  <2>1. ASSUME NEW u \in Thread \ {t}, child[u] # None
        PROVE  child[u] \in Thread \ {t, c} /\ pc[child[u]] = "none" /\ status[child[u]] = "BLOCKED"
    BY <1>d, <1>1, <1>4, <2>1 DEF Core, ChildInv, CoreType
  <2>2. ASSUME NEW u \in Thread
        PROVE  /\ child'[u] # None <=> ret'[u] \in CreateRet \/ pc'[u] \in CreateRet
               /\ child'[u] # None =>
                    /\ status'[child'[u]] = "BLOCKED" /\ pc'[child'[u]] = "none"
                    /\ \A v \in Thread : child'[v] = child'[u] => v = u
    <3>1. CASE u = t
      <4>1. \A v \in Thread \ {t} : child'[v] # c
        BY <1>3, <1>5, <2>1
      <4> QED
        BY <1>3, <1>5, <3>1, <4>1 DEF CreateRet
    <3>2. CASE u # t
      <4>1. child[u] # None <=> ret[u] \in CreateRet \/ pc[u] \in CreateRet
        BY <1>d DEF Core, ChildInv
      <4>2. ASSUME child[u] # None
            PROVE  \A v \in Thread : child'[v] = child[u] => v = u
        BY <1>d, <1>5, <2>1, <3>2, <4>2 DEF Core, ChildInv
      <4> QED
        BY <1>5, <2>1, <3>2, <4>1, <4>2
    <3> QED
      BY <3>1, <3>2
  <2> QED
    BY <2>2 DEF ChildInv
<1>15. HeadInv'
  <2>1. \A u \in Thread \ {c} : donations'[u] = donations[u]
    BY <1>d, <1>1 DEF DataType
  <2> QED
    BY <1>d, <1>2, <1>5, <2>1 DEF Core, HeadInv
<1>16. FiniteInv'
  <2>1. {u \in Thread : status'[u] # "FREE"} = {u \in Thread : status[u] # "FREE"} \union {c}
    BY <1>5
  <2> QED
    BY <1>d, <2>1, FS_AddElement DEF Core, FiniteInv
<1>17. NoLostWakeup'
  <2>1. ASSUME NEW s \in AnySema, NEW u \in Thread PROVE u \in Woken(s)' <=> u \in Woken(s)
    <3>1. CASE u = c
      BY <1>4, <1>5, <3>1 DEF Woken
    <3>2. CASE u = t
      BY <1>2, <1>5, <3>2 DEF Woken
    <3>3. CASE u \notin {t, c}
      BY <1>5, <3>3 DEF Woken
    <3> QED
      BY <3>1, <3>2, <3>3
  <2>2. \A s \in AnySema : Woken(s)' = Woken(s)
    BY <2>1 DEF Woken
  <2> QED
    BY <1>d, <1>2, <2>2 DEF Core, NoLostWakeup
<1>18. DataType'
  <2>1. <<>> \in Seq(Thread)
    OBVIOUS
  <2>2. /\ donations' \in [Thread -> Seq(Thread)]
        /\ waiting_lock' \in [Thread -> Lock \union {None}]
    BY <1>d, <1>1, <2>1 DEF DataType
  <2>3. /\ priority' \in [Thread -> Nat] /\ init_priority' \in [Thread -> Nat]
        /\ arg' \in [Thread -> Nat]
    BY <1>d, <1>1, <1>2, <1>3 DEF DataType
  <2> QED
    BY <1>d, <1>2, <2>2, <2>3 DEF DataType
<1> QED
  BY <1>7, <1>8, <1>9, <1>10, <1>11, <1>13, <1>14, <1>15, <1>16, <1>17, <1>18, CoreParts
     DEF Core

\* thread_unblock() of the thread that has been made, which is its caller's child.
LEMMA CreateUnblockStep ==
  ASSUME IInv, NEW t \in Thread, CreateUnblock(t)
  PROVE  IInv'
<1>d. Core /\ DataType /\ TypeOK /\ QueueInv
  BY CoreParts, TypeParts DEF Core
<1>1. PICK c : c = child[t]
  OBVIOUS
<1>2. /\ current = t /\ pc[t] = "create_unblock"
      /\ ready_list' \in Inserted(ready_list, c, priority)
      /\ status' = [status EXCEPT ![c] = "READY"]
      /\ pc' = [pc EXCEPT ![t] = "create_yield", ![c] = "run"]
      /\ child' = [child EXCEPT ![t] = None]
      /\ UNCHANGED <<current, thread_ticks, sleepers, in_timer, priority, init_priority,
                     waiting_lock, donations, torn, value, waiters, holder, cond_waiters, op, ret,
                     lock_holder, arg, high, panic>>
  BY <1>1 DEF CreateUnblock, At, Running, priVars, donVars, semaVars
<1>3. /\ c \in Thread /\ status[c] = "BLOCKED" /\ pc[c] = "none" /\ c # idle /\ c # t
      /\ status[t] = "RUNNING" /\ None \notin Thread
      /\ \A u \in Thread : child[u] = c => u = t
  <2>1. c # None
    BY <1>d, <1>1, <1>2 DEF Core, ChildInv, CreateRet
  <2> QED
    BY <1>d, <1>1, <1>2, <2>1, PriThreadAssumption
       DEF Core, CoreType, ChildInv, PcInv, QueueInv
<1>4. /\ pc'[t] = "create_yield" /\ pc'[c] = "run"
      /\ \A u \in Thread \ {t, c} : pc'[u] = pc[u]
      /\ status'[c] = "READY" /\ \A u \in Thread \ {c} : status'[u] = status[u]
      /\ child'[t] = None /\ \A u \in Thread \ {t} : child'[u] = child[u]
  BY <1>d, <1>2, <1>3 DEF Core, CoreType
<1>5. ret[t] = "run" /\ ret[c] = "run" /\ t # idle
  BY <1>d, <1>2, <1>3, NoReturn DEF Core, CoreType, OpInv, Stands, AcquireLabel, ResetLabel, PcInv
<1>6. Moved([status EXCEPT ![c] = "READY"])
  <2>1. Queued(ready_list', [status EXCEPT ![c] = "READY"])
    BY <1>d, <1>2, <1>3, UnblockLemma
  <2> QED
    BY <1>d, <1>2, <2>1, StayLemma DEF TypeOK
<1>7. CoreType'
  <2>1. pc' \in [Thread -> Label]
    BY <1>d, <1>2, <1>3 DEF Core, CoreType, Label
  <2>2. child' \in [Thread -> Thread \union {None}]
    BY <1>d, <1>2 DEF Core, CoreType
  <2> QED
    BY <1>d, <1>2, <1>6, <2>1, <2>2 DEF Core, CoreType, Moved
<1>8. OpInv'
  <2>1. /\ Stands("create_yield", op[t], "run") /\ Stands("run", op[c], "run")
    BY DEF Stands, AcquireLabel, ResetLabel
  <2>2. ASSUME NEW u \in Thread \ {t, c} PROVE Stands(pc'[u], op'[u], ret'[u])
    BY <1>d, <1>2, <1>4 DEF Core, OpInv
  <2>3. Stands(pc'[t], op'[t], ret'[t]) /\ Stands(pc'[c], op'[c], ret'[c])
    BY <1>2, <1>4, <1>5, <2>1
  <2> QED
    BY <2>2, <2>3 DEF OpInv
<1>9. MutualExclusion' /\ HandOver'
  <2>1. \A u \in Thread : /\ pc'[u] \in OwnLabel <=> pc[u] \in OwnLabel
                          /\ pc'[u] = "create_release" => pc[u] = "create_release"
    BY <1>2, <1>3, <1>4 DEF OwnLabel, ResetLabel
  <2>2. \A u \in Thread, k \in Lock : Owns(u, k)' <=> Owns(u, k)
    BY <1>2, <2>1 DEF Owns
  <2>3. MutualExclusion'
    BY <1>d, <1>2, <2>2 DEF Core, MutualExclusion
  <2>4. HandOver'
    BY <1>d, <1>2, <2>1 DEF Core, HandOver
  <2> QED
    BY <2>3, <2>4
<1>10. PcInv'
  <2>1. pc'[idle] = "idle"
    BY <1>d, <1>3, <1>4, <1>5, PriThreadAssumption DEF Core, PcInv
  <2> QED
    BY <1>d, <1>3, <1>4, <2>1 DEF Core, PcInv
<1>11. ASSUME NEW u \in Thread, NEW s \in AnySema
       PROVE  /\ WaitsAt(u, s)' <=> WaitsAt(u, s)
              /\ u \in {c, t} => ~ WaitsAt(u, s)
  <2>1. CASE u \in {c, t}
    BY <1>2, <1>3, <1>4, <2>1 DEF WaitsAt
  <2>2. CASE u \notin {c, t}
    BY <1>2, <1>4, <2>2 DEF WaitsAt
  <2> QED
    BY <2>1, <2>2
<1>12. WaitInv'
  <2> SUFFICES ASSUME NEW u \in Thread
               PROVE  /\ u \in sleepers <=> status'[u] = "BLOCKED" /\ pc'[u] = "run"
                      /\ \A s \in AnySema :
                           u \in ToSet(waiters[s]) <=> status'[u] = "BLOCKED" /\ WaitsAt(u, s)
                      /\ status'[u] = "BLOCKED" /\ u # idle =>
                           pc'[u] \in {"run", "woken", "cw_woken", "none"}
    BY <1>d, <1>2, <1>11 DEF Core, WaitInv
  <2>1. CASE u \in {c, t}
    BY <1>d, <1>2, <1>3, <1>4, <1>11, <2>1 DEF Core, WaitInv
  <2>2. CASE u \notin {c, t}
    BY <1>d, <1>4, <2>2 DEF Core, WaitInv
  <2> QED
    BY <2>1, <2>2
<1>13. ChildInv'
  <2> SUFFICES ASSUME NEW u \in Thread
               PROVE  /\ child'[u] # None <=> ret[u] \in CreateRet \/ pc'[u] \in CreateRet
                      /\ child'[u] # None =>
                           /\ status'[child'[u]] = "BLOCKED" /\ pc'[child'[u]] = "none"
                           /\ \A v \in Thread : child'[v] = child'[u] => v = u
    BY <1>2 DEF ChildInv
  <2>1. CASE u = t
    BY <1>4, <1>5, <2>1 DEF CreateRet
  <2>2. CASE u # t
    <3>1. child'[u] # None <=> ret[u] \in CreateRet \/ pc'[u] \in CreateRet
      <4>1. child[u] # None <=> ret[u] \in CreateRet \/ pc[u] \in CreateRet
        BY <1>d DEF Core, ChildInv
      <4> QED
        BY <1>3, <1>4, <2>2, <4>1 DEF CreateRet
    <3>2. ASSUME child[u] # None
          PROVE  /\ child[u] \in Thread \ {t, c}
                 /\ status[child[u]] = "BLOCKED" /\ pc[child[u]] = "none"
                 /\ \A v \in Thread : child[v] = child[u] => v = u
      BY <1>d, <1>2, <1>3, <2>2, <3>2 DEF Core, ChildInv, CoreType
    <3>3. ASSUME child'[u] # None, NEW v \in Thread, child'[v] = child'[u]
          PROVE  v = u
      BY <1>4, <2>2, <3>2, <3>3
    <3> QED
      BY <1>4, <2>2, <3>1, <3>2, <3>3
  <2> QED
    BY <2>1, <2>2
<1>14. HeadInv' /\ FiniteInv'
  <2>1. HeadInv'
    BY <1>d, <1>2, <1>3, <1>4 DEF Core, HeadInv
  <2>2. {u \in Thread : status'[u] # "FREE"} = {u \in Thread : status[u] # "FREE"}
    BY <1>3, <1>4
  <2> QED
    BY <1>d, <2>1, <2>2 DEF Core, FiniteInv
<1>15. NoLostWakeup'
  <2>1. ASSUME NEW s \in AnySema, NEW u \in Thread PROVE u \in Woken(s)' <=> u \in Woken(s)
    <3>1. CASE u \in {c, t}
      BY <1>2, <1>3, <1>4, <3>1 DEF Woken
    <3>2. CASE u \notin {c, t}
      BY <1>2, <1>4, <3>2 DEF Woken
    <3> QED
      BY <3>1, <3>2
  <2>2. \A s \in AnySema : Woken(s)' = Woken(s)
    BY <2>1 DEF Woken
  <2> QED
    BY <1>d, <1>2, <2>2 DEF Core, NoLostWakeup
<1>16. DataType'
  BY <1>d, <1>2 DEF DataType
<1> QED
  BY <1>6, <1>7, <1>8, <1>9, <1>10, <1>12, <1>13, <1>14, <1>15, <1>16, CoreParts
     DEF Core, Moved

-----------------------------------------------------------------------------
(***************************************************************************)
(* The invariant, and what follows from it.                                *)
(***************************************************************************)

LEMMA InitIInv == Init => IInv
<1> SUFFICES ASSUME Init PROVE IInv
  OBVIOUS
<1>1. /\ Started \subseteq Thread /\ idle \in Thread \ Started /\ IsFiniteSet(Started)
      /\ None \notin Thread \union Lock \union Sema \union Cond
      /\ InitPriority \in [Started -> Nat] /\ <<>> \in Seq(Thread)
      /\ Thread \intersect (Lock \union Sema) = {} /\ Lock \intersect Sema = {}
  BY PriThreadAssumption, PriorityAssumption, SyncAssumption
<1>2. CoreType
  BY <1>1 DEF Init, CoreType, Label, IntrOff, AcquireLabel
<1>3. DataType
  BY <1>1 DEF Init, DataType
<1>4. ToSet(<<>>) = {} /\ IsInjective(<<>>)
  BY DEF ToSet, IsInjective
<1>5. OpInv /\ HandOver /\ HeadInv
  BY <1>1 DEF Init, OpInv, HandOver, HeadInv, Stands, OwnLabel, AcquireLabel, ResetLabel
<1>6. MutualExclusion
  <2>1. \A t \in Thread, l \in Lock : ~ Owns(t, l)
    BY <1>1 DEF Init, Owns
  <2>2. \A l \in Lock : value[l] = 1
    BY LockIsSema DEF Init
  <2> QED
    BY <2>1, <2>2 DEF MutualExclusion
<1>7. QueueInv
  BY <1>1, <1>4 DEF Init, QueueInv
<1>8. PcInv
  BY <1>1 DEF Init, PcInv
<1>9. WaitInv
  <2>1. \A s \in AnySema : waiters[s] = <<>>
    BY DEF Init
  <2> QED
    BY <1>1, <1>4, <2>1 DEF Init, WaitInv, WaitsAt
<1>10. ChildInv
  BY DEF Init, ChildInv, CreateRet
<1>11. FiniteInv
  <2>1. {t \in Thread : status[t] # "FREE"} \subseteq Started \union {idle}
    BY DEF Init
  <2>2. IsFiniteSet(Started \union {idle})
    BY <1>1, FS_AddElement
  <2> QED
    BY <2>1, <2>2, FS_Subset DEF FiniteInv
<1>12. NoLostWakeup
  BY DEF Init, NoLostWakeup
<1> QED
  BY <1>2, <1>3, <1>5, <1>6, <1>7, <1>8, <1>9, <1>10, <1>11, <1>12, CoreParts DEF Core

LEMMA IInvStep == IInv /\ [Next]_vars => IInv'
<1> SUFFICES ASSUME IInv, [Next]_vars PROVE IInv'
  OBVIOUS
<1>1. CASE UNCHANGED vars
  <2>1. Core /\ DataType
    BY CoreParts
  <2>2. UNCHANGED <<current, status, ready_list, thread_ticks, sleepers, in_timer, priority,
                    init_priority, waiting_lock, donations, torn, value, waiters, holder,
                    cond_waiters, pc, op, ret, lock_holder, child, arg, high, panic>>
    BY <1>1 DEF vars, schedVars, priVars, donVars, semaVars, callVars, localVars
  <2>3. Core'
    BY <2>1, <2>2, StillCore DEF Core, CoreType
  <2>4. DataType'
    BY <2>1, <2>2 DEF DataType
  <2> QED
    BY <2>3, <2>4, CoreParts
<1>2. ASSUME NEW t \in Thread, InCall(t) PROVE IInv'
  <2>1. CASE SemaDown(t) \/ CondDown(t)
    BY <2>1, TakeSteps, StopSteps
  <2>2. CASE SemaUp(t)
    BY <2>2, UpSteps
  <2>3. CASE \/ AcqTest(t) \/ AcqRead(t) \/ AcqInsert(t) \/ Donate(t) \/ DonateWrite(t)
             \/ DonateChain(t) \/ DonateNext(t)
    BY <2>3, AcquireSteps
  <2>4. CASE Own(t) \/ TryOwn(t)
    BY <2>4, OwnSteps
  <2>5. CASE RemoveLock(t) \/ Reset1(t) \/ Reset2(t) \/ Reset3(t) \/ Reset4(t)
    BY <2>5, ResetSteps
  <2>6. CASE CondLock(t)
    BY <2>6, StartSteps
  <2>7. CASE Steal(t) \/ CreateYield(t)
    BY <2>7, YieldSteps
  <2>8. CASE CreateRelease(t)
    BY <2>8, ReleaseSteps
  <2>9. CASE CreateUnblock(t)
    BY <2>9, CreateUnblockStep
  <2> QED
    BY <1>2, <2>1, <2>2, <2>3, <2>4, <2>5, <2>6, <2>7, <2>8, <2>9 DEF InCall
<1>3. ASSUME NEW t \in Thread, Call(t) PROVE IInv'
  <2>1. CASE \/ \E l \in Lock : LockAcquire(t, l)
             \/ \E s \in Sema : SemaDownCall(t, s)
             \/ \E p \in Priorities : SetPriority(t, p)
    BY <2>1, StartSteps
  <2>2. CASE (\E l \in Lock : LockRelease(t, l)) \/ (\E c \in Cond : CondWait(t, c))
    BY <2>2, ReleaseSteps
  <2>3. CASE \E l \in Lock : TryAcquire(t, l)
    BY <2>3, TakeSteps
  <2>4. CASE \/ \E s \in Sema : SemaUpCall(t, s)
             \/ \E c \in Cond : CondSignal(t, c) \/ CondBroadcast(t, c)
    BY <2>4, UpSteps
  <2>5. CASE \E p \in Priorities : CreateInit(t, p)
    BY <2>5, CreateInitStep
  <2>6. CASE Sleep(t) \/ Exit(t)
    BY <2>6, StopSteps
  <2>7. CASE Yield(t)
    BY <2>7, YieldSteps
  <2> QED
    BY <1>3, <2>1, <2>2, <2>3, <2>4, <2>5, <2>6, <2>7 DEF Call
<1>4. CASE IdleBlock \/ Interrupt
  BY <1>4, YieldSteps, AwakeStep, UpSteps DEF Interrupt
<1> QED
  BY <1>1, <1>2, <1>3, <1>4 DEF Next

\* The inductive invariant of the project2 kernel (thread.c, synch.c): who owns each
\* lock, who waits on which list, and how far each thread's call has come agree.
THEOREM Invariance == Spec => []IInv
<1> QED
  BY InitIInv, IInvStep, PTL DEF Spec

\* Every variable keeps its type: the kernel reaches no state it has no name for.
THEOREM TypeCorrect == Spec => []TypeOK
<1>1. IInv => TypeOK
  BY DEF IInv
<1> QED
  BY <1>1, Invariance, PTL

\* lock_init(): a lock is held by at most a single thread at any given time, and its
\* semaphore is 1 exactly while nobody has it, although `holder' is set and cleared
\* outside the semaphore operations.
THEOREM LocksExclude == Spec => []MutualExclusion
<1>1. IInv => MutualExclusion
  BY DEF IInv
<1> QED
  BY <1>1, Invariance, PTL

\* sema_down() and sema_up(): threads are left on a semaphore's wait list beside a
\* positive value only while as many others have been woken to take it.
THEOREM NoWakeupLost == Spec => []NoLostWakeup
<1>1. IInv => NoLostWakeup
  BY DEF IInv
<1> QED
  BY <1>1, Invariance, PTL

\* thread.h 71-76: a thread's `elem' is on one list at a time, the run queue, the list
\* of sleepers or one wait list, the one its status calls for.
THEOREM ListsSound == Spec => []ElemInOneList
<1>1. IInv => ElemInOneList
  <2> SUFFICES ASSUME IInv PROVE ElemInOneList
    OBVIOUS
  <2>1. Core
    BY CoreParts
  <2>2. ASSUME NEW t \in Thread, status[t] = "BLOCKED", pc[t] # "none", t # idle
        PROVE  Cardinality({s \in AnySema : t \in ToSet(waiters[s])})
                 + (IF t \in sleepers THEN 1 ELSE 0) = 1
    <3>1. /\ {s \in AnySema : t \in ToSet(waiters[s])} = {s \in AnySema : WaitsAt(t, s)}
          /\ t \in sleepers <=> pc[t] = "run"
          /\ pc[t] \in {"run", "woken", "cw_woken"}
      BY <2>1, <2>2 DEF Core, WaitInv
    <3>2. CASE pc[t] = "run"
      <4>1. {s \in AnySema : WaitsAt(t, s)} = {}
        BY <3>2 DEF WaitsAt
      <4> QED
        BY <3>1, <3>2, <4>1, FS_EmptySet
    <3>3. CASE pc[t] = "woken"
      <4>1. op[t] \in AnySema
        BY <2>1, <3>3, LockIsSema DEF Core, OpInv, Stands
      <4>2. {s \in AnySema : WaitsAt(t, s)} = {op[t]}
        BY <3>3, <4>1 DEF WaitsAt
      <4>3. Cardinality({op[t]}) = 1
        BY FS_Singleton
      <4> QED
        BY <3>1, <3>3, <4>2, <4>3
    <3>4. CASE pc[t] = "cw_woken"
      <4>1. {s \in AnySema : WaitsAt(t, s)} = {t}
        BY <3>4, LockIsSema DEF WaitsAt
      <4> QED
        BY <3>1, <3>4, <4>1, FS_Singleton
    <3> QED
      BY <3>1, <3>2, <3>3, <3>4
  <2>3. /\ IsInjective(ready_list)
        /\ \A s \in AnySema : IsInjective(waiters[s])
        /\ \A t \in Thread :
             /\ t \in ToSet(ready_list) <=> status[t] = "READY" /\ t # idle
             /\ t \in sleepers => status[t] = "BLOCKED"
             /\ \A s \in AnySema : t \in ToSet(waiters[s]) => status[t] = "BLOCKED"
    BY <2>1 DEF Core, QueueInv, WaitInv
  <2> QED
    BY <2>2, <2>3 DEF ElemInOneList
<1> QED
  BY <1>1, Invariance, PTL

\* No thread on the run queue outranks the one that the step has given the CPU.
Picks ==
  current' # current => \A u \in ToSet(ready_list') : priority[u] <= priority[current']

\* Wherever schedule() is called from, it has sorted the run queue.
LEMMA PicksStep == IInv /\ Next => Picks
<1> SUFFICES ASSUME IInv, Next PROVE Picks
  OBVIOUS
<1>d. Core /\ DataType /\ TypeOK /\ QueueInv
  BY CoreParts, TypeParts DEF Core
<1>1. ASSUME NEW st, Moved(st) PROVE Picks
  BY <1>1 DEF Moved, Picks
<1>2. ASSUME UNCHANGED current PROVE Picks
  BY <1>2 DEF Picks
<1>3. ASSUME NEW t \in Thread, current = t, NEW x \in {"BLOCKED", "DYING"},
             x = "DYING" => t # idle, Schedule(ready_list, [status EXCEPT ![t] = x])
      PROVE  Picks
  BY <1>d, <1>1, <1>3, BlockLemma
<1>4. ASSUME NEW s \in AnySema, NEW intr \in BOOLEAN, sema_up(s, intr) PROVE Picks
  <2>1. Moved(status) \/ \E h \in Thread : Moved([status EXCEPT ![h] = "READY"])
    BY <1>d, <1>4, UpWakes
  <2> QED
    BY <1>1, <2>1
<1>5. ASSUME thread_yield(current, ready_list, status) PROVE Picks
  BY <1>d, <1>1, <1>5, QueuedBefore, YieldLemma
<1> USE DEF At, Running, lockFrame, schedVars
<1>6. ASSUME NEW t \in Thread, InCall(t) PROVE Picks
  <2>1. CASE SemaDown(t) \/ CondDown(t)
    BY <1>2, <1>3, <2>1 DEF SemaDown, CondDown, sema_down, thread_block
  <2>2. CASE SemaUp(t)
    <3>1. op[t] \in AnySema
      BY <1>d, <2>2, LockIsSema DEF SemaUp, Core, OpInv, Stands
    <3> QED
      BY <1>4, <2>2, <3>1 DEF SemaUp
  <2>3. CASE \/ AcqTest(t) \/ AcqRead(t) \/ AcqInsert(t) \/ Own(t) \/ TryOwn(t)
             \/ RemoveLock(t) \/ Reset1(t) \/ Reset2(t) \/ Reset3(t) \/ Reset4(t)
             \/ CondLock(t) \/ CreateRelease(t) \/ CreateUnblock(t)
    BY <1>2, <2>3
       DEF Lost, AcqTest, AcqRead, AcqInsert, Own, TryOwn, RemoveLock, Reset1, Reset2, Reset3,
           Reset4, CondLock, CreateRelease, CreateUnblock, lock_release, Panic
  <2>4. CASE Donate(t) \/ DonateWrite(t) \/ DonateChain(t) \/ DonateNext(t)
    BY <1>2, <2>4 DEF Donate, DonateWrite, DonateChain, DonateNext, ReadHolder, Panic
  <2>5. CASE Steal(t)
    <3>1. Moved(status)
      BY <1>d, <2>5, QueuedBefore, StealLemma DEF Steal
    <3> QED
      BY <1>1, <3>1
  <2>6. CASE CreateYield(t)
    BY <1>2, <1>5, <2>6 DEF CreateYield
  <2> QED
    BY <1>6, <2>1, <2>2, <2>3, <2>4, <2>5, <2>6 DEF InCall
<1>7. ASSUME NEW t \in Thread, Call(t) PROVE Picks
  <2>1. CASE \/ \E l \in Lock : LockAcquire(t, l) \/ LockRelease(t, l) \/ TryAcquire(t, l)
             \/ \E s \in Sema : SemaDownCall(t, s)
             \/ \E c \in Cond : CondWait(t, c)
             \/ \E p \in Priorities : SetPriority(t, p) \/ CreateInit(t, p)
    BY <1>2, <2>1
       DEF LockAcquire, LockRelease, TryAcquire, SemaDownCall, CondWait, SetPriority,
           CreateInit, lock_release
  <2>2. CASE \E s \in Sema : SemaUpCall(t, s)
    BY <1>4, <2>2, LockIsSema DEF SemaUpCall
  <2>3. ASSUME NEW c \in Cond, cond_signal(t, c) PROVE Picks
    <3>1. PICK w \in Sorted(cond_waiters[c], CondKey) : w # <<>> /\ sema_up(Head(w), FALSE)
      BY <2>3 DEF cond_signal
    <3>2. w \in Seq(Thread)
      BY <1>d, <3>1, SortedElems DEF DataType
    <3>3. Head(w) \in AnySema
      BY <3>1, <3>2, LockIsSema
    <3> QED
      BY <1>4, <3>1, <3>3
  <2>4. CASE \E c \in Cond : CondSignal(t, c) \/ CondBroadcast(t, c)
    BY <1>2, <2>3, <2>4 DEF CondSignal, CondBroadcast
  <2>5. CASE Sleep(t)
    BY <1>3, <2>5 DEF Sleep, thread_block
  <2>6. CASE Yield(t)
    BY <1>5, <2>6 DEF Yield
  <2>7. CASE Exit(t)
    <3>1. pc[t] = "run" => t # idle
      BY <1>d DEF Core, PcInv
    <3> QED
      BY <1>2, <1>3, <2>7, <3>1 DEF Exit, Panic
  <2> QED
    BY <1>7, <2>1, <2>2, <2>4, <2>5, <2>6, <2>7 DEF Call
<1>8. CASE IdleBlock
  BY <1>3, <1>8, PriThreadAssumption DEF IdleBlock, thread_block
<1>9. CASE Interrupt
  <2>1. CASE TimerInterrupt \/ (\E t \in sleepers : Awake(t))
    BY <1>2, <2>1 DEF TimerInterrupt, Awake
  <2>2. CASE IntrReturn
    BY <1>2, <1>5, <2>2 DEF IntrReturn
  <2>3. CASE \E s \in DeviceSema : DeviceInterrupt(s)
    BY <1>4, <2>3, LockIsSema, SyncAssumption DEF DeviceInterrupt
  <2> QED
    BY <1>9, <2>1, <2>2, <2>3 DEF Interrupt
<1> QED
  BY <1>6, <1>7, <1>8, <1>9 DEF Next

\* next_thread_to_run(): the thread that gets the CPU has the highest priority of all
\* that could, although donations change the priorities of threads in the run queue.
THEOREM HighestPicked == Spec => PicksHighest
<1>1. IInv /\ [Next]_vars => [current' # current =>
        \A u \in ToSet(ready_list') : priority[u] <= priority[current']]_vars
  BY PicksStep DEF Picks
<1> QED
  BY <1>1, Invariance, PTL DEF Spec, PicksHighest

-----------------------------------------------------------------------------
(***************************************************************************)
(* PriSync implements Monitor.                                             *)
(***************************************************************************)

CWLabel == {"cw_down", "cw_woken"}

\* Some condition's list holds t's waiter.
Listed(t) == \E c \in Cond : t \in ToSet(cond_waiters[c])

\* A waiter is listed once, from cond_wait()'s first step until it is signalled; its
\* semaphore is 1 from then until it has noticed.
CondInv ==
  /\ \A c \in Cond : IsInjective(cond_waiters[c])
  /\ \A c \in Cond : \A t \in ToSet(cond_waiters[c]) :
       /\ op[t] = LockOf[c]
       /\ pc[t] \in CWLabel \/ ret[t] = "cw_down"
       /\ \A d \in Cond : t \in ToSet(cond_waiters[d]) => d = c
  /\ \A t \in Thread :
       /\ ret[t] = "cw_down" => Listed(t)
       /\ value[t] = IF t \in Signalled THEN 1 ELSE 0

\* Owner names the thread that owns a lock, if there is one.
OwnerFacts ==
  \A l \in Lock :
    /\ \A t \in Thread : Owns(t, l) => Owner(l) = t
    /\ (\A t \in Thread : ~ Owns(t, l)) => Owner(l) = None

LEMMA OwnerKnown ==
  (MutualExclusion => OwnerFacts) /\ (MutualExclusion' => OwnerFacts')
<1>1. ASSUME MutualExclusion, NEW l \in Lock, NEW t \in Thread, Owns(t, l)
      PROVE  Owner(l) = t
  <2>1. ~ (value[l] > 0)
    BY <1>1 DEF MutualExclusion
  <2>2. (CHOOSE u \in Thread : Owns(u, l)) = t
    BY <1>1 DEF MutualExclusion
  <2> QED
    BY <2>1, <2>2 DEF Owner
<1>2. ASSUME MutualExclusion, NEW l \in Lock, \A t \in Thread : ~ Owns(t, l)
      PROVE  Owner(l) = None
  BY <1>2 DEF MutualExclusion, Owner
<1>3. ASSUME MutualExclusion', NEW l \in Lock, NEW t \in Thread, Owns(t, l)'
      PROVE  Owner(l)' = t
  <2>1. ~ (value'[l] > 0)
    BY <1>3 DEF MutualExclusion
  <2>2. (CHOOSE u \in Thread : Owns(u, l)') = t
    BY <1>3 DEF MutualExclusion
  <2> QED
    BY <2>1, <2>2 DEF Owner
<1>4. ASSUME MutualExclusion', NEW l \in Lock, \A t \in Thread : ~ Owns(t, l)'
      PROVE  Owner(l)' = None
  BY <1>4 DEF MutualExclusion, Owner
<1> QED
  BY <1>1, <1>2, <1>3, <1>4 DEF OwnerFacts

SameOwns(l) == \A t \in Thread : Owns(t, l)' <=> Owns(t, l)

LEMMA OwnerSame ==
  ASSUME Core, Core', NEW l \in Lock, SameOwns(l)
  PROVE  Owner(l)' = Owner(l)
<1>1. OwnerFacts /\ OwnerFacts'
  BY OwnerKnown DEF Core
<1>2. CASE \E t \in Thread : Owns(t, l)
  BY <1>1, <1>2 DEF OwnerFacts, SameOwns
<1>3. CASE \A t \in Thread : ~ Owns(t, l)
  BY <1>1, <1>3 DEF OwnerFacts, SameOwns
<1> QED
  BY <1>2, <1>3

\* t is as far in a cond_wait() as before.
Stays(t) ==
  /\ pc'[t] \in CWLabel <=> pc[t] \in CWLabel
  /\ ret'[t] = "cw_down" <=> ret[t] = "cw_down"
  /\ pc[t] \in CWLabel \/ ret[t] = "cw_down" => op'[t] = op[t]

Quiet ==
  /\ UNCHANGED cond_waiters
  /\ \A t \in Thread : Stays(t) /\ value'[t] = value[t]
  /\ \A l \in Lock : SameOwns(l)

LEMMA MonVars ==
  ASSUME \A l \in Lock : Owner(l)' = Owner(l),
         \A c \in Cond : Waiting(c)' = Waiting(c),
         Signalled' = Signalled
  PROVE  UNCHANGED M!vars
BY Zenon DEF M!vars

\* Conditions are used with a lock.
LEMMA LockOfCond == \A c \in Cond : LockOf[c] \in Lock
BY SyncAssumption

\* What CondInv says of a cond_wait() stays true while it gets no further.
LEMMA QuietCond ==
  ASSUME DataType, CondInv, UNCHANGED cond_waiters,
         \A t \in Thread : Stays(t) /\ value'[t] = value[t]
  PROVE  CondInv' /\ Signalled' = Signalled
<1>1. \A c \in Cond : ToSet(cond_waiters[c]) \subseteq Thread
  BY ElemsInSet DEF DataType
<1>2. Signalled' = Signalled
  BY DEF Signalled, Stays, CWLabel
<1>3. ASSUME NEW c \in Cond, NEW t \in ToSet(cond_waiters[c])
      PROVE  op'[t] = LockOf[c] /\ (pc'[t] \in CWLabel \/ ret'[t] = "cw_down")
  BY <1>1 DEF CondInv, Stays
<1>4. ASSUME NEW t \in Thread
      PROVE  /\ ret'[t] = "cw_down" => Listed(t)
             /\ value'[t] = IF t \in Signalled' THEN 1 ELSE 0
  BY <1>2 DEF CondInv, Stays
<1>5. /\ \A c \in Cond : IsInjective(cond_waiters[c])
      /\ \A c, d \in Cond : \A t \in ToSet(cond_waiters[c]) :
           t \in ToSet(cond_waiters[d]) => d = c
  BY DEF CondInv
<1> QED
  BY <1>2, <1>3, <1>4, <1>5 DEF CondInv, Listed

LEMMA QuietMon ==
  ASSUME Core, Core', DataType, CondInv, Quiet
  PROVE  CondInv' /\ UNCHANGED M!vars
<1>1. \A c \in Cond : ToSet(cond_waiters[c]) \subseteq Thread
  BY ElemsInSet DEF DataType
<1>2. CondInv' /\ Signalled' = Signalled
  BY QuietCond DEF Quiet
<1>3. \A c \in Cond : Waiting(c)' = Waiting(c)
  BY <1>1, LockOfCond DEF Waiting, Quiet, SameOwns
<1>4. \A l \in Lock : Owner(l)' = Owner(l)
  BY OwnerSame DEF Quiet
<1> QED
  BY <1>2, <1>3, <1>4, MonVars

-----------------------------------------------------------------------------
(***************************************************************************)
(* Steps that neither locks nor conditions notice.                         *)
(***************************************************************************)

\* Nobody moves.
LEMMA QuietStill ==
  ASSUME UNCHANGED <<pc, op, ret, holder, cond_waiters>>,
         \A u \in Thread : value'[u] = value[u]
  PROVE  Quiet
BY DEF Quiet, Stays, SameOwns, Owns

\* t moves, outside cond_wait() or inside its lock_release().
LEMMA QuietMove ==
  ASSUME Core, NEW t \in Thread, NEW l,
         pc' = [pc EXCEPT ![t] = l],
         \A u \in Thread \ {t} : op'[u] = op[u] /\ ret'[u] = ret[u],
         UNCHANGED <<holder, cond_waiters>>,
         \A u \in Thread : value'[u] = value[u],
         l \notin CWLabel, pc[t] \notin CWLabel,
         ret'[t] = "cw_down" <=> ret[t] = "cw_down",
         ret[t] = "cw_down" => op'[t] = op[t],
         \A k \in Lock : op'[t] = k /\ l \in OwnLabel <=> op[t] = k /\ pc[t] \in OwnLabel
  PROVE  Quiet
<1>1. pc'[t] = l /\ \A u \in Thread \ {t} : pc'[u] = pc[u]
  BY DEF Core, CoreType
<1>2. ASSUME NEW u \in Thread
      PROVE  Stays(u) /\ \A k \in Lock : Owns(u, k)' <=> Owns(u, k)
  <2>1. CASE u = t
    BY <1>1, <2>1 DEF Stays, Owns
  <2>2. CASE u # t
    BY <1>1, <2>2 DEF Stays, Owns
  <2> QED
    BY <2>1, <2>2
<1> QED
  BY <1>2 DEF Quiet, SameOwns

\* The semaphore in the frame of a waiter is neither a lock's nor one of the others.
LEMMA OtherSema ==
  ASSUME Core, NEW s \in Lock \union Sema, NEW v, value' = [value EXCEPT ![s] = v]
  PROVE  \A u \in Thread : value'[u] = value[u]
BY SyncAssumption DEF Core, CoreType

LEMMA QuietSched ==
  ASSUME Core,
         \/ UNCHANGED vars \/ IdleBlock \/ TimerInterrupt \/ IntrReturn
         \/ \E t \in Thread : Yield(t) \/ Sleep(t) \/ Awake(t)
         \/ \E why : Panic(why)
  PROVE  Quiet
<1>1. UNCHANGED <<pc, op, ret, holder, cond_waiters, value>>
  BY DEF vars, IdleBlock, TimerInterrupt, IntrReturn, Yield, Sleep, Awake, Panic,
         callVars, semaVars
<1> QED
  BY <1>1, QuietStill

LEMMA QuietUp ==
  ASSUME Core,
         \/ \E t \in Thread, s \in Sema : SemaUpCall(t, s)
         \/ \E s \in DeviceSema : DeviceInterrupt(s)
  PROVE  Quiet
<1>1. PICK s \in Sema, b \in BOOLEAN :
        sema_up(s, b) /\ UNCHANGED <<pc, op, ret, holder, cond_waiters>>
  BY SyncAssumption DEF SemaUpCall, DeviceInterrupt, callVars
<1>2. \A u \in Thread : value'[u] = value[u]
  BY <1>1, OtherSema DEF sema_up
<1> QED
  BY <1>1, <1>2, QuietStill

LEMMA QuietAcquire ==
  ASSUME Core, NEW t \in Thread,
         \/ AcqTest(t) \/ AcqRead(t) \/ AcqInsert(t) \/ Donate(t) \/ DonateWrite(t)
         \/ DonateChain(t) \/ DonateNext(t)
  PROVE  Quiet
<1> USE DEF At, Goto, lockFrame, semaVars
<1>1. ASSUME NEW l \in AcquireLabel \union {"down"}, pc[t] \in AcquireLabel,
             pc' = [pc EXCEPT ![t] = l],
             UNCHANGED <<value, holder, cond_waiters, op, ret>>
      PROVE  Quiet
  <2>1. {l, pc[t]} \intersect (CWLabel \union OwnLabel) = {}
    BY <1>1 DEF AcquireLabel, CWLabel, OwnLabel, ResetLabel
  <2> QED
    BY <1>1, <2>1, QuietMove
<1>2. ASSUME NEW why, Panic(why) PROVE Quiet
  BY <1>2, QuietSched
<1>3. ASSUME NEW w, ReadHolder(t, w), pc[t] \in AcquireLabel PROVE Quiet
  <2>1. CASE Goto(t, "write") /\ UNCHANGED <<lockFrame, holder, op, ret>>
    BY <1>1, <1>3, <2>1 DEF AcquireLabel
  <2> QED
    BY <1>2, <1>3, <2>1 DEF ReadHolder
<1>4. CASE AcqTest(t)
  BY <1>1, <1>4 DEF AcqTest, AcquireLabel
<1>5. CASE AcqRead(t)
  BY <1>1, <1>5 DEF AcqRead, AcquireLabel
<1>6. CASE AcqInsert(t)
  <2>1. CASE Goto(t, "donate") /\ UNCHANGED <<lockFrame, holder, op, ret>>
    BY <1>1, <1>6, <2>1 DEF AcqInsert, AcquireLabel
  <2> QED
    BY <1>2, <1>6, <2>1 DEF Lost, AcqInsert
<1>7. CASE Donate(t)
  BY <1>3, <1>7 DEF Donate, AcquireLabel
<1>8. CASE DonateWrite(t)
  <2>1. CASE Goto(t, "chain") /\ UNCHANGED <<lockFrame, holder, op, ret>>
    BY <1>1, <1>8, <2>1 DEF DonateWrite, AcquireLabel
  <2> QED
    BY <1>2, <1>8, <2>1 DEF DonateWrite
<1>9. CASE DonateChain(t)
  <2>1. CASE (Goto(t, "down") \/ Goto(t, "chain_read")) /\ UNCHANGED <<lockFrame, holder, op, ret>>
    BY <1>1, <1>9, <2>1 DEF DonateChain, AcquireLabel
  <2> QED
    BY <1>2, <1>9, <2>1 DEF DonateChain
<1>10. CASE DonateNext(t)
  BY <1>2, <1>3, <1>10 DEF DonateNext, AcquireLabel
<1> QED
  BY <1>4, <1>5, <1>6, <1>7, <1>8, <1>9, <1>10

LEMMA QuietReset ==
  ASSUME Core, NEW t \in Thread,
         RemoveLock(t) \/ Reset1(t) \/ Reset2(t) \/ Reset3(t) \/ Reset4(t)
  PROVE  Quiet
<1>a. CASE Lost
  BY <1>a, QuietSched DEF Lost
<1>b. SUFFICES ASSUME ~ Lost PROVE Quiet
  BY <1>a
<1>1. /\ pc[t] \in ResetLabel \union {"remove"}
      /\ \E l \in ResetLabel \union {AfterReset(t)} : pc' = [pc EXCEPT ![t] = l]
      /\ UNCHANGED <<value, holder, cond_waiters, op, ret>>
  <2> USE DEF At, Goto, lockFrame, semaVars, ResetLabel
  <2>1. CASE RemoveLock(t)
    BY <1>b, <2>1 DEF RemoveLock
  <2>2. CASE Reset1(t)
    BY <2>2 DEF Reset1
  <2>3. CASE Reset2(t)
    BY <1>b, <2>3 DEF Reset2
  <2>4. CASE Reset3(t)
    BY <1>b, <2>4 DEF Reset3
  <2>5. CASE Reset4(t)
    BY <2>5 DEF Reset4
  <2> QED
    BY <2>1, <2>2, <2>3, <2>4, <2>5
<1>2. PICK l \in ResetLabel \union {AfterReset(t)} : pc' = [pc EXCEPT ![t] = l]
  BY <1>1
<1>3. l \notin CWLabel /\ pc[t] \notin CWLabel /\ pc[t] \in OwnLabel
  BY <1>1, <1>2 DEF AfterReset, CWLabel, OwnLabel, ResetLabel
<1>4. op[t] \in Lock => l \in OwnLabel
  BY <1>2, PriThreadAssumption DEF AfterReset, OwnLabel, ResetLabel
<1> QED
  BY <1>1, <1>2, <1>3, <1>4, QuietMove

\* t begins or ends something else than a cond_wait() or the possession of a lock.
LEMMA QuietCall ==
  ASSUME Core, NEW t \in Thread,
         \/ \E l \in Lock : LockAcquire(t, l)
         \/ \E s \in Sema : SemaDownCall(t, s)
         \/ \E p \in Priorities : SetPriority(t, p) \/ CreateInit(t, p)
         \/ CondLock(t) \/ CreateYield(t) \/ Steal(t) \/ Exit(t)
  PROVE  Quiet
<1> USE DEF At, Goto, lockFrame, semaVars, callVars
<1>1. ASSUME NEW l \in {"acq_test", "down", "reset1", "run", "none"}, pc' = [pc EXCEPT ![t] = l],
             pc[t] \in {"run", "cw_lock", "create_yield", "steal"},
             \A u \in Thread \ {t} : op'[u] = op[u] /\ ret'[u] = ret[u],
             ret'[t] # "cw_down", l = "reset1" => op'[t] = None,
             UNCHANGED <<value, holder, cond_waiters>>
      PROVE  Quiet
  <2>1. ret[t] = "run"
    BY <1>1, NoReturn
  <2>2. l \notin CWLabel /\ pc[t] \notin CWLabel \union OwnLabel
    BY <1>1 DEF CWLabel, OwnLabel, ResetLabel
  <2>3. \A k \in Lock : ~ (op'[t] = k /\ l \in OwnLabel)
    BY <1>1, PriThreadAssumption DEF OwnLabel, ResetLabel
  <2> QED
    BY <1>1, <2>1, <2>2, <2>3, QuietMove
<1>2. /\ op \in [Thread -> Lock \union Sema \union Cond \union {None}]
      /\ ret \in [Thread -> {"run", "cw_down", "create_release", "create_unblock"}]
  BY DEF Core, CoreType
<1>3. ASSUME NEW l \in Lock, LockAcquire(t, l) PROVE Quiet
  BY <1>1, <1>2, <1>3 DEF LockAcquire
<1>4. pc[t] \in {"run", "create_yield", "steal"} => ret[t] = "run"
  BY NoReturn
<1>5. ASSUME NEW s \in Sema, SemaDownCall(t, s) PROVE Quiet
  BY <1>1, <1>2, <1>4, <1>5 DEF SemaDownCall
<1>6. ASSUME NEW p \in Priorities, SetPriority(t, p) PROVE Quiet
  BY <1>1, <1>2, <1>4, <1>6 DEF SetPriority
<1>7. ASSUME NEW p \in Priorities, CreateInit(t, p) PROVE Quiet
  BY <1>1, <1>2, <1>7 DEF CreateInit
<1>8. CASE CondLock(t)
  BY <1>1, <1>2, <1>8 DEF CondLock
<1>9. CASE CreateYield(t)
  BY <1>1, <1>4, <1>9 DEF CreateYield
<1>10. CASE Steal(t)
  BY <1>1, <1>4, <1>10 DEF Steal
<1>11. CASE Exit(t)
  <2>1. CASE Goto(t, "none") /\ UNCHANGED <<semaVars, holder, cond_waiters, callVars>>
    BY <1>1, <1>4, <1>11, <2>1 DEF Exit
  <2> QED
    BY <1>11, <2>1, QuietSched DEF Exit
<1> QED
  BY <1>3, <1>5, <1>6, <1>7, <1>8, <1>9, <1>10, <1>11

\* Nobody notices that `holder' is set and cleared.
LEMMA QuietOwn ==
  ASSUME Core, NEW t \in Thread, Own(t) \/ TryOwn(t)
  PROVE  Quiet
<1> DEFINE k == op[t]
<1>1. /\ pc[t] \in {"own", "try_own"} /\ holder' = [holder EXCEPT ![k] = t] /\ Return(t)
      /\ UNCHANGED <<value, cond_waiters>>
  BY DEF Own, TryOwn, At, lockFrame, semaVars
<1>2. k \in Lock /\ pc[t] \in OwnLabel
  BY <1>1 DEF Core, OpInv, Stands, OwnLabel
<1>3. ret[t] \notin OwnLabel
  BY <1>2, <1>1, ReturnMoves
<1>4. ret[t] # "cw_down"
  BY <1>1 DEF Core, OpInv, Stands, ResetLabel
<1>5. /\ pc'[t] = ret[t] /\ ret'[t] = "run"
      /\ \A u \in Thread \ {t} : pc'[u] = pc[u] /\ op'[u] = op[u] /\ ret'[u] = ret[u]
      /\ holder'[k] = t /\ \A m \in Lock \ {k} : holder'[m] = holder[m]
  BY <1>1, <1>2 DEF Return, Goto, Core, CoreType
<1>6. \A u \in Thread : Stays(u)
  <2>1. pc[t] \notin CWLabel /\ ret[t] \notin CWLabel
    BY <1>1, <1>4 DEF CWLabel, Core, CoreType
  <2> QED
    BY <1>4, <1>5, <2>1 DEF Stays
<1>7. holder[k] = None /\ None \notin Thread
  BY <1>2, PriThreadAssumption DEF Core, HandOver
<1> HIDE DEF k
<1>8. ASSUME NEW u \in Thread, NEW m \in Lock PROVE Owns(u, m)' <=> Owns(u, m)
  <2>1. CASE u = t /\ m = k
    BY <1>2, <1>5, <2>1 DEF Owns, k
  <2>2. CASE u = t /\ m # k
    BY <1>3, <1>5, <2>2 DEF Owns, k
  <2>3. CASE u # t
    BY <1>5, <1>7, <2>3 DEF Owns
  <2> QED
    BY <2>1, <2>2, <2>3
<1> QED
  BY <1>1, <1>6, <1>8 DEF Quiet, SameOwns

\* lock_release(k) by t, before the semaphore is upped.
LEMMA ReleaseOwns ==
  ASSUME Core, NEW t \in Thread, NEW k \in Lock, NEW next, holder[k] = t,
         lock_release(t, k, next), pc[t] \in {"run", "create_release"}
  PROVE  \A m \in Lock : SameOwns(m)
<1>1. /\ pc'[t] = "remove" /\ op'[t] = k
      /\ \A u \in Thread \ {t} : pc'[u] = pc[u] /\ op'[u] = op[u]
      /\ holder'[k] = None /\ \A m \in Lock \ {k} : holder'[m] = holder[m]
  BY DEF lock_release, Goto, Core, CoreType
<1>2. None \notin Thread /\ "remove" \in OwnLabel /\ pc[t] \notin OwnLabel
  BY PriThreadAssumption DEF OwnLabel, ResetLabel
<1>3. ASSUME NEW u \in Thread, NEW m \in Lock PROVE Owns(u, m)' <=> Owns(u, m)
  <2>1. CASE u = t
    BY <1>1, <1>2, <2>1 DEF Owns
  <2>2. CASE u # t
    BY <1>1, <1>2, <2>2 DEF Owns
  <2> QED
    BY <2>1, <2>2
<1> QED
  BY <1>3 DEF SameOwns

LEMMA QuietRelease ==
  ASSUME Core, NEW t \in Thread, CreateRelease(t) \/ \E k \in Lock : LockRelease(t, k)
  PROVE  Quiet
<1>1. PICK k \in Lock, next \in {"run", "create_unblock"} :
        /\ holder[k] = t /\ lock_release(t, k, next) /\ pc[t] \in {"run", "create_release"}
        /\ UNCHANGED cond_waiters
  BY SyncAssumption DEF CreateRelease, LockRelease, At, Holds, Core, HandOver
<1>2. \A m \in Lock : SameOwns(m)
  BY <1>1, ReleaseOwns
<1>3. /\ pc'[t] = "remove" /\ ret'[t] = next /\ ret[t] = "run"
      /\ \A u \in Thread \ {t} : pc'[u] = pc[u] /\ op'[u] = op[u] /\ ret'[u] = ret[u]
      /\ value' = value
  BY <1>1, NoReturn DEF lock_release, Goto, Core, CoreType, semaVars
<1> QED
  BY <1>1, <1>2, <1>3 DEF Quiet, Stays, CWLabel

\* thread_create() puts the new thread on the run queue.
LEMMA QuietUnblock ==
  ASSUME Core, NEW t \in Thread, CreateUnblock(t)
  PROVE  Quiet
<1> DEFINE c == child[t]
<1>1. /\ pc' = [pc EXCEPT ![t] = "create_yield", ![c] = "run"]
      /\ pc[t] = "create_unblock"
      /\ UNCHANGED <<value, holder, cond_waiters, op, ret>>
  BY DEF CreateUnblock, At, semaVars
<1>2. c \in Thread /\ pc[c] = "none"
  BY <1>1 DEF Core, CoreType, ChildInv, CreateRet
<1>3. pc'[t] = "create_yield" /\ pc'[c] = "run" /\ \A u \in Thread \ {t, c} : pc'[u] = pc[u]
  BY <1>1, <1>2 DEF Core, CoreType
<1> HIDE DEF c
<1>4. \A u \in Thread : /\ pc'[u] \in CWLabel <=> pc[u] \in CWLabel
                        /\ pc'[u] \in OwnLabel <=> pc[u] \in OwnLabel
  BY <1>1, <1>2, <1>3 DEF CWLabel, OwnLabel, ResetLabel
<1> QED
  BY <1>1, <1>4 DEF Quiet, Stays, SameOwns, Owns

\* sema_down() of a semaphore that is no lock's, or that is not up.
LEMMA QuietDown ==
  ASSUME Core, NEW t \in Thread, SemaDown(t), value[op[t]] > 0 => op[t] \notin Lock
  PROVE  Quiet
<1>1. op[t] \in Lock \union Sema /\ pc[t] \in {"down", "woken"}
  BY DEF SemaDown, sema_down, Core, OpInv, Stands
<1>2. UNCHANGED <<holder, cond_waiters, op, ret>>
  BY DEF SemaDown, sema_down, callVars
<1>3. ASSUME NEW l \in {"run", "woken"}, pc' = [pc EXCEPT ![t] = l],
             \A u \in Thread : value'[u] = value[u]
      PROVE  Quiet
  <2>1. {l, pc[t]} \intersect (CWLabel \union OwnLabel) = {}
    BY <1>1, <1>3 DEF CWLabel, OwnLabel, ResetLabel
  <2> QED
    BY <1>2, <1>3, <2>1, QuietMove
<1>4. CASE value[op[t]] > 0 /\ value' = [value EXCEPT ![op[t]] = @ - 1] /\ Goto(t, AfterDown(t))
  BY <1>1, <1>3, <1>4, OtherSema DEF Goto, AfterDown
<1>5. CASE Goto(t, "woken") /\ UNCHANGED value
  BY <1>3, <1>5 DEF Goto
<1> QED
  BY <1>4, <1>5 DEF SemaDown, sema_down

\* A waiter whose semaphore is not up goes to sleep.
LEMMA QuietWait ==
  ASSUME Core, NEW t \in Thread, CondDown(t), ~ (value[t] > 0)
  PROVE  Quiet
<1>1. /\ pc[t] \in CWLabel /\ pc' = [pc EXCEPT ![t] = "cw_woken"]
      /\ UNCHANGED <<value, holder, cond_waiters, op, ret>>
  BY DEF CondDown, sema_down, Goto, callVars, CWLabel
<1>2. /\ pc'[t] = "cw_woken" /\ \A u \in Thread \ {t} : pc'[u] = pc[u]
  BY <1>1 DEF Core, CoreType
<1>3. \A u \in Thread : /\ pc'[u] \in CWLabel <=> pc[u] \in CWLabel
                        /\ pc'[u] \in OwnLabel <=> pc[u] \in OwnLabel
  BY <1>1, <1>2 DEF CWLabel, OwnLabel, ResetLabel
<1> QED
  BY <1>1, <1>3 DEF Quiet, Stays, SameOwns, Owns

-----------------------------------------------------------------------------
(***************************************************************************)
(* Steps of the monitor.                                                   *)
(***************************************************************************)

LEMMA CondTypes ==
  ASSUME Core, DataType
  PROVE  /\ \A c \in Cond : /\ cond_waiters[c] \in Seq(Thread)
                            /\ ToSet(cond_waiters[c]) \subseteq Thread
         /\ cond_waiters \in [Cond -> Seq(Thread)]
         /\ LockOf \in [Cond -> Lock] /\ \A l \in Lock : value[l] \in {0, 1}
         /\ pc \in [Thread -> Label] /\ value \in [AnySema -> Nat]
         /\ op \in [Thread -> Lock \union Sema \union Cond \union {None}]
         /\ None \notin Thread \union Lock /\ OwnerFacts
         /\ Thread \intersect Lock = {} /\ Cond \intersect Lock = {}
         /\ Thread \subseteq AnySema /\ Lock \subseteq AnySema
<1>1. cond_waiters \in [Cond -> Seq(Thread)]
  BY DEF DataType
<1>2. ASSUME NEW c \in Cond
      PROVE  cond_waiters[c] \in Seq(Thread) /\ ToSet(cond_waiters[c]) \subseteq Thread
  BY <1>1, ElemsInSet
<1>3. MutualExclusion
  BY DEF Core
<1>4. OwnerFacts /\ \A l \in Lock : value[l] \in {0, 1}
  BY <1>3, OwnerKnown DEF MutualExclusion
<1>5. /\ pc \in [Thread -> Label] /\ value \in [AnySema -> Nat]
      /\ op \in [Thread -> Lock \union Sema \union Cond \union {None}]
  BY DEF Core, CoreType
<1>6. /\ LockOf \in [Cond -> Lock] /\ None \notin Thread \union Lock
      /\ Thread \intersect Lock = {} /\ Cond \intersect Lock = {}
      /\ Thread \subseteq AnySema /\ Lock \subseteq AnySema
  BY SyncAssumption, PriThreadAssumption DEF AnySema
<1> QED
  BY <1>1, <1>2, <1>4, <1>5, <1>6

\* A thread that is not in cond_wait() is on no condition's list.
LEMMA NotListed ==
  ASSUME Core, DataType, CondInv, NEW t \in Thread, pc[t] \notin CWLabel, ret[t] # "cw_down"
  PROVE  (\A c \in Cond : t \notin ToSet(cond_waiters[c])) /\ t \notin Signalled /\ value[t] = 0
BY DEF CondInv, Signalled, CWLabel

\* cond_wait(), up to the release of the lock, looks as if nothing had happened.
LEMMA WaitBegins ==
  ASSUME Core, Core', DataType, CondInv, NEW t \in Thread, NEW c \in Cond, CondWait(t, c)
  PROVE  CondInv' /\ UNCHANGED M!vars
<1> DEFINE k == LockOf[c]
<1>1. /\ \A d \in Cond : /\ cond_waiters[d] \in Seq(Thread)
                         /\ ToSet(cond_waiters[d]) \subseteq Thread
      /\ cond_waiters \in [Cond -> Seq(Thread)] /\ k \in Lock
  BY CondTypes, SyncAssumption DEF DataType
<1>2. /\ pc[t] = "run" /\ ret[t] = "run" /\ holder[k] = t /\ lock_release(t, k, "cw_down")
  BY NoReturn DEF CondWait, At, Holds
<1>3. /\ pc'[t] = "remove" /\ op'[t] = k /\ ret'[t] = "cw_down"
      /\ \A u \in Thread \ {t} : pc'[u] = pc[u] /\ op'[u] = op[u] /\ ret'[u] = ret[u]
      /\ value' = value
  BY <1>2 DEF lock_release, Goto, Core, CoreType, semaVars
<1>4. (\A d \in Cond : t \notin ToSet(cond_waiters[d])) /\ t \notin Signalled /\ value[t] = 0
  BY <1>2, NotListed DEF CWLabel
<1>5. /\ cond_waiters'[c] \in Seq(Thread) /\ IsInjective(cond_waiters'[c])
      /\ ToSet(cond_waiters'[c]) = ToSet(cond_waiters[c]) \union {t}
      /\ \A d \in Cond \ {c} : cond_waiters'[d] = cond_waiters[d]
  <2>1. PICK w \in Inserted(cond_waiters[c], t, [CondKey EXCEPT ![t] = 0]) :
          cond_waiters' = [cond_waiters EXCEPT ![c] = w]
    BY DEF CondWait
  <2>2. IsInjective(cond_waiters[c])
    BY DEF CondInv
  <2>3. w \in Seq(Thread) /\ IsInjective(w) /\ ToSet(w) = ToSet(cond_waiters[c]) \union {t}
    BY <1>1, <1>4, <2>1, <2>2, InsertedElems
  <2> QED
    BY <1>1, <2>1, <2>3
<1>6. \A l \in Lock : SameOwns(l)
  BY <1>1, <1>2, ReleaseOwns
<1>7. Owns(t, k)'
  BY <1>3 DEF Owns, OwnLabel
<1> HIDE DEF k
<1>8. \A d \in Cond : Waiting(d)' = Waiting(d)
  <2>1. Waiting(c)' = Waiting(c)
    <3>1. ASSUME NEW u PROVE u \in Waiting(c)' <=> u \in Waiting(c)
      <4>1. CASE u = t
        BY <1>4, <1>7, <4>1 DEF Waiting, k
      <4>2. CASE u # t
        BY <1>1, <1>5, <1>6, <4>2 DEF Waiting, SameOwns, k
      <4> QED
        BY <4>1, <4>2
    <3> QED
      BY <3>1
  <2>2. ASSUME NEW d \in Cond \ {c} PROVE Waiting(d)' = Waiting(d)
    BY <1>1, <1>5, <1>6, LockOfCond DEF Waiting, SameOwns
  <2> QED
    BY <2>1, <2>2
<1>9. \A u \in Thread \ {t} : \A d \in Cond :
        u \in ToSet(cond_waiters'[d]) <=> u \in ToSet(cond_waiters[d])
  BY <1>5
<1>10. \A u \in Thread : u \in Signalled' <=> u \in Signalled
  <2>1. t \notin Signalled'
    BY <1>3 DEF Signalled
  <2>2. ASSUME NEW u \in Thread \ {t} PROVE u \in Signalled' <=> u \in Signalled
    BY <1>3, <1>9 DEF Signalled
  <2> QED
    BY <1>4, <2>1, <2>2
<1>11. Signalled' = Signalled
  BY <1>10 DEF Signalled
<1>12. ASSUME NEW d \in Cond, NEW u \in ToSet(cond_waiters'[d])
       PROVE  /\ op'[u] = LockOf[d]
              /\ pc'[u] \in CWLabel \/ ret'[u] = "cw_down"
              /\ \A e \in Cond : u \in ToSet(cond_waiters'[e]) => e = d
  <2>1. CASE u = t
    BY <1>3, <1>4, <1>5, <2>1 DEF k
  <2>2. CASE u # t
    <3>1. u \in ToSet(cond_waiters[d]) /\ u \in Thread
      BY <1>1, <1>5, <2>2
    <3> QED
      BY <1>3, <1>9, <2>2, <3>1 DEF CondInv
  <2> QED
    BY <2>1, <2>2
<1>13. ASSUME NEW u \in Thread
       PROVE  /\ ret'[u] = "cw_down" => Listed(u)'
              /\ value'[u] = IF u \in Signalled' THEN 1 ELSE 0
  <2>1. value'[u] = IF u \in Signalled' THEN 1 ELSE 0
    BY <1>3, <1>11 DEF CondInv
  <2>2. CASE u = t
    BY <1>5, <2>1, <2>2 DEF Listed
  <2>3. CASE u # t
    BY <1>3, <1>9, <2>1, <2>3 DEF CondInv, Listed
  <2> QED
    BY <2>2, <2>3
<1>14. \A d \in Cond : IsInjective(cond_waiters'[d])
  BY <1>5 DEF CondInv
<1>15. CondInv'
  BY <1>12, <1>13, <1>14 DEF CondInv
<1>16. \A l \in Lock : Owner(l)' = Owner(l)
  BY <1>6, OwnerSame
<1> QED
  BY <1>8, <1>11, <1>15, <1>16, MonVars

\* t takes a lock whose semaphore is up.
LEMMA LockTaken ==
  ASSUME Core, Core', DataType, CondInv, NEW t \in Thread, NEW k \in Lock, value[k] > 0,
         value' = [value EXCEPT ![k] = @ - 1],
         pc[t] \in {"run", "down", "woken"}, ret[t] # "cw_down",
         NEW l \in {"own", "try_own"}, pc' = [pc EXCEPT ![t] = l],
         op' = [op EXCEPT ![t] = k], UNCHANGED <<ret, holder, cond_waiters>>
  PROVE  CondInv' /\ M!Next
<1>1. /\ pc'[t] = l /\ \A u \in Thread \ {t} : pc'[u] = pc[u]
      /\ op'[t] = k /\ \A u \in Thread \ {t} : op'[u] = op[u]
      /\ \A u \in Thread : value'[u] = value[u]
  BY OtherSema DEF Core, CoreType
<1>2. pc[t] \notin CWLabel \union OwnLabel /\ l \in OwnLabel \ CWLabel
  BY DEF CWLabel, OwnLabel, ResetLabel
<1>3. CondInv' /\ Signalled' = Signalled
  <2>1. \A u \in Thread : Stays(u)
    BY <1>1, <1>2 DEF Stays
  <2> QED
    BY <1>1, <2>1, QuietCond
<1>4. \A u \in Thread \ {t} : \A m \in Lock : Owns(u, m)' <=> Owns(u, m)
  BY <1>1 DEF Owns
<1>5. \A m \in Lock \ {k} : SameOwns(m)
  BY <1>1, <1>2 DEF Owns, SameOwns
<1>6. \A c \in Cond : Waiting(c)' = Waiting(c)
  <2>1. \A c \in Cond : t \notin ToSet(cond_waiters[c])
    BY <1>2, NotListed
  <2> QED
    BY <1>4, <2>1, CondTypes, LockOfCond DEF Waiting
<1>7. Owner(k) = None
  BY DEF Owner
<1>8. Owner(k)' = t
  BY <1>1, <1>2, OwnerKnown DEF Owns, OwnerFacts, Core
<1>9. \A m \in Lock \ {k} : Owner(m)' = Owner(m)
  BY <1>5, OwnerSame
<1>10. M!Acquire(k)
  BY <1>3, <1>6, <1>7, <1>8, <1>9 DEF M!Acquire
<1> QED
  BY <1>3, <1>10 DEF M!Next

LEMMA TakeMon ==
  ASSUME Core, Core', DataType, CondInv, NEW t \in Thread,
         \/ SemaDown(t) /\ value[op[t]] > 0 /\ op[t] \in Lock
         \/ \E k \in Lock : TryAcquire(t, k)
  PROVE  CondInv' /\ M!Next
<1>1. CASE SemaDown(t) /\ value[op[t]] > 0 /\ op[t] \in Lock
  <2>1. /\ value' = [value EXCEPT ![op[t]] = @ - 1] /\ pc' = [pc EXCEPT ![t] = "own"]
        /\ pc[t] \in {"down", "woken"} /\ UNCHANGED <<op, ret, holder, cond_waiters>>
    BY <1>1 DEF SemaDown, sema_down, AfterDown, Goto, callVars
  <2>2. ret[t] # "cw_down"
    BY <2>1 DEF Core, OpInv, Stands, ResetLabel
  <2>3. op' = [op EXCEPT ![t] = op[t]]
    BY <2>1 DEF Core, CoreType
  <2> QED
    BY <1>1, <2>1, <2>2, <2>3, LockTaken
<1>2. ASSUME NEW k \in Lock, TryAcquire(t, k) PROVE CondInv' /\ M!Next
  <2>1. pc[t] = "run" /\ ret[t] = "run"
    BY <1>2, NoReturn DEF TryAcquire, At
  <2> QED
    BY <1>2, <2>1, LockTaken DEF TryAcquire, Goto
<1> QED
  BY <1>1, <1>2

\* The semaphore of the lock is upped: t has given it back.
LEMMA GivenBack ==
  ASSUME Core, Core', DataType, NEW t \in Thread, SemaUp(t), NEW k, op[t] = k
  PROVE  /\ k \in Lock /\ Owns(t, k) /\ Owner(k) = t /\ Owner(k)' = None
         /\ \A m \in Lock \ {k} : SameOwns(m) /\ Owner(m)' = Owner(m)
         /\ \A u \in Thread \ {t} : Owns(u, k)' <=> Owns(u, k)
         /\ ~ Owns(t, k)'
         /\ \A u \in Thread : value'[u] = value[u]
<1>1. /\ pc[t] = "up" /\ sema_up(k, FALSE) /\ Return(t) /\ UNCHANGED <<holder, cond_waiters>>
  BY DEF SemaUp, At
<1>2. k \in Lock /\ Owns(t, k)
  BY <1>1 DEF Core, OpInv, Stands, Owns, OwnLabel
<1>3. value' = [value EXCEPT ![k] = @ + 1] /\ value[k] \in Nat
  BY <1>1, <1>2, CondTypes DEF sema_up
<1>4. value'[k] > 0 /\ \A u \in Thread : value'[u] = value[u]
  BY <1>2, <1>3, CondTypes
<1>5. ret[t] \notin OwnLabel
  BY <1>1, <1>2, ReturnMoves
<1>6. /\ pc'[t] = ret[t]
      /\ \A u \in Thread \ {t} : pc'[u] = pc[u] /\ op'[u] = op[u]
  BY <1>1 DEF Return, Goto, Core, CoreType
<1>7. holder[k] = None /\ None \notin Thread
  BY <1>1, <1>2, CondTypes DEF Core, HandOver, OwnLabel
<1>8. Owner(k) = t /\ Owner(k)' = None
  <2>1. Owner(k) = t
    BY <1>2, CondTypes DEF OwnerFacts
  <2>2. Owner(k)' = None
    BY <1>4 DEF Owner
  <2> QED
    BY <2>1, <2>2
<1>9. \A m \in Lock \ {k} : SameOwns(m)
  BY <1>1, <1>5, <1>6 DEF SameOwns, Owns
<1>10. ~ Owns(t, k)' /\ \A u \in Thread \ {t} : Owns(u, k)' <=> Owns(u, k)
  BY <1>1, <1>2, <1>5, <1>6, <1>7 DEF Owns
<1>11. \A m \in Lock \ {k} : Owner(m)' = Owner(m)
  BY <1>9, OwnerSame
<1> QED
  BY <1>2, <1>4, <1>8, <1>9, <1>10, <1>11

LEMMA ReleaseMon ==
  ASSUME Core, Core', DataType, CondInv, NEW t \in Thread, SemaUp(t)
  PROVE  CondInv' /\ M!Next
<1>0. PICK k : op[t] = k
  OBVIOUS
<1>1. /\ k \in Lock /\ Owns(t, k) /\ Owner(k) = t /\ Owner(k)' = None
      /\ \A m \in Lock \ {k} : SameOwns(m) /\ Owner(m)' = Owner(m)
      /\ \A u \in Thread \ {t} : Owns(u, k)' <=> Owns(u, k)
      /\ ~ Owns(t, k)'
      /\ \A u \in Thread : value'[u] = value[u]
  BY <1>0, GivenBack
<1>2. /\ pc[t] = "up" /\ pc'[t] = ret[t] /\ ret'[t] = "run"
      /\ op'[t] = IF ret[t] = "cw_down" THEN op[t] ELSE None
      /\ \A u \in Thread \ {t} : pc'[u] = pc[u] /\ op'[u] = op[u] /\ ret'[u] = ret[u]
      /\ cond_waiters' = cond_waiters
  BY DEF SemaUp, At, Return, Goto, Core, CoreType
<1>3. \A u \in Thread \ {t} : \A m \in Lock : Owns(u, m)' <=> Owns(u, m)
  BY <1>1 DEF SameOwns
<1>4. None \notin Thread /\ \A c \in Cond : ToSet(cond_waiters[c]) \subseteq Thread /\ LockOf[c] \in Lock
  BY CondTypes
<1>5. ret[t] \in {"run", "cw_down", "create_release", "create_unblock"}
  BY DEF Core, CoreType
<1>6. CASE ret[t] # "cw_down"
  <2>1. \A u \in Thread : Stays(u)
    BY <1>2, <1>5, <1>6 DEF Stays, CWLabel
  <2>2. CondInv' /\ Signalled' = Signalled
    BY <1>1, <1>2, <2>1, QuietCond
  <2>3. \A c \in Cond : t \notin ToSet(cond_waiters[c])
    BY <1>2, <1>6, NotListed DEF CWLabel
  <2>4. \A c \in Cond : Waiting(c)' = Waiting(c)
    BY <1>2, <1>3, <1>4, <2>3 DEF Waiting
  <2>5. M!Release(k)
    BY <1>1, <1>4, <2>2, <2>4 DEF M!Release
  <2> QED
    BY <1>1, <2>2, <2>5 DEF M!Next
<1>7. CASE ret[t] = "cw_down"
  <2>1. PICK c \in Cond : t \in ToSet(cond_waiters[c])
    BY <1>7 DEF CondInv, Listed
  <2>2. LockOf[c] = k /\ \A d \in Cond \ {c} : t \notin ToSet(cond_waiters[d])
    BY <1>0, <2>1 DEF CondInv
  <2>3. \A d \in Cond \ {c} : Waiting(d)' = Waiting(d)
    BY <1>2, <1>3, <1>4, <2>2 DEF Waiting
  <2>4. ASSUME NEW u PROVE u \in Waiting(c)' <=> u \in Waiting(c) \union {t}
    <3>1. CASE u = t
      BY <1>1, <1>2, <2>1, <2>2, <3>1 DEF Waiting
    <3>2. CASE u # t
      BY <1>2, <1>3, <1>4, <3>2 DEF Waiting
    <3> QED
      BY <3>1, <3>2
  <2>5. Waiting(c)' = Waiting(c) \union {t}
    BY <2>4
  <2>6. ASSUME NEW u \in Thread PROVE u \in Signalled' <=> u \in Signalled
    BY <1>2, <2>1 DEF Signalled
  <2>7. Signalled' = Signalled
    BY <2>6 DEF Signalled
  <2>8. CondInv'
    <3>1. ASSUME NEW d \in Cond, NEW u \in ToSet(cond_waiters[d])
          PROVE  op'[u] = LockOf[d] /\ (pc'[u] \in CWLabel \/ ret'[u] = "cw_down")
      <4>1. op[u] = LockOf[d] /\ (pc[u] \in CWLabel \/ ret[u] = "cw_down") /\ u \in Thread
        BY <1>4 DEF CondInv
      <4> QED
        BY <1>2, <1>7, <4>1 DEF CWLabel
    <3>2. ASSUME NEW u \in Thread
          PROVE  /\ ret'[u] = "cw_down" => Listed(u)
                 /\ value'[u] = IF u \in Signalled' THEN 1 ELSE 0
      BY <1>1, <1>2, <2>7 DEF CondInv
    <3>3. /\ \A d \in Cond : IsInjective(cond_waiters[d])
          /\ \A d, e \in Cond : \A u \in ToSet(cond_waiters[d]) :
               u \in ToSet(cond_waiters[e]) => e = d
      BY DEF CondInv
    <3> QED
      BY <1>2, <3>1, <3>2, <3>3 DEF CondInv, Listed
  <2>9. M!Wait(c)
    <3>1. /\ [l \in Lock |-> Owner(l)][LockOf[c]] = t
          /\ [l \in Lock |-> Owner(l)]' = [[l \in Lock |-> Owner(l)] EXCEPT ![LockOf[c]] = None]
      BY <1>1, <2>2
    <3>2. [d \in Cond |-> Waiting(d)]' = [[d \in Cond |-> Waiting(d)] EXCEPT ![c] = @ \union {t}]
      BY <2>3, <2>5
    <3> QED
      BY <1>4, <2>7, <3>1, <3>2 DEF M!Wait
  <2> QED
    BY <2>8, <2>9 DEF M!Next
<1> QED
  BY <1>6, <1>7

\* A signalled thread finds its semaphore up.
LEMMA WakeMon ==
  ASSUME Core, Core', DataType, CondInv, NEW t \in Thread, CondDown(t), value[t] > 0
  PROVE  CondInv' /\ M!Next
<1>1. /\ pc[t] \in CWLabel /\ pc' = [pc EXCEPT ![t] = "cw_lock"]
      /\ value' = [value EXCEPT ![t] = @ - 1]
      /\ UNCHANGED <<holder, cond_waiters, op, ret>>
  BY DEF CondDown, sema_down, Goto, callVars, CWLabel
<1>2. /\ pc'[t] = "cw_lock" /\ \A u \in Thread \ {t} : pc'[u] = pc[u]
      /\ value'[t] = value[t] - 1 /\ \A u \in Thread \ {t} : value'[u] = value[u]
  BY <1>1, CondTypes
<1>3. t \in Signalled /\ value[t] = 1
  BY DEF CondInv
<1>4. \A c \in Cond : t \notin ToSet(cond_waiters[c])
  BY <1>3 DEF Signalled
<1>5. ret[t] # "cw_down"
  BY <1>4 DEF CondInv, Listed
<1>6. \A l \in Lock : SameOwns(l)
  <2>1. \A u \in Thread : pc'[u] \in OwnLabel <=> pc[u] \in OwnLabel
    BY <1>1, <1>2 DEF CWLabel, OwnLabel, ResetLabel
  <2> QED
    BY <1>1, <2>1 DEF SameOwns, Owns
<1>7. ASSUME NEW u PROVE u \in Signalled' <=> u \in Signalled \ {t}
  BY <1>1, <1>2 DEF Signalled
<1>8. Signalled' = Signalled \ {t}
  BY <1>7
<1>9. \A c \in Cond : Waiting(c)' = Waiting(c)
  BY <1>1, <1>6, CondTypes DEF Waiting, SameOwns
<1>10. \A l \in Lock : Owner(l)' = Owner(l)
  BY <1>6, OwnerSame
<1>11. CondInv'
  <2>1. ASSUME NEW d \in Cond, NEW u \in ToSet(cond_waiters[d])
        PROVE  op[u] = LockOf[d] /\ (pc'[u] \in CWLabel \/ ret[u] = "cw_down")
    <3>1. u \in Thread \ {t} /\ op[u] = LockOf[d] /\ (pc[u] \in CWLabel \/ ret[u] = "cw_down")
      BY <1>4, CondTypes DEF CondInv
    <3> QED
      BY <1>2, <3>1
  <2>2. ASSUME NEW u \in Thread
        PROVE  /\ ret[u] = "cw_down" => Listed(u)
               /\ value'[u] = IF u \in Signalled' THEN 1 ELSE 0
    BY <1>2, <1>3, <1>8 DEF CondInv
  <2>3. /\ \A d \in Cond : IsInjective(cond_waiters[d])
        /\ \A d, e \in Cond : \A u \in ToSet(cond_waiters[d]) :
             u \in ToSet(cond_waiters[e]) => e = d
    BY DEF CondInv
  <2> QED
    BY <1>1, <2>1, <2>2, <2>3 DEF CondInv, Listed
<1>12. M!Wake
  BY <1>3, <1>8, <1>9, <1>10 DEF M!Wake
<1> QED
  BY <1>11, <1>12 DEF M!Next

\* The first of the sorted waiters is signalled.
LEMMA SignalMon ==
  ASSUME Core, Core', DataType, CondInv, NEW t \in Thread, NEW c \in Cond, cond_signal(t, c),
         pc[t] \in {"run", "broadcast"}, NEW l \in {"run", "broadcast"},
         pc' = [pc EXCEPT ![t] = l], \A u \in Thread \ {t} : op'[u] = op[u],
         op'[t] = op[t] \/ op'[t] \in Cond
  PROVE  CondInv' /\ M!Next
<1> DEFINE k == LockOf[c]
<1>1. /\ \A d \in Cond : /\ cond_waiters[d] \in Seq(Thread)
                         /\ ToSet(cond_waiters[d]) \subseteq Thread
      /\ cond_waiters \in [Cond -> Seq(Thread)] /\ k \in Lock
  BY CondTypes
<1>2. PICK w \in Sorted(cond_waiters[c], CondKey) :
        /\ w # <<>>
        /\ cond_waiters' = [cond_waiters EXCEPT ![c] = Tail(w)]
        /\ sema_up(Head(w), FALSE)
  BY DEF cond_signal
<1>3. holder[k] = t /\ UNCHANGED <<holder, ret>>
  BY DEF cond_signal, Holds
<1>4. /\ w \in Seq(Thread) /\ IsInjective(w) /\ ToSet(w) = ToSet(cond_waiters[c])
  <2>1. \A x \in ToSet(cond_waiters[c]) : CondKey[x] \in Int
    <3> SUFFICES ASSUME NEW x \in Thread PROVE CondKey[x] \in Int
      BY <1>1
    <3>1. x \in AnySema /\ waiters[x] \in Seq(Thread) /\ value[x] \in Nat
      BY CondTypes DEF Core, CoreType
    <3>2. ASSUME waiters[x] # <<>> PROVE priority[Head(waiters[x])] \in Nat
      <4>1. Head(waiters[x]) \in Thread
        BY <3>1, <3>2
      <4> QED
        BY <4>1 DEF DataType
    <3> QED
      BY <3>1, <3>2 DEF CondKey
  <2>2. IsInjective(cond_waiters[c])
    BY DEF CondInv
  <2> QED
    BY <1>1, <1>2, <2>1, <2>2, SortedElems, SortedOrder
<1>5. PICK h : h = Head(w)
  OBVIOUS
<1>6. /\ h \in Thread /\ h \in ToSet(cond_waiters[c])
      /\ Tail(w) \in Seq(Thread) /\ IsInjective(Tail(w))
      /\ ToSet(Tail(w)) = ToSet(cond_waiters[c]) \ {h}
  BY <1>2, <1>4, <1>5, PopElems
<1>7. /\ cond_waiters'[c] = Tail(w)
      /\ \A d \in Cond \ {c} : cond_waiters'[d] = cond_waiters[d]
  BY <1>1, <1>2
<1>8. ret[t] = "run" /\ pc[t] \notin CWLabel \union OwnLabel /\ l \notin CWLabel \union OwnLabel
  BY NoReturn DEF CWLabel, OwnLabel, ResetLabel
<1>9. h # t /\ ~ Owns(h, k) /\ op[h] = k /\ \A d \in Cond \ {c} : h \notin ToSet(cond_waiters[d])
  <2>1. h # t
    BY <1>6, <1>8, NotListed
  <2>2. ~ Owns(h, k)
    BY <1>1, <1>3, <1>6, <2>1 DEF Core, MutualExclusion, Owns
  <2>3. op[h] = k /\ \A d \in Cond \ {c} : h \notin ToSet(cond_waiters[d])
    BY <1>6 DEF CondInv
  <2> QED
    BY <2>1, <2>2, <2>3
<1>10. pc[h] \in CWLabel
  <2>1. pc[h] \notin OwnLabel
    BY <1>9 DEF Owns
  <2>2. ret[h] # "cw_down"
    BY <1>6, <2>1 DEF Core, OpInv, Stands, OwnLabel
  <2> QED
    BY <1>6, <2>2 DEF CondInv
<1>11. h \notin Signalled /\ value[h] = 0
  BY <1>6 DEF CondInv, Signalled
<1>12. /\ value' = [value EXCEPT ![h] = @ + 1] /\ value'[h] = 1
       /\ \A u \in Thread \ {h} : value'[u] = value[u]
  <2>1. value' = [value EXCEPT ![h] = @ + 1]
    BY <1>2, <1>5 DEF sema_up
  <2> QED
    BY <1>6, <1>11, <2>1, CondTypes
<1>13. pc'[t] = l /\ \A u \in Thread \ {t} : pc'[u] = pc[u]
  BY CondTypes
<1>14. \A m \in Lock : SameOwns(m)
  <2>1. ASSUME NEW u \in Thread, NEW m \in Lock PROVE Owns(u, m)' <=> Owns(u, m)
    <3>1. CASE u = t
      BY <1>3, <1>8, <1>13, <3>1 DEF Owns
    <3>2. CASE u # t
      BY <1>3, <1>13, <3>2 DEF Owns
    <3> QED
      BY <3>1, <3>2
  <2> QED
    BY <2>1 DEF SameOwns
<1> HIDE DEF k
<1>15. Waiting(c)' = Waiting(c) \ {h} /\ h \in Waiting(c)
  BY <1>1, <1>6, <1>7, <1>9, <1>14 DEF Waiting, SameOwns, k
<1>16. \A d \in Cond \ {c} : Waiting(d)' = Waiting(d)
  BY <1>1, <1>7, <1>14, LockOfCond DEF Waiting, SameOwns
<1>17. \A u \in Thread : \A d \in Cond :
         u \in ToSet(cond_waiters'[d]) <=> u \in ToSet(cond_waiters[d]) /\ u # h
  BY <1>6, <1>7, <1>9
<1>18. Signalled' = Signalled \union {h}
  <2>1. ASSUME NEW u \in Thread PROVE u \in Signalled' <=> u \in Signalled \union {h}
    <3>1. CASE u = h
      BY <1>9, <1>10, <1>13, <1>17, <3>1 DEF Signalled, CWLabel
    <3>2. CASE u = t
      BY <1>8, <1>9, <1>13, <3>2 DEF Signalled, CWLabel
    <3>3. CASE u \notin {h, t}
      BY <1>13, <1>17, <3>3 DEF Signalled
    <3> QED
      BY <3>1, <3>2, <3>3
  <2> QED
    BY <1>6, <2>1 DEF Signalled
<1>19. CondInv'
  <2>1. \A d \in Cond : IsInjective(cond_waiters'[d])
    BY <1>6, <1>7 DEF CondInv
  <2>2. ASSUME NEW d \in Cond, NEW u \in ToSet(cond_waiters'[d])
        PROVE  /\ op'[u] = LockOf[d]
               /\ pc'[u] \in CWLabel \/ ret'[u] = "cw_down"
               /\ \A e \in Cond : u \in ToSet(cond_waiters'[e]) => e = d
    <3>1. u \in Thread /\ u \in ToSet(cond_waiters[d])
      BY <1>1, <1>6, <1>7
    <3>2. u # t
      BY <1>8, <3>1, NotListed
    <3> QED
      BY <1>3, <1>13, <1>17, <3>1, <3>2 DEF CondInv
  <2>3. ASSUME NEW u \in Thread
        PROVE  /\ ret'[u] = "cw_down" => Listed(u)'
               /\ value'[u] = IF u \in Signalled' THEN 1 ELSE 0
    <3>1. value'[u] = IF u \in Signalled' THEN 1 ELSE 0
      BY <1>12, <1>18 DEF CondInv
    <3>2. ret[h] # "cw_down"
      BY <1>6, <1>10 DEF Core, OpInv, Stands, CWLabel, ResetLabel
    <3>3. ret'[u] = "cw_down" => Listed(u)'
      BY <1>3, <1>17, <3>2 DEF CondInv, Listed
    <3> QED
      BY <3>1, <3>3
  <2> QED
    BY <2>1, <2>2, <2>3 DEF CondInv
<1>20. \A m \in Lock : Owner(m)' = Owner(m)
  BY <1>14, OwnerSame
<1>21. Owner(k) # None
  <2>1. Owns(t, k)
    BY <1>3 DEF Owns
  <2> QED
    BY <1>1, <2>1, CondTypes DEF OwnerFacts
<1>22. M!Signal(c)
  <2>1. [m \in Lock |-> Owner(m)][LockOf[c]] # None
    BY <1>1, <1>21 DEF k
  <2>2. [m \in Lock |-> Owner(m)]' = [m \in Lock |-> Owner(m)]
    BY <1>20
  <2>3. [d \in Cond |-> Waiting(d)]' = [[d \in Cond |-> Waiting(d)] EXCEPT ![c] = @ \ {h}]
    BY <1>15, <1>16
  <2>4. h \in [d \in Cond |-> Waiting(d)][c]
    BY <1>15
  <2> QED
    BY <1>18, <2>1, <2>2, <2>3, <2>4 DEF M!Signal
<1> QED
  BY <1>19, <1>22 DEF M!Next

LEMMA BroadcastMon ==
  ASSUME Core, Core', DataType, CondInv, NEW t \in Thread, NEW c \in Cond,
         CondSignal(t, c) \/ CondBroadcast(t, c)
  PROVE  CondInv' /\ [M!Next]_(M!vars)
<1>1. op \in [Thread -> Lock \union Sema \union Cond \union {None}] /\ pc \in [Thread -> Label]
  BY CondTypes
<1>2. CASE CondSignal(t, c)
  <2>1. pc[t] = "run" /\ cond_signal(t, c) /\ pc' = [pc EXCEPT ![t] = "run"] /\ op' = op
    BY <1>1, <1>2 DEF CondSignal, At
  <2> QED
    BY <2>1, SignalMon
<1>3. CASE CondBroadcast(t, c) /\ cond_signal(t, c) /\ Goto(t, "broadcast")
  <2>1. /\ pc[t] \in {"run", "broadcast"} /\ pc' = [pc EXCEPT ![t] = "broadcast"]
        /\ op'[t] = c /\ \A u \in Thread \ {t} : op'[u] = op[u]
    BY <1>1, <1>3 DEF CondBroadcast, At, Goto
  <2> QED
    BY <1>3, <2>1, SignalMon
<1>4. CASE /\ CondBroadcast(t, c) /\ pc[t] = "broadcast" /\ Goto(t, "run")
           /\ UNCHANGED <<lockFrame, holder, ret>>
  <2>1. /\ pc' = [pc EXCEPT ![t] = "run"] /\ ret[t] = "run"
        /\ op'[t] = c /\ \A u \in Thread \ {t} : op'[u] = op[u]
        /\ UNCHANGED <<value, cond_waiters, holder, ret>>
    BY <1>1, <1>4, NoReturn DEF CondBroadcast, Goto, lockFrame, semaVars
  <2>2. {"run", pc[t]} \intersect (CWLabel \union OwnLabel) = {}
    BY <1>4 DEF CWLabel, OwnLabel, ResetLabel
  <2>3. Quiet
    BY <1>4, <2>1, <2>2, QuietMove
  <2> QED
    BY <2>3, QuietMon
<1> QED
  BY <1>2, <1>3, <1>4 DEF CondBroadcast

LEMMA MonStep ==
  ASSUME IInv, IInv', CondInv, [Next]_vars
  PROVE  CondInv' /\ [M!Next]_(M!vars)
<1>1. Core /\ Core' /\ DataType
  BY CoreParts
<1>2. ASSUME Quiet PROVE CondInv' /\ [M!Next]_(M!vars)
  BY <1>1, <1>2, QuietMon
<1>3. ASSUME NEW t \in Thread, InCall(t) PROVE CondInv' /\ [M!Next]_(M!vars)
  <2>1. CASE SemaDown(t)
    <3>1. CASE value[op[t]] > 0 /\ op[t] \in Lock
      BY <1>1, <2>1, <3>1, TakeMon
    <3>2. CASE ~ (value[op[t]] > 0 /\ op[t] \in Lock)
      BY <1>1, <1>2, <2>1, <3>2, QuietDown
    <3> QED
      BY <3>1, <3>2
  <2>2. CASE SemaUp(t)
    BY <1>1, <2>2, ReleaseMon
  <2>3. CASE \/ AcqTest(t) \/ AcqRead(t) \/ AcqInsert(t) \/ Donate(t) \/ DonateWrite(t)
             \/ DonateChain(t) \/ DonateNext(t)
    BY <1>1, <1>2, <2>3, QuietAcquire
  <2>4. CASE Own(t) \/ TryOwn(t)
    BY <1>1, <1>2, <2>4, QuietOwn
  <2>5. CASE RemoveLock(t) \/ Reset1(t) \/ Reset2(t) \/ Reset3(t) \/ Reset4(t)
    BY <1>1, <1>2, <2>5, QuietReset
  <2>6. CASE CondDown(t)
    <3>1. CASE value[t] > 0
      BY <1>1, <2>6, <3>1, WakeMon
    <3>2. CASE ~ (value[t] > 0)
      BY <1>1, <1>2, <2>6, <3>2, QuietWait
    <3> QED
      BY <3>1, <3>2
  <2>7. CASE CondLock(t) \/ Steal(t) \/ CreateYield(t)
    BY <1>1, <1>2, <2>7, QuietCall
  <2>8. CASE CreateRelease(t)
    BY <1>1, <1>2, <2>8, QuietRelease
  <2>9. CASE CreateUnblock(t)
    BY <1>1, <1>2, <2>9, QuietUnblock
  <2> QED
    BY <1>3, <2>1, <2>2, <2>3, <2>4, <2>5, <2>6, <2>7, <2>8, <2>9 DEF InCall
<1>4. ASSUME NEW t \in Thread, Call(t) PROVE CondInv' /\ [M!Next]_(M!vars)
  <2>1. CASE \/ \E l \in Lock : LockAcquire(t, l)
             \/ \E s \in Sema : SemaDownCall(t, s)
             \/ \E p \in Priorities : SetPriority(t, p) \/ CreateInit(t, p)
             \/ Exit(t)
    BY <1>1, <1>2, <2>1, QuietCall
  <2>2. CASE \E l \in Lock : LockRelease(t, l)
    BY <1>1, <1>2, <2>2, QuietRelease
  <2>3. CASE \E l \in Lock : TryAcquire(t, l)
    BY <1>1, <2>3, TakeMon
  <2>4. CASE \E s \in Sema : SemaUpCall(t, s)
    BY <1>1, <1>2, <2>4, QuietUp
  <2>5. CASE \E c \in Cond : CondWait(t, c)
    BY <1>1, <2>5, WaitBegins
  <2>6. CASE \E c \in Cond : CondSignal(t, c) \/ CondBroadcast(t, c)
    BY <1>1, <2>6, BroadcastMon
  <2>7. CASE Sleep(t) \/ Yield(t)
    BY <1>1, <1>2, <2>7, QuietSched
  <2> QED
    BY <1>4, <2>1, <2>2, <2>3, <2>4, <2>5, <2>6, <2>7 DEF Call
<1>5. CASE IdleBlock \/ Interrupt \/ UNCHANGED vars
  <2>1. CASE \E t \in sleepers : Awake(t)
    <3>1. sleepers \subseteq Thread
      BY <1>1 DEF Core, CoreType
    <3> QED
      BY <1>1, <1>2, <2>1, <3>1, QuietSched
  <2>2. CASE \E s \in DeviceSema : DeviceInterrupt(s)
    BY <1>1, <1>2, <2>2, QuietUp
  <2>3. CASE IdleBlock \/ TimerInterrupt \/ IntrReturn \/ UNCHANGED vars
    BY <1>1, <1>2, <2>3, QuietSched
  <2> QED
    BY <1>5, <2>1, <2>2, <2>3 DEF Interrupt
<1> QED
  BY <1>3, <1>4, <1>5 DEF Next

LEMMA MonInit == Init => CondInv /\ M!Init
<1> SUFFICES ASSUME Init PROVE CondInv /\ M!Init
  OBVIOUS
<1>1. /\ \A c \in Cond : cond_waiters[c] = <<>>
      /\ \A t \in Thread : pc[t] \notin CWLabel /\ ret[t] = "run" /\ value[t] = 0
      /\ \A l \in Lock : value[l] = 1
  BY SyncAssumption DEF Init, AnySema, CWLabel
<1>2. ToSet(<<>>) = {} /\ IsInjective(<<>>)
  BY DEF ToSet, IsInjective
<1>3. Signalled = {} /\ \A c \in Cond : Waiting(c) = {}
  BY <1>1, <1>2 DEF Signalled, Waiting, CWLabel
<1>4. \A l \in Lock : Owner(l) = None
  BY <1>1 DEF Owner
<1>5. CondInv
  BY <1>1, <1>2, <1>3 DEF CondInv
<1>6. M!Init
  BY <1>3, <1>4 DEF M!Init
<1> QED
  BY <1>5, <1>6

\* synch.c: locks and conditions keep the promise of Monitor.  A lock has one owner, a
\* wait gives it up and begins in one step, a signal releases a waiter if there is any,
\* and nobody stops waiting without one, although lock_release(), in which a waiter gives
\* up the lock, takes several steps with interrupts on.
THEOREM MonitorKept == Spec => MonitorSpec
<1>1. Init => CondInv /\ M!Init
  BY MonInit
<1>2. IInv /\ IInv' /\ CondInv /\ [Next]_vars => CondInv' /\ [M!Next]_(M!vars)
  BY MonStep
<1> QED
  BY <1>1, <1>2, Invariance, PTL DEF Spec, MonitorSpec

-----------------------------------------------------------------------------
(***************************************************************************)
(* The front of the run queue.                                             *)
(***************************************************************************)

\* Labels at which the running thread's priority may have fallen and
\* steal_running_by_priority() is still to come.
Falling == ResetLabel \union {"up", "steal"}

\* Until the next tick the front outranks the running thread only where one more test is
\* to come: that of steal_running_by_priority(), or thread_create()'s of its argument.
FrontInv ==
  /\ in_timer => thread_ticks # 0
  /\ panic = None /\ ~ in_timer /\ thread_ticks = 0 =>
       \/ FrontLow
       \/ pc[current] \in Falling
       \/ pc[current] = "create_yield" /\ priority[Head(ready_list)] <= arg[current]

\* Holders of locks, and threads that somebody is about to donate to, exist and are not
\* just being made.
PtrInv ==
  /\ \A l \in Lock : holder[l] # None => pc[holder[l]] # "none"
  /\ \A t \in Thread : lock_holder[t] # None => pc[lock_holder[t]] # "none"

\* A thread that is being made has the priority it is made with.
KidInv == \A t \in Thread : child[t] # None => priority[child[t]] = arg[t]

\* FrontLow after a step that changes no priority.
FrontKeeps == ready_list' # <<>> => priority[Head(ready_list')] <= priority[current']

LEMMA ScheduleFront ==
  ASSUME TypeOK, NEW rl, NEW st, MaySchedule(rl, st), Schedule(rl, st)
  PROVE  FrontKeeps
<1>1. /\ ready_list' \in Seq(Thread) /\ IsInjective(ready_list')
      /\ \A u \in ToSet(ready_list') : priority[u] <= priority[current']
  BY NextChosen DEF SwitchTo
<1> QED
  BY <1>1, PopElems DEF FrontKeeps

LEMMA BlockFront ==
  ASSUME TypeOK, QueueInv, NEW t \in Thread, current = t,
         NEW x \in {"BLOCKED", "DYING"}, x = "DYING" => t # idle,
         Schedule(ready_list, [status EXCEPT ![t] = x])
  PROVE  FrontKeeps
BY BlockMay, ScheduleFront

LEMMA YieldFront ==
  ASSUME TypeOK, NEW rl, NEW st, Queued(rl, st), thread_yield(current, rl, st)
  PROVE  FrontKeeps
BY YieldMay, ScheduleFront

\* After steal_running_by_priority() the front is no higher, unless it was called in an
\* interrupt handler.
LEMMA StealFront ==
  ASSUME TypeOK, NEW rl, NEW st, NEW intr \in BOOLEAN, Queued(rl, st),
         steal(rl, st, intr)
  PROVE  FrontKeeps \/ panic' = "intr_context"
<1>1. CASE Stolen(rl) /\ ~ intr /\ thread_yield(current, rl, st)
  BY <1>1, YieldFront
<1>2. CASE /\ ready_list' = rl /\ current' = current
           /\ panic' = IF Stolen(rl) THEN "intr_context" ELSE panic
  <2>1. CASE Stolen(rl)
    BY <1>2, <2>1
  <2>2. CASE rl = <<>>
    BY <1>2, <2>2 DEF FrontKeeps
  <2>3. CASE ~ Stolen(rl) /\ rl # <<>>
    <3>1. Head(rl) \in Thread
      BY <2>3 DEF Queued
    <3>2. priority[Head(rl)] \in Nat /\ priority[current] \in Nat
      BY <3>1 DEF TypeOK
    <3>3. ~ (priority[Head(rl)] > priority[current])
      BY <2>3 DEF Stolen
    <3> QED
      BY <1>2, <3>2, <3>3 DEF FrontKeeps
  <2> QED
    BY <2>1, <2>2, <2>3
<1> QED
  BY <1>1, <1>2 DEF steal

LEMMA UpFront ==
  ASSUME Core, DataType, NEW s \in AnySema, NEW intr \in BOOLEAN, sema_up(s, intr)
  PROVE  FrontKeeps \/ panic' = "intr_context"
<1>1. TypeOK /\ QueueInv
  BY TypeParts DEF Core
<1>2. CASE steal(ready_list, status, intr)
  BY <1>1, <1>2, QueuedBefore, StealFront
<1>3. CASE \E w \in Sorted(waiters[s], priority) :
             /\ w # <<>>
             /\ \E rl \in Inserted(ready_list, Head(w), priority) :
                  steal(rl, [status EXCEPT ![Head(w)] = "READY"], intr)
  <2>1. PICK w \in Sorted(waiters[s], priority) :
             /\ w # <<>>
             /\ \E rl \in Inserted(ready_list, Head(w), priority) :
                  steal(rl, [status EXCEPT ![Head(w)] = "READY"], intr)
    BY <1>3
  <2>2. Head(w) \in Thread /\ Head(w) # idle /\ status[Head(w)] = "BLOCKED"
    BY <2>1, FirstWaiter
  <2>3. PICK rl \in Inserted(ready_list, Head(w), priority) :
          steal(rl, [status EXCEPT ![Head(w)] = "READY"], intr)
    BY <2>1
  <2>4. Queued(rl, [status EXCEPT ![Head(w)] = "READY"])
    BY <1>1, <2>2, UnblockLemma
  <2> QED
    BY <1>1, <2>3, <2>4, StealFront
<1> QED
  BY <1>2, <1>3 DEF sema_up

\* Nothing else is left to show where that has been done.
LEMMA FrontSettled ==
  ASSUME FrontInv, UNCHANGED priority, FrontKeeps \/ panic' # None,
         ~ in_timer' \/ (UNCHANGED <<in_timer, thread_ticks>>)
  PROVE  FrontInv'
BY DEF FrontInv, FrontKeeps, FrontLow

\* A step of the running thread that leaves the scheduler alone.
LEMMA FrontStays ==
  ASSUME Core, FrontInv, NEW t \in Thread, NEW l, At(t, pc[t]),
         pc' = [pc EXCEPT ![t] = l], UNCHANGED <<schedVars, in_timer>>,
         FrontLow => FrontLow',
         l \in Falling \/ pc[t] \notin Falling \union {"create_yield"}
  PROVE  FrontInv'
<1>1. pc'[t] = l /\ current' = t /\ current = t
  BY DEF Core, CoreType, At, Running, schedVars
<1>2. in_timer' = in_timer /\ thread_ticks' = thread_ticks /\ panic = None /\ ~ in_timer
  BY DEF schedVars, At, Running
<1> QED
  BY <1>1, <1>2 DEF FrontInv

\* A step inside lock_acquire() or lock_release(), or one that begins a call.
LEMMA FrontMoves ==
  ASSUME IInv, FrontInv, NEW t \in Thread,
         \/ AcqTest(t) \/ AcqRead(t) \/ AcqInsert(t) \/ Donate(t) \/ DonateChain(t)
         \/ DonateNext(t) \/ Own(t) \/ TryOwn(t) \/ RemoveLock(t) \/ CondLock(t)
         \/ CreateRelease(t)
         \/ \E l \in Lock : LockAcquire(t, l) \/ LockRelease(t, l) \/ TryAcquire(t, l)
         \/ \E s \in Sema : SemaDownCall(t, s)
         \/ \E c \in Cond : CondWait(t, c)
  PROVE  FrontInv'
<1> USE DEF lockFrame, priVars, schedVars
<1>1. Core
  BY CoreParts
<1>2. ASSUME NEW l, At(t, pc[t]), pc' = [pc EXCEPT ![t] = l],
             UNCHANGED <<current, status, ready_list, thread_ticks, in_timer, priority>>,
             pc[t] \notin Falling \union {"create_yield"}
      PROVE  FrontInv'
  <2>1. FrontLow' <=> FrontLow
    BY <1>2 DEF FrontLow
  <2> QED
    BY <1>1, <1>2, <2>1, FrontStays
<1>3. ASSUME NEW why, Panic(why), Running(t) PROVE FrontInv'
  BY <1>3 DEF Running, Panic, FrontInv, FrontLow, priVars, callVars, localVars
<1> USE DEF At, Goto, Falling, ResetLabel
<1>4. CASE AcqTest(t) \/ AcqRead(t) \/ AcqInsert(t)
  BY <1>2, <1>3, <1>4 DEF Lost, AcqTest, AcqRead, AcqInsert
<1>5. CASE Donate(t) \/ DonateNext(t)
  BY <1>2, <1>3, <1>5 DEF Donate, DonateNext, ReadHolder
<1>6. CASE DonateChain(t)
  BY <1>2, <1>3, <1>6 DEF DonateChain
<1>7. CASE Own(t) \/ TryOwn(t)
  BY <1>2, <1>7 DEF Own, TryOwn, Return
<1>8. CASE RemoveLock(t) \/ CondLock(t)
  BY <1>2, <1>3, <1>8 DEF Lost, RemoveLock, CondLock
<1>9. CASE CreateRelease(t)
  BY <1>2, <1>9 DEF CreateRelease, lock_release
<1>10. CASE \E l \in Lock : LockAcquire(t, l) \/ LockRelease(t, l) \/ TryAcquire(t, l)
  BY <1>2, <1>10 DEF LockAcquire, LockRelease, TryAcquire, lock_release
<1>11. CASE \E s \in Sema : SemaDownCall(t, s)
  BY <1>2, <1>11 DEF SemaDownCall
<1>12. CASE \E c \in Cond : CondWait(t, c)
  BY <1>2, <1>12 DEF CondWait, lock_release
<1> QED
  BY <1>4, <1>5, <1>6, <1>7, <1>8, <1>9, <1>10, <1>11, <1>12

\* The priorities that change are the running thread's, where a test follows; the one it
\* donates to, which does not outrank it then; and that of a page nobody has queued.
LEMMA FrontPriorities ==
  ASSUME IInv, FrontInv, NEW t \in Thread,
         \/ DonateWrite(t) \/ Reset1(t) \/ Reset2(t) \/ Reset3(t) \/ Reset4(t)
         \/ \E p \in Priorities : SetPriority(t, p) \/ CreateInit(t, p)
  PROVE  FrontInv'
<1> USE DEF At, lockFrame, priVars, schedVars
<1>1. Core /\ DataType /\ QueueInv
  BY CoreParts DEF Core
<1>2. ASSUME NEW l \in Falling, At(t, pc[t]), pc' = [pc EXCEPT ![t] = l],
             UNCHANGED <<current, status, ready_list, thread_ticks, in_timer>>
      PROVE  FrontInv'
  <2>1. pc'[t] = l /\ current' = t /\ in_timer' = FALSE
    BY <1>1, <1>2 DEF Core, CoreType, Running
  <2> QED
    BY <1>2, <2>1 DEF FrontInv
<1>3. AfterReset(t) \in Falling
  BY DEF AfterReset, Falling
<1>4. CASE Reset1(t) \/ Reset2(t) \/ Reset3(t) \/ Reset4(t)
  <2>1. CASE Lost
    <3>1. panic = None
      BY <1>4 DEF Reset1, Reset2, Reset3, Reset4, Running
    <3> QED
      BY <2>1, <3>1 DEF Lost, Panic, FrontInv, FrontLow, callVars, localVars
  <2>2. CASE ~ Lost
    <3>1. /\ \E l \in Falling : pc' = [pc EXCEPT ![t] = l]
          /\ UNCHANGED <<current, status, ready_list, thread_ticks, in_timer>> /\ Running(t)
      BY <1>3, <1>4, <2>2 DEF Reset1, Reset2, Reset3, Reset4, Goto, Falling, ResetLabel
    <3> QED
      BY <1>2, <3>1
  <2> QED
    BY <2>1, <2>2
<1>5. CASE \E p \in Priorities : SetPriority(t, p)
  <2>1. "reset1" \in Falling
    BY DEF Falling, ResetLabel
  <2> QED
    BY <1>2, <1>5, <2>1 DEF SetPriority, Goto
<1>6. /\ ready_list # <<>> => Head(ready_list) \in Thread /\ status[Head(ready_list)] = "READY"
      /\ current \in Thread /\ status[current] = "RUNNING"
  <2>1. ready_list \in Seq(Thread) /\ IsInjective(ready_list) /\ current \in Thread
    BY <1>1 DEF Core, CoreType, QueueInv
  <2>2. ready_list # <<>> => Head(ready_list) \in Thread /\ Head(ready_list) \in ToSet(ready_list)
    BY <2>1, PopElems
  <2> QED
    BY <1>1, <2>1, <2>2 DEF QueueInv
<1>7. CASE DonateWrite(t)
  <2>1. CASE priority' = [priority EXCEPT ![lock_holder[t]] = priority[t]] /\ Goto(t, "chain")
    <3>1. /\ pc' = [pc EXCEPT ![t] = "chain"] /\ pc[t] = "write" /\ current = t
          /\ UNCHANGED <<schedVars, in_timer>>
      BY <1>7, <2>1 DEF DonateWrite, Goto, Running, Panic
    <3>2. FrontLow => FrontLow'
      <4>1. \A u \in Thread : priority[u] \in Nat
        BY <1>1 DEF DataType
      <4>2. \A u \in Thread : priority'[u] = IF u = lock_holder[t] THEN priority[t] ELSE priority[u]
        BY <1>1, <2>1 DEF DataType
      <4>3. priority'[t] = priority[t]
        BY <4>2
      <4> QED
        BY <1>6, <3>1, <4>1, <4>2, <4>3 DEF FrontLow
    <3> QED
      BY <1>1, <1>7, <3>1, <3>2, FrontStays DEF DonateWrite, Falling, ResetLabel
  <2>2. CASE \E why : Panic(why)
    <3>1. panic = None
      BY <1>7 DEF DonateWrite, Running
    <3> QED
      BY <2>2, <3>1 DEF Panic, FrontInv, FrontLow, callVars, localVars
  <2> QED
    BY <1>7, <2>1, <2>2 DEF DonateWrite
<1>8. ASSUME NEW p \in Priorities, CreateInit(t, p) PROVE FrontInv'
  <2>1. PICK c \in Thread : status[c] = "FREE" /\ priority' = [priority EXCEPT ![c] = p]
    BY <1>8 DEF CreateInit
  <2>2. /\ pc' = [pc EXCEPT ![t] = "acq_test"] /\ pc[t] = "run" /\ current = t /\ Running(t)
        /\ UNCHANGED <<current, ready_list, thread_ticks, in_timer>>
    BY <1>8 DEF CreateInit, Goto, Running
  <2>3. \A u \in Thread \ {c} : priority'[u] = priority[u]
    BY <1>1, <2>1 DEF DataType
  <2>4. FrontLow => FrontLow'
    BY <1>6, <2>1, <2>2, <2>3 DEF FrontLow
  <2>5. pc'[t] = "acq_test"
    BY <1>1, <2>2 DEF Core, CoreType
  <2> QED
    BY <2>2, <2>4, <2>5 DEF FrontInv, Running, Falling, ResetLabel
<1> QED
  BY <1>4, <1>5, <1>7, <1>8

\* A new thread is queued; unless it goes to the front, the front is as before.
LEMMA FrontUnblock ==
  ASSUME IInv, FrontInv, KidInv, NEW t \in Thread, CreateUnblock(t)
  PROVE  FrontInv'
<1>1. Core /\ DataType /\ ChildInv /\ current = t /\ pc[t] = "create_unblock"
  BY CoreParts DEF Core, CreateUnblock, At, Running
<1>2. PICK c \in Thread : c = child[t] /\ priority[c] = arg[t] /\ pc[c] = "none"
  <2>1. child[t] # None
    BY <1>1 DEF ChildInv, CreateRet
  <2> QED
    BY <1>1, <2>1 DEF KidInv, Core, CoreType, ChildInv
<1>3. /\ ready_list' \in Inserted(ready_list, c, priority)
      /\ pc' = [pc EXCEPT ![t] = "create_yield", ![c] = "run"]
      /\ UNCHANGED <<current, thread_ticks, in_timer, priority, arg, panic>>
  BY <1>2 DEF CreateUnblock, priVars
<1>4. pc'[t] = "create_yield"
  BY <1>1, <1>2, <1>3 DEF Core, CoreType
<1>5. ready_list \in Seq(Thread)
  BY <1>1 DEF Core, CoreType
<1>6. Head(ready_list') = c \/ (ready_list # <<>> /\ Head(ready_list') = Head(ready_list))
  BY <1>3, <1>5, InsertedFront
<1>7. ASSUME FrontLow
      PROVE  FrontLow' \/ priority'[Head(ready_list')] <= arg'[current']
  <2>1. CASE Head(ready_list') = c
    <3>1. arg[t] \in Nat
      BY <1>1 DEF DataType
    <3> QED
      BY <1>1, <1>2, <1>3, <2>1, <3>1
  <2>2. CASE ready_list # <<>> /\ Head(ready_list') = Head(ready_list)
    BY <1>3, <1>7, <2>2 DEF FrontLow
  <2> QED
    BY <1>6, <2>1, <2>2
<1> QED
  BY <1>1, <1>3, <1>4, <1>7 DEF FrontInv, Falling, ResetLabel

\* thread_create() yields to a thread with a greater argument.
LEMMA FrontCreated ==
  ASSUME IInv, FrontInv, NEW t \in Thread, CreateYield(t)
  PROVE  FrontInv'
<1>1. Core /\ DataType /\ TypeOK /\ QueueInv
  BY CoreParts, TypeParts DEF Core
<1>2. /\ current = t /\ pc[t] = "create_yield" /\ panic = None /\ ~ in_timer
      /\ UNCHANGED <<in_timer, priority, panic>> /\ pc' = [pc EXCEPT ![t] = "run"]
  BY DEF CreateYield, At, Running, Goto, priVars
<1>3. CASE arg[t] > priority[t] /\ thread_yield(t, ready_list, status)
  <2>1. FrontKeeps
    BY <1>1, <1>2, <1>3, QueuedBefore, YieldFront
  <2> QED
    BY <1>2, <2>1, FrontSettled
<1>4. CASE ~ (arg[t] > priority[t]) /\ UNCHANGED schedVars
  <2>1. UNCHANGED <<current, ready_list, thread_ticks>>
    BY <1>4 DEF schedVars
  <2>2. ASSUME thread_ticks = 0 PROVE FrontLow
    <3>1. FrontLow \/ priority[Head(ready_list)] <= arg[t]
      BY <1>2, <2>2 DEF FrontInv, Falling, ResetLabel
    <3>2. arg[t] \in Nat /\ priority[t] \in Nat
      BY <1>1 DEF DataType
    <3>3. ready_list # <<>> => priority[Head(ready_list)] \in Nat
      <4>1. ready_list \in Seq(Thread)
        BY <1>1 DEF TypeOK
      <4>2. ready_list # <<>> => Head(ready_list) \in Thread
        BY <4>1
      <4> QED
        BY <1>1, <4>2 DEF DataType
    <3> QED
      BY <1>2, <1>4, <3>1, <3>2, <3>3 DEF FrontLow
  <2> QED
    BY <1>2, <2>1, <2>2 DEF FrontInv, FrontLow
<1> QED
  BY <1>3, <1>4 DEF CreateYield

\* Wherever schedule() or steal_running_by_priority() is called from.
LEMMA FrontSwitches ==
  ASSUME IInv, FrontInv, NEW t \in Thread,
         \/ SemaDown(t) \/ CondDown(t) \/ SemaUp(t) \/ Steal(t)
         \/ \E s \in Sema : SemaUpCall(t, s)
         \/ \E c \in Cond : CondSignal(t, c) \/ CondBroadcast(t, c)
         \/ Sleep(t) \/ Yield(t) \/ Exit(t)
  PROVE  FrontInv'
<1> USE DEF At, Running, priVars
<1>0. panic = None /\ ~ in_timer
  BY DEF SemaDown, CondDown, sema_down, SemaUp, Steal, SemaUpCall, CondSignal, CondBroadcast,
         Sleep, Yield, Exit
<1>1. Core /\ DataType /\ TypeOK /\ QueueInv
  BY CoreParts, TypeParts DEF Core
<1>2. ASSUME UNCHANGED <<in_timer, priority>>, FrontKeeps \/ panic' = "intr_context" PROVE FrontInv'
  <2>1. None # "intr_context"
    BY PriThreadAssumption
  <2> QED
    BY <1>0, <1>2, <2>1, FrontSettled
<1>3. ASSUME NEW s \in AnySema, sema_up(s, FALSE), UNCHANGED <<in_timer, priVars>>
      PROVE  FrontInv'
  BY <1>1, <1>2, <1>3, UpFront
<1>4. ASSUME NEW l, At(t, pc[t]), pc' = [pc EXCEPT ![t] = l],
             UNCHANGED <<schedVars, in_timer, priority>>,
             pc[t] \notin Falling \union {"create_yield"}
      PROVE  FrontInv'
  <2>1. FrontLow' <=> FrontLow
    BY <1>4 DEF FrontLow, schedVars
  <2> QED
    BY <1>1, <1>4, <2>1, FrontStays
<1>5. ASSUME NEW x \in {"BLOCKED", "DYING"}, x = "DYING" => t # idle, current = t,
             Schedule(ready_list, [status EXCEPT ![t] = x]), UNCHANGED <<in_timer, priVars>>
      PROVE  FrontInv'
  BY <1>1, <1>2, <1>5, BlockFront
<1>6. CASE SemaDown(t) \/ CondDown(t)
  BY <1>4, <1>5, <1>6
     DEF SemaDown, CondDown, sema_down, thread_block, Goto, Falling, ResetLabel
<1>7. CASE SemaUp(t)
  <2>1. op[t] \in AnySema
    BY <1>1, <1>7, LockIsSema DEF SemaUp, Core, OpInv, Stands
  <2> QED
    BY <1>3, <1>7, <2>1 DEF SemaUp
<1>8. CASE Steal(t)
  <2>1. FrontKeeps \/ panic' = "intr_context"
    BY <1>1, <1>8, QueuedBefore, StealFront DEF Steal
  <2> QED
    BY <1>2, <1>8, <2>1 DEF Steal
<1>9. CASE \E s \in Sema : SemaUpCall(t, s)
  BY <1>3, <1>9, LockIsSema DEF SemaUpCall
<1>10. ASSUME NEW c \in Cond, cond_signal(t, c) PROVE FrontInv'
  <2>1. PICK w \in Sorted(cond_waiters[c], CondKey) : w # <<>> /\ sema_up(Head(w), FALSE)
    BY <1>10 DEF cond_signal
  <2>2. w \in Seq(Thread)
    BY <1>1, <2>1, SortedElems DEF DataType
  <2>3. Head(w) \in AnySema
    BY <2>1, <2>2, LockIsSema
  <2> QED
    BY <1>3, <1>10, <2>1, <2>3 DEF cond_signal
<1>11. CASE \E c \in Cond : CondSignal(t, c) \/ CondBroadcast(t, c)
  <2>1. PICK c \in Cond : CondSignal(t, c) \/ CondBroadcast(t, c)
    BY <1>11
  <2>2. CASE cond_signal(t, c)
    BY <1>10, <2>2
  <2>3. CASE CondBroadcast(t, c) /\ ~ cond_signal(t, c)
    BY <1>4, <2>3 DEF CondBroadcast, lockFrame, schedVars, Goto, Falling, ResetLabel
  <2> QED
    BY <2>1, <2>2, <2>3 DEF CondSignal
<1>12. CASE Sleep(t)
  BY <1>5, <1>12 DEF Sleep, thread_block
<1>13. CASE Yield(t)
  <2>1. FrontKeeps
    BY <1>1, <1>13, QueuedBefore, YieldFront DEF Yield
  <2> QED
    BY <1>2, <1>13, <2>1 DEF Yield
<1>14. CASE Exit(t)
  <2>1. t # idle
    BY <1>1, <1>14 DEF Exit, Core, PcInv
  <2>2. CASE \E why : Panic(why)
    BY <1>0, <2>2 DEF Panic, FrontInv, FrontLow, schedVars, callVars, localVars
  <2>3. CASE Schedule(ready_list, [status EXCEPT ![t] = "DYING"]) /\ UNCHANGED <<in_timer, priVars>>
    BY <1>5, <1>14, <2>1, <2>3 DEF Exit
  <2> QED
    BY <1>14, <2>2, <2>3 DEF Exit
<1> QED
  BY <1>6, <1>7, <1>8, <1>9, <1>11, <1>12, <1>13, <1>14

\* Interrupts, and the idle thread.
LEMMA FrontInterrupts ==
  ASSUME IInv, FrontInv, IdleBlock \/ Interrupt
  PROVE  FrontInv'
<1> USE DEF priVars
<1>1. Core /\ DataType /\ TypeOK /\ QueueInv
  BY CoreParts, TypeParts DEF Core
<1>2. CASE IdleBlock
  <2>1. FrontKeeps
    BY <1>1, <1>2, BlockFront, PriThreadAssumption DEF IdleBlock, thread_block, Running
  <2> QED
    BY <1>2, <2>1, FrontSettled DEF IdleBlock, Running
<1>3. CASE TimerInterrupt
  <2>1. thread_ticks \in Nat
    BY <1>1 DEF TypeOK
  <2>2. thread_ticks + 1 # 0
    BY <2>1
  <2> QED
    BY <1>3, <2>2 DEF TimerInterrupt, FrontInv
<1>4. CASE \E t \in sleepers : Awake(t)
  BY <1>4 DEF Awake, FrontInv
<1>5. CASE IntrReturn
  <2>1. CASE thread_yield(current, ready_list, status)
    <3>1. FrontKeeps
      BY <1>1, <2>1, QueuedBefore, YieldFront
    <3> QED
      BY <1>5, <3>1, FrontSettled DEF IntrReturn
  <2>2. CASE UNCHANGED schedVars
    BY <1>5, <2>2 DEF IntrReturn, FrontInv, schedVars
  <2> QED
    BY <1>5, <2>1, <2>2 DEF IntrReturn
<1>6. CASE \E s \in DeviceSema : DeviceInterrupt(s)
  <2>1. PICK s \in DeviceSema : DeviceInterrupt(s)
    BY <1>6
  <2>2. s \in AnySema
    BY SyncAssumption, LockIsSema
  <2>3. FrontKeeps \/ panic' = "intr_context"
    BY <1>1, <2>1, <2>2, UpFront DEF DeviceInterrupt
  <2>4. None # "intr_context"
    BY PriThreadAssumption
  <2> QED
    BY <2>1, <2>3, <2>4, FrontSettled DEF DeviceInterrupt, InterruptsOn
<1> QED
  BY <1>2, <1>3, <1>4, <1>5, <1>6 DEF Interrupt

\* No step but thread_exit() makes a thread go.
LEMMA StaysThere ==
  ASSUME IInv, Next, \A t \in Thread : "exit" \notin Calls[t]
  PROVE  \A u \in Thread : pc[u] # "none" => pc'[u] # "none"
<1>1. /\ pc \in [Thread -> Label] /\ current \in Thread
      /\ ret \in [Thread -> {"run", "cw_down", "create_release", "create_unblock"}]
  BY CoreParts DEF Core, CoreType
<1>2. ASSUME NEW t \in Thread, NEW l, pc' = [pc EXCEPT ![t] = l], l # "none",
             NEW u \in Thread, pc[u] # "none"
      PROVE  pc'[u] # "none"
  BY <1>1, <1>2
<1>3. ASSUME UNCHANGED pc, NEW u \in Thread, pc[u] # "none" PROVE pc'[u] # "none"
  BY <1>3
<1> USE DEF Goto, lockFrame, Panic
<1>4. ASSUME NEW t \in Thread, InCall(t), NEW u \in Thread, pc[u] # "none" PROVE pc'[u] # "none"
  <2>1. CASE SemaDown(t) \/ CondDown(t)
    BY <1>2, <1>4, <2>1 DEF SemaDown, CondDown, sema_down, AfterDown
  <2>2. CASE SemaUp(t) \/ Own(t) \/ TryOwn(t)
    BY <1>1, <1>2, <1>4, <2>2 DEF SemaUp, Own, TryOwn, Return
  <2>3. CASE AcqTest(t) \/ AcqRead(t) \/ AcqInsert(t)
    BY <1>2, <1>3, <1>4, <2>3 DEF Lost, AcqTest, AcqRead, AcqInsert
  <2>4. CASE Donate(t) \/ DonateNext(t)
    BY <1>2, <1>3, <1>4, <2>4 DEF Donate, DonateNext, ReadHolder
  <2>5. CASE DonateWrite(t) \/ DonateChain(t)
    BY <1>2, <1>3, <1>4, <2>5 DEF DonateWrite, DonateChain
  <2>6. CASE RemoveLock(t) \/ Reset1(t) \/ Reset2(t) \/ Reset3(t) \/ Reset4(t)
    BY <1>2, <1>4, <2>6 DEF Lost, RemoveLock, Reset1, Reset2, Reset3, Reset4, AfterReset
  <2>7. CASE CondLock(t) \/ Steal(t) \/ CreateRelease(t) \/ CreateYield(t)
    BY <1>2, <1>4, <2>7 DEF CondLock, Steal, CreateRelease, CreateYield, lock_release
  <2>8. CASE CreateUnblock(t)
    <3>1. pc'[u] \in {pc[u], "create_yield", "run"}
      BY <1>1, <2>8 DEF CreateUnblock
    <3> QED
      BY <1>4, <3>1
  <2> QED
    BY <1>4, <2>1, <2>2, <2>3, <2>4, <2>5, <2>6, <2>7, <2>8 DEF InCall
<1>5. ASSUME NEW t \in Thread, Call(t), NEW u \in Thread, pc[u] # "none" PROVE pc'[u] # "none"
  <2>1. CASE \/ \E l \in Lock : LockAcquire(t, l) \/ LockRelease(t, l) \/ TryAcquire(t, l)
             \/ \E s \in Sema : SemaDownCall(t, s)
             \/ \E c \in Cond : CondWait(t, c)
             \/ \E p \in Priorities : SetPriority(t, p) \/ CreateInit(t, p)
    <3>1. \E l \in {"acq_test", "remove", "try_own", "down", "reset1"} : pc' = [pc EXCEPT ![t] = l]
      BY <2>1
         DEF LockAcquire, LockRelease, TryAcquire, SemaDownCall, CondWait, SetPriority,
             CreateInit, lock_release
    <3>2. PICK l \in {"acq_test", "remove", "try_own", "down", "reset1"} :
            pc' = [pc EXCEPT ![t] = l]
      BY <3>1
    <3>3. l # "none"
      OBVIOUS
    <3> QED
      BY <1>2, <1>5, <3>2, <3>3
  <2>2. CASE \/ \E s \in Sema : SemaUpCall(t, s)
             \/ \E c \in Cond : CondSignal(t, c)
             \/ Sleep(t) \/ Yield(t)
    BY <1>3, <1>5, <2>2 DEF SemaUpCall, CondSignal, Sleep, Yield
  <2>3. CASE \E c \in Cond : CondBroadcast(t, c)
    BY <1>2, <1>5, <2>3 DEF CondBroadcast
  <2> QED
    BY <1>5, <2>1, <2>2, <2>3 DEF Call
<1>6. CASE IdleBlock \/ Interrupt
  BY <1>3, <1>6 DEF IdleBlock, Interrupt, TimerInterrupt, Awake, IntrReturn, DeviceInterrupt
<1> QED
  BY <1>4, <1>5, <1>6 DEF Next

\* A lock's holder, and whom a thread is about to donate to, was there before or is the
\* running thread.
LEMMA PtrStep ==
  ASSUME IInv, PtrInv, Next, \A t \in Thread : "exit" \notin Calls[t]
  PROVE  PtrInv'
<1>1. /\ Core
      /\ holder \in [Lock -> Thread \union {None}] /\ lock_holder \in [Thread -> Thread \union {None}]
  BY CoreParts DEF Core, CoreType, DataType
<1>2. \A u \in Thread : pc[u] # "none" => pc'[u] # "none"
  BY StaysThere
<1>3. ASSUME \A l \in Lock : \/ holder'[l] \in {holder[l], None}
                             \/ holder'[l] \in Thread /\ pc[holder'[l]] # "none",
             \A t \in Thread : \/ lock_holder'[t] \in {lock_holder[t], None}
                               \/ \E l \in Lock : lock_holder'[t] = holder[l]
      PROVE  PtrInv'
  <2>1. ASSUME NEW l \in Lock, holder'[l] # None PROVE pc'[holder'[l]] # "none"
    BY <1>1, <1>2, <1>3, <2>1 DEF PtrInv
  <2>2. ASSUME NEW t \in Thread, lock_holder'[t] # None PROVE pc'[lock_holder'[t]] # "none"
    <3>1. lock_holder'[t] \in Thread /\ pc[lock_holder'[t]] # "none"
      BY <1>1, <1>3, <2>2 DEF PtrInv
    <3> QED
      BY <1>2, <3>1
  <2> QED
    BY <2>1, <2>2 DEF PtrInv
<1>4. CASE UNCHANGED <<holder, lock_holder>>
  BY <1>3, <1>4
<1> USE DEF lockFrame, Panic, callVars
<1>5. ASSUME NEW t \in Thread, InCall(t) PROVE PtrInv'
  <2>1. CASE \/ SemaDown(t) \/ CondDown(t) \/ SemaUp(t) \/ AcqTest(t) \/ AcqInsert(t)
             \/ DonateWrite(t) \/ RemoveLock(t) \/ Reset1(t) \/ Reset2(t) \/ Reset3(t)
             \/ Reset4(t) \/ CondLock(t) \/ Steal(t) \/ CreateUnblock(t) \/ CreateYield(t)
    BY <1>4, <2>1
       DEF Lost, SemaDown, CondDown, sema_down, SemaUp, AcqTest, AcqInsert, DonateWrite, RemoveLock,
           Reset1, Reset2, Reset3, Reset4, CondLock, Steal, CreateUnblock, CreateYield
  <2>2. CASE AcqRead(t)
    <3>1. op[t] \in Lock
      BY <1>1, <2>2 DEF AcqRead, At, Core, OpInv, Stands, AcquireLabel
    <3> QED
      BY <1>1, <1>3, <2>2, <3>1 DEF AcqRead
  <2>3. ASSUME NEW w \in Lock \union {None}, ReadHolder(t, w) PROVE PtrInv'
    BY <1>1, <1>3, <1>4, <2>3 DEF ReadHolder
  <2>4. CASE Donate(t)
    <3>1. waiting_lock[t] \in Lock \union {None}
      BY CoreParts DEF DataType
    <3> QED
      BY <2>3, <2>4, <3>1 DEF Donate
  <2>5. CASE DonateNext(t)
    <3>1. CASE Live(lock_holder[t]) /\ ReadHolder(t, waiting_lock[lock_holder[t]])
      <4>1. waiting_lock[lock_holder[t]] \in Lock \union {None}
        BY <1>1, <3>1, CoreParts DEF DataType, Live
      <4> QED
        BY <2>3, <3>1, <4>1
    <3> QED
      BY <1>4, <2>5, <3>1 DEF DonateNext
  <2>6. CASE DonateChain(t)
    BY <1>1, <1>3, <1>4, <2>6 DEF DonateChain
  <2>7. CASE Own(t) \/ TryOwn(t)
    <3>1. pc[t] # "none" /\ holder' = [holder EXCEPT ![op[t]] = t] /\ UNCHANGED lock_holder
      BY <2>7 DEF Own, TryOwn, At
    <3> QED
      BY <1>1, <1>3, <3>1
  <2>8. CASE CreateRelease(t)
    BY <1>1, <1>3, <2>8 DEF CreateRelease, lock_release
  <2> QED
    BY <1>5, <2>1, <2>2, <2>4, <2>5, <2>6, <2>7, <2>8 DEF InCall
<1>6. ASSUME NEW t \in Thread, Call(t) PROVE PtrInv'
  <2>1. CASE \/ \E l \in Lock : LockRelease(t, l)
             \/ \E c \in Cond : CondWait(t, c)
    BY <1>1, <1>3, <2>1 DEF LockRelease, CondWait, lock_release
  <2>2. CASE \/ \E l \in Lock : LockAcquire(t, l) \/ TryAcquire(t, l)
             \/ \E s \in Sema : SemaDownCall(t, s) \/ SemaUpCall(t, s)
             \/ \E c \in Cond : CondSignal(t, c) \/ CondBroadcast(t, c)
             \/ \E p \in Priorities : SetPriority(t, p) \/ CreateInit(t, p)
             \/ Sleep(t) \/ Yield(t) \/ Exit(t)
    BY <1>4, <2>2
       DEF LockAcquire, TryAcquire, SemaDownCall, SemaUpCall, CondSignal, CondBroadcast,
           cond_signal, SetPriority, CreateInit, Sleep, Yield, Exit
  <2> QED
    BY <1>6, <2>1, <2>2 DEF Call
<1>7. CASE IdleBlock \/ Interrupt
  BY <1>4, <1>7 DEF IdleBlock, Interrupt, TimerInterrupt, Awake, IntrReturn, DeviceInterrupt
<1> QED
  BY <1>5, <1>6, <1>7 DEF Next

\* The priority of a thread that is being made is nobody else's to change: it holds no
\* lock that somebody could donate for.
LEMMA KidStep ==
  ASSUME IInv, PtrInv, KidInv, Next
  PROVE  KidInv'
<1>1. /\ Core /\ DataType
      /\ child \in [Thread -> Thread \union {None}] /\ pc \in [Thread -> Label]
  BY CoreParts DEF Core, CoreType
<1>2. \A s \in Thread : child[s] # None =>
        /\ child[s] \in Thread /\ status[child[s]] = "BLOCKED" /\ pc[child[s]] = "none"
        /\ priority[child[s]] = arg[s]
  BY <1>1 DEF Core, ChildInv, KidInv
<1>3. CASE UNCHANGED <<priority, child, arg>>
  BY <1>3 DEF KidInv
<1>4. ASSUME NEW h \in Thread, pc[h] # "none", NEW p, priority' = [priority EXCEPT ![h] = p],
             UNCHANGED <<child, arg>>
      PROVE  KidInv'
  <2>1. \A s \in Thread : child[s] # None => priority'[child[s]] = priority[child[s]]
    BY <1>1, <1>2, <1>4 DEF DataType
  <2> QED
    BY <1>2, <1>4, <2>1 DEF KidInv
<1> USE DEF At, lockFrame, Panic, callVars, localVars, priVars
<1>5. ASSUME NEW t \in Thread, InCall(t) PROVE KidInv'
  <2>1. CASE \/ SemaDown(t) \/ CondDown(t) \/ SemaUp(t) \/ AcqTest(t) \/ AcqRead(t)
             \/ AcqInsert(t) \/ Own(t) \/ TryOwn(t) \/ RemoveLock(t) \/ Reset2(t)
             \/ CondLock(t) \/ Steal(t) \/ CreateRelease(t)
    BY <1>3, <2>1
       DEF Lost, SemaDown, CondDown, sema_down, SemaUp, AcqTest, AcqRead, AcqInsert, Own, TryOwn,
           RemoveLock, Reset2, CondLock, Steal, CreateRelease, lock_release
  <2>2. CASE Donate(t) \/ DonateChain(t) \/ DonateNext(t) \/ Reset3(t)
    BY <1>3, <2>2 DEF Lost, Donate, DonateChain, DonateNext, ReadHolder, Reset3
  <2>3. CASE DonateWrite(t)
    <3>1. CASE /\ Live(lock_holder[t]) /\ UNCHANGED <<child, arg>>
               /\ priority' = [priority EXCEPT ![lock_holder[t]] = priority[t]]
      <4>1. lock_holder[t] \in Thread /\ pc[lock_holder[t]] # "none"
        BY <1>1, <3>1 DEF Live, DataType, PtrInv
      <4> QED
        BY <1>4, <3>1, <4>1
    <3> QED
      BY <1>3, <2>3, <3>1 DEF DonateWrite
  <2>4. CASE Reset1(t) \/ Reset4(t)
    BY <1>4, <2>4 DEF Reset1, Reset4
  <2>5. CASE CreateUnblock(t)
    <3>1. child' = [child EXCEPT ![t] = None] /\ UNCHANGED <<priority, arg>>
      BY <2>5 DEF CreateUnblock
    <3> QED
      BY <1>1, <3>1 DEF KidInv
  <2>6. CASE CreateYield(t)
    <3>1. child[t] = None
      BY <1>1, <2>6, NoReturn DEF CreateYield, Core, ChildInv, CreateRet
    <3>2. arg' = [arg EXCEPT ![t] = 0] /\ UNCHANGED <<priority, child>>
      BY <2>6 DEF CreateYield
    <3> QED
      BY <1>1, <3>1, <3>2 DEF KidInv, DataType
  <2> QED
    BY <1>5, <2>1, <2>2, <2>3, <2>4, <2>5, <2>6 DEF InCall
<1>6. ASSUME NEW t \in Thread, Call(t) PROVE KidInv'
  <2>1. CASE \/ \E l \in Lock : LockAcquire(t, l) \/ LockRelease(t, l) \/ TryAcquire(t, l)
             \/ \E s \in Sema : SemaDownCall(t, s) \/ SemaUpCall(t, s)
             \/ \E c \in Cond : CondWait(t, c) \/ CondSignal(t, c) \/ CondBroadcast(t, c)
             \/ Sleep(t) \/ Yield(t) \/ Exit(t)
    BY <1>3, <2>1
       DEF LockAcquire, LockRelease, TryAcquire, SemaDownCall, SemaUpCall, CondWait, CondSignal,
           CondBroadcast, cond_signal, Sleep, Yield, Exit, lock_release
  <2>2. ASSUME NEW p \in Priorities, SetPriority(t, p) PROVE KidInv'
    BY <1>4, <2>2 DEF SetPriority
  <2>3. ASSUME NEW p \in Priorities, CreateInit(t, p) PROVE KidInv'
    <3>1. PICK c \in Thread :
            /\ status[c] = "FREE"
            /\ priority' = [priority EXCEPT ![c] = p]
            /\ child' = [child EXCEPT ![t] = c]
      BY <2>3 DEF CreateInit
    <3>2. arg' = [arg EXCEPT ![t] = p]
      BY <2>3 DEF CreateInit
    <3>3. child'[t] = c /\ arg'[t] = p /\ priority'[c] = p
      BY <1>1, <3>1, <3>2 DEF DataType
    <3>4. ASSUME NEW s \in Thread \ {t}, child'[s] # None PROVE priority'[child'[s]] = arg'[s]
      <4>1. child'[s] = child[s] /\ arg'[s] = arg[s]
        BY <1>1, <3>1, <3>2 DEF DataType
      <4>2. child[s] # c
        BY <1>2, <3>1, <3>4, <4>1
      <4>3. priority'[child[s]] = priority[child[s]]
        BY <1>1, <1>2, <3>1, <3>4, <4>1, <4>2 DEF DataType
      <4> QED
        BY <1>2, <3>4, <4>1, <4>3
    <3> QED
      BY <3>3, <3>4 DEF KidInv
  <2> QED
    BY <1>6, <2>1, <2>2, <2>3 DEF Call
<1>7. CASE IdleBlock \/ Interrupt
  BY <1>3, <1>7 DEF IdleBlock, Interrupt, TimerInterrupt, Awake, IntrReturn, DeviceInterrupt
<1> QED
  BY <1>5, <1>6, <1>7 DEF Next

LEMMA FrontStep ==
  ASSUME IInv, FrontInv, KidInv, Next
  PROVE  FrontInv'
<1>1. ASSUME NEW t \in Thread, InCall(t) PROVE FrontInv'
  BY <1>1, FrontMoves, FrontPriorities, FrontUnblock, FrontCreated, FrontSwitches DEF InCall
<1>2. ASSUME NEW t \in Thread, Call(t) PROVE FrontInv'
  BY <1>2, FrontMoves, FrontPriorities, FrontSwitches DEF Call
<1>3. CASE IdleBlock \/ Interrupt
  BY <1>3, FrontInterrupts
<1> QED
  BY <1>1, <1>2, <1>3 DEF Next

\* Without thread_create() there is no thread that is being made.
NoKid == \A t \in Thread : child[t] = None

LEMMA NoKidStep ==
  ASSUME IInv, NoKid, Next, \A t \in Thread : "create" \notin Calls[t]
  PROVE  NoKid'
<1>1. child \in [Thread -> Thread \union {None}]
  BY CoreParts DEF Core, CoreType
<1>2. CASE UNCHANGED child
  BY <1>2 DEF NoKid
<1>3. ASSUME NEW t \in Thread, child' = [child EXCEPT ![t] = None] PROVE NoKid'
  BY <1>1, <1>3 DEF NoKid
<1> USE DEF lockFrame, Panic, callVars, localVars
<1>4. ASSUME NEW t \in Thread, InCall(t) PROVE NoKid'
  <2>1. CASE \/ SemaDown(t) \/ CondDown(t) \/ SemaUp(t) \/ AcqTest(t) \/ AcqRead(t)
             \/ AcqInsert(t) \/ Own(t) \/ TryOwn(t) \/ RemoveLock(t) \/ CondLock(t)
             \/ Steal(t) \/ CreateRelease(t) \/ CreateYield(t)
    BY <1>2, <2>1
       DEF Lost, SemaDown, CondDown, sema_down, SemaUp, AcqTest, AcqRead, AcqInsert, Own, TryOwn,
           RemoveLock, CondLock, Steal, CreateRelease, CreateYield, lock_release
  <2>2. CASE Donate(t) \/ DonateWrite(t) \/ DonateChain(t) \/ DonateNext(t)
    BY <1>2, <2>2 DEF Donate, DonateWrite, DonateChain, DonateNext, ReadHolder
  <2>3. CASE Reset1(t) \/ Reset2(t) \/ Reset3(t) \/ Reset4(t)
    BY <1>2, <2>3 DEF Lost, Reset1, Reset2, Reset3, Reset4
  <2>4. CASE CreateUnblock(t)
    BY <1>3, <2>4 DEF CreateUnblock
  <2> QED
    BY <1>4, <2>1, <2>2, <2>3, <2>4 DEF InCall
<1>5. ASSUME NEW t \in Thread, Call(t) PROVE NoKid'
  <2>1. CASE \/ \E l \in Lock : LockAcquire(t, l) \/ LockRelease(t, l) \/ TryAcquire(t, l)
             \/ \E q \in Sema : SemaDownCall(t, q) \/ SemaUpCall(t, q)
             \/ \E c \in Cond : CondWait(t, c) \/ CondSignal(t, c) \/ CondBroadcast(t, c)
             \/ \E p \in Priorities : SetPriority(t, p)
             \/ Sleep(t) \/ Yield(t) \/ Exit(t)
    BY <1>2, <2>1
       DEF LockAcquire, LockRelease, TryAcquire, SemaDownCall, SemaUpCall, CondWait, CondSignal,
           CondBroadcast, cond_signal, SetPriority, Sleep, Yield, Exit, lock_release
  <2> QED
    BY <1>5, <2>1 DEF Call
<1>6. CASE IdleBlock \/ Interrupt
  BY <1>2, <1>6 DEF IdleBlock, Interrupt, TimerInterrupt, Awake, IntrReturn, DeviceInterrupt
<1> QED
  BY <1>4, <1>5, <1>6 DEF Next

\* A step that changes nothing changes none of the above.
LEMMA FrontSame ==
  ASSUME UNCHANGED vars
  PROVE  /\ FrontInv => FrontInv'
         /\ PtrInv => PtrInv'
         /\ KidInv => KidInv'
         /\ NoKid => NoKid'
<1>1. UNCHANGED <<current, ready_list, thread_ticks, in_timer, priority, holder, pc,
                  lock_holder, child, arg, panic>>
  BY DEF vars, schedVars, priVars, callVars, localVars
<1> QED
  BY <1>1 DEF FrontInv, FrontLow, PtrInv, KidInv, NoKid

\* steal_running_by_priority(), lock_release() and thread_create(): while no tick has come
\* since it got the CPU, the front of the run queue does not outrank a running thread that
\* is not inside a call.  Where threads both exit and are created, a donor may hold the
\* address of a thread that has gone, and change the priority of one that is being made in
\* its page: so one of the two calls is left out here.
THEOREM FrontKept ==
  ASSUME \/ \A t \in Thread : "exit" \notin Calls[t]
         \/ \A t \in Thread : "create" \notin Calls[t]
  PROVE  Spec => []FrontRuns
<1>1. Init => FrontInv /\ PtrInv /\ KidInv /\ NoKid
  BY DEF Init, FrontInv, FrontLow, PtrInv, KidInv, NoKid
<1>2. FrontInv => FrontRuns
  BY DEF FrontInv, FrontRuns, Falling, ResetLabel
<1>3. CASE \A t \in Thread : "exit" \notin Calls[t]
  <2>1. IInv /\ FrontInv /\ PtrInv /\ KidInv /\ [Next]_vars => (FrontInv /\ PtrInv /\ KidInv)'
    BY <1>3, FrontStep, PtrStep, KidStep, FrontSame
  <2> QED
    BY <1>1, <1>2, <2>1, Invariance, PTL DEF Spec
<1>4. CASE \A t \in Thread : "create" \notin Calls[t]
  <2>1. NoKid => KidInv
    BY DEF NoKid, KidInv
  <2>2. IInv /\ FrontInv /\ NoKid /\ [Next]_vars => (FrontInv /\ NoKid)'
    BY <1>4, <2>1, FrontStep, NoKidStep, FrontSame
  <2> QED
    BY <1>1, <1>2, <2>2, Invariance, PTL DEF Spec
<1> QED
  BY <1>3, <1>4
=============================================================================
