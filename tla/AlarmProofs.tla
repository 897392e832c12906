----------------------------- MODULE AlarmProofs -----------------------------
(***************************************************************************)
(* For every set of pages, every time slice and every bound: the lists of  *)
(* the project1 kernel are sound, no thread is lost, the scheduler always  *)
(* finds somebody to run and takes the threads in turn, and no two threads *)
(* get the same tid.                                                       *)
(***************************************************************************)
EXTENDS Alarm, ListLemmas, TLAPS

USE ThreadAssumption DEF Status

-----------------------------------------------------------------------------
(***************************************************************************)
(* The two operators that every scheduling action goes through.            *)
(***************************************************************************)

\* What schedule() needs when it is called with run queue rl and statuses st.
MaySchedule(rl, st) ==
  /\ rl \in Seq(Thread)
  /\ st \in [Thread -> Status]
  /\ IsInjective(rl)
  /\ idle_thread \in {None, idle}
  /\ \A t \in Thread : t \in ToSet(rl) <=> st[t] = "READY" /\ t # idle_thread
  /\ \A t \in Thread : st[t] # "RUNNING"
  /\ rl = <<>> => idle_thread = idle /\ st[idle] \in {"READY", "BLOCKED"}
  /\ st[main] # "FREE"

\* schedule() leaves one running thread and a run queue of the ready ones.
LEMMA ScheduleLemma ==
  ASSUME NEW rl, NEW st, MaySchedule(rl, st), Schedule(rl, st)
  PROVE  /\ current' \in Thread
         /\ ready_list' \in Seq(Thread)
         /\ IsInjective(ready_list')
         /\ status' \in [Thread -> Status]
         /\ thread_ticks' = 0
         /\ status'[current'] = "RUNNING"
         /\ st[current'] = "READY" \/ current' = idle_thread
         /\ \A t \in Thread \ {current'} :
              status'[t] = IF st[t] = "DYING" /\ t # main THEN "FREE" ELSE st[t]
         /\ \A t \in Thread :
              t \in ToSet(ready_list') <=> status'[t] = "READY" /\ t # idle_thread
<1> DEFINE next == next_thread_to_run(rl)
<1>1. /\ next \in Thread
      /\ st[next] = "READY" \/ next = idle_thread
      /\ st[next] # "DYING"
      /\ ready_list' \in Seq(Thread)
      /\ IsInjective(ready_list')
      /\ ToSet(ready_list') = ToSet(rl) \ {next}
  <2>1. CASE rl = <<>>
    <3>1. next = idle /\ ready_list' = rl /\ idle_thread = idle
      BY <2>1 DEF MaySchedule, Schedule, next_thread_to_run
    <3>2. next \notin ToSet(rl)
      BY <3>1 DEF MaySchedule
    <3>3. ToSet(rl) = ToSet(rl) \ {next}
      BY <3>2
    <3>4. st[idle] \in {"READY", "BLOCKED"} /\ rl \in Seq(Thread) /\ IsInjective(rl)
      BY <2>1 DEF MaySchedule
    <3> QED
      BY <3>1, <3>3, <3>4
  <2>2. CASE rl # <<>>
    <3>1. next = Head(rl) /\ ready_list' = Tail(rl)
      BY <2>2 DEF Schedule, next_thread_to_run
    <3>2. /\ Head(rl) \in Thread /\ Head(rl) \in ToSet(rl)
          /\ Tail(rl) \in Seq(Thread) /\ IsInjective(Tail(rl))
          /\ ToSet(Tail(rl)) = ToSet(rl) \ {Head(rl)}
      BY <2>2, PopElems DEF MaySchedule
    <3>3. st[Head(rl)] = "READY"
      BY <3>2 DEF MaySchedule
    <3> QED
      BY <3>1, <3>2, <3>3
  <2> QED
    BY <2>1, <2>2
<1>2. /\ current' = next /\ thread_ticks' = 0
      /\ status' = [Reaped(st) EXCEPT ![next] = "RUNNING"]
  BY DEF Schedule
<1> HIDE DEF next
<1>3. /\ status' \in [Thread -> Status]
      /\ status'[next] = "RUNNING"
      /\ \A t \in Thread \ {next} :
           status'[t] = IF st[t] = "DYING" /\ t # main THEN "FREE" ELSE st[t]
  BY <1>1, <1>2 DEF Reaped, MaySchedule
<1>4. ASSUME NEW t \in Thread
      PROVE  t \in ToSet(ready_list') <=> status'[t] = "READY" /\ t # idle_thread
  <2>1. CASE t = next
    BY <1>1, <1>3, <2>1
  <2>2. CASE t # next
    <3>1. status'[t] = "READY" <=> st[t] = "READY"
      BY <1>3, <2>2
    <3>2. t \in ToSet(rl) <=> st[t] = "READY" /\ t # idle_thread
      BY DEF MaySchedule
    <3> QED
      BY <1>1, <2>2, <3>1, <3>2
  <2> QED
    BY <2>1, <2>2
<1> QED
  BY <1>1, <1>2, <1>3, <1>4

\* thread_unblock() moves one blocked thread to the run queue.
LEMMA UnblockLemma ==
  ASSUME IInv, NEW u \in Thread, u # idle, thread_unblock(u), status[u] # "READY"
  PROVE  /\ ready_list' \in Seq(Thread)
         /\ IsInjective(ready_list')
         /\ ToSet(ready_list') = ToSet(ready_list) \union {u}
         /\ status' \in [Thread -> Status]
         /\ status'[u] = "READY"
         /\ \A t \in Thread \ {u} : status'[t] = status[t]
         /\ current' = current
         /\ thread_ticks' = thread_ticks
<1>1. ready_list \in Seq(Thread) /\ IsInjective(ready_list) /\ u \notin ToSet(ready_list)
  BY DEF IInv, TypeOK, ListInv
<1>2. /\ Append(ready_list, u) \in Seq(Thread)
      /\ ToSet(Append(ready_list, u)) = ToSet(ready_list) \union {u}
      /\ IsInjective(Append(ready_list, u))
  BY <1>1, AppendElems, PushKeepsSingle
<1>3. status \in [Thread -> Status]
  BY DEF IInv, TypeOK
<1> QED
  BY <1>2, <1>3 DEF thread_unblock

-----------------------------------------------------------------------------
(***************************************************************************)
(* A switch away from the running thread t, whose status becomes x.        *)
(***************************************************************************)

Switched(t, x) ==
  /\ RunInv'
  /\ status' \in [Thread -> Status]
  /\ thread_ticks' = 0
  /\ ready_list' \in Seq(Thread)
  /\ IsInjective(ready_list')
  /\ \A u \in Thread :
       u \in ToSet(ready_list') <=> status'[u] = "READY" /\ u # idle_thread
  /\ \A u \in Thread \ {t} :
       /\ status[u] = "FREE" <=> status'[u] = "FREE"
       /\ status[u] = "DYING" => status'[u] = "DYING"
       /\ status[u] = "READY" => status'[u] \in {"READY", "RUNNING"}
       /\ status[u] = "BLOCKED" /\ u # idle_thread => status'[u] = "BLOCKED"
       /\ status[u] = "BLOCKED" => status'[u] \in {"BLOCKED", "RUNNING"}
       /\ status'[u] = "BLOCKED" => status[u] = "BLOCKED"
  /\ x = "READY" => status'[t] \in {"READY", "RUNNING"}
  /\ x = "BLOCKED" => status'[t] \in {"BLOCKED", "RUNNING"}
  /\ x = "BLOCKED" /\ t # idle_thread => status'[t] = "BLOCKED"
  /\ x = "DYING" => status'[t] = IF t = main THEN "DYING" ELSE "FREE"

LEMMA SwitchLemma ==
  ASSUME IInv, NEW t \in Thread, current = t, NEW x \in {"READY", "BLOCKED", "DYING"},
         x = "DYING" => t # idle,
         NEW rl, MaySchedule(rl, [status EXCEPT ![t] = x]),
         Schedule(rl, [status EXCEPT ![t] = x])
  PROVE  Switched(t, x)
<1> DEFINE st == [status EXCEPT ![t] = x]
<1>1. /\ status \in [Thread -> Status] /\ idle_thread \in {None, idle} /\ status[t] = "RUNNING"
      /\ \A u \in Thread : status[u] = "RUNNING" => u = t
      /\ \A u \in Thread : status[u] = "DYING" => u = main
      /\ status[main] # "FREE"
  BY DEF IInv, TypeOK, RunInv
<1>2. st \in [Thread -> Status] /\ st[t] = x /\ \A u \in Thread \ {t} : st[u] = status[u]
  BY <1>1
<1>3. /\ current' \in Thread
      /\ ready_list' \in Seq(Thread)
      /\ IsInjective(ready_list')
      /\ status' \in [Thread -> Status]
      /\ thread_ticks' = 0
      /\ status'[current'] = "RUNNING"
      /\ st[current'] = "READY" \/ current' = idle_thread
      /\ \A u \in Thread \ {current'} :
           status'[u] = IF st[u] = "DYING" /\ u # main THEN "FREE" ELSE st[u]
      /\ \A u \in Thread :
           u \in ToSet(ready_list') <=> status'[u] = "READY" /\ u # idle_thread
  BY ScheduleLemma
<1>4. st[current'] \in {"READY", "BLOCKED"}
  <2>1. CASE st[current'] = "READY"
    BY <2>1
  <2>2. CASE current' = idle_thread
    <3>1. current' = idle /\ idle_thread = idle
      BY <1>1, <1>3, <2>2
    <3>2. pc[main] # "boot"
      BY <3>1 DEF IInv, BootInv
    <3>3. status[idle] \notin {"FREE", "DYING"}
      BY <3>2 DEF IInv, BootInv
    <3> QED
      BY <1>1, <1>2, <3>1, <3>3
  <2> QED
    BY <1>3, <2>1, <2>2
<1> HIDE DEF st
<1>5. RunInv'
  <2>1. \A u \in Thread : status'[u] = "RUNNING" <=> u = current'
    BY <1>1, <1>2, <1>3
  <2>2. \A u \in Thread : status'[u] = "DYING" => u = main
    BY <1>3
  <2>3. status'[main] # "FREE"
    BY <1>1, <1>2, <1>3
  <2> QED
    BY <1>3, <2>1, <2>2, <2>3 DEF RunInv
<1>6. ASSUME NEW u \in Thread \ {t}
      PROVE  /\ status[u] = "FREE" <=> status'[u] = "FREE"
             /\ status[u] = "DYING" => status'[u] = "DYING"
             /\ status[u] = "READY" => status'[u] \in {"READY", "RUNNING"}
             /\ status[u] = "BLOCKED" /\ u # idle_thread => status'[u] = "BLOCKED"
             /\ status[u] = "BLOCKED" => status'[u] \in {"BLOCKED", "RUNNING"}
             /\ status'[u] = "BLOCKED" => status[u] = "BLOCKED"
  BY <1>1, <1>2, <1>3, <1>4
<1>7. /\ x = "READY" => status'[t] \in {"READY", "RUNNING"}
      /\ x = "BLOCKED" => status'[t] \in {"BLOCKED", "RUNNING"}
      /\ x = "BLOCKED" /\ t # idle_thread => status'[t] = "BLOCKED"
      /\ x = "DYING" => status'[t] = IF t = main THEN "DYING" ELSE "FREE"
  BY <1>2, <1>3, <1>4
<1> QED
  BY <1>3, <1>5, <1>6, <1>7 DEF Switched

\* With the run queue empty, the idle thread stands by.
LEMMA IdleStandsBy ==
  ASSUME IInv, NEW t \in Thread, current = t, pc[t] \notin {"boot", "idle_start"},
         ready_list = <<>>
  PROVE  idle_thread = idle /\ (t # idle => status[idle] \in {"READY", "BLOCKED"})
<1>1. pc[main] # "boot"
  BY DEF IInv, BootInv
<1>2. status[idle] \notin {"FREE", "DYING"} /\ status \in [Thread -> Status]
  BY <1>1 DEF IInv, BootInv, TypeOK
<1>3. ToSet(ready_list) = {}
  BY DEF ToSet
<1>4. idle_thread # None
  <2> SUFFICES ASSUME idle_thread = None PROVE FALSE
    OBVIOUS
  <2>1. pc[idle] = "idle_start" /\ status[idle] \in {"READY", "RUNNING"}
    BY <1>1 DEF IInv, BootInv
  <2>2. status[idle] # "READY"
    BY <1>3 DEF IInv, ListInv
  <2> QED
    BY <2>1, <2>2 DEF IInv, RunInv
<1>5. t # idle => status[idle] # "RUNNING"
  BY DEF IInv, RunInv
<1> QED
  BY <1>2, <1>4, <1>5 DEF IInv, TypeOK

\* thread_block() and the end of thread_exit().
LEMMA BlockLemma ==
  ASSUME IInv, NEW t \in Thread, current = t, NEW x \in {"BLOCKED", "DYING"},
         x = "DYING" => t # idle,
         pc[t] \notin {"boot", "idle_start"},
         Schedule(ready_list, [status EXCEPT ![t] = x])
  PROVE  Switched(t, x)
<1> DEFINE st == [status EXCEPT ![t] = x]
<1>1. status \in [Thread -> Status] /\ status[t] = "RUNNING"
  BY DEF IInv, TypeOK, RunInv
<1>2. st \in [Thread -> Status] /\ st[t] = x /\ \A u \in Thread \ {t} : st[u] = status[u]
  BY <1>1
<1>3. MaySchedule(ready_list, st)
  <2> HIDE DEF st
  <2>1. /\ ready_list \in Seq(Thread) /\ IsInjective(ready_list)
        /\ idle_thread \in {None, idle}
    BY DEF IInv, TypeOK, ListInv
  <2>2. \A u \in Thread : u \in ToSet(ready_list) <=> st[u] = "READY" /\ u # idle_thread
    BY <1>1, <1>2 DEF IInv, ListInv
  <2>3. (\A u \in Thread : st[u] # "RUNNING") /\ st[main] # "FREE"
    BY <1>2 DEF IInv, RunInv
  <2>4. ready_list = <<>> => idle_thread = idle /\ st[idle] \in {"READY", "BLOCKED"}
    BY <1>2, IdleStandsBy
  <2> QED
    BY <1>2, <2>1, <2>2, <2>3, <2>4 DEF MaySchedule
<1> QED
  BY <1>3, SwitchLemma

\* thread_yield(), by the thread itself or on return from an interrupt.
LEMMA YieldLemma ==
  ASSUME IInv, NEW t \in Thread, current = t, pc[t] # "boot", thread_yield(t)
  PROVE  Switched(t, "READY")
<1> DEFINE st == [status EXCEPT ![t] = "READY"]
           rl == IF t # idle_thread THEN Append(ready_list, t) ELSE ready_list
<1>1. /\ status \in [Thread -> Status] /\ status[t] = "RUNNING"
      /\ ready_list \in Seq(Thread) /\ IsInjective(ready_list)
      /\ idle_thread \in {None, idle}
  BY DEF IInv, TypeOK, RunInv, ListInv
<1>2. st \in [Thread -> Status] /\ st[t] = "READY" /\ \A u \in Thread \ {t} : st[u] = status[u]
  BY <1>1
<1>3. t \notin ToSet(ready_list)
  BY <1>1 DEF IInv, ListInv
<1>4. /\ Append(ready_list, t) \in Seq(Thread) /\ IsInjective(Append(ready_list, t))
      /\ Append(ready_list, t) # <<>>
      /\ ToSet(Append(ready_list, t)) = ToSet(ready_list) \union {t}
  BY <1>1, <1>3, AppendElems, PushKeepsSingle
<1>5. rl \in Seq(Thread) /\ IsInjective(rl)
  BY <1>1, <1>4
<1>6. \A u \in Thread : u \in ToSet(rl) <=> st[u] = "READY" /\ u # idle_thread
  <2>1. \A u \in Thread :
          u \in ToSet(ready_list) <=> status[u] = "READY" /\ u # idle_thread
    BY DEF IInv, ListInv
  <2>2. CASE t # idle_thread
    BY <1>2, <1>4, <2>1, <2>2
  <2>3. CASE t = idle_thread
    BY <1>2, <2>1, <2>3
  <2> QED
    BY <2>2, <2>3
<1>7. rl = <<>> => idle_thread = idle /\ st[idle] \in {"READY", "BLOCKED"}
  <2>1. rl = <<>> => t = idle_thread
    BY <1>4
  <2> QED
    BY <1>1, <1>2, <2>1
<1>8. (\A u \in Thread : st[u] # "RUNNING") /\ st[main] # "FREE"
  BY <1>2 DEF IInv, RunInv
<1>9. Schedule(rl, st)
  BY DEF thread_yield
<1> HIDE DEF rl, st
<1>10. MaySchedule(rl, st)
  BY <1>1, <1>2, <1>5, <1>6, <1>7, <1>8 DEF MaySchedule
<1> QED
  BY <1>9, <1>10, SwitchLemma DEF st

-----------------------------------------------------------------------------
(***************************************************************************)
(* IInv is preserved, action by action.                                    *)
(***************************************************************************)

LEMMA InitIInv == Init => IInv
<1> SUFFICES ASSUME Init PROVE IInv
  OBVIOUS
<1> USE DEF Init
<1>1. TypeOK
  <2>1. /\ status \in [Thread -> Status] /\ pc \in [Thread -> Label]
        /\ sleeping_ticks \in [Thread -> Int] /\ deadline \in [Thread -> Int]
        /\ tid \in [Thread -> Nat] /\ new_tid \in [Thread -> Nat]
        /\ child \in [Thread -> Thread \union {None}]
    BY DEF Label, IntrOff
  <2>2. ready_list \in Seq(Thread) /\ sleeping_list \in Seq(Thread)
    OBVIOUS
  <2>3. value \in [Sema -> Nat] /\ waiters \in [Sema -> Seq(Thread)]
    BY DEF Sema
  <2> QED
    BY <2>1, <2>2, <2>3 DEF TypeOK
<1>2. PcInv /\ RunInv /\ BootInv /\ ChildInv
  BY DEF PcInv, RunInv, BootInv, ChildInv, IdleLabel, BootLabel, CreateLabel
<1>3. ToSet(<<>>) = {} /\ IsInjective(<<>>)
  BY DEF ToSet, IsInjective
<1>4. ListInv /\ BlockedInv
  BY <1>3 DEF ListInv, BlockedInv
<1> QED
  BY <1>1, <1>2, <1>4 DEF IInv

\* A thread on a wait list, or in the making, is not on the CPU, and it is not
\* the idle thread: no switch changes its status.
LEMMA OffCpu ==
  ASSUME IInv
  PROVE  /\ \A u \in Thread : Waits(u) =>
              u # current /\ u # idle /\ u # idle_thread /\ status[u] = "BLOCKED"
         /\ \A p \in Thread : child[p] # None =>
              /\ child[p] \in Thread /\ child[p] # current /\ child[p] # idle_thread
              /\ ~ Waits(child[p])
<1>1. ASSUME NEW u \in Thread, Waits(u)
      PROVE  /\ status[u] = "BLOCKED" /\ u # idle
             /\ pc[u] \in {"run", "boot_recheck", "tid_recheck"}
  <2>1. status[u] = "BLOCKED" /\ pc[u] \in {"run", "boot_recheck", "tid_recheck"}
    BY <1>1 DEF IInv, ListInv, Waits, WaitLabel, Sema
  <2> QED
    BY <2>1 DEF IInv, PcInv, IdleLabel
<1>2. idle_thread \in {None, idle} /\ child \in [Thread -> Thread \union {None}]
  BY DEF IInv, TypeOK
<1>3. status[current] = "RUNNING"
  BY DEF IInv, RunInv
<1>4. ASSUME NEW p \in Thread, child[p] # None
      PROVE  /\ child[p] \in Thread /\ child[p] # current /\ child[p] # idle_thread
             /\ ~ Waits(child[p])
  <2>1. child[p] # idle /\ status[child[p]] = "BLOCKED" /\ pc[child[p]] = "none"
    BY <1>4 DEF IInv, ChildInv
  <2> QED
    BY <1>1, <1>2, <1>3, <1>4, <2>1
<1> QED
  BY <1>1, <1>2, <1>3, <1>4

\* A step in which the running thread t gives up the CPU with status x and is
\* resumed at label l, possibly joining one wait list, preserves the invariant.
LEMMA SwitchFrame ==
  ASSUME IInv, NEW t \in Thread, current = t, pc[t] # "boot",
         NEW x \in {"READY", "BLOCKED", "DYING"}, Switched(t, x),
         NEW l \in Label, pc' = [pc EXCEPT ![t] = l],
         child' = child, idle_thread' = idle_thread,
         IsInjective(sleeping_list'), \A s \in Sema : IsInjective(waiters'[s]),
         \A u \in Thread \ {t} :
           /\ u \in ToSet(sleeping_list') <=> u \in ToSet(sleeping_list)
           /\ \A s \in Sema : u \in ToSet(waiters'[s]) <=> u \in ToSet(waiters[s]),
         t \in ToSet(sleeping_list') => x = "BLOCKED" /\ l = "run",
         \A s \in Sema :
           t \in ToSet(waiters'[s]) => x = "BLOCKED" /\ l = WaitLabel[s],
         x = "BLOCKED" /\ t # idle =>
           t \in ToSet(sleeping_list') \/ \E s \in Sema : t \in ToSet(waiters'[s]),
         t = idle => l \in IdleLabel,
         t = idle /\ idle_thread = None => x = "READY" /\ l = "idle_start",
         t # idle => l \notin IdleLabel,
         t # main => l \notin BootLabel,
         l # "boot",
         l \in CreateLabel <=> pc[t] \in CreateLabel,
         x = "DYING" => t # idle /\ l = "none"
  PROVE  PcInv' /\ RunInv' /\ BootInv' /\ ListInv' /\ BlockedInv' /\ ChildInv'
<1>1. /\ status[t] = "RUNNING" /\ pc \in [Thread -> Label] /\ status \in [Thread -> Status]
      /\ idle_thread \in {None, idle}
      /\ pc'[t] = l /\ \A u \in Thread \ {t} : pc'[u] = pc[u]
  BY DEF IInv, TypeOK, RunInv
<1>2. t \in ToSet(sleeping_list') \/ (\E s \in Sema : t \in ToSet(waiters'[s])) =>
        status'[t] = "BLOCKED"
  <2>1. "run" \notin IdleLabel /\ \A s \in Sema : WaitLabel[s] \notin IdleLabel
    BY DEF IdleLabel, WaitLabel, Sema
  <2> QED
    BY <1>1, <2>1 DEF Switched
<1>3. PcInv'
  BY <1>1 DEF IInv, PcInv, Switched, IdleLabel, BootLabel
<1>4. RunInv'
  BY DEF Switched
<1>5. BootInv'
  <2>1. pc[main] # "boot" /\ pc'[main] # "boot"
    BY <1>1 DEF IInv, BootInv
  <2>2. pc'[idle] # "none" /\ status'[idle] \notin {"FREE", "DYING"}
    BY <1>1, <1>4, <2>1 DEF IInv, BootInv, Switched, RunInv, IdleLabel
  <2>3. ASSUME idle_thread = None
        PROVE  pc'[idle] = "idle_start" /\ status'[idle] \in {"READY", "RUNNING"}
    <3>1. pc[idle] = "idle_start" /\ status[idle] \in {"READY", "RUNNING"}
      BY <2>1, <2>3 DEF IInv, BootInv
    <3>2. CASE t = idle
      BY <1>1, <2>3, <3>2 DEF Switched
    <3>3. CASE t # idle
      <4>1. status[idle] = "READY"
        BY <1>1, <3>1, <3>3 DEF IInv, RunInv
      <4> QED
        BY <1>1, <3>1, <3>3, <4>1 DEF Switched
    <3> QED
      BY <3>2, <3>3
  <2> QED
    BY <2>1, <2>2, <2>3 DEF BootInv
<1>6. ListInv'
  <2>1. ASSUME NEW u \in Thread, u \in ToSet(sleeping_list')
        PROVE  status'[u] = "BLOCKED" /\ pc'[u] = "run"
    <3>1. CASE u = t
      BY <1>1, <1>2, <2>1, <3>1
    <3>2. CASE u # t
      BY <1>1, <2>1, <3>2, OffCpu DEF IInv, ListInv, Switched, Waits
    <3> QED
      BY <3>1, <3>2
  <2>2. ASSUME NEW u \in Thread, NEW s \in Sema, u \in ToSet(waiters'[s])
        PROVE  status'[u] = "BLOCKED" /\ pc'[u] = WaitLabel[s]
    <3>1. CASE u = t
      BY <1>1, <1>2, <2>2, <3>1
    <3>2. CASE u # t
      BY <1>1, <2>2, <3>2, OffCpu DEF IInv, ListInv, Switched, Waits
    <3> QED
      BY <3>1, <3>2
  <2> QED
    BY <2>1, <2>2 DEF ListInv, Switched
<1>7. BlockedInv'
  <2> SUFFICES ASSUME NEW u \in Thread \ {idle_thread}, status'[u] = "BLOCKED"
               PROVE  Waits(u)' \/ Embryo(u)'
    BY DEF BlockedInv
  <2>1. CASE u = t
    <3>1. x = "BLOCKED"
      BY <2>1 DEF Switched
    <3>2. t # idle
      BY <1>1, <2>1, <3>1
    <3> QED
      BY <2>1, <3>1, <3>2 DEF Waits
  <2>2. CASE u # t
    <3>1. status[u] = "BLOCKED"
      BY <2>2 DEF Switched
    <3>2. Waits(u) \/ Embryo(u)
      BY <3>1 DEF IInv, BlockedInv
    <3> QED
      BY <2>2, <3>2 DEF Waits, Embryo
  <2> QED
    BY <2>1, <2>2
<1>8. ChildInv'
  <2>1. ASSUME NEW p \in Thread
        PROVE  child[p] # None <=> pc'[p] \in CreateLabel
    BY <1>1 DEF IInv, ChildInv
  <2>2. ASSUME NEW p \in Thread, child[p] # None
        PROVE  status'[child[p]] = "BLOCKED" /\ pc'[child[p]] = "none"
    BY <1>1, <2>2, OffCpu DEF IInv, ChildInv, Switched
  <2> QED
    BY <2>1, <2>2 DEF IInv, ChildInv
<1> QED
  BY <1>3, <1>4, <1>5, <1>6, <1>7, <1>8

LEMMA SleepBlockInv ==
  ASSUME IInv, NEW t \in Thread, SleepBlock(t)
  PROVE  IInv'
<1>1. /\ current = t /\ pc[t] = "sleep" /\ t # idle /\ pc' = [pc EXCEPT ![t] = "run"]
      /\ sleeping_list' = Append(sleeping_list, t)
      /\ sleeping_ticks' = [sleeping_ticks EXCEPT ![t] = deadline[t]]
      /\ UNCHANGED <<intrVars, deadline, semaVars, tidVars, idle_thread>>
  BY DEF SleepBlock, Running, Goto, IInv, PcInv, IdleLabel
<1>2. Switched(t, "BLOCKED")
  BY <1>1, BlockLemma DEF SleepBlock, thread_block
<1>3. /\ status[t] = "RUNNING" /\ pc \in [Thread -> Label]
      /\ sleeping_list \in Seq(Thread) /\ IsInjective(sleeping_list)
      /\ t \notin ToSet(sleeping_list)
      /\ \A s \in Sema : t \notin ToSet(waiters[s]) /\ IsInjective(waiters[s])
  BY <1>1 DEF IInv, TypeOK, RunInv, ListInv
<1>4. /\ sleeping_list' \in Seq(Thread) /\ IsInjective(sleeping_list')
      /\ ToSet(sleeping_list') = ToSet(sleeping_list) \union {t}
  BY <1>1, <1>3, AppendElems, PushKeepsSingle
<1>5. TypeOK'
  BY <1>1, <1>2, <1>4 DEF IInv, TypeOK, Switched, RunInv, Label, intrVars, semaVars, tidVars
<1>6. PcInv' /\ RunInv' /\ BootInv' /\ ListInv' /\ BlockedInv' /\ ChildInv'
  <2>1. /\ "run" \in Label /\ "run" \notin IdleLabel /\ "run" \notin BootLabel
        /\ ~ ("run" \in CreateLabel) /\ ~ (pc[t] \in CreateLabel)
    BY <1>1 DEF Label, IdleLabel, BootLabel, CreateLabel
  <2> QED
    BY <1>1, <1>2, <1>3, <1>4, <2>1, SwitchFrame DEF semaVars, tidVars
<1> QED
  BY <1>5, <1>6 DEF IInv

LEMMA IdleBlockInv ==
  ASSUME IInv, NEW t \in Thread, IdleBlock(t)
  PROVE  IInv'
<1>1. /\ current = t /\ pc[t] = "idle_loop" /\ t = idle /\ pc' = [pc EXCEPT ![t] = "hlt"]
      /\ UNCHANGED <<intrVars, sleepVars, semaVars, tidVars, idle_thread>>
  BY DEF IdleBlock, Running, Goto, IInv, PcInv, IdleLabel
<1>2. Switched(t, "BLOCKED")
  BY <1>1, BlockLemma DEF IdleBlock, thread_block
<1>3. idle_thread # None
  BY <1>1 DEF IInv, BootInv, PcInv
<1>4. /\ status[t] = "RUNNING" /\ pc \in [Thread -> Label]
      /\ t \notin ToSet(sleeping_list) /\ IsInjective(sleeping_list)
      /\ \A s \in Sema : t \notin ToSet(waiters[s]) /\ IsInjective(waiters[s])
  BY <1>1 DEF IInv, TypeOK, RunInv, ListInv
<1>5. TypeOK'
  BY <1>1, <1>2 DEF IInv, TypeOK, Switched, RunInv, Label, intrVars, sleepVars, semaVars,
                    tidVars
<1>6. PcInv' /\ RunInv' /\ BootInv' /\ ListInv' /\ BlockedInv' /\ ChildInv'
  <2>1. /\ "hlt" \in Label /\ "hlt" \in IdleLabel /\ "hlt" \notin BootLabel
        /\ ~ ("hlt" \in CreateLabel) /\ ~ (pc[t] \in CreateLabel)
    BY <1>1 DEF Label, IdleLabel, BootLabel, CreateLabel
  <2> QED
    BY <1>1, <1>2, <1>3, <1>4, <2>1, SwitchFrame DEF sleepVars, semaVars, tidVars
<1> QED
  BY <1>5, <1>6 DEF IInv

LEMMA YieldInv ==
  ASSUME IInv, NEW t \in Thread, current = t, pc[t] # "boot", thread_yield(t),
         UNCHANGED <<sleepVars, semaVars, tidVars, pc, idle_thread>>,
         ticks' \in Nat, in_intr' \in BOOLEAN, yield_on_return' \in BOOLEAN
  PROVE  IInv'
<1>1. Switched(t, "READY")
  BY YieldLemma
<1>2. /\ status[t] = "RUNNING" /\ pc \in [Thread -> Label] /\ pc' = [pc EXCEPT ![t] = pc[t]]
      /\ t \notin ToSet(sleeping_list) /\ IsInjective(sleeping_list)
      /\ \A s \in Sema : t \notin ToSet(waiters[s]) /\ IsInjective(waiters[s])
  BY DEF IInv, TypeOK, RunInv, ListInv
<1>3. TypeOK'
  BY <1>1 DEF IInv, TypeOK, Switched, RunInv, sleepVars, semaVars, tidVars
<1>4. PcInv' /\ RunInv' /\ BootInv' /\ ListInv' /\ BlockedInv' /\ ChildInv'
  <2>1. pc[main] # "boot"
    BY DEF IInv, BootInv
  <2>2. /\ t = idle => pc[t] \in IdleLabel
        /\ t = idle /\ idle_thread = None => pc[t] = "idle_start"
        /\ t # idle => pc[t] \notin IdleLabel
        /\ t # main => pc[t] \notin BootLabel
    BY <2>1 DEF IInv, PcInv, BootInv
  <2> QED
    BY <1>1, <1>2, <2>2, SwitchFrame DEF sleepVars, semaVars, tidVars
<1> QED
  BY <1>3, <1>4 DEF IInv

LEMMA ExitInv ==
  ASSUME IInv, NEW t \in Thread, thread_exit(t)
  PROVE  IInv'
<1>1. /\ current = t /\ pc[t] = "run" /\ t # idle /\ pc' = [pc EXCEPT ![t] = "none"]
      /\ UNCHANGED <<intrVars, sleepVars, semaVars, tidVars, idle_thread>>
  BY DEF thread_exit, Running, Goto, IInv, PcInv, IdleLabel
<1>2. Switched(t, "DYING")
  BY <1>1, BlockLemma DEF thread_exit
<1>3. /\ status[t] = "RUNNING" /\ pc \in [Thread -> Label]
      /\ t \notin ToSet(sleeping_list) /\ IsInjective(sleeping_list)
      /\ \A s \in Sema : t \notin ToSet(waiters[s]) /\ IsInjective(waiters[s])
  BY <1>1 DEF IInv, TypeOK, RunInv, ListInv
<1>4. TypeOK'
  BY <1>1, <1>2 DEF IInv, TypeOK, Switched, RunInv, Label, intrVars, sleepVars, semaVars,
                    tidVars
<1>5. PcInv' /\ RunInv' /\ BootInv' /\ ListInv' /\ BlockedInv' /\ ChildInv'
  <2>1. /\ "none" \in Label /\ "none" \notin IdleLabel /\ "none" \notin BootLabel
        /\ ~ ("none" \in CreateLabel) /\ ~ (pc[t] \in CreateLabel)
    BY <1>1 DEF Label, IdleLabel, BootLabel, CreateLabel
  <2> QED
    BY <1>1, <1>2, <1>3, <2>1, SwitchFrame DEF sleepVars, semaVars, tidVars
<1> QED
  BY <1>4, <1>5 DEF IInv

-----------------------------------------------------------------------------
\* The running thread may go on at label l.
MayGo(l) ==
  LET t == current IN
  /\ pc[t] # "boot" /\ l # "boot"
  /\ pc' = [pc EXCEPT ![t] = l]
  /\ l \in Label
  /\ t = idle => l \in IdleLabel
  /\ t = idle /\ idle_thread = None => l = "idle_start"
  /\ t # idle => l \notin IdleLabel
  /\ t # main => l \notin BootLabel
  /\ l \in CreateLabel <=> pc[t] \in CreateLabel

\* A step of the running thread that leaves the lists and statuses alone.
LEMMA LocalFrame ==
  ASSUME IInv, NEW l, MayGo(l),
         UNCHANGED <<current, status, ready_list, sleeping_list, waiters, child, idle_thread>>
  PROVE  PcInv' /\ RunInv' /\ BootInv' /\ ListInv' /\ BlockedInv' /\ ChildInv'
<1>1. /\ current \in Thread /\ status[current] = "RUNNING" /\ pc \in [Thread -> Label]
      /\ status \in [Thread -> Status]
      /\ pc'[current] = l /\ \A u \in Thread \ {current} : pc'[u] = pc[u]
      /\ pc[main] # "boot"
  BY DEF IInv, TypeOK, RunInv, BootInv, MayGo
<1>2. PcInv'
  BY <1>1 DEF IInv, PcInv, MayGo
<1>3. RunInv'
  BY DEF IInv, RunInv
<1>4. BootInv'
  <2>1. pc'[idle] # "none"
    BY <1>1 DEF IInv, BootInv, MayGo, IdleLabel
  <2>2. idle_thread = None => pc'[idle] = "idle_start"
    BY <1>1 DEF IInv, BootInv, MayGo
  <2>3. pc'[main] # "boot"
    BY <1>1 DEF MayGo
  <2> QED
    BY <1>1, <2>1, <2>2, <2>3 DEF IInv, BootInv
<1>5. ListInv'
  <2>1. \A u \in Thread : u \in ToSet(sleeping_list) => status[u] = "BLOCKED" /\ pc'[u] = "run"
    BY <1>1 DEF IInv, ListInv
  <2>2. \A u \in Thread, s \in Sema : u \in ToSet(waiters[s]) =>
          status[u] = "BLOCKED" /\ pc'[u] = WaitLabel[s]
    BY <1>1 DEF IInv, ListInv
  <2> QED
    BY <2>1, <2>2 DEF IInv, ListInv
<1>6. BlockedInv'
  BY DEF IInv, BlockedInv, Waits, Embryo
<1>7. ChildInv'
  BY <1>1 DEF IInv, ChildInv, MayGo
<1> QED
  BY <1>2, <1>3, <1>4, <1>5, <1>6, <1>7

\* A step of the running thread that unblocks u, taking it off its wait list.
LEMMA UnblockFrame ==
  ASSUME IInv, NEW l, MayGo(l), NEW u \in Thread, Waits(u), thread_unblock(u),
         child' = child, idle_thread' = idle_thread,
         IsInjective(sleeping_list'), \A s \in Sema : IsInjective(waiters'[s]),
         \A v \in Thread :
           /\ v \in ToSet(sleeping_list') <=> v \in ToSet(sleeping_list) \ {u}
           /\ \A s \in Sema : v \in ToSet(waiters'[s]) <=> v \in ToSet(waiters[s]) \ {u}
  PROVE  /\ PcInv' /\ RunInv' /\ BootInv' /\ ListInv' /\ BlockedInv' /\ ChildInv'
         /\ ready_list' \in Seq(Thread) /\ status' \in [Thread -> Status]
         /\ UNCHANGED <<current, thread_ticks>>
<1>1. /\ current \in Thread /\ status[current] = "RUNNING" /\ pc \in [Thread -> Label]
      /\ status \in [Thread -> Status]
      /\ pc'[current] = l /\ \A v \in Thread \ {current} : pc'[v] = pc[v]
      /\ pc[main] # "boot"
  BY DEF IInv, TypeOK, RunInv, BootInv, MayGo
<1>2. u # current /\ u # idle /\ u # idle_thread /\ status[u] = "BLOCKED"
  BY OffCpu
<1>3. /\ ready_list' \in Seq(Thread)
      /\ IsInjective(ready_list')
      /\ ToSet(ready_list') = ToSet(ready_list) \union {u}
      /\ status' \in [Thread -> Status]
      /\ status'[u] = "READY"
      /\ \A v \in Thread \ {u} : status'[v] = status[v]
      /\ current' = current
      /\ thread_ticks' = thread_ticks
  BY <1>2, UnblockLemma
<1>4. PcInv'
  BY <1>1, <1>3 DEF IInv, PcInv, MayGo
<1>5. RunInv'
  BY <1>2, <1>3 DEF IInv, RunInv
<1>6. BootInv'
  <2>1. pc'[idle] # "none" /\ status'[idle] \notin {"FREE", "DYING"}
    BY <1>1, <1>2, <1>3 DEF IInv, BootInv, MayGo, IdleLabel
  <2>2. idle_thread = None =>
          pc'[idle] = "idle_start" /\ status'[idle] \in {"READY", "RUNNING"}
    BY <1>1, <1>2, <1>3 DEF IInv, BootInv, MayGo
  <2>3. pc'[main] # "boot"
    BY <1>1 DEF MayGo
  <2> QED
    BY <2>1, <2>2, <2>3 DEF BootInv
<1>7. ListInv'
  <2>1. ASSUME NEW v \in Thread, v \in ToSet(sleeping_list')
        PROVE  status'[v] = "BLOCKED" /\ pc'[v] = "run"
    BY <1>1, <1>3, <2>1 DEF IInv, ListInv
  <2>2. ASSUME NEW v \in Thread, NEW s \in Sema, v \in ToSet(waiters'[s])
        PROVE  status'[v] = "BLOCKED" /\ pc'[v] = WaitLabel[s]
    BY <1>1, <1>3, <2>2 DEF IInv, ListInv
  <2>3. ASSUME NEW v \in Thread
        PROVE  v \in ToSet(ready_list') <=> status'[v] = "READY" /\ v # idle_thread
    BY <1>2, <1>3 DEF IInv, ListInv
  <2> QED
    BY <1>3, <2>1, <2>2, <2>3 DEF ListInv
<1>8. BlockedInv'
  BY <1>3 DEF IInv, BlockedInv, Waits, Embryo
<1>9. ChildInv'
  <2>1. ASSUME NEW p \in Thread
        PROVE  child[p] # None <=> pc'[p] \in CreateLabel
    BY <1>1 DEF IInv, ChildInv, MayGo
  <2>2. ASSUME NEW p \in Thread, child[p] # None
        PROVE  status'[child[p]] = "BLOCKED" /\ pc'[child[p]] = "none"
    BY <1>1, <1>3, <2>2, OffCpu DEF IInv, ChildInv
  <2> QED
    BY <2>1, <2>2 DEF IInv, ChildInv
<1> QED
  BY <1>3, <1>4, <1>5, <1>6, <1>7, <1>8, <1>9

-----------------------------------------------------------------------------
\* sema_down(s), wherever it is called from.
LEMMA SemaDownInv ==
  ASSUME IInv, NEW t \in Thread, t # idle, NEW s \in Sema,
         NEW start \in Label, NEW again \in Label, NEW done \in Label,
         sema_down(t, s, start, again, done),
         again = WaitLabel[s],
         {start, again, done} \intersect (IdleLabel \union {"boot"}) = {},
         t # main => {start, again, done} \intersect BootLabel = {},
         \/ {start, again, done} \subseteq CreateLabel
         \/ {start, again, done} \intersect CreateLabel = {}
  PROVE  IInv'
<1>1. /\ current = t /\ pc[t] \in {start, again} /\ pc[t] # "boot" /\ pc[t] # "idle_start"
      /\ UNCHANGED <<intrVars, sleepVars, tidVars, idle_thread>>
  BY DEF sema_down, Running, IdleLabel
<1>2. /\ value \in [Sema -> Nat] /\ waiters \in [Sema -> Seq(Thread)]
      /\ status[t] = "RUNNING" /\ t \notin ToSet(sleeping_list) /\ IsInjective(sleeping_list)
      /\ \A r \in Sema : t \notin ToSet(waiters[r]) /\ IsInjective(waiters[r])
  BY <1>1 DEF IInv, TypeOK, RunInv, ListInv
<1>3. CASE /\ value[s] > 0
           /\ value' = [value EXCEPT ![s] = @ - 1]
           /\ Goto(t, done)
           /\ UNCHANGED <<schedVars, waiters>>
  <2>1. value' \in [Sema -> Nat]
    BY <1>2, <1>3
  <2>2. TypeOK'
    BY <1>1, <1>3, <2>1 DEF IInv, TypeOK, Goto, intrVars, sleepVars, tidVars, schedVars
  <2>3. MayGo(done)
    BY <1>1, <1>3 DEF MayGo, Goto
  <2> QED
    BY <1>1, <1>3, <2>2, <2>3, LocalFrame DEF IInv, sleepVars, tidVars, schedVars
<1>4. CASE /\ value[s] = 0
           /\ waiters' = [waiters EXCEPT ![s] = Append(@, t)]
           /\ Goto(t, again)
           /\ thread_block(t)
           /\ UNCHANGED value
  <2>1. Switched(t, "BLOCKED")
    BY <1>1, <1>4, BlockLemma DEF thread_block
  <2>2. /\ Append(waiters[s], t) \in Seq(Thread)
        /\ IsInjective(Append(waiters[s], t))
        /\ ToSet(Append(waiters[s], t)) = ToSet(waiters[s]) \union {t}
    BY <1>2, AppendElems, PushKeepsSingle
  <2>3. /\ waiters' \in [Sema -> Seq(Thread)]
        /\ waiters'[s] = Append(waiters[s], t)
        /\ \A r \in Sema \ {s} : waiters'[r] = waiters[r]
    BY <1>2, <1>4, <2>2
  <2>4. TypeOK'
    BY <1>1, <1>4, <2>1, <2>3
       DEF IInv, TypeOK, Switched, RunInv, Goto, intrVars, sleepVars, tidVars
  <2>5. PcInv' /\ RunInv' /\ BootInv' /\ ListInv' /\ BlockedInv' /\ ChildInv'
    <3>1. \A r \in Sema : IsInjective(waiters'[r])
      BY <1>2, <2>2, <2>3
    <3>2. \A u \in Thread \ {t}, r \in Sema :
            u \in ToSet(waiters'[r]) <=> u \in ToSet(waiters[r])
      BY <2>2, <2>3
    <3>3. /\ t \in ToSet(waiters'[s])
          /\ \A r \in Sema : t \in ToSet(waiters'[r]) => r = s
      BY <1>2, <2>2, <2>3
    <3>4. /\ pc' = [pc EXCEPT ![t] = again] /\ child' = child /\ idle_thread' = idle_thread
          /\ sleeping_list' = sleeping_list
      BY <1>1, <1>4 DEF sleepVars, tidVars, Goto
    <3>5. again \in CreateLabel <=> pc[t] \in CreateLabel
      BY <1>1
    <3>6. again \notin IdleLabel /\ again # "boot" /\ (t # main => again \notin BootLabel)
      OBVIOUS
    <3> QED
      BY <1>1, <1>2, <2>1, <3>1, <3>2, <3>3, <3>4, <3>5, <3>6, SwitchFrame
  <2> QED
    BY <2>4, <2>5 DEF IInv
<1> QED
  BY <1>3, <1>4 DEF sema_down

\* sema_up(s) by the running thread, which goes on at label l.
LEMMA SemaUpInv ==
  ASSUME IInv, NEW s \in Sema, NEW l, MayGo(l), sema_up(s),
         UNCHANGED <<intrVars, sleepVars, tidVars, idle_thread>>
  PROVE  IInv'
<1>1. /\ value \in [Sema -> Nat] /\ waiters \in [Sema -> Seq(Thread)]
      /\ IsInjective(sleeping_list) /\ \A r \in Sema : IsInjective(waiters[r])
      /\ pc \in [Thread -> Label]
  BY DEF IInv, TypeOK, ListInv
<1>2. value' \in [Sema -> Nat] /\ pc' \in [Thread -> Label]
  <2>1. value' = [value EXCEPT ![s] = value[s] + 1]
    BY DEF sema_up
  <2>2. pc' = [pc EXCEPT ![current] = l] /\ l \in Label
    BY DEF MayGo
  <2>3. value' \in [Sema -> Nat]
    <3>1. value[s] + 1 \in Nat
      BY <1>1
    <3> QED
      BY <1>1, <2>1, <3>1
  <2>4. pc' \in [Thread -> Label]
    BY <1>1, <2>2
  <2> QED
    BY <2>3, <2>4
<1>3. CASE waiters[s] = <<>> /\ UNCHANGED <<schedVars, waiters>>
  <2>1. TypeOK'
    BY <1>2, <1>3 DEF IInv, TypeOK, intrVars, sleepVars, tidVars, schedVars
  <2> QED
    BY <1>3, <2>1, LocalFrame DEF IInv, sleepVars, tidVars, schedVars
<1>4. CASE /\ waiters[s] # <<>>
           /\ waiters' = [waiters EXCEPT ![s] = Tail(@)]
           /\ thread_unblock(Head(waiters[s]))
  <2> DEFINE u == Head(waiters[s])
  <2>1. /\ u \in Thread /\ u \in ToSet(waiters[s])
        /\ Tail(waiters[s]) \in Seq(Thread)
        /\ ToSet(Tail(waiters[s])) = ToSet(waiters[s]) \ {u}
        /\ IsInjective(Tail(waiters[s]))
    BY <1>1, <1>4, PopElems
  <2>2. /\ waiters' \in [Sema -> Seq(Thread)]
        /\ waiters'[s] = Tail(waiters[s])
        /\ \A r \in Sema \ {s} : waiters'[r] = waiters[r]
    BY <1>1, <1>4, <2>1
  <2> HIDE DEF u
  <2>3. Waits(u)
    BY <2>1 DEF Waits
  <2>4. u \notin ToSet(sleeping_list) /\ \A r \in Sema \ {s} : u \notin ToSet(waiters[r])
    BY <2>1 DEF IInv, ListInv, WaitLabel, Sema
  <2>5. thread_unblock(u)
    BY <1>4 DEF u
  <2>6. /\ PcInv' /\ RunInv' /\ BootInv' /\ ListInv' /\ BlockedInv' /\ ChildInv'
        /\ ready_list' \in Seq(Thread) /\ status' \in [Thread -> Status]
        /\ UNCHANGED <<current, thread_ticks>>
    <3>1. \A r \in Sema : IsInjective(waiters'[r])
      BY <1>1, <2>1, <2>2
    <3>2. /\ sleeping_list' = sleeping_list /\ child' = child /\ idle_thread' = idle_thread
          /\ IsInjective(sleeping_list')
      BY <1>1 DEF sleepVars, tidVars
    <3>3. \A v \in Thread :
            /\ v \in ToSet(sleeping_list') <=> v \in ToSet(sleeping_list) \ {u}
            /\ \A r \in Sema : v \in ToSet(waiters'[r]) <=> v \in ToSet(waiters[r]) \ {u}
      BY <2>1, <2>2, <2>4, <3>2
    <3> QED
      BY <2>1, <2>3, <2>5, <3>1, <3>2, <3>3, UnblockFrame
  <2>7. TypeOK'
    BY <1>2, <2>2, <2>6 DEF IInv, TypeOK, intrVars, sleepVars, tidVars
  <2> QED
    BY <2>6, <2>7 DEF IInv
<1> QED
  BY <1>3, <1>4 DEF sema_up

LEMMA LabelLemma ==
  /\ IdleLabel \subseteq Label /\ BootLabel \subseteq Label /\ CreateLabel \subseteq Label
  /\ "none" \in Label /\ "run" \in Label /\ "sleep" \in Label
  /\ IdleLabel \intersect BootLabel = {}
  /\ IdleLabel \intersect CreateLabel = {}
  /\ BootLabel \intersect CreateLabel = {}
  /\ {"none", "run", "sleep"} \intersect (IdleLabel \union BootLabel \union CreateLabel) = {}
BY DEF Label, IntrOff, IdleLabel, BootLabel, CreateLabel

LEMMA SemaCallsInv ==
  ASSUME IInv, NEW t \in Thread,
         \/ t = main /\ BootDown
         \/ TidDown(t) \/ TidUp(t) \/ IdleUp(t)
  PROVE  IInv'
<1>1. CASE t = main /\ BootDown
  BY <1>1, SemaDownInv, LabelLemma
     DEF BootDown, Sema, WaitLabel, IdleLabel, BootLabel, CreateLabel
<1>2. CASE TidDown(t)
  <2>1. t # idle
    BY <1>2 DEF TidDown, sema_down, IInv, PcInv, IdleLabel
  <2> QED
    BY <1>2, <2>1, SemaDownInv, LabelLemma
       DEF TidDown, Sema, WaitLabel, IdleLabel, BootLabel, CreateLabel
<1>3. CASE TidUp(t)
  <2>1. /\ current = t /\ pc[t] = "tid_up" /\ t # idle /\ sema_up("tid_lock")
        /\ pc' = [pc EXCEPT ![t] = "unblock"]
        /\ UNCHANGED <<intrVars, sleepVars, tidVars, idle_thread>>
    BY <1>3 DEF TidUp, Running, Goto, IInv, PcInv, IdleLabel
  <2>2. MayGo("unblock")
    BY <2>1, LabelLemma DEF MayGo, IdleLabel, BootLabel, CreateLabel
  <2> QED
    BY <2>1, <2>2, SemaUpInv DEF Sema
<1>4. CASE IdleUp(t)
  <2>1. /\ current = t /\ pc[t] = "idle_up" /\ t = idle /\ sema_up("idle_started")
        /\ pc' = [pc EXCEPT ![t] = "idle_loop"]
        /\ UNCHANGED <<intrVars, sleepVars, tidVars, idle_thread>>
    BY <1>4 DEF IdleUp, Running, Goto, IInv, PcInv, IdleLabel
  <2>2. idle_thread # None
    BY <2>1 DEF IInv, BootInv
  <2>3. MayGo("idle_loop")
    BY <2>1, <2>2, LabelLemma DEF MayGo, IdleLabel, BootLabel, CreateLabel
  <2> QED
    BY <2>1, <2>3, SemaUpInv DEF Sema
<1> QED
  BY <1>1, <1>2, <1>3, <1>4

-----------------------------------------------------------------------------
LEMMA BootCreateInv ==
  ASSUME IInv, BootCreate
  PROVE  IInv'
<1>1. /\ pc[main] = "boot" /\ current = main /\ idle_thread = None /\ ready_list = <<>>
      /\ pc[idle] = "none" /\ status[idle] = "FREE"
      /\ pc' = [pc EXCEPT ![main] = "boot_down", ![idle] = "idle_start"]
      /\ tid' = [tid EXCEPT ![idle] = next_tid] /\ next_tid' = next_tid + 1
      /\ thread_unblock(idle)
      /\ UNCHANGED <<intrVars, sleepVars, semaVars, idle_thread, child, new_tid>>
  BY DEF BootCreate, Running, IInv, BootInv
<1>2. /\ ready_list' = <<idle>> /\ status' = [status EXCEPT ![idle] = "READY"]
      /\ current' = current /\ thread_ticks' = thread_ticks
  BY <1>1 DEF thread_unblock
<1>3. /\ status \in [Thread -> Status] /\ pc \in [Thread -> Label] /\ status[main] = "RUNNING"
      /\ pc'[main] = "boot_down" /\ pc'[idle] = "idle_start"
      /\ \A u \in Thread \ {main, idle} : pc'[u] = pc[u]
      /\ status'[idle] = "READY" /\ \A u \in Thread \ {idle} : status'[u] = status[u]
  BY <1>1, <1>2 DEF IInv, TypeOK, RunInv
<1>4. ready_list' \in Seq(Thread) /\ ToSet(ready_list') = {idle} /\ IsInjective(ready_list')
  BY <1>2 DEF ToSet, IsInjective
<1>5. TypeOK'
  <2>1. tid' \in [Thread -> Nat] /\ next_tid' \in Nat
    BY <1>1 DEF IInv, TypeOK
  <2>2. pc' \in [Thread -> Label] /\ status' \in [Thread -> Status]
    BY <1>1, <1>2, <1>3, LabelLemma DEF IdleLabel, BootLabel
  <2> QED
    BY <1>1, <1>2, <1>4, <2>1, <2>2 DEF IInv, TypeOK, intrVars, sleepVars, semaVars
<1>6. PcInv' /\ RunInv' /\ BootInv'
  BY <1>1, <1>2, <1>3 DEF IInv, PcInv, RunInv, BootInv, IdleLabel, BootLabel
<1>7. ListInv'
  <2>1. ASSUME NEW u \in Thread, Waits(u)
        PROVE  u # main /\ u # idle
    BY <1>1, <1>3, <2>1, OffCpu
  <2>2. ToSet(ready_list) = {}
    BY <1>1 DEF ToSet
  <2>3. ASSUME NEW u \in Thread
        PROVE  u \in ToSet(ready_list') <=> status'[u] = "READY" /\ u # idle_thread
    BY <1>1, <1>3, <1>4, <2>2 DEF IInv, ListInv
  <2>4. ASSUME NEW u \in Thread, u \in ToSet(sleeping_list)
        PROVE  status'[u] = "BLOCKED" /\ pc'[u] = "run"
    BY <1>3, <2>1, <2>4 DEF IInv, ListInv, Waits
  <2>5. ASSUME NEW u \in Thread, NEW s \in Sema, u \in ToSet(waiters[s])
        PROVE  status'[u] = "BLOCKED" /\ pc'[u] = WaitLabel[s]
    BY <1>3, <2>1, <2>5 DEF IInv, ListInv, Waits
  <2>6. /\ sleeping_list' = sleeping_list /\ waiters' = waiters
        /\ idle_thread' = idle_thread
    BY <1>1 DEF sleepVars, semaVars
  <2>7. /\ IsInjective(ready_list') /\ IsInjective(sleeping_list)
        /\ \A s \in Sema : IsInjective(waiters[s])
    BY <1>4 DEF IInv, ListInv
  <2> QED
    BY <2>3, <2>4, <2>5, <2>6, <2>7 DEF ListInv
<1>8. BlockedInv'
  BY <1>1, <1>3 DEF IInv, BlockedInv, Waits, Embryo, sleepVars, semaVars
<1>9. ChildInv'
  <2>1. ASSUME NEW p \in Thread
        PROVE  child[p] # None <=> pc'[p] \in CreateLabel
    BY <1>1, <1>3 DEF IInv, ChildInv, CreateLabel
  <2>2. ASSUME NEW p \in Thread, child[p] # None
        PROVE  status'[child[p]] = "BLOCKED" /\ pc'[child[p]] = "none"
    BY <1>3, <2>2, OffCpu DEF IInv, ChildInv
  <2> QED
    BY <1>1, <2>1, <2>2 DEF IInv, ChildInv
<1> QED
  BY <1>5, <1>6, <1>7, <1>8, <1>9 DEF IInv

LEMMA IdleStartInv ==
  ASSUME IInv, NEW t \in Thread, IdleStart(t)
  PROVE  IInv'
<1>1. /\ current = t /\ t = idle /\ pc[t] = "idle_start" /\ idle_thread' = idle
      /\ pc' = [pc EXCEPT ![t] = "idle_up"]
      /\ UNCHANGED <<schedVars, intrVars, sleepVars, semaVars, tidVars>>
  BY DEF IdleStart, Running, Goto, IInv, PcInv, IdleLabel
<1>2. /\ status[idle] = "RUNNING" /\ pc \in [Thread -> Label]
      /\ pc'[idle] = "idle_up" /\ \A u \in Thread \ {idle} : pc'[u] = pc[u]
      /\ pc[main] # "boot" /\ idle_thread \in {None, idle}
  BY <1>1 DEF IInv, TypeOK, RunInv, BootInv
<1>3. TypeOK'
  BY <1>1, LabelLemma DEF IInv, TypeOK, schedVars, intrVars, sleepVars, semaVars, tidVars, IdleLabel
<1>4. PcInv' /\ RunInv' /\ BootInv'
  <2>1. PcInv'
    BY <1>1, <1>2 DEF IInv, PcInv, IdleLabel, BootLabel, schedVars
  <2>2. RunInv'
    BY <1>1 DEF IInv, RunInv, schedVars
  <2>3. BootInv'
    BY <1>1, <1>2 DEF IInv, BootInv, schedVars
  <2> QED
    BY <2>1, <2>2, <2>3
<1>5. ListInv'
  <2>1. \A u \in Thread : Waits(u) => u # idle
    BY OffCpu
  <2>2. \A u \in Thread :
          u \in ToSet(ready_list) <=> status[u] = "READY" /\ u # idle
    BY <1>2 DEF IInv, ListInv
  <2>3. \A u \in Thread :
          u \in ToSet(sleeping_list) => status[u] = "BLOCKED" /\ pc'[u] = "run"
    BY <1>2, <2>1 DEF IInv, ListInv, Waits
  <2>4. \A u \in Thread, s \in Sema :
          u \in ToSet(waiters[s]) => status[u] = "BLOCKED" /\ pc'[u] = WaitLabel[s]
    BY <1>2, <2>1 DEF IInv, ListInv, Waits
  <2> QED
    BY <1>1, <2>2, <2>3, <2>4 DEF IInv, ListInv, schedVars, sleepVars, semaVars
<1>6. BlockedInv'
  BY <1>1, <1>2 DEF IInv, BlockedInv, Waits, Embryo, schedVars, sleepVars, semaVars, tidVars
<1>7. ChildInv'
  BY <1>1, <1>2 DEF IInv, ChildInv, schedVars, tidVars, CreateLabel
<1> QED
  BY <1>3, <1>4, <1>5, <1>6, <1>7 DEF IInv

LEMMA LocalStepInv ==
  ASSUME IInv, NEW t \in Thread, SleepStart(t) \/ TidRead(t) \/ TidWrite(t)
  PROVE  IInv'
<1>1. t # idle
  BY DEF SleepStart, TidRead, TidWrite, IInv, PcInv, IdleLabel
<1>2. CASE SleepStart(t)
  <2>1. MayGo("sleep")
    BY <1>1, <1>2, LabelLemma DEF SleepStart, Running, Goto, MayGo
  <2>2. TypeOK'
    <3>1. PICK n \in Durations : deadline' = [deadline EXCEPT ![t] = ticks + n]
      BY <1>2 DEF SleepStart
    <3>2. ticks + n \in Int
      BY NumberAssumption DEF IInv, TypeOK
    <3>3. deadline' \in [Thread -> Int]
      BY <3>1, <3>2 DEF IInv, TypeOK
    <3> QED
      BY <1>2, <3>3, LabelLemma
         DEF SleepStart, Goto, IInv, TypeOK, schedVars, intrVars, semaVars, tidVars
  <2> QED
    BY <1>2, <2>1, <2>2, LocalFrame DEF SleepStart, schedVars, semaVars, tidVars, IInv
<1>3. CASE TidRead(t)
  <2>1. MayGo("tid_write")
    BY <1>1, <1>3, LabelLemma DEF TidRead, Running, Goto, MayGo, CreateLabel
  <2>2. TypeOK'
    BY <1>3, LabelLemma
       DEF TidRead, Goto, IInv, TypeOK, schedVars, intrVars, sleepVars, semaVars, CreateLabel
  <2> QED
    BY <1>3, <2>1, <2>2, LocalFrame DEF TidRead, schedVars, sleepVars, semaVars, IInv
<1>4. CASE TidWrite(t)
  <2>1. MayGo("tid_up")
    BY <1>1, <1>4, LabelLemma DEF TidWrite, Running, Goto, MayGo, CreateLabel
  <2>2. TypeOK'
    <3>1. next_tid' \in Nat
      <4>1. new_tid \in [Thread -> Nat]
        BY DEF IInv, TypeOK
      <4>2. next_tid' = new_tid[t] + 1
        BY <1>4 DEF TidWrite
      <4> QED
        BY <4>1, <4>2
    <3>2. pc' \in [Thread -> Label]
      BY <1>4, LabelLemma DEF TidWrite, Goto, IInv, TypeOK, CreateLabel
    <3>3. UNCHANGED <<schedVars, intrVars, sleepVars, semaVars, tid, new_tid, child, idle_thread>>
      BY <1>4 DEF TidWrite
    <3> QED
      BY <3>1, <3>2, <3>3 DEF IInv, TypeOK, schedVars, intrVars, sleepVars, semaVars
  <2> QED
    BY <1>4, <2>1, <2>2, LocalFrame DEF TidWrite, schedVars, sleepVars, semaVars, IInv
<1> QED
  BY <1>2, <1>3, <1>4

\* thread_create() takes a free page c and makes it a blocked thread.
LEMMA CreateInitInv ==
  ASSUME IInv, NEW t \in Thread, CreateInit(t)
  PROVE  IInv'
<1>1. PICK c \in Thread :
        /\ status[c] = "FREE"
        /\ status' = [status EXCEPT ![c] = "BLOCKED"]
        /\ child' = [child EXCEPT ![t] = c]
        /\ tid' = [tid EXCEPT ![c] = 0]
        /\ sleeping_ticks' = [sleeping_ticks EXCEPT ![c] = 0]
  BY DEF CreateInit
<1>2. /\ current = t /\ pc[t] = "run" /\ t # idle /\ pc' = [pc EXCEPT ![t] = "tid_down"]
      /\ UNCHANGED <<current, ready_list, thread_ticks, intrVars, sleeping_list,
                     deadline, semaVars, next_tid, new_tid, idle_thread>>
  BY DEF CreateInit, Running, Goto, IInv, PcInv, IdleLabel
<1>3. /\ status \in [Thread -> Status] /\ pc \in [Thread -> Label]
      /\ child \in [Thread -> Thread \union {None}]
      /\ idle_thread \in {None, idle} /\ status[t] = "RUNNING" /\ pc[main] # "boot"
      /\ child[t] = None /\ pc[c] = "none" /\ status[main] # "FREE" /\ status[idle] # "FREE"
  BY <1>1, <1>2 DEF IInv, TypeOK, RunInv, BootInv, ChildInv, PcInv, CreateLabel
<1>4. /\ c # t /\ c # main /\ c # idle /\ c # idle_thread
      /\ status'[c] = "BLOCKED" /\ \A u \in Thread \ {c} : status'[u] = status[u]
      /\ child'[t] = c /\ \A u \in Thread \ {t} : child'[u] = child[u]
      /\ pc'[t] = "tid_down" /\ \A u \in Thread \ {t} : pc'[u] = pc[u]
  BY <1>1, <1>2, <1>3
<1>5. TypeOK'
  <2>1. status' \in [Thread -> Status] /\ child' \in [Thread -> Thread \union {None}]
    BY <1>1, <1>3
  <2>2. tid' \in [Thread -> Nat] /\ sleeping_ticks' \in [Thread -> Int]
    <3>1. tid \in [Thread -> Nat] /\ sleeping_ticks \in [Thread -> Int]
      BY DEF IInv, TypeOK
    <3> QED
      BY <1>1, <3>1
  <2>3. pc' \in [Thread -> Label]
    BY <1>2, <1>3, LabelLemma DEF CreateLabel
  <2> QED
    BY <1>2, <2>1, <2>2, <2>3 DEF IInv, TypeOK, intrVars, semaVars
<1>6. PcInv'
  BY <1>2, <1>3, <1>4 DEF IInv, PcInv, IdleLabel, BootLabel
<1>7. RunInv'
  BY <1>1, <1>2, <1>4 DEF IInv, RunInv
<1>8. BootInv'
  BY <1>2, <1>3, <1>4 DEF IInv, BootInv
<1>9. ListInv'
  <2>1. \A u \in Thread : Waits(u) => u # t /\ u # c
    BY <1>1, <1>2, OffCpu
  <2>2. \A u \in Thread :
          u \in ToSet(ready_list) <=> status'[u] = "READY" /\ u # idle_thread
    BY <1>1, <1>4 DEF IInv, ListInv
  <2>3. \A u \in Thread :
          u \in ToSet(sleeping_list) => status'[u] = "BLOCKED" /\ pc'[u] = "run"
    BY <1>4, <2>1 DEF IInv, ListInv, Waits
  <2>4. \A u \in Thread, s \in Sema :
          u \in ToSet(waiters[s]) => status'[u] = "BLOCKED" /\ pc'[u] = WaitLabel[s]
    BY <1>4, <2>1 DEF IInv, ListInv, Waits
  <2> QED
    BY <1>2, <2>2, <2>3, <2>4 DEF IInv, ListInv, semaVars
<1>10. BlockedInv'
  <2> SUFFICES ASSUME NEW u \in Thread \ {idle_thread}, status'[u] = "BLOCKED"
               PROVE  Waits(u)' \/ Embryo(u)'
    BY <1>2 DEF BlockedInv
  <2>1. CASE u = c
    BY <1>4, <2>1 DEF Embryo
  <2>2. CASE u # c
    <3>1. Waits(u) \/ \E p \in Thread : child[p] = u
      BY <1>4, <2>2 DEF IInv, BlockedInv, Embryo
    <3>2. ASSUME NEW p \in Thread, child[p] = u
          PROVE  child'[p] = u
      BY <1>3, <1>4, <3>2
    <3> QED
      BY <1>2, <3>1, <3>2 DEF Waits, Embryo, semaVars
  <2> QED
    BY <2>1, <2>2
<1>11. ChildInv'
  <2>1. ASSUME NEW p \in Thread
        PROVE  child'[p] # None <=> pc'[p] \in CreateLabel
    BY <1>3, <1>4 DEF IInv, ChildInv, CreateLabel
  <2>2. ASSUME NEW p \in Thread \ {t}, child[p] # None
        PROVE  child[p] \in Thread /\ child[p] # c /\ child[p] # t /\ child[p] # current
    BY <1>1, <1>2, <2>2, OffCpu DEF IInv, ChildInv
  <2>3. ASSUME NEW p \in Thread, child'[p] # None
        PROVE  /\ child'[p] \notin {main, idle}
               /\ status'[child'[p]] = "BLOCKED" /\ pc'[child'[p]] = "none"
    <3>1. CASE p = t
      BY <1>3, <1>4, <3>1
    <3>2. CASE p # t
      BY <1>4, <2>2, <2>3, <3>2 DEF IInv, ChildInv
    <3> QED
      BY <3>1, <3>2
  <2>4. ASSUME NEW p \in Thread, child'[p] # None, NEW q \in Thread, child'[q] = child'[p]
        PROVE  q = p
    <3>1. CASE p = t \/ q = t
      BY <1>4, <2>2, <2>4, <3>1
    <3>2. CASE p # t /\ q # t
      BY <1>4, <2>4, <3>2 DEF IInv, ChildInv
    <3> QED
      BY <3>1, <3>2
  <2> QED
    BY <2>1, <2>3, <2>4 DEF ChildInv
<1> QED
  BY <1>5, <1>6, <1>7, <1>8, <1>9, <1>10, <1>11 DEF IInv

\* thread_create() hands the new thread over to the scheduler.
LEMMA CreateUnblockInv ==
  ASSUME IInv, NEW t \in Thread, CreateUnblock(t)
  PROVE  IInv'
<1> DEFINE c == child[t]
<1>1. /\ current = t /\ pc[t] = "unblock" /\ t # idle
      /\ thread_unblock(c)
      /\ tid' = [tid EXCEPT ![c] = new_tid[t]]
      /\ child' = [child EXCEPT ![t] = None]
      /\ new_tid' = [new_tid EXCEPT ![t] = 0]
      /\ pc' = [pc EXCEPT ![t] = "run", ![c] = "run"]
      /\ UNCHANGED <<intrVars, sleepVars, semaVars, next_tid, idle_thread>>
  BY DEF CreateUnblock, Running, IInv, PcInv, IdleLabel
<1>2. /\ status \in [Thread -> Status] /\ pc \in [Thread -> Label]
      /\ child \in [Thread -> Thread \union {None}]
      /\ idle_thread \in {None, idle} /\ status[t] = "RUNNING" /\ pc[main] # "boot"
      /\ c # None
  BY <1>1 DEF IInv, TypeOK, RunInv, BootInv, ChildInv, CreateLabel
<1>3. /\ c \in Thread /\ c # t /\ c # main /\ c # idle /\ c # idle_thread
      /\ status[c] = "BLOCKED" /\ pc[c] = "none" /\ ~ Waits(c)
      /\ \A q \in Thread : child[q] = c => q = t
  BY <1>1, <1>2, OffCpu DEF IInv, ChildInv
<1>4. /\ ready_list' \in Seq(Thread)
      /\ IsInjective(ready_list')
      /\ ToSet(ready_list') = ToSet(ready_list) \union {c}
      /\ status' \in [Thread -> Status]
      /\ status'[c] = "READY"
      /\ \A v \in Thread \ {c} : status'[v] = status[v]
      /\ current' = current
      /\ thread_ticks' = thread_ticks
  BY <1>1, <1>3, UnblockLemma
<1>5. /\ child'[t] = None /\ \A u \in Thread \ {t} : child'[u] = child[u]
      /\ pc'[t] = "run" /\ pc'[c] = "run" /\ \A u \in Thread \ {t, c} : pc'[u] = pc[u]
  BY <1>1, <1>2, <1>3
<1> HIDE DEF c
<1>6. TypeOK'
  <2>1. pc' \in [Thread -> Label] /\ child' \in [Thread -> Thread \union {None}]
    BY <1>1, <1>2, LabelLemma
  <2>2. tid' \in [Thread -> Nat] /\ new_tid' \in [Thread -> Nat]
    BY <1>1 DEF IInv, TypeOK
  <2> QED
    BY <1>1, <1>4, <2>1, <2>2 DEF IInv, TypeOK, intrVars, sleepVars, semaVars
<1>7. PcInv'
  <2>1. "run" \notin IdleLabel /\ "run" \notin BootLabel
    BY LabelLemma
  <2>2. \A u \in Thread : status'[u] = "FREE" => u # t /\ u # c /\ status[u] = "FREE"
    BY <1>2, <1>3, <1>4
  <2>3. \A u \in Thread : pc'[u] = IF u = t \/ u = c THEN "run" ELSE pc[u]
    BY <1>5
  <2>4. pc'[idle] \in IdleLabel \union {"none"}
    BY <1>1, <1>3, <2>3, ThreadAssumption DEF IInv, PcInv
  <2>5. \A u \in Thread \ {idle} : pc'[u] \notin IdleLabel
    BY <2>1, <2>3 DEF IInv, PcInv
  <2>6. \A u \in Thread \ {main} : pc'[u] \notin BootLabel
    BY <2>1, <2>3 DEF IInv, PcInv
  <2>7. \A u \in Thread : status'[u] = "FREE" => pc'[u] = "none"
    BY <2>2, <2>3 DEF IInv, PcInv
  <2> QED
    BY <2>4, <2>5, <2>6, <2>7 DEF PcInv
<1>8. RunInv'
  BY <1>1, <1>2, <1>3, <1>4 DEF IInv, RunInv
<1>9. BootInv'
  BY <1>1, <1>2, <1>3, <1>4, <1>5 DEF IInv, BootInv
<1>10. ListInv'
  <2>1. \A u \in Thread : Waits(u) => u # t /\ u # c
    BY <1>1, <1>3, OffCpu
  <2>2. \A u \in Thread :
          u \in ToSet(ready_list') <=> status'[u] = "READY" /\ u # idle_thread
    BY <1>3, <1>4 DEF IInv, ListInv
  <2>3. \A u \in Thread :
          u \in ToSet(sleeping_list) => status'[u] = "BLOCKED" /\ pc'[u] = "run"
    BY <1>4, <1>5, <2>1 DEF IInv, ListInv, Waits
  <2>4. \A u \in Thread, s \in Sema :
          u \in ToSet(waiters[s]) => status'[u] = "BLOCKED" /\ pc'[u] = WaitLabel[s]
    BY <1>4, <1>5, <2>1 DEF IInv, ListInv, Waits
  <2>5. /\ sleeping_list' = sleeping_list /\ waiters' = waiters
        /\ idle_thread' = idle_thread
    BY <1>1 DEF sleepVars, semaVars
  <2>6. /\ IsInjective(ready_list') /\ IsInjective(sleeping_list)
        /\ \A s \in Sema : IsInjective(waiters[s])
    BY <1>4 DEF IInv, ListInv
  <2> QED
    BY <2>2, <2>3, <2>4, <2>5, <2>6 DEF ListInv
<1>11. BlockedInv'
  <2> SUFFICES ASSUME NEW u \in Thread \ {idle_thread}, status'[u] = "BLOCKED"
               PROVE  Waits(u)' \/ Embryo(u)'
    BY <1>1 DEF BlockedInv
  <2>1. u # c /\ status[u] = "BLOCKED"
    BY <1>4
  <2>2. Waits(u) \/ \E p \in Thread : child[p] = u
    BY <2>1 DEF IInv, BlockedInv, Embryo
  <2>3. ASSUME NEW p \in Thread, child[p] = u
        PROVE  child'[p] = u
    BY <1>5, <2>1, <2>3 DEF c
  <2> QED
    BY <1>1, <2>2, <2>3 DEF Waits, Embryo, sleepVars, semaVars
<1>12. ChildInv'
  <2>1. ASSUME NEW p \in Thread
        PROVE  child'[p] # None <=> pc'[p] \in CreateLabel
    <3>1. p # t /\ p # c => (child'[p] # None <=> pc'[p] \in CreateLabel)
      BY <1>5 DEF IInv, ChildInv
    <3>2. "run" \notin CreateLabel /\ "none" \notin CreateLabel
      BY DEF CreateLabel
    <3>3. child[c] = None
      BY <1>3, <3>2 DEF IInv, ChildInv
    <3> QED
      BY <1>3, <1>5, <3>1, <3>2, <3>3
  <2>2. ASSUME NEW p \in Thread, child'[p] # None
        PROVE  /\ p # t /\ child'[p] = child[p]
               /\ child[p] \in Thread /\ child[p] # t /\ child[p] # c
    BY <1>1, <1>3, <1>5, <2>2, OffCpu
  <2>3. ASSUME NEW p \in Thread, child'[p] # None
        PROVE  /\ child'[p] \notin {main, idle}
               /\ status'[child'[p]] = "BLOCKED" /\ pc'[child'[p]] = "none"
    BY <1>4, <1>5, <2>2, <2>3 DEF IInv, ChildInv
  <2>4. ASSUME NEW p \in Thread, child'[p] # None, NEW q \in Thread, child'[q] = child'[p]
        PROVE  q = p
    BY <2>2, <2>4 DEF IInv, ChildInv
  <2> QED
    BY <2>1, <2>3, <2>4 DEF ChildInv
<1> QED
  BY <1>6, <1>7, <1>8, <1>9, <1>10, <1>11, <1>12 DEF IInv

-----------------------------------------------------------------------------
LEMMA TimerInterruptInv ==
  ASSUME IInv, TimerInterrupt
  PROVE  IInv'
<1> DEFINE l == IF pc[current] = "hlt" THEN "idle_loop" ELSE pc[current]
<1>1. /\ current \in Thread /\ pc \in [Thread -> Label] /\ pc[current] \notin IntrOff
      /\ pc' = [pc EXCEPT ![current] = l]
      /\ UNCHANGED <<current, status, ready_list, sleepVars, semaVars, tidVars, idle_thread>>
      /\ status[current] = "RUNNING"
  BY DEF TimerInterrupt, IInv, TypeOK, RunInv
<1>2. /\ ticks' \in Nat /\ thread_ticks' \in Nat /\ in_intr' \in BOOLEAN
      /\ yield_on_return' \in BOOLEAN
  BY DEF TimerInterrupt, IInv, TypeOK
<1>3. MayGo(l)
  <2>1. pc[current] # "boot" /\ pc[main] # "boot"
    BY <1>1 DEF IInv, BootInv, IntrOff
  <2>2. CASE pc[current] = "hlt"
    <3>1. current = idle /\ l = "idle_loop" /\ idle_thread # None
      BY <1>1, <2>1, <2>2 DEF IInv, PcInv, BootInv, IdleLabel
    <3> QED
      <4>1. /\ "idle_loop" \in IdleLabel /\ "idle_loop" \in Label /\ "idle_loop" # "boot"
            /\ ~ ("idle_loop" \in CreateLabel) /\ "idle_loop" \notin BootLabel
            /\ ~ (pc[current] \in CreateLabel)
        BY <2>2, LabelLemma DEF IdleLabel, BootLabel, CreateLabel
      <4> QED
        BY <1>1, <2>1, <3>1, <4>1 DEF MayGo
  <2>3. CASE pc[current] # "hlt"
    <3>1. l = pc[current]
      BY <2>3
    <3>2. /\ current = idle => pc[current] \in IdleLabel
          /\ current = idle /\ idle_thread = None => pc[current] = "idle_start"
          /\ current # idle => pc[current] \notin IdleLabel
          /\ current # main => pc[current] \notin BootLabel
      BY <1>1, <2>1 DEF IInv, PcInv, BootInv
    <3> QED
      BY <1>1, <2>1, <3>1, <3>2 DEF MayGo
  <2> QED
    BY <2>2, <2>3
<1> HIDE DEF l
<1>4. pc' \in [Thread -> Label]
  BY <1>1, <1>3 DEF MayGo
<1>5. TypeOK'
  BY <1>1, <1>2, <1>4 DEF IInv, TypeOK, sleepVars, semaVars, tidVars
<1> QED
  BY <1>1, <1>3, <1>5, LocalFrame DEF IInv, sleepVars, semaVars, tidVars

LEMMA AwakeInv ==
  ASSUME IInv, NEW i \in DOMAIN sleeping_list, Awake(i), pc[current] \notin IntrOff
  PROVE  IInv'
<1> DEFINE u == sleeping_list[i]
<1>1. /\ sleeping_list' = RemoveAt(sleeping_list, i)
      /\ thread_unblock(u)
      /\ deadline' = [deadline EXCEPT ![u] = 0]
      /\ UNCHANGED <<intrVars, sleeping_ticks, semaVars, tidVars, pc, idle_thread>>
  BY DEF Awake
<1>2. /\ sleeping_list \in Seq(Thread) /\ IsInjective(sleeping_list)
      /\ \A s \in Sema : IsInjective(waiters[s])
      /\ current \in Thread /\ pc \in [Thread -> Label] /\ status[current] = "RUNNING"
      /\ deadline \in [Thread -> Int]
  BY DEF IInv, TypeOK, ListInv, RunInv
<1>3. /\ u \in Thread /\ u \in ToSet(sleeping_list)
      /\ RemoveAt(sleeping_list, i) \in Seq(Thread)
      /\ ToSet(RemoveAt(sleeping_list, i)) = ToSet(sleeping_list) \ {u}
      /\ IsInjective(RemoveAt(sleeping_list, i))
  BY <1>2, UnlinkElems
<1> HIDE DEF u
<1>4. \A s \in Sema : u \notin ToSet(waiters[s])
  BY <1>3 DEF IInv, ListInv, WaitLabel, Sema
<1>5. MayGo(pc[current])
  <2>1. pc[current] # "boot" /\ pc[main] # "boot"
    BY DEF IInv, BootInv, IntrOff
  <2>2. /\ current = idle => pc[current] \in IdleLabel
        /\ current = idle /\ idle_thread = None => pc[current] = "idle_start"
        /\ current # idle => pc[current] \notin IdleLabel
        /\ current # main => pc[current] \notin BootLabel
    BY <1>2, <2>1 DEF IInv, PcInv, BootInv
  <2> QED
    BY <1>1, <1>2, <2>1, <2>2 DEF MayGo
<1>6. Waits(u)
  BY <1>3 DEF Waits
<1>7. /\ PcInv' /\ RunInv' /\ BootInv' /\ ListInv' /\ BlockedInv' /\ ChildInv'
      /\ ready_list' \in Seq(Thread) /\ status' \in [Thread -> Status]
      /\ UNCHANGED <<current, thread_ticks>>
  BY <1>1, <1>2, <1>3, <1>4, <1>5, <1>6, UnblockFrame DEF semaVars, tidVars
<1>8. TypeOK'
  <2>1. deadline' \in [Thread -> Int] /\ sleeping_list' \in Seq(Thread)
    BY <1>1, <1>2, <1>3
  <2>2. current' \in Thread
    BY <1>7 DEF RunInv
  <2> QED
    BY <1>1, <1>7, <2>1, <2>2 DEF IInv, TypeOK, intrVars, semaVars, tidVars
<1> QED
  BY <1>7, <1>8 DEF IInv

LEMMA IntrReturnInv ==
  ASSUME IInv, IntrInv, IntrReturn, in_intr
  PROVE  IInv'
<1>1. /\ current \in Thread /\ pc[current] # "boot"
      /\ in_intr' \in BOOLEAN /\ yield_on_return' \in BOOLEAN /\ ticks' \in Nat
      /\ UNCHANGED <<ticks, sleepVars, semaVars, tidVars, pc, idle_thread>>
  BY DEF IntrReturn, IInv, TypeOK, RunInv, IntrInv, IntrOff
<1>2. CASE thread_yield(current)
  BY <1>1, <1>2, YieldInv
<1>3. CASE UNCHANGED schedVars
  <2>1. TypeOK'
    BY <1>1, <1>3 DEF IInv, TypeOK, schedVars, sleepVars, semaVars, tidVars
  <2> QED
    BY <1>1, <1>3, <2>1 DEF IInv, PcInv, RunInv, BootInv, ListInv, BlockedInv, ChildInv,
       Waits, Embryo, schedVars, sleepVars, semaVars, tidVars
<1> QED
  BY <1>2, <1>3 DEF IntrReturn

\* The bookkeeping of the interrupt handler: it only interrupts code with
\* interrupts on, and leaves no thread with a used-up time slice on the CPU.
LEMMA IntrStep ==
  ASSUME IInv, IntrInv, QuantumBound, [Next]_vars
  PROVE  IntrInv' /\ QuantumBound'
<1> USE NumberAssumption
<1>1. CASE \E t \in Thread : InCall(t) \/ Call(t)
  <2>1. /\ ~ in_intr /\ in_intr' = in_intr
        /\ thread_ticks' = thread_ticks \/ thread_ticks' = 0
    <3> USE DEF Running, intrVars, schedVars
    <3>1. PICK t \in Thread : InCall(t) \/ Call(t)
      BY <1>1
    <3>2. CASE InCall(t)
      <4>1. CASE BootCreate \/ IdleUp(t) \/ TidRead(t) \/ TidWrite(t) \/ TidUp(t)
        BY <4>1 DEF BootCreate, IdleUp, TidRead, TidWrite, TidUp, sema_up, thread_unblock
      <4>2. CASE BootDown \/ IdleStart(t) \/ IdleBlock(t) \/ SleepBlock(t)
        BY <4>2 DEF BootDown, IdleStart, IdleBlock, SleepBlock, sema_down, thread_block, Schedule
      <4>3. CASE TidDown(t) \/ CreateUnblock(t)
        BY <4>3 DEF TidDown, CreateUnblock, sema_down, thread_block, thread_unblock, Schedule
      <4> QED
        BY <3>2, <4>1, <4>2, <4>3 DEF InCall
    <3>3. CASE Call(t)
      BY <3>3
         DEF Call, SleepStart, Yield, thread_exit, CreateInit, thread_yield, Schedule
    <3> QED
      BY <3>1, <3>2, <3>3
  <2> QED
    BY <2>1 DEF IntrInv, QuantumBound
<1>2. CASE TimerInterrupt
  <2>1. /\ in_intr' = TRUE /\ current' = current /\ current \in Thread
        /\ pc \in [Thread -> Label]
        /\ pc'[current] = pc[current] \/ pc'[current] = "idle_loop"
        /\ pc[current] \notin IntrOff
    BY <1>2 DEF TimerInterrupt, IInv, TypeOK, RunInv
  <2>2. IntrInv'
    BY <2>1 DEF IntrInv, IntrOff
  <2>3. QuantumBound'
    <3>1. /\ thread_ticks \in Nat /\ TIME_SLICE \in Nat /\ thread_ticks < TIME_SLICE
          /\ thread_ticks' = thread_ticks + 1
      BY <1>2 DEF TimerInterrupt, QuantumBound, IInv, TypeOK
    <3>2. yield_on_return' = (thread_ticks' >= TIME_SLICE)
      BY <1>2 DEF TimerInterrupt
    <3>3. thread_ticks' >= TIME_SLICE => yield_on_return'
      BY <3>2
    <3> QED
      BY <2>1, <3>1, <3>3 DEF QuantumBound
  <2> QED
    BY <2>2, <2>3
<1>3. CASE \E i \in DOMAIN sleeping_list : Awake(i)
  BY <1>3 DEF Awake, thread_unblock, intrVars, IntrInv, QuantumBound
<1>4. CASE IntrReturn
  <2>1. in_intr' = FALSE
    BY <1>4 DEF IntrReturn
  <2>2. CASE thread_yield(current)
    <3>1. thread_ticks' = 0
      BY <2>2 DEF thread_yield, Schedule
    <3> QED
      BY <2>1, <3>1 DEF IntrInv, QuantumBound
  <2>3. CASE ~ yield_on_return /\ UNCHANGED schedVars
    <3>1. thread_ticks' = thread_ticks /\ thread_ticks # TIME_SLICE
      BY <2>3 DEF QuantumBound, schedVars
    <3> QED
      BY <2>1, <3>1 DEF IntrInv, QuantumBound
  <2> QED
    BY <1>4, <2>2, <2>3 DEF IntrReturn
<1>5. CASE UNCHANGED vars
  BY <1>5 DEF vars, schedVars, intrVars, IntrInv, QuantumBound
<1> QED
  BY <1>1, <1>2, <1>3, <1>4, <1>5 DEF Next, Interrupt

LEMMA IInvStep ==
  ASSUME IInv, IntrInv, [Next]_vars
  PROVE  IInv'
<1>1. ASSUME NEW t \in Thread, InCall(t)
      PROVE  IInv'
  BY <1>1, BootCreateInv, SemaCallsInv, IdleStartInv, IdleBlockInv, SleepBlockInv,
     LocalStepInv, CreateUnblockInv DEF InCall
<1>2. ASSUME NEW t \in Thread, Call(t)
      PROVE  IInv'
  <2>1. CASE Yield(t)
    BY <2>1, YieldInv DEF Yield, Running, intrVars, IInv, TypeOK
  <2> QED
    BY <1>2, <2>1, LocalStepInv, ExitInv, CreateInitInv DEF Call
<1>3. CASE Interrupt
  <2>1. ASSUME NEW i \in DOMAIN sleeping_list, Awake(i)
        PROVE  IInv'
    BY <2>1, AwakeInv DEF Awake, IntrInv
  <2> QED
    BY <1>3, <2>1, TimerInterruptInv, IntrReturnInv DEF Interrupt, IntrReturn
<1>4. CASE UNCHANGED vars
  <2> USE <1>4 DEF vars, schedVars, intrVars, sleepVars, semaVars, tidVars
  <2>1. TypeOK'
    BY DEF IInv, TypeOK
  <2>2. PcInv' /\ RunInv' /\ BootInv'
    BY DEF IInv, PcInv, RunInv, BootInv
  <2>3. ListInv' /\ BlockedInv'
    BY DEF IInv, ListInv, BlockedInv, Waits, Embryo
  <2>4. ChildInv'
    BY DEF IInv, ChildInv
  <2> QED
    BY <2>1, <2>2, <2>3, <2>4 DEF IInv
<1> QED
  BY <1>1, <1>2, <1>3, <1>4 DEF Next

-----------------------------------------------------------------------------
(***************************************************************************)
(* allocate_tid().                                                         *)
(***************************************************************************)

\* A step of the running thread outside allocate_tid().
LEMMA TidFrame ==
  ASSUME IInv, TidLockInv, TidInv, NEW t \in Thread, current = t, NEW l,
         {pc[t], l} \intersect (TidLabel \union {"unblock", "boot"}) = {},
         pc' = [pc EXCEPT ![t] = l],
         value'["tid_lock"] = value["tid_lock"], UNCHANGED <<tid, next_tid, new_tid>>
  PROVE  TidLockInv' /\ TidInv'
<1>1. /\ pc[main] # "boot"
      /\ \A u \in Thread : pc'[u] = IF u = t THEN l ELSE pc[u]
      /\ {pc[t], l} \intersect {"tid_read", "tid_write", "tid_up", "unblock", "boot"} = {}
  BY DEF IInv, BootInv, TypeOK, TidLabel
<1>2. TidLockInv'
  BY <1>1 DEF TidLockInv, TidLabel
<1>3. TidInv'
  <2>1. \A u \in Thread : /\ HasTid(u)' <=> HasTid(u)
                          /\ pc'[u] = "tid_write" <=> pc[u] = "tid_write"
    BY <1>1 DEF HasTid
  <2> QED
    BY <2>1 DEF TidInv
<1> QED
  BY <1>2, <1>3

\* Taking and giving back tid_lock.
LEMMA TidLockStep ==
  ASSUME IInv, TidLockInv, TidInv, NEW t \in Thread, TidDown(t) \/ TidUp(t)
  PROVE  TidLockInv' /\ TidInv'
<1>1. /\ current = t /\ pc \in [Thread -> Label] /\ value \in [Sema -> Nat]
      /\ UNCHANGED <<tid, next_tid, new_tid>>
      /\ pc[t] \in {"tid_down", "tid_recheck", "tid_up"} /\ "tid_lock" \in Sema
  BY DEF TidDown, TidUp, sema_down, Running, IInv, TypeOK, tidVars, Sema
<1>2. pc[main] # "boot"
  BY <1>1 DEF IInv, BootInv
<1>3. CASE /\ pc[t] \in {"tid_down", "tid_recheck"}
           /\ value["tid_lock"] = 0 /\ value' = value /\ pc' = [pc EXCEPT ![t] = "tid_recheck"]
  BY <1>1, <1>3, TidFrame DEF TidLabel
<1>4. CASE /\ pc[t] \in {"tid_down", "tid_recheck"}
           /\ value["tid_lock"] > 0
           /\ value' = [value EXCEPT !["tid_lock"] = @ - 1]
           /\ pc' = [pc EXCEPT ![t] = "tid_read"]
  <2>1. /\ value'["tid_lock"] = 0
        /\ \A u \in Thread : pc'[u] = IF u = t THEN "tid_read" ELSE pc[u]
        /\ \A u \in Thread : pc[u] \notin TidLabel
    BY <1>1, <1>4 DEF TidLockInv
  <2>2. TidLockInv'
    BY <1>2, <2>1 DEF TidLockInv
  <2>3. TidInv'
    BY <1>1, <1>4, <2>1 DEF TidInv, HasTid
  <2> QED
    BY <2>2, <2>3
<1>5. CASE /\ pc[t] = "tid_up"
           /\ value' = [value EXCEPT !["tid_lock"] = @ + 1]
           /\ pc' = [pc EXCEPT ![t] = "unblock"]
  <2>1. /\ value'["tid_lock"] = 1
        /\ \A u \in Thread : pc'[u] = IF u = t THEN "unblock" ELSE pc[u]
        /\ \A u \in Thread \ {t} : pc[u] \notin TidLabel
    BY <1>1, <1>5 DEF TidLockInv, TidLabel
  <2>2. TidLockInv'
    BY <1>2, <2>1 DEF TidLockInv, TidLabel
  <2>3. TidInv'
    BY <1>1, <1>5, <2>1 DEF TidInv, HasTid
  <2> QED
    BY <2>2, <2>3
<1> QED
  BY <1>1, <1>3, <1>4, <1>5
     DEF TidDown, TidUp, sema_down, sema_up, Goto

\* tid = next_tid++: the read, and the write that the lock keeps up to date.
LEMMA TidCountStep ==
  ASSUME IInv, TidLockInv, TidInv, NEW t \in Thread, TidRead(t) \/ TidWrite(t)
  PROVE  TidLockInv' /\ TidInv'
<1>1. /\ current = t /\ pc \in [Thread -> Label] /\ value' = value /\ tid' = tid
      /\ next_tid \in Nat /\ new_tid \in [Thread -> Nat] /\ tid \in [Thread -> Nat]
  BY DEF TidRead, TidWrite, Running, IInv, TypeOK, semaVars
<1>2. pc[main] # "boot" /\ pc[t] \in TidLabel
  BY <1>1 DEF IInv, BootInv, TidRead, TidWrite, TidLabel
<1>3. \A u \in Thread \ {t} : pc[u] \notin TidLabel
  BY <1>2 DEF TidLockInv
<1>4. CASE TidRead(t)
  <2>1. /\ \A u \in Thread : pc'[u] = IF u = t THEN "tid_write" ELSE pc[u]
        /\ \A u \in Thread : new_tid'[u] = IF u = t THEN next_tid ELSE new_tid[u]
        /\ next_tid' = next_tid
    BY <1>1, <1>4 DEF TidRead, Goto
  <2>2. TidLockInv'
    BY <1>1, <1>2, <1>3, <2>1 DEF TidLockInv, TidLabel
  <2>3. TidInv'
    BY <1>1, <1>3, <2>1 DEF TidInv, HasTid, TidLabel
  <2> QED
    BY <2>2, <2>3
<1>5. CASE TidWrite(t)
  <2>1. /\ \A u \in Thread : pc'[u] = IF u = t THEN "tid_up" ELSE pc[u]
        /\ pc[t] = "tid_write"
        /\ next_tid' = new_tid[t] + 1
        /\ new_tid' = new_tid
    BY <1>1, <1>5 DEF TidWrite, Goto
  <2>2. TidLockInv'
    BY <1>1, <1>2, <1>3, <2>1 DEF TidLockInv, TidLabel
  <2>3. new_tid[t] = next_tid /\ next_tid' = next_tid + 1
    BY <2>1 DEF TidInv
  <2>4. \A u \in Thread : tid[u] < next_tid /\ tid[u] < next_tid + 1
    BY <1>1 DEF TidInv
  <2>5. \A u \in Thread \ {t} :
          (HasTid(u)' <=> HasTid(u))
            /\ (HasTid(u) => 0 < new_tid[u] /\ new_tid[u] < next_tid)
    BY <2>1 DEF TidInv, HasTid
  <2>6. \A u \in Thread : pc'[u] # "tid_write"
    BY <1>3, <2>1 DEF TidLabel
  <2>7. \A u \in Thread : HasTid(u)' => 0 < new_tid'[u] /\ new_tid'[u] < next_tid'
    BY <1>1, <2>1, <2>3, <2>5 DEF TidInv
  <2>8. \A u, v \in Thread : HasTid(u)' => tid'[v] # new_tid'[u]
    BY <1>1, <2>1, <2>3, <2>4, <2>5 DEF TidInv
  <2>9. \A u, v \in Thread : u # v /\ HasTid(u)' /\ HasTid(v)' => new_tid'[u] # new_tid'[v]
    BY <1>1, <2>1, <2>3, <2>5 DEF TidInv
  <2> QED
    BY <1>1, <2>2, <2>3, <2>4, <2>6, <2>7, <2>8, <2>9 DEF TidInv
<1> QED
  BY <1>4, <1>5

\* The statements of thread_start() and thread_create() that give a thread its tid.
LEMMA TidStoreStep ==
  ASSUME IInv, TidLockInv, TidInv, NEW t \in Thread,
         (t = main /\ BootCreate) \/ CreateInit(t) \/ CreateUnblock(t)
  PROVE  TidLockInv' /\ TidInv'
<1>1. /\ current = t /\ pc \in [Thread -> Label] /\ value' = value
      /\ next_tid \in Nat /\ new_tid \in [Thread -> Nat] /\ tid \in [Thread -> Nat]
  BY DEF BootCreate, CreateInit, CreateUnblock, Running, IInv, TypeOK, semaVars
<1>2. CASE t = main /\ BootCreate
  <2>1. /\ pc[main] = "boot" /\ next_tid' = next_tid + 1 /\ new_tid' = new_tid
        /\ \A u \in Thread : pc'[u] =
             IF u = main THEN "boot_down" ELSE IF u = idle THEN "idle_start" ELSE pc[u]
        /\ \A u \in Thread : tid'[u] = IF u = idle THEN next_tid ELSE tid[u]
    BY <1>1, <1>2 DEF BootCreate
  <2>2. /\ \A u \in Thread : pc'[u] \in {"boot_down", "idle_start", "none"}
        /\ pc'[main] = "boot_down"
    BY <2>1 DEF TidLockInv
  <2>3. TidLockInv'
    BY <1>1, <2>2 DEF TidLockInv, TidLabel
  <2>4. TidInv'
    BY <1>1, <2>1, <2>2 DEF TidInv, HasTid
  <2> QED
    BY <2>3, <2>4
<1>3. CASE CreateInit(t)
  <2>1. PICK c \in Thread : tid' = [tid EXCEPT ![c] = 0]
    BY <1>3 DEF CreateInit
  <2>2. /\ next_tid' = next_tid /\ new_tid' = new_tid /\ pc[t] = "run" /\ pc[main] # "boot"
        /\ \A u \in Thread : pc'[u] = IF u = t THEN "tid_down" ELSE pc[u]
        /\ \A u \in Thread : tid'[u] = IF u = c THEN 0 ELSE tid[u]
    BY <1>1, <1>3, <2>1 DEF CreateInit, Goto, IInv, BootInv
  <2>3. TidLockInv'
    BY <1>1, <2>2 DEF TidLockInv, TidLabel
  <2>4. TidInv'
    BY <1>1, <2>2 DEF TidInv, HasTid
  <2> QED
    BY <2>3, <2>4
<1>4. CASE CreateUnblock(t)
  <2>1. child[t] \in Thread /\ pc[t] = "unblock" /\ pc[main] # "boot"
    BY <1>1, <1>4 DEF CreateUnblock, IInv, BootInv, ChildInv, CreateLabel, TypeOK
  <2>2. PICK c \in Thread : c = child[t]
    BY <2>1
  <2>3. /\ next_tid' = next_tid
        /\ \A u \in Thread : pc'[u] = IF u \in {t, c} THEN "run" ELSE pc[u]
        /\ \A u \in Thread : tid'[u] = IF u = c THEN new_tid[t] ELSE tid[u]
        /\ \A u \in Thread : new_tid'[u] = IF u = t THEN 0 ELSE new_tid[u]
    BY <1>1, <1>4, <2>1, <2>2 DEF CreateUnblock
  <2>4. TidLockInv'
    BY <1>1, <2>1, <2>3 DEF TidLockInv, TidLabel
  <2>5. HasTid(t)
    BY <2>1 DEF HasTid
  <2>6. \A u \in Thread : HasTid(u)' => HasTid(u) /\ u # t /\ new_tid'[u] = new_tid[u]
    BY <2>3 DEF HasTid
  <2>7. /\ next_tid' > 0
        /\ \A u \in Thread : tid'[u] < next_tid'
        /\ \A u \in Thread : pc'[u] = "tid_write" => new_tid'[u] = next_tid'
        /\ \A u \in Thread : HasTid(u)' => 0 < new_tid'[u] /\ new_tid'[u] < next_tid'
    BY <2>3, <2>5, <2>6 DEF TidInv
  <2>8. \A u, v \in Thread : HasTid(u)' => tid'[v] # new_tid'[u]
    BY <2>3, <2>5, <2>6 DEF TidInv
  <2>9. \A u, v \in Thread : u # v /\ HasTid(u)' /\ HasTid(v)' => new_tid'[u] # new_tid'[v]
    BY <2>6 DEF TidInv
  <2>10. \A u, v \in Thread : u # v /\ tid'[u] # 0 => tid'[u] # tid'[v]
    BY <2>3, <2>5 DEF TidInv
  <2> QED
    BY <2>4, <2>7, <2>8, <2>9, <2>10 DEF TidInv
<1> QED
  BY <1>2, <1>3, <1>4

\* The other steps of a thread.
LEMMA TidOtherStep ==
  ASSUME IInv, TidLockInv, TidInv, NEW t \in Thread,
         \/ t = main /\ BootDown
         \/ IdleStart(t) \/ IdleUp(t) \/ IdleBlock(t) \/ SleepBlock(t)
         \/ SleepStart(t) \/ Yield(t) \/ thread_exit(t)
  PROVE  TidLockInv' /\ TidInv'
<1>1. current = t /\ pc \in [Thread -> Label] /\ value \in [Sema -> Nat]
      /\ UNCHANGED <<tid, next_tid, new_tid>>
  BY DEF BootDown, IdleStart, IdleUp, IdleBlock, SleepBlock, SleepStart, Yield, thread_exit,
     sema_down, Running, IInv, TypeOK, tidVars
<1>2. value'["tid_lock"] = value["tid_lock"]
  BY <1>1 DEF BootDown, IdleStart, IdleUp, IdleBlock, SleepBlock, SleepStart, Yield,
     thread_exit, sema_down, sema_up, semaVars, Sema
<1> DEFINE Elsewhere == {"none", "run", "sleep", "boot_down", "boot_recheck", "idle_start",
                         "idle_up", "idle_loop", "hlt"}
<1>3. pc[t] \in Elsewhere /\ \E l \in Elsewhere : pc' = [pc EXCEPT ![t] = l]
  <2>1. CASE Yield(t)
    BY <1>1, <2>1 DEF Yield
  <2>2. CASE t = main /\ BootDown
    BY <2>2 DEF BootDown, sema_down, Goto
  <2> QED
    BY <2>1, <2>2 DEF IdleStart, IdleUp, IdleBlock, SleepBlock, SleepStart, thread_exit, Goto
<1>4. PICK l \in Elsewhere : pc' = [pc EXCEPT ![t] = l]
  BY <1>3
<1>5. {pc[t], l} \intersect (TidLabel \union {"unblock", "boot"}) = {}
  BY <1>3 DEF TidLabel
<1> QED
  BY <1>1, <1>2, <1>4, <1>5, TidFrame, Zenon

LEMMA TidStep ==
  ASSUME IInv, IntrInv, TidLockInv, TidInv, [Next]_vars
  PROVE  TidLockInv' /\ TidInv'
<1>1. ASSUME NEW t \in Thread, InCall(t) \/ Call(t)
      PROVE  TidLockInv' /\ TidInv'
  BY <1>1, TidLockStep, TidCountStep, TidStoreStep, TidOtherStep DEF InCall, Call
<1>2. CASE Interrupt \/ UNCHANGED vars
  <2>1. /\ UNCHANGED <<value, tid, next_tid, new_tid>>
        /\ pc' = pc \/ (TimerInterrupt /\ pc[current] = "hlt"
                          /\ pc' = [pc EXCEPT ![current] = "idle_loop"])
    BY <1>2 DEF Interrupt, TimerInterrupt, Awake, IntrReturn, vars, semaVars, tidVars
  <2>2. CASE pc' = pc
    BY <2>1, <2>2 DEF TidLockInv, TidInv, HasTid
  <2>3. CASE pc[current] = "hlt" /\ pc' = [pc EXCEPT ![current] = "idle_loop"]
    BY <2>1, <2>3, TidFrame DEF TidLabel, IInv, RunInv
  <2> QED
    BY <2>1, <2>2, <2>3
<1> QED
  BY <1>1, <1>2 DEF Next

-----------------------------------------------------------------------------
(***************************************************************************)
(* The theorems.                                                           *)
(***************************************************************************)

\* The inductive invariant holds in every reachable state of the kernel.
THEOREM Invariance == SafeSpec => [](IInv /\ IntrInv /\ QuantumBound)
<1>1. Init => IInv /\ IntrInv /\ QuantumBound
  <2>1. Init => IntrInv /\ QuantumBound
    BY NumberAssumption DEF Init, IntrInv, QuantumBound
  <2> QED
    BY <2>1, InitIInv
<1>2. IInv /\ IntrInv /\ QuantumBound /\ [Next]_vars => (IInv /\ IntrInv /\ QuantumBound)'
  BY IInvStep, IntrStep
<1> QED
  BY <1>1, <1>2, PTL DEF SafeSpec

\* Every variable keeps to the values the code can give it.
THEOREM TypeCorrect == SafeSpec => []TypeOK
<1>1. IInv => TypeOK
  BY DEF IInv
<1> QED
  BY <1>1, Invariance, PTL

\* schedule() never fails its ASSERT (is_thread (next)).
THEOREM SchedulerSound == SafeSpec => []SchedulerFindsThread
<1>1. IInv => SchedulerFindsThread
  BY DEF IInv, RunInv, SchedulerFindsThread
<1> QED
  BY <1>1, Invariance, PTL

\* Whatever the interleaving, no list element is ever on two lists, nor on a
\* list that does not match its thread's status.
THEOREM ListsSound == SafeSpec => []ElemInOneList
<1>1. IInv => ElemInOneList
  BY DEF IInv, ListInv, ElemInOneList, Waits, WaitLabel, Sema
<1> QED
  BY <1>1, Invariance, PTL

\* No ready or blocked thread is ever off all the lists it could be taken from.
THEOREM NobodyLost == SafeSpec => []NoThreadLost
<1>1. IInv => NoThreadLost
  BY DEF IInv, ListInv, BlockedInv, NoThreadLost
<1> QED
  BY <1>1, Invariance, PTL

\* The idle thread never reappears on the run queue.
THEOREM IdleOffQueue == SafeSpec => []IdleNeverReady
<1>1. IInv => IdleNeverReady
  BY DEF IInv, TypeOK, ListInv, IdleNeverReady
<1> QED
  BY <1>1, Invariance, PTL

\* No thread outlives its time slice.
THEOREM QuantumKept == SafeSpec => []QuantumBound
BY Invariance, PTL

\* allocate_tid(): no two threads have the same tid, wherever the timer interrupts.
THEOREM TidsUnique == SafeSpec => []UniqueTids
<1>1. Init => TidLockInv /\ TidInv
  <2> SUFFICES ASSUME Init PROVE TidLockInv /\ TidInv
    OBVIOUS
  <2>1. /\ \A t \in Thread : pc[t] = IF t = main THEN "boot" ELSE "none"
        /\ \A t \in Thread : tid[t] = IF t = main THEN 1 ELSE 0
        /\ value["tid_lock"] = 1 /\ next_tid = 2
    BY DEF Init, Sema
  <2> QED
    BY <2>1 DEF TidLockInv, TidInv, HasTid, TidLabel
<1>2. IInv /\ IntrInv /\ TidLockInv /\ TidInv /\ [Next]_vars => (TidLockInv /\ TidInv)'
  BY TidStep
<1>3. TidInv => UniqueTids
  BY DEF TidInv, UniqueTids
<1> QED
  BY <1>1, <1>2, <1>3, Invariance, PTL DEF SafeSpec

-----------------------------------------------------------------------------
(***************************************************************************)
(* Round robin.                                                            *)
(***************************************************************************)

\* From rl to new, nobody gets in front of a thread that stays.
Keeps(rl, new) ==
  \A t, u \in Thread :
    t \in ToSet(rl) /\ t \in ToSet(new) /\ Before(u, t, new) => Before(u, t, rl)

\* The run queue after somebody has been popped off it, if there is anybody.
Popped(rl) == IF rl = <<>> THEN rl ELSE Tail(rl)

LEMMA AppendKeeps ==
  ASSUME NEW rl \in Seq(Thread), NEW x \in Thread, x \notin ToSet(rl)
  PROVE  Keeps(rl, Append(rl, x))
<1> SUFFICES ASSUME NEW t \in Thread, NEW u \in Thread, t \in ToSet(rl),
                    NEW i \in DOMAIN Append(rl, x), NEW j \in DOMAIN Append(rl, x), i < j,
                    Append(rl, x)[i] = u, Append(rl, x)[j] = t
             PROVE  Before(u, t, rl)
  BY DEF Keeps, Before
<1>1. t # x /\ j # Len(rl) + 1
  OBVIOUS
<1>2. i \in DOMAIN rl /\ j \in DOMAIN rl
  BY <1>1
<1>3. rl[i] = u /\ rl[j] = t
  BY <1>2
<1> QED
  BY <1>2, <1>3 DEF Before

LEMMA PopKeeps ==
  ASSUME NEW rl \in Seq(Thread)
  PROVE  \A t, u \in Thread : Before(u, t, Popped(rl)) => Before(u, t, rl)
<1> SUFFICES ASSUME NEW t \in Thread, NEW u \in Thread, rl # <<>>,
                    NEW i \in DOMAIN Tail(rl), NEW j \in DOMAIN Tail(rl), i < j,
                    Tail(rl)[i] = u, Tail(rl)[j] = t
             PROVE  Before(u, t, rl)
  BY DEF Popped, Before
<1>1. i + 1 \in DOMAIN rl /\ j + 1 \in DOMAIN rl /\ i + 1 < j + 1
  OBVIOUS
<1>2. rl[i + 1] = u /\ rl[j + 1] = t
  OBVIOUS
<1> QED
  BY <1>1, <1>2 DEF Before

LEMMA SwitchKeeps ==
  ASSUME IInv, NEW st, Schedule(ready_list, st)
  PROVE  Keeps(ready_list, ready_list')
<1>1. ready_list \in Seq(Thread) /\ ready_list' = Popped(ready_list)
  BY DEF IInv, TypeOK, Schedule, Popped
<1> QED
  BY <1>1, PopKeeps DEF Keeps

LEMMA YieldKeeps ==
  ASSUME IInv, NEW t \in Thread, current = t, thread_yield(t)
  PROVE  Keeps(ready_list, ready_list')
<1>1. CASE t = idle_thread
  BY <1>1, SwitchKeeps DEF thread_yield
<1>2. CASE t # idle_thread
  <2> DEFINE rl == Append(ready_list, t)
  <2>1. ready_list \in Seq(Thread) /\ t \notin ToSet(ready_list)
    BY DEF IInv, TypeOK, ListInv, RunInv
  <2>2. rl \in Seq(Thread) /\ ready_list' = Popped(rl)
    BY <1>2, <2>1 DEF thread_yield, Schedule, Popped
  <2>3. Keeps(ready_list, rl)
    BY <2>1, AppendKeeps
  <2>4. rl # <<>> /\ ToSet(Popped(rl)) \subseteq ToSet(rl)
    BY <2>1, <2>2 DEF Popped, ToSet
  <2> HIDE DEF rl
  <2> QED
    BY <2>2, <2>3, <2>4, PopKeeps DEF Keeps
<1> QED
  BY <1>1, <1>2

LEMMA UnblockKeeps ==
  ASSUME IInv, NEW u \in Thread, status[u] # "READY", thread_unblock(u)
  PROVE  Keeps(ready_list, ready_list')
<1>1. ready_list \in Seq(Thread) /\ u \notin ToSet(ready_list)
  BY DEF IInv, TypeOK, ListInv
<1> QED
  BY <1>1, AppendKeeps DEF thread_unblock

LEMMA UpKeeps ==
  ASSUME IInv, NEW s \in Sema, sema_up(s)
  PROVE  Keeps(ready_list, ready_list')
<1>1. CASE waiters[s] = <<>> /\ UNCHANGED schedVars
  BY <1>1 DEF Keeps, schedVars
<1>2. CASE waiters[s] # <<>> /\ thread_unblock(Head(waiters[s]))
  <2>1. waiters[s] \in Seq(Thread) /\ IsInjective(waiters[s])
    BY DEF IInv, TypeOK, ListInv
  <2>2. Head(waiters[s]) \in Thread /\ Head(waiters[s]) \in ToSet(waiters[s])
    BY <1>2, <2>1, PopElems
  <2>3. status[Head(waiters[s])] = "BLOCKED"
    BY <2>2 DEF IInv, ListInv
  <2> QED
    BY <1>2, <2>2, <2>3, UnblockKeeps
<1> QED
  BY <1>1, <1>2 DEF sema_up

LEMMA DownKeeps ==
  ASSUME IInv, NEW t, NEW s, NEW start, NEW again, NEW done,
         sema_down(t, s, start, again, done)
  PROVE  Keeps(ready_list, ready_list')
BY SwitchKeeps DEF sema_down, thread_block, Keeps, schedVars

LEMMA KeepsStep ==
  ASSUME IInv, [Next]_vars
  PROVE  Keeps(ready_list, ready_list')
<1>1. ASSUME UNCHANGED ready_list
      PROVE  Keeps(ready_list, ready_list')
  BY <1>1 DEF Keeps
<1>2. ASSUME NEW t \in Thread, InCall(t)
      PROVE  Keeps(ready_list, ready_list')
  <2>1. CASE t = main /\ BootCreate
    <3>1. status[idle] = "FREE" /\ idle \in Thread
      BY <2>1 DEF BootCreate, IInv, BootInv
    <3> QED
      BY <2>1, <3>1, UnblockKeeps DEF BootCreate
  <2>2. CASE (t = main /\ BootDown) \/ TidDown(t)
    BY <2>2, DownKeeps DEF BootDown, TidDown
  <2>3. CASE IdleUp(t) \/ TidUp(t)
    BY <2>3, UpKeeps DEF IdleUp, TidUp, Sema
  <2>4. CASE IdleBlock(t) \/ SleepBlock(t)
    BY <2>4, SwitchKeeps DEF IdleBlock, SleepBlock, thread_block
  <2>5. CASE IdleStart(t) \/ TidRead(t) \/ TidWrite(t)
    BY <1>1, <2>5 DEF IdleStart, TidRead, TidWrite, schedVars
  <2>6. CASE CreateUnblock(t)
    <3>1. pc[t] = "unblock" /\ thread_unblock(child[t])
      BY <2>6 DEF CreateUnblock
    <3>2. child[t] \in Thread /\ status[child[t]] = "BLOCKED"
      BY <3>1 DEF IInv, TypeOK, ChildInv, CreateLabel
    <3> QED
      BY <3>1, <3>2, UnblockKeeps
  <2> QED
    BY <1>2, <2>1, <2>2, <2>3, <2>4, <2>5, <2>6 DEF InCall
<1>3. ASSUME NEW t \in Thread, Call(t)
      PROVE  Keeps(ready_list, ready_list')
  <2>1. CASE SleepStart(t) \/ CreateInit(t)
    BY <1>1, <2>1 DEF SleepStart, CreateInit, schedVars
  <2>2. CASE Yield(t)
    BY <2>2, YieldKeeps DEF Yield, Running
  <2>3. CASE thread_exit(t)
    BY <2>3, SwitchKeeps DEF thread_exit
  <2> QED
    BY <1>3, <2>1, <2>2, <2>3 DEF Call
<1>4. CASE Interrupt
  <2>1. CASE TimerInterrupt
    BY <1>1, <2>1 DEF TimerInterrupt
  <2>2. ASSUME NEW i \in DOMAIN sleeping_list, Awake(i)
        PROVE  Keeps(ready_list, ready_list')
    <3>1. sleeping_list[i] \in Thread /\ sleeping_list[i] \in ToSet(sleeping_list)
      BY DEF IInv, TypeOK, ToSet
    <3>2. status[sleeping_list[i]] = "BLOCKED"
      BY <3>1 DEF IInv, ListInv
    <3> QED
      BY <2>2, <3>1, <3>2, UnblockKeeps DEF Awake
  <2>3. CASE IntrReturn
    <3>1. current \in Thread
      BY DEF IInv, RunInv
    <3> QED
      BY <1>1, <2>3, <3>1, YieldKeeps DEF IntrReturn, schedVars
  <2> QED
    BY <1>4, <2>1, <2>2, <2>3 DEF Interrupt
<1> QED
  BY <1>1, <1>2, <1>3, <1>4 DEF Next, vars, schedVars

\* Nobody gets in front of a queued thread who was not there before: thread_unblock()
\* and thread_yield() append, and whoever they append was not on the queue.
THEOREM RoundRobin == SafeSpec => NotOvertaken
<1>1. IInv /\ [Next]_vars =>
        [\A t, u \in Thread :
           t \in ToSet(ready_list) /\ t \in ToSet(ready_list')
             /\ Before(u, t, ready_list') => Before(u, t, ready_list)]_vars
  BY KeepsStep DEF Keeps
<1> QED
  BY <1>1, Invariance, PTL DEF SafeSpec, NotOvertaken
=============================================================================
