---------------------------- MODULE ProcessProofs ----------------------------
(***************************************************************************)
(* For any number of pages and processes: the semaphores in a struct       *)
(* thread pair each parent with its child, no struct thread is freed while *)
(* a pointer to it may be followed, what parents and children see of each  *)
(* other is what the abstract ProcessTable promises, and process_execute() *)
(* returns the new tid or -1 unless an older child has failed.             *)
(***************************************************************************)
EXTENDS Process, ListLemmas, TLAPS

-----------------------------------------------------------------------------
(***************************************************************************)
(* The invariant.                                                          *)
(***************************************************************************)

\* A page without a thread has no tid.
LiveInv == \A t \in Thread : pc[t] = "none" <=> tid[t] = 0

\* allocate_tid(): nobody else has the tid of a thread.
TidInv ==
  /\ \A t \in Thread : tid[t] < next_tid
  /\ \A t, u \in Thread : tid[t] = tid[u] /\ Live(t) => t = u

\* A thread on a list of children is there, is there once, and points back.
ChildInv ==
  \A t \in Thread :
    /\ IsInjective(child[t])
    /\ \A c \in ToSet(child[t]) : Live(c) /\ parent[c] = t

\* process_wait(): `t' is a child, on the list until it is removed from it.
Waits(t) == pc[t] \in WaitLabel
WaitInv ==
  \A t \in Thread : Waits(t) =>
    /\ wait_on[t] \in Thread
    /\ Live(wait_on[t])
    /\ parent[wait_on[t]] = t
    /\ wait_on[t] \in ToSet(child[t]) <=> pc[t] # "wait_up"

\* child_lock is up from the end of a thread until its parent has seen it,
\* mem_lock from when the parent has done with it.
Takes(t) == pc[t] \in {"wait_read", "wait_remove", "wait_up"}
ExitInv ==
  \A c \in Thread :
    /\ pc[c] # "exit_down" => child_lock[c] = 0 /\ mem_lock[c] = 0
    /\ mem_lock[c] # 0 => child_lock[c] = 0 /\ \A t \in Thread : c \notin ToSet(child[t])
    /\ \A t \in Thread :
         Takes(t) /\ wait_on[t] = c =>
           pc[c] = "exit_down" /\ child_lock[c] = 0 /\ mem_lock[c] = 0

\* load_lock: a thread that is being loaded has its parent wait for it alone.
Loads(c) == pc[c] \in {"start", "load_up"}
LoadInv ==
  /\ \A c \in Thread : Loads(c) =>
       /\ parent[c] \in Thread
       /\ pc[parent[c]] = "load_down"
       /\ load_lock[parent[c]] = 0
  /\ \A c, d \in Thread : Loads(c) /\ Loads(d) /\ parent[c] = parent[d] => c = d
  /\ \A t \in Thread : load_lock[t] # 0 => pc[t] = "load_down"

Struct == LiveInv /\ TidInv /\ ChildInv /\ WaitInv /\ ExitInv /\ LoadInv
Inv == TypeOK /\ Struct

-----------------------------------------------------------------------------
(***************************************************************************)
(* Steps that leave the struct threads alone.                              *)
(***************************************************************************)

Quiet == {"user", "scan", "find", "load_exit", "exit_up"}

links == <<tid, next_tid, parent, child, semas, wait_on>>

LEMMA QuietStep ==
  ASSUME TypeOK, Struct, NEW t \in Thread, NEW l \in Quiet \union {"load_down"},
         pc[t] \in Quiet, Goto(t, l), UNCHANGED links
  PROVE  Struct'
<1>1. \A u \in Thread : pc'[u] = IF u = t THEN l ELSE pc[u]
  BY DEF TypeOK, Goto
<1>2. UNCHANGED <<tid, next_tid, parent, child, child_lock, mem_lock, load_lock, wait_on>>
  BY DEF links, fields, semas
<1>3. LiveInv' /\ TidInv' /\ ChildInv'
  BY <1>1, <1>2 DEF Struct, LiveInv, TidInv, ChildInv, Live, Quiet
<1>4. \A u \in Thread : (Waits(u)' <=> Waits(u)) /\ (Takes(u)' <=> Takes(u))
                        /\ (Loads(u)' <=> Loads(u))
  BY <1>1 DEF Waits, Takes, Loads, WaitLabel, Quiet
<1>5. WaitInv'
  BY <1>1, <1>2, <1>4 DEF Struct, WaitInv, Live, Waits, WaitLabel, Quiet
<1>6. ExitInv'
  BY <1>1, <1>2, <1>4 DEF Struct, ExitInv, Quiet
<1>7. LoadInv'
  BY <1>1, <1>2, <1>4 DEF Struct, LoadInv, Quiet
<1> QED
  BY <1>3, <1>5, <1>6, <1>7 DEF Struct

\* A step that does not even change where the thread is.
LEMMA StructSame ==
  ASSUME Struct, UNCHANGED <<links, pc>>
  PROVE  Struct'
<1>1. UNCHANGED <<tid, next_tid, parent, child, child_lock, mem_lock, load_lock, wait_on, pc>>
  BY DEF links, fields, semas
<1> QED
  BY <1>1 DEF Struct, LiveInv, TidInv, ChildInv, WaitInv, ExitInv, LoadInv, Live, Waits, Takes, Loads

LEMMA Labels ==
  /\ Quiet \subseteq Label
  /\ WaitLabel \subseteq Label
  /\ {"none", "load_down", "start", "load_up", "exit_down"} \subseteq Label
  BY DEF Quiet, WaitLabel, Label

\* What the calls of a program and the checks of process_execute() do.
LEMMA QuietActions ==
  ASSUME Inv, NEW t \in Thread,
         \/ ExecFail(t) \/ ExecNoPage(t) \/ ExecScan(t) \/ LoadExit(t) \/ Kill(t)
         \/ \E s \in Status \union {-1} : Exit(t, s)
         \/ \E k \in 1 .. MaxTid : Wait(t, k)
  PROVE  Inv'
<1> USE DEF fields, semas, frame, At
<1>1. TypeOK /\ Struct
  BY DEF Inv
<1>2. ASSUME NEW l \in Quiet \union {"load_down"}, pc[t] \in Quiet, Goto(t, l), UNCHANGED links
      PROVE  Struct' /\ pc' \in [Thread -> Label]
  <2>1. l \in Label
    BY Labels
  <2>2. pc' \in [Thread -> Label]
    BY <1>1, <1>2, <2>1 DEF TypeOK, Goto
  <2> QED
    BY <1>1, <1>2, <2>2, QuietStep
<1>3. MaxTid \in Nat
  BY ProcessAssumption
<1>4. CASE ExecFail(t)
  <2>1. UNCHANGED <<links, pc>>
    BY <1>4 DEF ExecFail, links
  <2>2. TypeOK'
    BY <1>1, <1>4 DEF ExecFail, TypeOK
  <2> QED
    BY <1>1, <2>1, <2>2, StructSame DEF Inv
<1>5. CASE ExecNoPage(t)
  <2>1. Struct' /\ pc' \in [Thread -> Label]
    BY <1>2, <1>5 DEF ExecNoPage, links, Quiet
  <2>2. new_tid' \in [Thread -> -1 .. MaxTid]
    BY <1>1, <1>3, <1>5 DEF ExecNoPage, TypeOK, TID_ERROR
  <2> QED
    BY <1>1, <1>5, <2>1, <2>2 DEF ExecNoPage, TypeOK, Inv
<1>6. CASE ExecScan(t)
  <2>1. Struct' /\ pc' \in [Thread -> Label]
    BY <1>2, <1>6 DEF ExecScan, Return, links, Quiet
  <2>2. /\ caller' \in [Thread -> {"exec", "wait"}]
        /\ new_tid' \in [Thread -> -1 .. MaxTid]
        /\ eax' \in [Thread -> Int]
    <3>1. /\ eax \in [Thread -> Int]
          /\ caller \in [Thread -> {"exec", "wait"}]
          /\ new_tid \in [Thread -> -1 .. MaxTid]
          /\ new_tid[t] \in Int
      BY <1>1, <1>3 DEF TypeOK
    <3>2. CASE Failed(t)
      BY <1>6, <3>1, <3>2 DEF ExecScan
    <3>3. CASE ~ Failed(t)
      <4>1. /\ eax' = [eax EXCEPT ![t] = new_tid[t]]
            /\ new_tid' = [new_tid EXCEPT ![t] = 0]
            /\ caller' = caller
        BY <1>6, <3>3 DEF ExecScan, Return
      <4>2. 0 \in -1 .. MaxTid
        BY <1>3
      <4> QED
        BY <3>1, <4>1, <4>2
    <3> QED
      BY <3>2, <3>3
  <2> QED
    BY <1>1, <1>6, <2>1, <2>2 DEF ExecScan, TypeOK, Inv
<1>7. ASSUME NEW s \in Status \union {-1}, exit(t, s), pc[t] \in Quiet PROVE Inv'
  <2>1. Struct' /\ pc' \in [Thread -> Label]
    BY <1>2, <1>7 DEF exit, links, Quiet
  <2>2. exit_status' \in [Thread -> Status \union {-1, 0}]
    BY <1>1, <1>7 DEF exit, TypeOK
  <2> QED
    BY <1>1, <1>7, <2>1, <2>2 DEF exit, TypeOK, Inv
<1>8. CASE LoadExit(t)
  BY <1>7, <1>8 DEF LoadExit, Quiet
<1>9. CASE \E s \in Status \union {-1} : Exit(t, s)
  BY <1>7, <1>9 DEF Exit, Quiet
<1>10. CASE Kill(t)
  <2>1. Struct' /\ pc' \in [Thread -> Label]
    BY <1>2, <1>10 DEF Kill, links, Quiet
  <2>2. killed' \in [Thread -> BOOLEAN]
    BY <1>1, <1>10, Zenon DEF Kill, TypeOK
  <2> QED
    BY <1>1, <1>10, <2>1, <2>2 DEF Kill, TypeOK, Inv
<1>11. ASSUME NEW k \in 1 .. MaxTid, Wait(t, k) PROVE Inv'
  <2>1. Struct' /\ pc' \in [Thread -> Label]
    BY <1>2, <1>11 DEF Wait, links, Quiet
  <2>2. /\ caller' \in [Thread -> {"exec", "wait"}]
        /\ new_tid' \in [Thread -> -1 .. MaxTid]
    BY <1>1, <1>3, <1>11 DEF Wait, TypeOK
  <2> QED
    BY <1>1, <1>11, <2>1, <2>2 DEF Wait, TypeOK, Inv
<1> QED
  BY <1>4, <1>5, <1>6, <1>8, <1>9, <1>10, <1>11

-----------------------------------------------------------------------------
(***************************************************************************)
(* process_execute() and start_process().                                  *)
(***************************************************************************)

\* thread_create(): c is a fresh thread that its parent waits for.
LEMMA CreateStep ==
  ASSUME Inv, NEW t \in Thread, NEW c \in Thread, ExecCreate(t, c)
  PROVE  Inv'
<1>1. /\ tid \in [Thread -> 0 .. MaxTid] /\ next_tid \in 2 .. MaxTid + 1 /\ MaxTid \in Nat
      /\ parent \in [Thread -> Thread \union {None}]
      /\ child \in [Thread -> Seq(Thread)]
      /\ exit_status \in [Thread -> Status \union {-1, 0}]
      /\ child_lock \in [Thread -> 0 .. 1]
      /\ mem_lock \in [Thread -> 0 .. 1]
      /\ load_lock \in [Thread -> 0 .. 1]
      /\ pc \in [Thread -> Label]
      /\ new_tid \in [Thread -> -1 .. MaxTid]
  BY ProcessAssumption DEF Inv, TypeOK
<1>2. LiveInv /\ TidInv /\ ChildInv /\ WaitInv /\ ExitInv /\ LoadInv
  BY DEF Inv, Struct
<1>3. /\ pc[t] = "user" /\ tid[c] = 0 /\ pc[c] = "none" /\ c # t /\ next_tid <= MaxTid
  BY <1>2 DEF ExecCreate, At, LiveInv
<1>4. /\ \A u \in Thread : tid'[u] = IF u = c THEN next_tid ELSE tid[u]
      /\ next_tid' = next_tid + 1
      /\ \A u \in Thread : parent'[u] = IF u = c THEN t ELSE parent[u]
      /\ \A u \in Thread : child_lock'[u] = IF u = c THEN 0 ELSE child_lock[u]
      /\ \A u \in Thread : mem_lock'[u] = IF u = c THEN 0 ELSE mem_lock[u]
      /\ \A u \in Thread : load_lock'[u] = IF u = c THEN 0 ELSE load_lock[u]
      /\ \A u \in Thread : pc'[u] = IF u = t THEN "load_down" ELSE IF u = c THEN "start" ELSE pc[u]
      /\ wait_on' = wait_on
  BY <1>1, <1>3 DEF ExecCreate
<1>5. \A u \in Thread :
        child'[u] = IF u = t THEN Append(child[t], c) ELSE IF u = c THEN <<>> ELSE child[u]
  BY <1>1, <1>3 DEF ExecCreate
<1>6. TypeOK'
  <2>1. /\ next_tid' \in 2 .. MaxTid + 1
        /\ tid' \in [Thread -> 0 .. MaxTid]
        /\ new_tid' \in [Thread -> -1 .. MaxTid]
    BY <1>1, <1>3 DEF ExecCreate
  <2>2. Append(child[t], c) \in Seq(Thread) /\ <<>> \in Seq(Thread)
    BY <1>1
  <2>3. child' \in [Thread -> Seq(Thread)]
    BY <1>1, <2>2 DEF ExecCreate
  <2>4. /\ parent' \in [Thread -> Thread \union {None}]
        /\ exit_status' \in [Thread -> Status \union {-1, 0}]
        /\ child_lock' \in [Thread -> 0 .. 1]
        /\ mem_lock' \in [Thread -> 0 .. 1]
        /\ load_lock' \in [Thread -> 0 .. 1]
    BY <1>1 DEF ExecCreate
  <2>5. pc' \in [Thread -> Label]
    BY <1>1, Labels DEF ExecCreate
  <2>6. /\ success \in [Thread -> BOOLEAN]
        /\ caller \in [Thread -> {"exec", "wait"}]
        /\ wait_on \in [Thread -> Thread \union {None}]
        /\ result \in [Thread -> Status \union {-1, 0}]
        /\ eax \in [Thread -> Int]
        /\ killed \in [Thread -> BOOLEAN]
        /\ UNCHANGED <<killed, success, caller, wait_on, result, eax>>
    BY DEF Inv, TypeOK, ExecCreate
  <2> QED
    BY <2>1, <2>3, <2>4, <2>5, <2>6 DEF TypeOK
<1>7. /\ ToSet(child'[t]) = ToSet(child[t]) \union {c}
      /\ ToSet(child'[c]) = {}
      /\ \A u \in Thread \ {t, c} : child'[u] = child[u]
      /\ \A u \in Thread : c \notin ToSet(child[u])
  <2>1. ToSet(Append(child[t], c)) = ToSet(child[t]) \union {c}
    BY <1>1, AppendElems
  <2>2. ToSet(<<>>) = {}
    BY DEF ToSet
  <2>3. \A u \in Thread : c \notin ToSet(child[u])
    BY <1>2, <1>3 DEF ChildInv, Live
  <2> QED
    BY <1>3, <1>5, <2>1, <2>2, <2>3
<1>8. \A u \in Thread : IsInjective(child'[u])
  <2>1. IsInjective(child'[t])
    <3>1. child[t] \in Seq(Thread) /\ IsInjective(child[t]) /\ c \notin ToSet(child[t])
      BY <1>1, <1>2, <1>7 DEF ChildInv
    <3>2. IsInjective(Append(child[t], c))
      BY <3>1, PushKeepsSingle
    <3> QED
      BY <1>5, <3>2
  <2>2. IsInjective(child'[c])
    BY <1>3, <1>5 DEF IsInjective
  <2> QED
    BY <1>2, <1>7, <2>1, <2>2 DEF ChildInv
<1>9. LiveInv' /\ TidInv'
  <2>1. \A u \in Thread : tid[u] \in Int /\ tid[u] < next_tid
    BY <1>1, <1>2 DEF TidInv
  <2>2. next_tid \in Int /\ next_tid > 0
    BY <1>1
  <2>3. LiveInv'
    BY <1>2, <1>3, <1>4, <2>2 DEF LiveInv
  <2>4. \A u \in Thread : tid'[u] < next_tid'
    BY <1>4, <2>1, <2>2
  <2>5. \A u, v \in Thread : tid'[u] = tid'[v] /\ tid'[u] # 0 => u = v
    BY <1>2, <1>4, <2>1, <2>2 DEF TidInv, Live
  <2> QED
    BY <2>3, <2>4, <2>5 DEF TidInv, Live
<1>10. ChildInv'
  <2>1. \A u \in Thread : \A d \in ToSet(child'[u]) : tid'[d] # 0 /\ parent'[d] = u
    <3>1. \A u \in Thread : \A d \in ToSet(child[u]) : d \in Thread
      BY <1>1 DEF ToSet
    <3> QED
      <4> SUFFICES ASSUME NEW u \in Thread, NEW d \in ToSet(child'[u])
                   PROVE  tid'[d] # 0 /\ parent'[d] = u
        OBVIOUS
      <4>1. CASE d = c
        <5>1. u = t
          BY <1>7, <4>1
        <5> QED
          BY <1>1, <1>4, <4>1, <5>1
      <4>2. CASE d # c
        <5>1. d \in ToSet(child[u]) /\ d \in Thread
          BY <1>7, <3>1, <4>2
        <5> QED
          BY <1>2, <1>4, <4>2, <5>1 DEF ChildInv, Live
      <4> QED
        BY <4>1, <4>2
  <2> QED
    BY <1>8, <2>1 DEF ChildInv, Live
<1>11. \A u \in Thread : (Waits(u)' <=> Waits(u)) /\ (Takes(u)' <=> Takes(u))
                         /\ (Waits(u) => u # t /\ u # c)
                         /\ (Takes(u) => Waits(u))
                         /\ (Loads(u)' <=> Loads(u) \/ u = c)
  BY <1>3, <1>4 DEF Waits, Takes, Loads, WaitLabel
<1>12. WaitInv'
  <2> SUFFICES ASSUME NEW u \in Thread, Waits(u)
               PROVE  /\ wait_on'[u] \in Thread
                      /\ tid'[wait_on'[u]] # 0
                      /\ parent'[wait_on'[u]] = u
                      /\ wait_on'[u] \in ToSet(child'[u]) <=> pc'[u] # "wait_up"
    BY <1>11 DEF WaitInv, Live
  <2>1. /\ wait_on[u] \in Thread /\ tid[wait_on[u]] # 0 /\ parent[wait_on[u]] = u
        /\ wait_on[u] \in ToSet(child[u]) <=> pc[u] # "wait_up"
    BY <1>2 DEF WaitInv, Live
  <2>2. wait_on[u] # c
    BY <1>3, <2>1
  <2>3. u # t /\ u # c
    BY <1>11
  <2> QED
    BY <1>4, <1>7, <2>1, <2>2, <2>3
<1>13. ExitInv'
  <2>1. ASSUME NEW d \in Thread, pc'[d] # "exit_down" PROVE child_lock'[d] = 0 /\ mem_lock'[d] = 0
    BY <1>2, <1>3, <1>4, <2>1 DEF ExitInv
  <2>2. ASSUME NEW d \in Thread, mem_lock'[d] # 0
        PROVE  child_lock'[d] = 0 /\ \A u \in Thread : d \notin ToSet(child'[u])
    <3>1. d # c /\ mem_lock[d] # 0
      BY <1>4, <2>2
    <3> QED
      BY <1>2, <1>4, <1>7, <3>1 DEF ExitInv
  <2>3. ASSUME NEW d \in Thread, NEW u \in Thread, Takes(u), wait_on[u] = d
        PROVE  pc'[d] = "exit_down" /\ child_lock'[d] = 0 /\ mem_lock'[d] = 0
    <3>1. pc[d] = "exit_down" /\ child_lock[d] = 0 /\ mem_lock[d] = 0
      BY <1>2, <2>3 DEF ExitInv
    <3>2. d # c /\ d # t
      BY <1>3, <3>1
    <3> QED
      BY <1>4, <3>1, <3>2
  <2> QED
    BY <1>4, <1>11, <2>1, <2>2, <2>3 DEF ExitInv
<1>14. LoadInv'
  <2>1. ASSUME NEW d \in Thread, Loads(d)
        PROVE  /\ d # c /\ d # t /\ parent[d] # c /\ parent[d] # t
               /\ parent[d] \in Thread /\ pc[parent[d]] = "load_down" /\ load_lock[parent[d]] = 0
    BY <1>2, <1>3, <2>1 DEF LoadInv, Loads
  <2>2. \A d \in Thread : Loads(d)' =>
          parent'[d] \in Thread /\ pc'[parent'[d]] = "load_down" /\ load_lock'[parent'[d]] = 0
    <3>1. load_lock[t] = 0
      BY <1>2, <1>3 DEF LoadInv
    <3> QED
      BY <1>3, <1>4, <1>11, <2>1, <3>1
  <2>3. \A d, e \in Thread : Loads(d)' /\ Loads(e)' /\ parent'[d] = parent'[e] => d = e
    BY <1>2, <1>4, <1>11, <2>1 DEF LoadInv
  <2>4. \A d \in Thread : load_lock'[d] # 0 => pc'[d] = "load_down"
    BY <1>2, <1>3, <1>4 DEF LoadInv
  <2> QED
    BY <2>2, <2>3, <2>4 DEF LoadInv
<1> QED
  BY <1>6, <1>9, <1>10, <1>12, <1>13, <1>14 DEF Inv, Struct

\* sema_down (&load_lock): the child has been loaded.
LEMMA ExecDownStep ==
  ASSUME Inv, NEW t \in Thread, ExecDown(t)
  PROVE  Inv'
<1>1. /\ load_lock \in [Thread -> 0 .. 1]
      /\ pc \in [Thread -> Label]
  BY DEF Inv, TypeOK
<1>2. LiveInv /\ TidInv /\ ChildInv /\ WaitInv /\ ExitInv /\ LoadInv
  BY DEF Inv, Struct
<1>3. pc[t] = "load_down" /\ load_lock[t] = 1
  BY <1>1 DEF ExecDown, At
<1>4. /\ \A u \in Thread : pc'[u] = IF u = t THEN "scan" ELSE pc[u]
      /\ \A u \in Thread : load_lock'[u] = IF u = t THEN 0 ELSE load_lock[u]
      /\ UNCHANGED <<tid, next_tid, parent, child, child_lock, mem_lock, wait_on>>
  BY <1>1, <1>3 DEF ExecDown, Goto, fields, frame
<1>5. TypeOK'
  <2>1. load_lock' \in [Thread -> 0 .. 1] /\ pc' \in [Thread -> Label]
    BY <1>1, <1>3, Labels DEF ExecDown, Goto, Quiet
  <2> QED
    BY <2>1 DEF Inv, TypeOK, ExecDown, fields, frame
<1>6. \A u \in Thread : (Waits(u)' <=> Waits(u)) /\ (Takes(u)' <=> Takes(u))
                        /\ (Loads(u)' <=> Loads(u))
  BY <1>3, <1>4 DEF Waits, Takes, Loads, WaitLabel
<1>7. LiveInv' /\ TidInv' /\ ChildInv'
  BY <1>2, <1>3, <1>4 DEF LiveInv, TidInv, ChildInv, Live
<1>8. WaitInv' /\ ExitInv'
  BY <1>2, <1>3, <1>4, <1>6 DEF WaitInv, ExitInv, Live, Waits, WaitLabel
<1>9. LoadInv'
  <2>1. \A d \in Thread : Loads(d) => parent[d] # t
    BY <1>2, <1>3 DEF LoadInv
  <2> QED
    BY <1>2, <1>3, <1>4, <1>6, <2>1 DEF LoadInv
<1> QED
  BY <1>5, <1>7, <1>8, <1>9 DEF Inv, Struct

LEMMA LoadStep ==
  ASSUME Inv, NEW t \in Thread, Load(t)
  PROVE  Inv'
<1>1. pc \in [Thread -> Label] /\ success \in [Thread -> BOOLEAN]
  BY DEF Inv, TypeOK
<1>2. LiveInv /\ TidInv /\ ChildInv /\ WaitInv /\ ExitInv /\ LoadInv
  BY DEF Inv, Struct
<1>3. pc[t] = "start"
  BY DEF Load, At
<1>4. /\ \A u \in Thread : pc'[u] = IF u = t THEN "load_up" ELSE pc[u]
      /\ UNCHANGED <<tid, next_tid, parent, child, child_lock, mem_lock, load_lock, wait_on>>
  BY <1>1 DEF Load, Goto, fields, semas
<1>5. TypeOK'
  <2>1. success' \in [Thread -> BOOLEAN] /\ pc' \in [Thread -> Label]
    BY <1>1, Labels DEF Load, Goto
  <2> QED
    BY <2>1 DEF Inv, TypeOK, Load, fields, semas
<1>6. \A u \in Thread : (Waits(u)' <=> Waits(u)) /\ (Takes(u)' <=> Takes(u))
                        /\ (Loads(u)' <=> Loads(u))
  BY <1>3, <1>4 DEF Waits, Takes, Loads, WaitLabel
<1>7. LiveInv' /\ TidInv' /\ ChildInv'
  BY <1>2, <1>3, <1>4 DEF LiveInv, TidInv, ChildInv, Live
<1>8. WaitInv' /\ ExitInv' /\ LoadInv'
  BY <1>2, <1>3, <1>4, <1>6 DEF WaitInv, ExitInv, LoadInv, Live, Waits, WaitLabel
<1> QED
  BY <1>5, <1>7, <1>8 DEF Inv, Struct

\* sema_up (&parent->load_lock): the parent is there, and waits for this child.
LEMMA LoadUpStep ==
  ASSUME Inv, NEW t \in Thread, LoadUp(t)
  PROVE  Inv'
<1>1. /\ load_lock \in [Thread -> 0 .. 1]
      /\ pc \in [Thread -> Label]
  BY DEF Inv, TypeOK
<1>2. LiveInv /\ TidInv /\ ChildInv /\ WaitInv /\ ExitInv /\ LoadInv
  BY DEF Inv, Struct
<1> DEFINE p == parent[t]
           l == IF success[t] THEN "user" ELSE "load_exit"
<1>3. /\ pc[t] = "load_up" /\ Loads(t)
      /\ p \in Thread /\ pc[p] = "load_down" /\ load_lock[p] = 0
  BY <1>2 DEF LoadUp, At, LoadInv, Loads
<1>4. /\ \A u \in Thread : pc'[u] = IF u = t THEN l ELSE pc[u]
      /\ \A u \in Thread : load_lock'[u] = IF u = p THEN 1 ELSE load_lock[u]
      /\ UNCHANGED <<tid, next_tid, parent, child, child_lock, mem_lock, wait_on>>
  BY <1>1, <1>3 DEF LoadUp, Goto, fields, frame
<1>5. TypeOK'
  <2>1. load_lock' \in [Thread -> 0 .. 1]
    BY <1>1, <1>3 DEF LoadUp
  <2>2. pc' \in [Thread -> Label]
    BY <1>1, Labels DEF LoadUp, Goto, Quiet
  <2> QED
    BY <2>1, <2>2 DEF Inv, TypeOK, LoadUp, fields, frame
<1>6. \A u \in Thread : (Waits(u)' <=> Waits(u)) /\ (Takes(u)' <=> Takes(u))
                        /\ (Loads(u)' <=> Loads(u) /\ u # t)
  BY <1>3, <1>4 DEF Waits, Takes, Loads, WaitLabel
<1>7. LiveInv' /\ TidInv' /\ ChildInv'
  BY <1>2, <1>3, <1>4 DEF LiveInv, TidInv, ChildInv, Live
<1>8. WaitInv' /\ ExitInv'
  BY <1>2, <1>3, <1>4, <1>6 DEF WaitInv, ExitInv, Live, Waits, WaitLabel
<1>9. LoadInv'
  <2>1. \A d \in Thread : Loads(d) /\ d # t => parent[d] # p /\ parent[d] # t
    BY <1>2, <1>3 DEF LoadInv
  <2>2. p # t
    BY <1>3
  <2> QED
    BY <1>2, <1>3, <1>4, <1>6, <2>1, <2>2 DEF LoadInv
<1> QED
  BY <1>5, <1>7, <1>8, <1>9 DEF Inv, Struct

-----------------------------------------------------------------------------
(***************************************************************************)
(* process_wait().                                                         *)
(***************************************************************************)

\* The list of children is a set of threads.
LEMMA ChildrenAreThreads ==
  ASSUME TypeOK, NEW t \in Thread
  PROVE  ToSet(child[t]) \subseteq Thread
  BY DEF TypeOK, ToSet

LEMMA WaitFindStep ==
  ASSUME Inv, NEW t \in Thread, WaitFind(t)
  PROVE  Inv'
<1>1. /\ pc \in [Thread -> Label]
      /\ wait_on \in [Thread -> Thread \union {None}]
      /\ caller \in [Thread -> {"exec", "wait"}]
      /\ new_tid \in [Thread -> -1 .. MaxTid] /\ MaxTid \in Nat
      /\ eax \in [Thread -> Int]
  BY ProcessAssumption DEF Inv, TypeOK
<1>2. LiveInv /\ TidInv /\ ChildInv /\ WaitInv /\ ExitInv /\ LoadInv /\ Struct /\ TypeOK
  BY DEF Inv, Struct
<1> DEFINE found == {c \in ToSet(child[t]) : tid[c] = new_tid[t]}
<1>3. pc[t] = "find"
  BY DEF WaitFind, At
<1>4. CASE found = {}
  <2>1. /\ Goto(t, "user")
        /\ eax' = [eax EXCEPT ![t] = -1]
        /\ new_tid' = [new_tid EXCEPT ![t] = 0]
        /\ caller' = [caller EXCEPT ![t] = "wait"]
        /\ UNCHANGED <<fields, child, exit_status, semas, success, result, wait_on>>
    BY <1>4 DEF WaitFind, Return
  <2>2. Struct'
    BY <1>2, <1>3, <2>1, QuietStep DEF links, fields, Quiet
  <2>3. pc' \in [Thread -> Label]
    BY <1>1, <2>1, Labels DEF Goto, Quiet
  <2>4. /\ eax' \in [Thread -> Int]
        /\ caller' \in [Thread -> {"exec", "wait"}]
        /\ new_tid' \in [Thread -> -1 .. MaxTid]
    BY <1>1, <2>1
  <2> QED
    BY <1>2, <2>1, <2>2, <2>3, <2>4 DEF Inv, TypeOK, fields, semas
<1>5. ASSUME NEW c \in ToSet(child[t]), wait_on' = [wait_on EXCEPT ![t] = c],
             Goto(t, "wait_down"),
             UNCHANGED <<fields, child, exit_status, semas, success, result, new_tid, caller, eax>>
      PROVE  Inv'
  <2>1. c \in Thread /\ Live(c) /\ parent[c] = t
    BY <1>2, ChildrenAreThreads DEF ChildInv
  <2>2. /\ \A u \in Thread : pc'[u] = IF u = t THEN "wait_down" ELSE pc[u]
        /\ \A u \in Thread : wait_on'[u] = IF u = t THEN c ELSE wait_on[u]
        /\ UNCHANGED <<tid, next_tid, parent, child, child_lock, mem_lock, load_lock>>
    BY <1>1, <1>5 DEF Goto, fields, semas
  <2>3. TypeOK'
    <3>1. /\ wait_on' \in [Thread -> Thread \union {None}]
          /\ pc' \in [Thread -> Label]
      BY <1>1, <1>5, <2>1, Labels DEF Goto, WaitLabel
    <3> QED
      BY <1>2, <1>5, <3>1 DEF TypeOK, fields, semas
  <2>4. \A u \in Thread : (Waits(u)' <=> Waits(u) \/ u = t) /\ (Takes(u)' <=> Takes(u))
                          /\ (Loads(u)' <=> Loads(u)) /\ (Takes(u) => u # t)
    BY <1>3, <2>2 DEF Waits, Takes, Loads, WaitLabel
  <2>5. LiveInv' /\ TidInv' /\ ChildInv'
    BY <1>2, <1>3, <2>2 DEF LiveInv, TidInv, ChildInv, Live
  <2>6. WaitInv'
    BY <1>2, <1>5, <2>1, <2>2, <2>4 DEF WaitInv, Live
  <2>7. ExitInv' /\ LoadInv'
    BY <1>2, <1>3, <2>2, <2>4 DEF ExitInv, LoadInv
  <2> QED
    BY <2>3, <2>5, <2>6, <2>7 DEF Inv, Struct
<1>6. CASE found # {}
  BY <1>5, <1>6 DEF WaitFind
<1> QED
  BY <1>4, <1>6

\* sema_down (&t->child_lock): t has exited, and waits for mem_lock.
LEMMA WaitDownStep ==
  ASSUME Inv, NEW t \in Thread, WaitDown(t)
  PROVE  Inv'
<1>1. /\ pc \in [Thread -> Label]
      /\ child_lock \in [Thread -> 0 .. 1]
  BY DEF Inv, TypeOK
<1>2. LiveInv /\ TidInv /\ ChildInv /\ WaitInv /\ ExitInv /\ LoadInv /\ TypeOK
  BY DEF Inv, Struct
<1> DEFINE c == wait_on[t]
<1>3. pc[t] = "wait_down" /\ Waits(t)
  BY DEF WaitDown, At, Waits, WaitLabel
<1>4. c \in Thread /\ parent[c] = t /\ child_lock[c] = 1
  BY <1>1, <1>2, <1>3 DEF WaitDown, WaitInv
<1>5. pc[c] = "exit_down" /\ mem_lock[c] = 0
  BY <1>2, <1>4 DEF ExitInv
<1>6. /\ \A u \in Thread : pc'[u] = IF u = t THEN "wait_read" ELSE pc[u]
      /\ \A u \in Thread : child_lock'[u] = IF u = c THEN 0 ELSE child_lock[u]
      /\ UNCHANGED <<tid, next_tid, parent, child, mem_lock, load_lock, wait_on>>
  BY <1>1, <1>4 DEF WaitDown, Goto, fields, frame
<1>7. TypeOK'
  <2>1. child_lock' \in [Thread -> 0 .. 1] /\ pc' \in [Thread -> Label]
    BY <1>1, <1>4, Labels DEF WaitDown, Goto, WaitLabel
  <2> QED
    BY <1>2, <2>1 DEF TypeOK, WaitDown, fields, frame
<1>8. \A u \in Thread : (Waits(u)' <=> Waits(u)) /\ (Takes(u)' <=> Takes(u) \/ u = t)
                        /\ (Loads(u)' <=> Loads(u))
  BY <1>3, <1>6 DEF Waits, Takes, Loads, WaitLabel
<1>9. LiveInv' /\ TidInv' /\ ChildInv'
  BY <1>2, <1>3, <1>6 DEF LiveInv, TidInv, ChildInv, Live
<1>10. WaitInv'
  BY <1>2, <1>3, <1>6, <1>8 DEF WaitInv, Live
<1>11. ExitInv'
  BY <1>2, <1>3, <1>4, <1>5, <1>6, <1>8 DEF ExitInv
<1>12. LoadInv'
  BY <1>2, <1>3, <1>6, <1>8 DEF LoadInv
<1> QED
  BY <1>7, <1>9, <1>10, <1>11, <1>12 DEF Inv, Struct

LEMMA WaitReadStep ==
  ASSUME Inv, NEW t \in Thread, WaitRead(t)
  PROVE  Inv'
<1>1. /\ pc \in [Thread -> Label]
      /\ exit_status \in [Thread -> Status \union {-1, 0}]
      /\ result \in [Thread -> Status \union {-1, 0}]
  BY DEF Inv, TypeOK
<1>2. LiveInv /\ TidInv /\ ChildInv /\ WaitInv /\ ExitInv /\ LoadInv /\ TypeOK
  BY DEF Inv, Struct
<1>3. pc[t] = "wait_read" /\ Waits(t)
  BY DEF WaitRead, At, Waits, WaitLabel
<1>4. /\ \A u \in Thread : pc'[u] = IF u = t THEN "wait_remove" ELSE pc[u]
      /\ UNCHANGED <<tid, next_tid, parent, child, child_lock, mem_lock, load_lock, wait_on>>
  BY <1>1 DEF WaitRead, Goto, fields, semas
<1>5. TypeOK'
  <2>1. exit_status[wait_on[t]] \in Status \union {-1, 0}
    BY <1>1, <1>2, <1>3 DEF WaitInv
  <2>2. result' \in [Thread -> Status \union {-1, 0}] /\ pc' \in [Thread -> Label]
    BY <1>1, <2>1, Labels DEF WaitRead, Goto, WaitLabel
  <2> QED
    BY <1>2, <2>2 DEF TypeOK, WaitRead, fields, semas
<1>6. \A u \in Thread : (Waits(u)' <=> Waits(u)) /\ (Takes(u)' <=> Takes(u))
                        /\ (Loads(u)' <=> Loads(u))
  BY <1>3, <1>4 DEF Waits, Takes, Loads, WaitLabel
<1>7. LiveInv' /\ TidInv' /\ ChildInv'
  BY <1>2, <1>3, <1>4 DEF LiveInv, TidInv, ChildInv, Live
<1>8. WaitInv' /\ ExitInv' /\ LoadInv'
  BY <1>2, <1>3, <1>4, <1>6 DEF WaitInv, ExitInv, LoadInv, Live
<1> QED
  BY <1>5, <1>7, <1>8 DEF Inv, Struct

\* list_remove (&t->child_elem)
LEMMA WaitRemoveStep ==
  ASSUME Inv, NEW t \in Thread, WaitRemove(t)
  PROVE  Inv'
<1>1. /\ pc \in [Thread -> Label]
      /\ child \in [Thread -> Seq(Thread)]
  BY DEF Inv, TypeOK
<1>2. LiveInv /\ TidInv /\ ChildInv /\ WaitInv /\ ExitInv /\ LoadInv /\ TypeOK
  BY DEF Inv, Struct
<1>3. pc[t] = "wait_remove" /\ Waits(t)
  BY DEF WaitRemove, At, Waits, WaitLabel
<1>4. PICK i \in DOMAIN child[t] :
        child[t][i] = wait_on[t] /\ child' = [child EXCEPT ![t] = RemoveAt(child[t], i)]
  BY DEF WaitRemove
<1>5. /\ RemoveAt(child[t], i) \in Seq(Thread)
      /\ ToSet(RemoveAt(child[t], i)) = ToSet(child[t]) \ {wait_on[t]}
      /\ IsInjective(RemoveAt(child[t], i))
  <2>1. child[t] \in Seq(Thread) /\ IsInjective(child[t])
    BY <1>1, <1>2 DEF ChildInv
  <2> QED
    BY <1>4, <2>1, UnlinkElems
<1>6. /\ \A u \in Thread : pc'[u] = IF u = t THEN "wait_up" ELSE pc[u]
      /\ \A u \in Thread \ {t} : child'[u] = child[u]
      /\ child'[t] = RemoveAt(child[t], i)
      /\ UNCHANGED <<tid, next_tid, parent, child_lock, mem_lock, load_lock, wait_on>>
  BY <1>1, <1>4 DEF WaitRemove, Goto, fields, semas, frame
<1>7. /\ \A u \in Thread \ {t} : ToSet(child'[u]) = ToSet(child[u])
      /\ ToSet(child'[t]) = ToSet(child[t]) \ {wait_on[t]}
      /\ \A u \in Thread : IsInjective(child'[u])
  BY <1>2, <1>5, <1>6 DEF ChildInv
<1>8. TypeOK'
  <2>1. child' \in [Thread -> Seq(Thread)] /\ pc' \in [Thread -> Label]
    BY <1>1, <1>4, <1>5, Labels DEF WaitRemove, Goto, WaitLabel
  <2> QED
    BY <1>2, <2>1 DEF TypeOK, WaitRemove, fields, semas, frame
<1>9. \A u \in Thread : (Waits(u)' <=> Waits(u)) /\ (Takes(u)' <=> Takes(u))
                        /\ (Loads(u)' <=> Loads(u))
  BY <1>3, <1>6 DEF Waits, Takes, Loads, WaitLabel
<1>10. LiveInv' /\ TidInv' /\ ChildInv'
  BY <1>2, <1>3, <1>6, <1>7 DEF LiveInv, TidInv, ChildInv, Live
<1>11. WaitInv'
  BY <1>2, <1>3, <1>6, <1>7, <1>9 DEF WaitInv, Live
<1>12. ExitInv' /\ LoadInv'
  BY <1>2, <1>3, <1>6, <1>7, <1>9 DEF ExitInv, LoadInv
<1> QED
  BY <1>8, <1>10, <1>11, <1>12 DEF Inv, Struct

\* sema_up (&t->mem_lock): t may go; nobody knows it any more.
LEMMA WaitUpStep ==
  ASSUME Inv, NEW t \in Thread, WaitUp(t)
  PROVE  Inv'
<1>1. /\ pc \in [Thread -> Label]
      /\ mem_lock \in [Thread -> 0 .. 1]
      /\ wait_on \in [Thread -> Thread \union {None}]
      /\ result \in [Thread -> Status \union {-1, 0}]
      /\ new_tid \in [Thread -> -1 .. MaxTid] /\ MaxTid \in Nat
      /\ caller \in [Thread -> {"exec", "wait"}]
      /\ eax \in [Thread -> Int]
      /\ Status \subseteq Int
  BY ProcessAssumption DEF Inv, TypeOK
<1>2. LiveInv /\ TidInv /\ ChildInv /\ WaitInv /\ ExitInv /\ LoadInv /\ TypeOK
  BY DEF Inv, Struct
<1> DEFINE c == wait_on[t]
<1>3. pc[t] = "wait_up" /\ Waits(t) /\ Takes(t)
  BY DEF WaitUp, At, Waits, Takes, WaitLabel
<1>4. c \in Thread /\ parent[c] = t /\ c \notin ToSet(child[t])
  BY <1>2, <1>3 DEF WaitInv
<1>5. pc[c] = "exit_down" /\ child_lock[c] = 0 /\ mem_lock[c] = 0
  BY <1>2, <1>3, <1>4 DEF ExitInv
<1>6. /\ \A u \in Thread : pc'[u] = IF u = t THEN "user" ELSE pc[u]
      /\ \A u \in Thread : mem_lock'[u] = IF u = c THEN 1 ELSE mem_lock[u]
      /\ \A u \in Thread : u # t => wait_on'[u] = wait_on[u]
      /\ UNCHANGED <<tid, next_tid, parent, child, child_lock, load_lock>>
  BY <1>1, <1>4, <1>5 DEF WaitUp, Return, Goto, fields
<1>7. TypeOK'
  <2>1. mem_lock' \in [Thread -> 0 .. 1] /\ pc' \in [Thread -> Label]
    BY <1>1, <1>4, <1>5, Labels DEF WaitUp, Return, Goto, Quiet
  <2>2. /\ wait_on' \in [Thread -> Thread \union {None}]
        /\ result' \in [Thread -> Status \union {-1, 0}]
        /\ caller' \in [Thread -> {"exec", "wait"}]
        /\ new_tid' \in [Thread -> -1 .. MaxTid]
    <3>1. 0 \in -1 .. MaxTid
      BY <1>1
    <3>2. /\ wait_on' = [wait_on EXCEPT ![t] = None]
          /\ result' = [result EXCEPT ![t] = 0]
          /\ new_tid' = [new_tid EXCEPT ![t] = 0]
          /\ caller' = [caller EXCEPT ![t] = "wait"]
      BY DEF WaitUp
    <3>3. wait_on' \in [Thread -> Thread \union {None}]
      BY <1>1, <3>2
    <3>4. result' \in [Thread -> Status \union {-1, 0}]
      BY <1>1, <3>2
    <3>5. new_tid' \in [Thread -> -1 .. MaxTid]
      BY <1>1, <3>1, <3>2
    <3>6. caller' \in [Thread -> {"exec", "wait"}]
      BY <1>1, <3>2
    <3> QED
      BY <3>3, <3>4, <3>5, <3>6
  <2>3. result[t] \in Int
    <3>1. result[t] \in Status \union {-1, 0}
      BY <1>1
    <3>2. -1 \in Int /\ 0 \in Int
      OBVIOUS
    <3> QED
      BY <1>1, <3>1, <3>2, Zenon
  <2>4. eax' \in [Thread -> Int]
    <3>1. eax' = [eax EXCEPT ![t] = result[t]]
      BY DEF WaitUp, Return
    <3> QED
      BY <1>1, <2>3, <3>1
  <2> QED
    BY <1>2, <2>1, <2>2, <2>4 DEF TypeOK, WaitUp, fields
<1>8. \A u \in Thread : (Waits(u)' <=> Waits(u) /\ u # t) /\ (Takes(u)' <=> Takes(u) /\ u # t)
                        /\ (Loads(u)' <=> Loads(u)) /\ (Takes(u) => Waits(u))
  BY <1>3, <1>6 DEF Waits, Takes, Loads, WaitLabel
<1>9. LiveInv' /\ TidInv' /\ ChildInv'
  BY <1>2, <1>3, <1>6 DEF LiveInv, TidInv, ChildInv, Live
<1>10. WaitInv'
  BY <1>2, <1>6, <1>8 DEF WaitInv, Live
<1>11. ExitInv'
  <2>1. \A u \in Thread : c \notin ToSet(child[u])
    BY <1>2, <1>4 DEF ChildInv
  <2>2. \A u \in Thread : Takes(u) /\ u # t => wait_on[u] # c
    BY <1>2, <1>4, <1>8 DEF WaitInv
  <2> QED
    BY <1>2, <1>3, <1>4, <1>5, <1>6, <1>8, <2>1, <2>2 DEF ExitInv
<1>12. LoadInv'
  BY <1>2, <1>3, <1>6, <1>8 DEF LoadInv
<1> QED
  BY <1>7, <1>9, <1>10, <1>11, <1>12 DEF Inv, Struct

-----------------------------------------------------------------------------
(***************************************************************************)
(* process_exit().                                                         *)
(***************************************************************************)

LEMMA ExitUpStep ==
  ASSUME Inv, NEW t \in Thread, ExitUp(t)
  PROVE  Inv'
<1>1. /\ pc \in [Thread -> Label]
      /\ child_lock \in [Thread -> 0 .. 1]
  BY DEF Inv, TypeOK
<1>2. LiveInv /\ TidInv /\ ChildInv /\ WaitInv /\ ExitInv /\ LoadInv /\ TypeOK
  BY DEF Inv, Struct
<1>3. pc[t] = "exit_up" /\ child_lock[t] = 0 /\ mem_lock[t] = 0
  BY <1>2 DEF ExitUp, At, ExitInv
<1>4. /\ \A u \in Thread : pc'[u] = IF u = t THEN "exit_down" ELSE pc[u]
      /\ \A u \in Thread : child_lock'[u] = IF u = t THEN 1 ELSE child_lock[u]
      /\ UNCHANGED <<tid, next_tid, parent, child, mem_lock, load_lock, wait_on>>
  BY <1>1, <1>3 DEF ExitUp, Goto, fields, frame
<1>5. TypeOK'
  <2>1. child_lock' \in [Thread -> 0 .. 1] /\ pc' \in [Thread -> Label]
    BY <1>1, <1>3, Labels DEF ExitUp, Goto
  <2> QED
    BY <1>2, <2>1 DEF TypeOK, ExitUp, fields, frame
<1>6. \A u \in Thread : (Waits(u)' <=> Waits(u)) /\ (Takes(u)' <=> Takes(u))
                        /\ (Loads(u)' <=> Loads(u))
  BY <1>3, <1>4 DEF Waits, Takes, Loads, WaitLabel
<1>7. LiveInv' /\ TidInv' /\ ChildInv'
  BY <1>2, <1>3, <1>4 DEF LiveInv, TidInv, ChildInv, Live
<1>8. WaitInv' /\ LoadInv'
  BY <1>2, <1>3, <1>4, <1>6 DEF WaitInv, LoadInv, Live
<1>9. ExitInv'
  <2>1. \A u \in Thread : Takes(u) => wait_on[u] # t
    BY <1>2, <1>3 DEF ExitInv
  <2> QED
    BY <1>2, <1>3, <1>4, <1>6, <2>1 DEF ExitInv
<1> QED
  BY <1>5, <1>7, <1>8, <1>9 DEF Inv, Struct

\* sema_down (&cur->mem_lock): the page is freed, and no pointer to it is left that
\* could be followed.
LEMMA ExitDownStep ==
  ASSUME Inv, NEW t \in Thread, ExitDown(t)
  PROVE  Inv'
<1>1. /\ pc \in [Thread -> Label]
      /\ tid \in [Thread -> 0 .. MaxTid] /\ next_tid \in 2 .. MaxTid + 1 /\ MaxTid \in Nat
      /\ parent \in [Thread -> Thread \union {None}]
      /\ child \in [Thread -> Seq(Thread)]
      /\ killed \in [Thread -> BOOLEAN]
      /\ exit_status \in [Thread -> Status \union {-1, 0}]
      /\ child_lock \in [Thread -> 0 .. 1]
      /\ mem_lock \in [Thread -> 0 .. 1]
      /\ load_lock \in [Thread -> 0 .. 1]
      /\ success \in [Thread -> BOOLEAN]
      /\ eax \in [Thread -> Int]
  BY ProcessAssumption DEF Inv, TypeOK
<1>2. LiveInv /\ TidInv /\ ChildInv /\ WaitInv /\ ExitInv /\ LoadInv /\ TypeOK
  BY DEF Inv, Struct
<1>3. /\ pc[t] = "exit_down" /\ mem_lock[t] # 0 /\ child_lock[t] = 0
      /\ \A u \in Thread : t \notin ToSet(child[u])
  BY <1>1, <1>2 DEF ExitDown, At, ExitInv
<1>4. /\ \A u \in Thread : pc'[u] = IF u = t THEN "none" ELSE pc[u]
      /\ \A u \in Thread : tid'[u] = IF u = t THEN 0 ELSE tid[u]
      /\ \A u \in Thread : parent'[u] = IF u = t THEN None ELSE parent[u]
      /\ \A u \in Thread : child'[u] = IF u = t THEN <<>> ELSE child[u]
      /\ \A u \in Thread : child_lock'[u] = IF u = t THEN 0 ELSE child_lock[u]
      /\ \A u \in Thread : mem_lock'[u] = IF u = t THEN 0 ELSE mem_lock[u]
      /\ \A u \in Thread : load_lock'[u] = IF u = t THEN 0 ELSE load_lock[u]
      /\ UNCHANGED <<next_tid, wait_on>>
  BY <1>1 DEF ExitDown, Free, Goto
<1>5. TypeOK'
  <2>1. /\ tid' \in [Thread -> 0 .. MaxTid]
        /\ parent' \in [Thread -> Thread \union {None}]
        /\ killed' \in [Thread -> BOOLEAN]
        /\ exit_status' \in [Thread -> Status \union {-1, 0}]
        /\ success' \in [Thread -> BOOLEAN]
        /\ eax' \in [Thread -> Int]
    BY <1>1 DEF ExitDown, Free
  <2>2. /\ child_lock' \in [Thread -> 0 .. 1]
        /\ mem_lock' \in [Thread -> 0 .. 1]
        /\ load_lock' \in [Thread -> 0 .. 1]
    BY <1>1 DEF ExitDown, Free
  <2>3. <<>> \in Seq(Thread)
    OBVIOUS
  <2>4. child' \in [Thread -> Seq(Thread)]
    BY <1>1, <2>3 DEF ExitDown, Free
  <2>5. pc' \in [Thread -> Label]
    BY <1>1, Labels DEF ExitDown, Free, Goto
  <2>6. UNCHANGED <<next_tid, new_tid, caller, wait_on, result>>
    BY DEF ExitDown, Free
  <2> QED
    BY <1>2, <2>1, <2>2, <2>4, <2>5, <2>6 DEF TypeOK
<1>6. \A u \in Thread : (Waits(u)' <=> Waits(u)) /\ (Takes(u)' <=> Takes(u))
                        /\ (Loads(u)' <=> Loads(u))
                        /\ (Waits(u) => u # t /\ wait_on[u] # t) /\ (Takes(u) => Waits(u))
                        /\ (Loads(u) => u # t)
  <2>1. \A u \in Thread : (Waits(u)' <=> Waits(u)) /\ (Takes(u)' <=> Takes(u))
                          /\ (Loads(u)' <=> Loads(u))
                          /\ (Waits(u) => u # t) /\ (Takes(u) => Waits(u)) /\ (Loads(u) => u # t)
    BY <1>3, <1>4 DEF Waits, Takes, Loads, WaitLabel
  <2>2. ASSUME NEW u \in Thread, Waits(u), wait_on[u] = t PROVE FALSE
    <3>1. pc[u] = "wait_up"
      BY <1>2, <1>3, <2>2 DEF WaitInv
    <3>2. Takes(u)
      BY <3>1 DEF Takes
    <3> QED
      BY <1>2, <1>3, <2>2, <3>2 DEF ExitInv
  <2> QED
    BY <2>1, <2>2
<1>7. LiveInv'
  BY <1>2, <1>4 DEF LiveInv
<1>8. TidInv'
  <2>1. next_tid > 0 /\ \A u \in Thread : tid[u] < next_tid
    BY <1>1, <1>2 DEF TidInv
  <2>2. \A u \in Thread : tid'[u] < next_tid'
    BY <1>4, <2>1
  <2>3. \A u, v \in Thread : tid'[u] = tid'[v] /\ tid'[u] # 0 => u = v
    BY <1>2, <1>4 DEF TidInv, Live
  <2> QED
    BY <2>2, <2>3 DEF TidInv, Live
<1>9. ChildInv'
  <2>1. IsInjective(<<>>) /\ ToSet(<<>>) = {}
    BY DEF IsInjective, ToSet
  <2>2. \A u \in Thread \ {t} : child'[u] = child[u] /\ t \notin ToSet(child[u])
    BY <1>3, <1>4
  <2>3. child'[t] = <<>>
    BY <1>4
  <2> SUFFICES ASSUME NEW u \in Thread
               PROVE  /\ IsInjective(child'[u])
                      /\ \A d \in ToSet(child'[u]) : tid'[d] # 0 /\ parent'[d] = u
    BY DEF ChildInv, Live
  <2>4. CASE u = t
    BY <2>1, <2>3, <2>4
  <2>5. CASE u # t
    <3>1. \A d \in ToSet(child[u]) : d \in Thread /\ d # t
      BY <1>2, <2>2, <2>5, ChildrenAreThreads
    <3> QED
      BY <1>2, <1>4, <2>2, <2>5, <3>1 DEF ChildInv, Live
  <2> QED
    BY <2>4, <2>5
<1>10. WaitInv'
  BY <1>2, <1>4, <1>6 DEF WaitInv, Live
<1>11. ExitInv'
  <2>1. ToSet(child'[t]) = {} /\ \A u \in Thread \ {t} : ToSet(child'[u]) = ToSet(child[u])
    BY <1>4 DEF ToSet
  <2> QED
    BY <1>2, <1>4, <1>6, <2>1 DEF ExitInv
<1>12. LoadInv'
  <2>1. \A d \in Thread : Loads(d) => parent[d] # t
    BY <1>2, <1>3 DEF LoadInv
  <2> QED
    BY <1>2, <1>4, <1>6, <2>1 DEF LoadInv
<1> QED
  BY <1>5, <1>7, <1>8, <1>9, <1>10, <1>11, <1>12 DEF Inv, Struct

-----------------------------------------------------------------------------
(***************************************************************************)
(* Theorems.                                                               *)
(***************************************************************************)

LEMMA InvInit == Init => Inv
<1> SUFFICES ASSUME Init PROVE Inv
  OBVIOUS
<1>1. MaxTid \in Nat \ {0} /\ main \in Thread
  BY ProcessAssumption
<1>2. ToSet(<<>>) = {} /\ IsInjective(<<>>)
  BY DEF ToSet, IsInjective
<1>3. /\ \A t \in Thread : tid[t] = IF t = main THEN 1 ELSE 0
      /\ \A t \in Thread : pc[t] = IF t = main THEN "user" ELSE "none"
      /\ \A t \in Thread : child[t] = <<>> /\ ToSet(child[t]) = {}
      /\ \A t \in Thread : child_lock[t] = 0 /\ mem_lock[t] = 0 /\ load_lock[t] = 0
      /\ next_tid = 2
  BY <1>2 DEF Init
<1>4. TypeOK
  <2>1. tid \in [Thread -> 0 .. MaxTid] /\ next_tid \in 2 .. MaxTid + 1
    BY <1>1 DEF Init
  <2>2. new_tid \in [Thread -> -1 .. MaxTid]
    BY <1>1 DEF Init
  <2>3. pc \in [Thread -> Label]
    BY DEF Init, Label
  <2>4. child \in [Thread -> Seq(Thread)]
    BY DEF Init
  <2>5. /\ parent \in [Thread -> Thread \union {None}]
        /\ killed \in [Thread -> BOOLEAN]
        /\ exit_status \in [Thread -> Status \union {-1, 0}]
        /\ success \in [Thread -> BOOLEAN]
        /\ caller \in [Thread -> {"exec", "wait"}]
        /\ wait_on \in [Thread -> Thread \union {None}]
        /\ result \in [Thread -> Status \union {-1, 0}]
    BY DEF Init
  <2>6. /\ child_lock \in [Thread -> 0 .. 1]
        /\ mem_lock \in [Thread -> 0 .. 1]
        /\ load_lock \in [Thread -> 0 .. 1]
        /\ eax \in [Thread -> Int]
    BY DEF Init
  <2> QED
    BY <2>1, <2>2, <2>3, <2>4, <2>5, <2>6 DEF TypeOK
<1>5. LiveInv /\ TidInv /\ ChildInv
  BY <1>2, <1>3 DEF LiveInv, TidInv, ChildInv, Live
<1>6. \A t \in Thread : ~ Waits(t) /\ ~ Takes(t) /\ ~ Loads(t)
  BY <1>3 DEF Waits, Takes, Loads, WaitLabel
<1>7. WaitInv /\ ExitInv /\ LoadInv
  BY <1>3, <1>6 DEF WaitInv, ExitInv, LoadInv
<1> QED
  BY <1>4, <1>5, <1>7 DEF Inv, Struct

LEMMA InvNext == Inv /\ [Next]_vars => Inv'
<1> SUFFICES ASSUME Inv, [Next]_vars PROVE Inv'
  OBVIOUS
<1>1. CASE UNCHANGED vars
  <2>1. UNCHANGED <<links, pc>>
    BY <1>1 DEF vars, links, fields, semas, frame
  <2>2. TypeOK'
    BY <1>1 DEF Inv, TypeOK, vars, fields, semas, frame
  <2> QED
    BY <2>1, <2>2, StructSame DEF Inv
<1>2. ASSUME NEW t \in Thread, Step(t) PROVE Inv'
  BY <1>2, ExecDownStep, LoadStep, LoadUpStep, WaitFindStep, WaitDownStep, WaitReadStep,
     WaitRemoveStep, WaitUpStep, ExitUpStep, ExitDownStep, QuietActions DEF Step
<1>3. ASSUME NEW t \in Thread, UserStep(t) PROVE Inv'
  BY <1>3, CreateStep, QuietActions DEF UserStep
<1> QED
  BY <1>1, <1>2, <1>3 DEF Next

\* The invariant is inductive: each of the three semaphores in a struct thread
\* pairs one parent with one child, across pages that are freed and used again.
THEOREM Invariance == Spec => []Inv
  BY InvInit, InvNext, PTL DEF Spec

\* All fields are what they should be; in particular no semaphore of a struct
\* thread is ever upped twice before it is downed.
THEOREM TypeCorrect == Spec => []TypeOK
<1>1. Inv => TypeOK
  BY DEF Inv
<1> QED
  BY <1>1, Invariance, PTL

\* process_wait(), process_exit(), start_process(): no struct thread is freed while
\* its parent or its child may still follow a pointer to it.
THEOREM PointersSound == Spec => []NoDanglingPointer
<1>1. Inv => NoDanglingPointer
  <2> SUFFICES ASSUME Inv PROVE NoDanglingPointer
    OBVIOUS
  <2>1. LiveInv /\ ChildInv /\ WaitInv /\ LoadInv
    BY DEF Inv, Struct
  <2>2. \A t \in Thread : pc[t] \in {"start", "load_up"} =>
          Live(parent[t]) /\ pc[parent[t]] = "load_down"
    BY <2>1 DEF LoadInv, LiveInv, Loads, Live
  <2> QED
    BY <2>1, <2>2 DEF NoDanglingPointer, ChildInv, WaitInv, Waits
<1> QED
  BY <1>1, Invariance, PTL

-----------------------------------------------------------------------------
(***************************************************************************)
(* Process implements ProcessTable: what a call will return.               *)
(***************************************************************************)

\* process_execute() is about to return the tid of a child, or TID_ERROR;
\* process_wait() the status its child has left.
AnswerInv ==
  \A t \in Thread :
    /\ pc[t] = "none" => eax[t] = 0
    /\ pc[t] \in {"load_down", "scan"} =>
         new_tid[t] = TID_ERROR \/ \E c \in ToSet(child[t]) : tid[c] = new_tid[t]
    /\ pc[t] \in {"wait_remove", "wait_up"} => result[t] = exit_status[wait_on[t]]

LEMMA AnswerInit == Init => AnswerInv
  BY DEF Init, AnswerInv

\* A step of t that touches none of what AnswerInv says of the other threads.
LEMMA AnswerFrame ==
  ASSUME Inv, AnswerInv, NEW t \in Thread, UNCHANGED tid,
         \A u \in Thread \ {t} :
           /\ pc'[u] = pc[u] /\ eax'[u] = eax[u] /\ new_tid'[u] = new_tid[u]
           /\ child'[u] = child[u] /\ result'[u] = result[u] /\ wait_on'[u] = wait_on[u],
         \A c \in Thread : pc[c] = "exit_down" => exit_status'[c] = exit_status[c],
         pc'[t] # "none",
         pc'[t] \in {"load_down", "scan"} =>
           new_tid'[t] = TID_ERROR \/ \E c \in ToSet(child'[t]) : tid[c] = new_tid'[t],
         pc'[t] \in {"wait_remove", "wait_up"} => result'[t] = exit_status'[wait_on'[t]]
  PROVE  AnswerInv'
<1>1. ASSUME NEW u \in Thread \ {t}, pc[u] \in {"wait_remove", "wait_up"}
      PROVE  exit_status'[wait_on[u]] = exit_status[wait_on[u]]
  <2>1. wait_on[u] \in Thread /\ pc[wait_on[u]] = "exit_down"
    BY <1>1 DEF Inv, Struct, WaitInv, ExitInv, Waits, Takes, WaitLabel
  <2> QED
    BY <2>1
<1> QED
  BY <1>1 DEF AnswerInv

LEMMA AnswerNext ==
  ASSUME Inv, AnswerInv, [Next]_vars
  PROVE  AnswerInv'
<1> USE DEF At, Goto, Return, fields, semas, frame, TID_ERROR
<1>1. /\ pc \in [Thread -> Label] /\ eax \in [Thread -> Int]
      /\ new_tid \in [Thread -> -1 .. MaxTid] /\ child \in [Thread -> Seq(Thread)]
      /\ exit_status \in [Thread -> Status \union {-1, 0}]
      /\ result \in [Thread -> Status \union {-1, 0}]
      /\ wait_on \in [Thread -> Thread \union {None}]
      /\ tid \in [Thread -> 0 .. MaxTid]
  BY DEF Inv, TypeOK
<1>2. CASE UNCHANGED vars
  BY <1>2 DEF AnswerInv, vars
<1>3. ASSUME NEW t \in Thread,
             ExecDown(t) \/ ExecScan(t) \/ Load(t) \/ LoadUp(t) \/ WaitFind(t)
               \/ WaitDown(t) \/ ExitUp(t) \/ Kill(t)
               \/ \E k \in 1 .. MaxTid : Wait(t, k)
      PROVE  AnswerInv'
  <2>1. UNCHANGED <<tid, child, exit_status, result>>
    BY <1>3 DEF ExecDown, ExecScan, Load, LoadUp, WaitFind, WaitDown, ExitUp, Kill, Wait
  <2>2. \A u \in Thread \ {t} :
          pc'[u] = pc[u] /\ eax'[u] = eax[u] /\ new_tid'[u] = new_tid[u] /\ wait_on'[u] = wait_on[u]
    BY <1>1, <1>3 DEF ExecDown, ExecScan, Load, LoadUp, WaitFind, WaitDown, ExitUp, Kill, Wait
  <2>3. /\ pc'[t] \notin {"none", "load_down", "wait_remove", "wait_up"}
        /\ pc'[t] = "scan" => pc[t] = "load_down" /\ new_tid' = new_tid
    BY <1>1, <1>3 DEF ExecDown, ExecScan, Load, LoadUp, WaitFind, WaitDown, ExitUp, Kill, Wait
  <2>4. pc'[t] = "scan" =>
          new_tid'[t] = TID_ERROR \/ \E c \in ToSet(child'[t]) : tid[c] = new_tid'[t]
    BY <2>1, <2>3 DEF AnswerInv
  <2> QED
    BY <2>1, <2>2, <2>3, <2>4, AnswerFrame
<1>4. ASSUME NEW t \in Thread, ExecFail(t) \/ ExecNoPage(t)
      PROVE  AnswerInv'
  <2>1. UNCHANGED <<tid, child, exit_status, result, wait_on>>
    BY <1>4 DEF ExecFail, ExecNoPage
  <2>2. \A u \in Thread \ {t} :
          pc'[u] = pc[u] /\ eax'[u] = eax[u] /\ new_tid'[u] = new_tid[u]
    BY <1>1, <1>4 DEF ExecFail, ExecNoPage
  <2>3. pc'[t] = "user" \/ (pc'[t] = "load_down" /\ new_tid'[t] = TID_ERROR)
    BY <1>1, <1>4 DEF ExecFail, ExecNoPage
  <2> QED
    BY <2>1, <2>2, <2>3, AnswerFrame
<1>5. ASSUME NEW t \in Thread, NEW s, exit(t, s), pc[t] \in {"user", "load_exit"}
      PROVE  AnswerInv'
  <2>1. /\ UNCHANGED <<tid, child, eax, new_tid, result, wait_on>>
        /\ \A u \in Thread : u # t => exit_status'[u] = exit_status[u]
        /\ \A u \in Thread : pc'[u] = IF u = t THEN "exit_up" ELSE pc[u]
    BY <1>1, <1>5 DEF exit
  <2> QED
    BY <1>5, <2>1, AnswerFrame
<1>6. ASSUME NEW t \in Thread, WaitRead(t) \/ WaitUp(t)
      PROVE  AnswerInv'
  <2>1. UNCHANGED <<tid, child, exit_status>>
    BY <1>6 DEF WaitRead, WaitUp
  <2>2. \A u \in Thread \ {t} :
          /\ pc'[u] = pc[u] /\ eax'[u] = eax[u] /\ new_tid'[u] = new_tid[u]
          /\ wait_on'[u] = wait_on[u] /\ result'[u] = result[u]
    BY <1>1, <1>6 DEF WaitRead, WaitUp
  <2>3. \/ pc'[t] = "user"
        \/ pc'[t] = "wait_remove" /\ wait_on' = wait_on /\ result'[t] = exit_status[wait_on[t]]
    BY <1>1, <1>6 DEF WaitRead, WaitUp
  <2> QED
    BY <2>1, <2>2, <2>3, AnswerFrame
<1>7. ASSUME NEW t \in Thread, WaitRemove(t)
      PROVE  AnswerInv'
  <2>1. /\ UNCHANGED <<tid, exit_status, eax, new_tid, wait_on, result>>
        /\ pc[t] = "wait_remove"
        /\ \A u \in Thread : pc'[u] = IF u = t THEN "wait_up" ELSE pc[u]
        /\ \A u \in Thread \ {t} : child'[u] = child[u]
    BY <1>1, <1>7 DEF WaitRemove
  <2>2. result'[t] = exit_status'[wait_on'[t]]
    BY <2>1 DEF AnswerInv
  <2> QED
    BY <2>1, <2>2, AnswerFrame
<1>8. ASSUME NEW t \in Thread, NEW c \in Thread, ExecCreate(t, c)
      PROVE  AnswerInv'
  <2>1. /\ pc[t] = "user" /\ pc[c] = "none" /\ c # t
        /\ \A u \in Thread : c \notin ToSet(child[u])
        /\ \A u \in Thread : Waits(u) => wait_on[u] # c
    BY <1>8 DEF ExecCreate, Inv, Struct, LiveInv, ChildInv, WaitInv, Live
  <2>2. /\ UNCHANGED <<eax, wait_on, result>>
        /\ \A u \in Thread : pc'[u] = IF u = t THEN "load_down" ELSE IF u = c THEN "start" ELSE pc[u]
        /\ \A u \in Thread : tid'[u] = IF u = c THEN next_tid ELSE tid[u]
        /\ \A u \in Thread : u # c => exit_status'[u] = exit_status[u]
        /\ \A u \in Thread \ {t, c} : child'[u] = child[u] /\ new_tid'[u] = new_tid[u]
        /\ new_tid'[t] = next_tid
        /\ child'[t] = Append(child[t], c)
    BY <1>1, <1>8, <2>1 DEF ExecCreate
  <2>3. c \in ToSet(child'[t])
    BY <1>1, <2>2, AppendElems
  <2>4. \A u \in Thread : \A d \in ToSet(child[u]) : d \in Thread /\ d # c
    BY <2>1, ChildrenAreThreads DEF Inv
  <2>5. \A u \in Thread : pc[u] \in {"wait_remove", "wait_up"} => wait_on[u] \in Thread /\ wait_on[u] # c
    BY <2>1 DEF Inv, Struct, WaitInv, Waits, WaitLabel
  <2> SUFFICES ASSUME NEW u \in Thread
               PROVE  /\ pc'[u] = "none" => eax'[u] = 0
                      /\ pc'[u] \in {"load_down", "scan"} =>
                           new_tid'[u] = TID_ERROR \/ \E d \in ToSet(child'[u]) : tid'[d] = new_tid'[u]
                      /\ pc'[u] \in {"wait_remove", "wait_up"} =>
                           result'[u] = exit_status'[wait_on'[u]]
    BY DEF AnswerInv
  <2>6. CASE u = t
    BY <2>2, <2>3, <2>6
  <2>7. CASE u = c
    BY <2>1, <2>2, <2>7
  <2>8. CASE u # t /\ u # c
    BY <2>2, <2>4, <2>5, <2>8 DEF AnswerInv
  <2> QED
    BY <2>6, <2>7, <2>8
<1>9. ASSUME NEW t \in Thread, ExitDown(t)
      PROVE  AnswerInv'
  <2>1. /\ pc[t] = "exit_down" /\ mem_lock[t] # 0
        /\ \A u \in Thread : t \notin ToSet(child[u])
        /\ \A u \in Thread : Takes(u) => wait_on[u] # t
    BY <1>9 DEF ExitDown, Inv, Struct, ExitInv
  <2>2. /\ UNCHANGED <<wait_on, result, new_tid>>
        /\ \A u \in Thread : pc'[u] = IF u = t THEN "none" ELSE pc[u]
        /\ \A u \in Thread : eax'[u] = IF u = t THEN 0 ELSE eax[u]
        /\ \A u \in Thread : u # t =>
             tid'[u] = tid[u] /\ exit_status'[u] = exit_status[u] /\ child'[u] = child[u]
    BY <1>1, <1>9 DEF ExitDown, Free
  <2>3. \A u \in Thread : \A d \in ToSet(child[u]) : d \in Thread /\ d # t
    BY <2>1, ChildrenAreThreads DEF Inv
  <2>4. \A u \in Thread : pc[u] \in {"wait_remove", "wait_up"} => wait_on[u] \in Thread /\ wait_on[u] # t
    BY <2>1 DEF Inv, Struct, WaitInv, Waits, WaitLabel, Takes
  <2> QED
    BY <2>2, <2>3, <2>4 DEF AnswerInv
<1>10. ASSUME NEW t \in Thread, Step(t) \/ UserStep(t) PROVE AnswerInv'
  BY <1>3, <1>4, <1>5, <1>6, <1>7, <1>8, <1>9, <1>10 DEF Step, UserStep, LoadExit, Exit
<1> QED
  BY <1>2, <1>10 DEF Next

\* exit() sets the status of the thread that ends, and kill() does not: what a thread
\* that has been killed leaves to its parent is 0.
Ends(c) == pc[c] \in {"exit_up", "exit_down"}
StatusInv ==
  \A c \in Thread :
    /\ ~ Ends(c) => exit_status[c] = 0 /\ ~ killed[c]
    /\ killed[c] => exit_status[c] = 0

LEMMA StatusInit == Init => StatusInv
  BY DEF Init, StatusInv

\* Only exit() sets a status, and only the end of a thread clears it.
LEMMA StatusNext ==
  ASSUME Inv, StatusInv, [Next]_vars
  PROVE  StatusInv'
<1> USE DEF At, Goto, Return, fields, semas, frame
<1>1. /\ pc \in [Thread -> Label]
      /\ exit_status \in [Thread -> Status \union {-1, 0}]
      /\ killed \in [Thread -> BOOLEAN]
      /\ \A c \in Thread : ~ Ends(c) => exit_status[c] = 0 /\ ~ killed[c]
      /\ \A c \in Thread : killed[c] => exit_status[c] = 0
  BY DEF Inv, TypeOK, StatusInv
<1>2. CASE UNCHANGED vars
  BY <1>2 DEF StatusInv, Ends, vars
<1>3. ASSUME NEW t \in Thread, ~ Ends(t), UNCHANGED <<exit_status, killed>>,
             \A u \in Thread \ {t} : pc'[u] = pc[u]
      PROVE  StatusInv'
  BY <1>3 DEF StatusInv, Ends
<1>4. ASSUME NEW t \in Thread, ExecDown(t) \/ ExecScan(t) \/ Load(t) \/ LoadUp(t)
      PROVE  StatusInv'
  <2>1. ~ Ends(t)
    BY <1>4 DEF ExecDown, ExecScan, Load, LoadUp, Ends
  <2>2. UNCHANGED <<exit_status, killed>> /\ \A u \in Thread \ {t} : pc'[u] = pc[u]
    BY <1>1, <1>4 DEF ExecDown, ExecScan, Load, LoadUp
  <2> QED
    BY <1>3, <2>1, <2>2
<1>5. ASSUME NEW t \in Thread,
             WaitFind(t) \/ WaitDown(t) \/ WaitRead(t) \/ WaitRemove(t) \/ WaitUp(t)
      PROVE  StatusInv'
  <2>1. ~ Ends(t)
    BY <1>5 DEF WaitFind, WaitDown, WaitRead, WaitRemove, WaitUp, Ends
  <2>2. UNCHANGED <<exit_status, killed>> /\ \A u \in Thread \ {t} : pc'[u] = pc[u]
    BY <1>1, <1>5 DEF WaitFind, WaitDown, WaitRead, WaitRemove, WaitUp
  <2> QED
    BY <1>3, <2>1, <2>2
<1>6. ASSUME NEW t \in Thread,
             ExecFail(t) \/ ExecNoPage(t) \/ \E k \in 1 .. MaxTid : Wait(t, k)
      PROVE  StatusInv'
  <2>1. ~ Ends(t)
    BY <1>6 DEF ExecFail, ExecNoPage, Wait, Ends
  <2>2. UNCHANGED <<exit_status, killed>> /\ \A u \in Thread \ {t} : pc'[u] = pc[u]
    BY <1>1, <1>6 DEF ExecFail, ExecNoPage, Wait
  <2> QED
    BY <1>3, <2>1, <2>2
<1>7. ASSUME NEW t \in Thread, NEW s, exit(t, s), ~ Ends(t)
      PROVE  StatusInv'
  BY <1>1, <1>7 DEF exit, StatusInv, Ends
<1>8. ASSUME NEW t \in Thread, ExitUp(t)
      PROVE  StatusInv'
  BY <1>1, <1>8 DEF ExitUp, StatusInv, Ends
<1>9. ASSUME NEW t \in Thread, ExitDown(t)
      PROVE  StatusInv'
  BY <1>1, <1>9 DEF ExitDown, Free, StatusInv, Ends
<1>10. ASSUME NEW t \in Thread, NEW c \in Thread, ExecCreate(t, c)
       PROVE  StatusInv'
  <2>1. \A u \in Thread : u # c => exit_status'[u] = exit_status[u]
    BY <1>1, <1>10 DEF ExecCreate
  <2>2. exit_status'[c] = 0 /\ pc[t] = "user" /\ pc[c] = "none" /\ UNCHANGED killed
    BY <1>1, <1>10 DEF ExecCreate, Inv, Struct, LiveInv
  <2>3. \A u \in Thread \ {t, c} : pc'[u] = pc[u]
    BY <1>1, <1>10 DEF ExecCreate
  <2> QED
    BY <2>1, <2>2, <2>3 DEF StatusInv, Ends
\* kill(): the status is the one the thread was created with.
<1>11. ASSUME NEW t \in Thread, Kill(t)
       PROVE  StatusInv'
  <2>1. ~ Ends(t) /\ UNCHANGED exit_status /\ \A u \in Thread \ {t} : pc'[u] = pc[u]
    BY <1>1, <1>11 DEF Kill, Ends
  <2>2. pc'[t] = "exit_up" /\ \A u \in Thread \ {t} : killed'[u] = killed[u]
    BY <1>1, <1>11 DEF Kill
  <2> QED
    BY <1>1, <2>1, <2>2 DEF StatusInv, Ends
<1>12. ASSUME NEW t \in Thread, Step(t) \/ UserStep(t)
       PROVE  StatusInv'
  BY <1>4, <1>5, <1>6, <1>7, <1>8, <1>9, <1>10, <1>11, <1>12 DEF Step, UserStep, LoadExit, Exit, Ends
<1> QED
  BY <1>2, <1>12 DEF Next

-----------------------------------------------------------------------------
(***************************************************************************)
(* Process implements ProcessTable: the refinement mapping, row by row.    *)
(***************************************************************************)

ChildrenAt(k) == IF Known(k) THEN ChildrenOf(ThreadOf(k)) ELSE {}
StatusAt(k) == IF StateOf(k) \in {"exited", "killed"} THEN exit_status[ThreadOf(k)] ELSE 0
AnswerAt(k) == IF Known(k) THEN eax[ThreadOf(k)] ELSE 0

\* What the table says of the process k that runs on page t ...
RowOf(k, t) ==
  /\ StateOf(k) = IF Collected(t) THEN "collected"
                  ELSE IF pc[t] # "exit_down" THEN "running"
                  ELSE IF killed[t] THEN "killed" ELSE "exited"
  /\ ChildrenAt(k) = ChildrenOf(t)
  /\ StatusAt(k) = IF ~ Collected(t) /\ pc[t] = "exit_down" THEN exit_status[t] ELSE 0
  /\ AnswerAt(k) = eax[t]

\* ... and of a tid that no page holds.
NoRow(k) ==
  /\ StateOf(k) = IF k >= next_tid THEN "unused" ELSE "gone"
  /\ ChildrenAt(k) = {} /\ StatusAt(k) = 0 /\ AnswerAt(k) = 0

Rows ==
  \A k \in 1 .. MaxTid :
    /\ \A t \in Thread : tid[t] = k => RowOf(k, t)
    /\ ~ Known(k) => NoRow(k)

LEMMA RowsHold == Inv => Rows
<1> SUFFICES ASSUME Inv, NEW k \in 1 .. MaxTid
             PROVE  /\ \A t \in Thread : tid[t] = k => RowOf(k, t)
                    /\ ~ Known(k) => NoRow(k)
  BY DEF Rows
<1>1. ASSUME NEW t \in Thread, tid[t] = k
      PROVE  RowOf(k, t)
  <2>1. /\ Live(t) /\ Known(k) /\ k < next_tid /\ next_tid \in Int /\ k \in Int
        /\ \A u \in Thread : tid[u] = k => u = t
    BY <1>1, ProcessAssumption DEF Inv, TypeOK, Struct, TidInv, Live, Known
  <2>2. ThreadOf(k) = t
    BY <1>1, <2>1 DEF ThreadOf
  <2>3. ~ (k >= next_tid)
    BY <2>1
  <2> QED
    BY <2>1, <2>2, <2>3, Zenon DEF RowOf, StateOf, ChildrenAt, StatusAt, AnswerAt
<1>2. ~ Known(k) => NoRow(k)
  BY Zenon DEF NoRow, StateOf, ChildrenAt, StatusAt, AnswerAt
<1> QED
  BY <1>1, <1>2

SameRow(k) ==
  /\ StateOf(k)' = StateOf(k)
  /\ ChildrenAt(k)' = ChildrenAt(k)
  /\ StatusAt(k)' = StatusAt(k)
  /\ AnswerAt(k)' = AnswerAt(k)

\* The step changes nothing of t that the table shows.
Kept(t) ==
  /\ Collected(t)' = Collected(t)
  /\ pc'[t] = "exit_down" <=> pc[t] = "exit_down"
  /\ pc[t] = "exit_down" => exit_status'[t] = exit_status[t] /\ killed'[t] = killed[t]
  /\ ChildrenOf(t)' = ChildrenOf(t)
  /\ eax'[t] = eax[t]

LEMMA RowKept ==
  ASSUME Rows, Rows', NEW k \in 1 .. MaxTid,
         \A t \in Thread : (tid'[t] = k <=> tid[t] = k) /\ (tid[t] = k => Kept(t)),
         k >= next_tid' <=> k >= next_tid
  PROVE  SameRow(k)
<1>1. CASE Known(k)
  <2>1. PICK t \in Thread : tid[t] = k
    BY <1>1 DEF Known
  <2>2. RowOf(k, t) /\ RowOf(k, t)' /\ Kept(t)
    BY <2>1 DEF Rows
  <2> QED
    BY <2>2 DEF RowOf, Kept, SameRow
<1>2. CASE ~ Known(k)
  <2>1. ~ Known(k)'
    BY <1>2 DEF Known
  <2>2. NoRow(k) /\ NoRow(k)'
    BY <1>2, <2>1 DEF Rows
  <2> QED
    BY <2>2 DEF NoRow, SameRow
<1> QED
  BY <1>1, <1>2

\* The mapping as SMT and Zenon see it: a function is what its values are.
LEMMA TableVars ==
  (\A k \in 1 .. MaxTid : SameRow(k)) => UNCHANGED Table!vars
  BY Zenon DEF Table!vars, SameRow, ChildrenAt, StatusAt, AnswerAt

\* A step of the kernel that the table does not see.
LEMMA TableStutter ==
  ASSUME Rows, Rows', UNCHANGED <<tid, next_tid>>, \A t \in Thread : Live(t) => Kept(t)
  PROVE  UNCHANGED Table!vars
<1>1. ASSUME NEW k \in 1 .. MaxTid PROVE SameRow(k)
  <2>1. \A t \in Thread : (tid'[t] = k <=> tid[t] = k) /\ (tid[t] = k => Kept(t))
    BY ProcessAssumption DEF Live
  <2> QED
    BY <2>1, RowKept
<1> QED
  BY <1>1, TableVars

\* A step that gives the program of t an answer, and changes nothing else.
LEMMA TableAnswer ==
  ASSUME Inv, Rows, Rows', NEW t \in Thread, Live(t), pc[t] # "exit_down",
         NEW n \in ChildrenOf(t) \union {-1}, eax' = [eax EXCEPT ![t] = n],
         UNCHANGED <<tid, next_tid, killed, child, wait_on, exit_status, mem_lock>>,
         \A u \in Thread : pc'[u] = IF u = t THEN "user" ELSE pc[u],
         pc[t] # "wait_up"
  PROVE  Table!Next
<1>1. eax \in [Thread -> Int] /\ tid[t] \in 1 .. MaxTid /\ ~ Collected(t)
  BY ProcessAssumption DEF Inv, TypeOK, Struct, ExitInv, Live, Collected
<1>2. PICK p \in 1 .. MaxTid : p = tid[t]
  BY <1>1
<1>3. ASSUME NEW k \in (1 .. MaxTid) \ {p} PROVE SameRow(k)
  <2>1. \A u \in Thread : tid[u] = k => Kept(u)
    BY <1>1, <1>2 DEF Kept, Collected, ChildrenOf
  <2> QED
    BY <2>1, RowKept
<1>4. /\ StateOf(p) = "running" /\ StateOf(p)' = "running"
      /\ ChildrenAt(p) = ChildrenOf(t) /\ ChildrenAt(p)' = ChildrenOf(t)
      /\ StatusAt(p) = 0 /\ StatusAt(p)' = 0
      /\ AnswerAt(p)' = n
  <2>1. RowOf(p, t) /\ RowOf(p, t)'
    BY <1>2 DEF Rows
  <2>2. ~ Collected(t)' /\ ChildrenOf(t)' = ChildrenOf(t) /\ eax'[t] = n /\ pc'[t] = "user"
    BY <1>1 DEF Collected, ChildrenOf
  <2> QED
    BY <1>1, <2>1, <2>2 DEF RowOf
<1>5. Table!Answer(p)
  <2>1. /\ \A k \in 1 .. MaxTid : StateOf(k)' = StateOf(k) /\ ChildrenAt(k)' = ChildrenAt(k)
                                    /\ StatusAt(k)' = StatusAt(k)
        /\ \A k \in 1 .. MaxTid : AnswerAt(k)' = IF k = p THEN n ELSE AnswerAt(k)
        /\ StateOf(p) = "running" /\ n \in ChildrenAt(p) \union {-1}
    BY <1>3, <1>4 DEF SameRow
  <2>2. [k \in 1 .. MaxTid |-> AnswerAt(k)]' =
          [[k \in 1 .. MaxTid |-> AnswerAt(k)] EXCEPT ![p] = n]
    BY <2>1
  <2>3. /\ [k \in 1 .. MaxTid |-> StateOf(k)]' = [k \in 1 .. MaxTid |-> StateOf(k)]
        /\ [k \in 1 .. MaxTid |-> ChildrenAt(k)]' = [k \in 1 .. MaxTid |-> ChildrenAt(k)]
        /\ [k \in 1 .. MaxTid |-> StatusAt(k)]' = [k \in 1 .. MaxTid |-> StatusAt(k)]
    BY <2>1
  <2> QED
    BY <2>1, <2>2, <2>3 DEF Table!Answer, ChildrenAt, StatusAt, AnswerAt
<1> QED
  BY <1>5 DEF Table!Next

\* thread_create(): the next tid becomes a running process, a child of t.
LEMMA TableCreate ==
  ASSUME Inv, AnswerInv, Rows, Rows', NEW t \in Thread, NEW c \in Thread, ExecCreate(t, c)
  PROVE  Table!Next
<1>1. /\ tid \in [Thread -> 0 .. MaxTid] /\ next_tid \in 1 .. MaxTid /\ MaxTid \in Nat
      /\ \A u \in Thread : tid[u] < next_tid
      /\ eax \in [Thread -> Int] /\ child \in [Thread -> Seq(Thread)]
      /\ \A u \in Thread : ToSet(child[u]) \subseteq Thread
  <2>1. /\ tid \in [Thread -> 0 .. MaxTid] /\ next_tid \in 1 .. MaxTid
        /\ eax \in [Thread -> Int] /\ child \in [Thread -> Seq(Thread)]
    BY DEF ExecCreate, Inv, TypeOK
  <2>2. MaxTid \in Nat
    BY ProcessAssumption
  <2>3. \A u \in Thread : tid[u] < next_tid
    BY DEF Inv, Struct, TidInv
  <2>4. \A u \in Thread : ToSet(child[u]) \subseteq Thread
    BY ChildrenAreThreads DEF Inv
  <2> QED
    BY <2>1, <2>2, <2>3, <2>4
<1>2. /\ pc[t] = "user" /\ pc[c] = "none" /\ c # t /\ tid[c] = 0 /\ tid[t] # 0
      /\ ~ Collected(t) /\ eax[c] = 0
      /\ \A u \in Thread : c \notin ToSet(child[u])
      /\ \A u \in Thread : pc[u] = "wait_up" => wait_on[u] # c /\ wait_on[u] \in Thread
  BY DEF ExecCreate, At, Inv, Struct, LiveInv, ChildInv, WaitInv, ExitInv, Waits, WaitLabel, Live,
     Collected, AnswerInv
<1>3. /\ next_tid' = next_tid + 1 /\ UNCHANGED <<killed, eax, wait_on>>
      /\ \A u \in Thread : tid'[u] = IF u = c THEN next_tid ELSE tid[u]
      /\ \A u \in Thread : pc'[u] = IF u = t THEN "load_down" ELSE IF u = c THEN "start" ELSE pc[u]
      /\ \A u \in Thread : mem_lock'[u] = IF u = c THEN 0 ELSE mem_lock[u]
      /\ \A u \in Thread : u # c => exit_status'[u] = exit_status[u]
      /\ \A u \in Thread \ {t, c} : child'[u] = child[u]
      /\ child'[t] = Append(child[t], c) /\ child'[c] = <<>>
  BY <1>1, <1>2 DEF ExecCreate, Inv, TypeOK
<1>4. PICK p \in 1 .. MaxTid : p = tid[t]
  BY <1>1, <1>2
<1>5. PICK k \in 1 .. MaxTid : k = next_tid
  BY <1>1
<1>6. p # k /\ \A u \in Thread : tid[u] # k
  BY <1>1, <1>4, <1>5
<1>7. \A u \in Thread \ {t, c} : ChildrenOf(u)' = ChildrenOf(u)
  <2> SUFFICES ASSUME NEW u \in Thread \ {t, c} PROVE ChildrenOf(u)' = ChildrenOf(u)
    OBVIOUS
  <2>1. \A d \in ToSet(child[u]) : tid'[d] = tid[d]
    BY <1>1, <1>2, <1>3
  <2>2. pc[u] = "wait_up" => tid'[wait_on[u]] = tid[wait_on[u]]
    BY <1>2, <1>3
  <2> QED
    BY <1>3, <2>1, <2>2 DEF ChildrenOf
<1>8. ChildrenOf(t)' = ChildrenOf(t) \union {k} /\ ChildrenOf(c)' = {}
  <2>1. ToSet(Append(child[t], c)) = ToSet(child[t]) \union {c} /\ ToSet(<<>>) = {}
    <3>1. ToSet(Append(child[t], c)) = ToSet(child[t]) \union {c}
      BY <1>1, AppendElems
    <3>2. ToSet(<<>>) = {}
      BY DEF ToSet
    <3> QED
      BY <3>1, <3>2
  <2>2. /\ ChildrenOf(t) = {tid[d] : d \in ToSet(child[t])}
        /\ ChildrenOf(t)' = {tid'[d] : d \in ToSet(child[t]) \union {c}}
        /\ ChildrenOf(c)' = {tid'[d] : d \in {}}
    BY <1>2, <1>3, <2>1 DEF ChildrenOf
  <2>3. \A d \in ToSet(child[t]) : tid'[d] = tid[d]
    BY <1>1, <1>2, <1>3
  <2> QED
    BY <1>3, <1>5, <2>2, <2>3
<1>9. ASSUME NEW j \in (1 .. MaxTid) \ {p, k} PROVE SameRow(j)
  <2>1. \A u \in Thread : tid'[u] = j <=> tid[u] = j
    BY <1>2, <1>3, <1>5
  <2>2. \A u \in Thread : tid[u] = j => u # t /\ u # c
    BY <1>2, <1>4
  <2>3. \A u \in Thread : tid[u] = j => Kept(u)
    BY <1>3, <1>7, <2>2 DEF Kept, Collected
  <2>4. j >= next_tid' <=> j >= next_tid
    BY <1>1, <1>3, <1>5
  <2> QED
    BY <2>1, <2>3, <2>4, RowKept
<1>10. /\ StateOf(p) = "running" /\ StateOf(p)' = "running"
       /\ ChildrenAt(p)' = ChildrenAt(p) \union {k}
       /\ StatusAt(p)' = StatusAt(p) /\ AnswerAt(p)' = AnswerAt(p)
  <2>1. RowOf(p, t) /\ RowOf(p, t)'
    BY <1>2, <1>3, <1>4 DEF Rows
  <2>2. ~ Collected(t)' /\ pc'[t] = "load_down"
    BY <1>2, <1>3 DEF Collected
  <2> QED
    BY <1>2, <1>3, <1>8, <2>1, <2>2 DEF RowOf
<1>11. /\ StateOf(k) = "unused" /\ StateOf(k)' = "running"
       /\ ChildrenAt(k)' = ChildrenAt(k)
       /\ StatusAt(k)' = StatusAt(k) /\ AnswerAt(k)' = AnswerAt(k)
  <2>1. NoRow(k) /\ RowOf(k, c)'
    BY <1>3, <1>5, <1>6 DEF Rows, Known
  <2>2. ~ Collected(c)' /\ pc'[c] = "start" /\ eax'[c] = 0
    BY <1>2, <1>3 DEF Collected
  <2>3. k >= next_tid
    BY <1>1, <1>5
  <2> QED
    BY <1>8, <2>1, <2>2, <2>3 DEF RowOf, NoRow
<1>12. Table!Create(p, k)
  <2>1. /\ \A j \in 1 .. MaxTid : StateOf(j)' = IF j = k THEN "running" ELSE StateOf(j)
        /\ \A j \in 1 .. MaxTid :
             ChildrenAt(j)' = IF j = p THEN ChildrenAt(j) \union {k} ELSE ChildrenAt(j)
        /\ \A j \in 1 .. MaxTid : StatusAt(j)' = StatusAt(j) /\ AnswerAt(j)' = AnswerAt(j)
    BY <1>6, <1>9, <1>10, <1>11 DEF SameRow
  <2> QED
    BY <1>10, <1>11, <2>1 DEF Table!Create, ChildrenAt, StatusAt, AnswerAt
<1> QED
  BY <1>12 DEF Table!Next

\* process_exit(): a running process has ended, and its status can be taken:
\* the one given to exit(), or 0 if it has been killed.
LEMMA TableExit ==
  ASSUME Inv, StatusInv, Rows, Rows', NEW t \in Thread, ExitUp(t)
  PROVE  Table!Next
<1>1. /\ tid[t] \in 1 .. MaxTid /\ pc[t] = "exit_up" /\ ~ Collected(t)
      /\ exit_status[t] \in Status \union {-1, 0}
  <2>1. pc[t] = "exit_up" /\ tid[t] # 0 /\ mem_lock[t] = 0
    BY DEF ExitUp, At, Inv, Struct, LiveInv, ExitInv
  <2>2. tid[t] \in 0 .. MaxTid /\ MaxTid \in Nat
    BY ProcessAssumption DEF Inv, TypeOK
  <2>3. exit_status[t] \in Status \union {-1, 0}
    BY DEF Inv, TypeOK
  <2> QED
    BY <2>1, <2>2, <2>3 DEF Collected
<1>2. /\ UNCHANGED <<tid, next_tid, killed, child, wait_on, exit_status, mem_lock, eax>>
      /\ \A u \in Thread : pc'[u] = IF u = t THEN "exit_down" ELSE pc[u]
  BY DEF ExitUp, Goto, fields, frame, Inv, TypeOK
<1>3. PICK k \in 1 .. MaxTid : k = tid[t]
  BY <1>1
<1>4. ASSUME NEW j \in (1 .. MaxTid) \ {k} PROVE SameRow(j)
  <2>1. \A u \in Thread : tid[u] = j => Kept(u)
    BY <1>2, <1>3 DEF Kept, Collected, ChildrenOf
  <2> QED
    BY <1>2, <2>1, RowKept
<1>5. /\ StateOf(k) = "running" /\ StateOf(k)' = IF killed[t] THEN "killed" ELSE "exited"
      /\ ChildrenAt(k)' = ChildrenAt(k) /\ AnswerAt(k)' = AnswerAt(k)
      /\ StatusAt(k) = 0 /\ StatusAt(k)' = exit_status[t]
  <2>1. RowOf(k, t) /\ RowOf(k, t)'
    BY <1>2, <1>3 DEF Rows
  <2>2. ~ Collected(t)' /\ ChildrenOf(t)' = ChildrenOf(t) /\ pc'[t] = "exit_down"
    BY <1>1, <1>2 DEF Collected, ChildrenOf
  <2> QED
    BY <1>1, <1>2, <2>1, <2>2 DEF RowOf
<1>6. /\ \A j \in 1 .. MaxTid : StateOf(j)' = IF j = k THEN StateOf(k)' ELSE StateOf(j)
      /\ \A j \in 1 .. MaxTid : StatusAt(j)' = IF j = k THEN exit_status[t] ELSE StatusAt(j)
      /\ \A j \in 1 .. MaxTid : ChildrenAt(j)' = ChildrenAt(j) /\ AnswerAt(j)' = AnswerAt(j)
  BY <1>4, <1>5 DEF SameRow
<1>7. CASE killed[t]
  <2>1. exit_status[t] = 0
    BY <1>7 DEF StatusInv
  <2>2. /\ \A j \in 1 .. MaxTid : StateOf(j)' = IF j = k THEN "killed" ELSE StateOf(j)
        /\ \A j \in 1 .. MaxTid : StatusAt(j)' = StatusAt(j)
    BY <1>5, <1>6, <1>7, <2>1
  <2>3. Table!Kill(k)
    BY <1>5, <1>6, <2>2 DEF Table!Kill, ChildrenAt, StatusAt, AnswerAt
  <2> QED
    BY <2>3 DEF Table!Next
<1>8. CASE ~ killed[t]
  <2>1. \A j \in 1 .. MaxTid : StateOf(j)' = IF j = k THEN "exited" ELSE StateOf(j)
    BY <1>5, <1>6, <1>8
  <2>2. Table!Exit(k)
    BY <1>1, <1>5, <1>6, <2>1 DEF Table!Exit, ChildrenAt, StatusAt, AnswerAt
  <2> QED
    BY <2>2 DEF Table!Next
<1> QED
  BY <1>7, <1>8

\* sema_up (&t->mem_lock): the parent t returns with the status of its child.
LEMMA TableCollect ==
  ASSUME Inv, AnswerInv, Rows, Rows', NEW t \in Thread, WaitUp(t)
  PROVE  Table!Next
<1>1. PICK c \in Thread : c = wait_on[t]
  BY DEF WaitUp, At, Inv, Struct, WaitInv, Waits, WaitLabel
<1>2. /\ pc[t] = "wait_up" /\ tid[t] # 0 /\ tid[c] # 0 /\ mem_lock[t] = 0
      /\ pc[c] = "exit_down" /\ mem_lock[c] = 0 /\ result[t] = exit_status[c]
      /\ c \notin ToSet(child[t])
  BY <1>1 DEF WaitUp, At, Inv, Struct, LiveInv, WaitInv, ExitInv, Waits, Takes, WaitLabel, Live,
     AnswerInv
<1>3. /\ tid[t] \in 1 .. MaxTid /\ tid[c] \in 1 .. MaxTid /\ c # t
      /\ \A u, v \in Thread : tid[u] = tid[v] /\ tid[u] # 0 => u = v
      /\ ToSet(child[t]) \subseteq Thread
  <2>1. tid \in [Thread -> 0 .. MaxTid] /\ MaxTid \in Nat
    BY ProcessAssumption DEF Inv, TypeOK
  <2>2. \A u, v \in Thread : tid[u] = tid[v] /\ tid[u] # 0 => u = v
    BY DEF Inv, Struct, TidInv, Live
  <2> QED
    BY <1>2, <2>1, <2>2, ChildrenAreThreads DEF Inv
<1>4. /\ UNCHANGED <<tid, next_tid, killed, child, exit_status>>
      /\ \A u \in Thread : pc'[u] = IF u = t THEN "user" ELSE pc[u]
      /\ \A u \in Thread : mem_lock'[u] = IF u = c THEN 1 ELSE mem_lock[u]
      /\ \A u \in Thread : u # t => wait_on'[u] = wait_on[u]
      /\ \A u \in Thread : eax'[u] = IF u = t THEN exit_status[c] ELSE eax[u]
  BY <1>1, <1>2 DEF WaitUp, Return, Goto, fields, Inv, TypeOK
<1>5. PICK p \in 1 .. MaxTid : p = tid[t]
  BY <1>3
<1>6. PICK k \in 1 .. MaxTid : k = tid[c]
  BY <1>3
<1>7. p # k
  BY <1>2, <1>3, <1>5, <1>6
<1>8. \A u \in Thread \ {t} : ChildrenOf(u)' = ChildrenOf(u)
  BY <1>4 DEF ChildrenOf
<1>9. ChildrenOf(t)' = ChildrenOf(t) \ {k} /\ k \in ChildrenOf(t)
  <2>1. /\ ChildrenOf(t)' = {tid[d] : d \in ToSet(child[t])}
        /\ ChildrenOf(t) = {tid[d] : d \in ToSet(child[t])} \union {k}
    BY <1>1, <1>2, <1>4, <1>6 DEF ChildrenOf
  <2>2. \A d \in ToSet(child[t]) : tid[d] # k
    BY <1>2, <1>3, <1>6
  <2> QED
    BY <2>1, <2>2
<1>10. ASSUME NEW j \in (1 .. MaxTid) \ {p, k} PROVE SameRow(j)
  <2>1. \A u \in Thread : tid[u] = j => u # t /\ u # c
    BY <1>5, <1>6
  <2>2. \A u \in Thread : tid[u] = j => Kept(u)
    BY <1>4, <1>8, <2>1 DEF Kept, Collected
  <2> QED
    BY <1>4, <2>2, RowKept
<1>11. /\ StateOf(p) = "running" /\ StateOf(p)' = "running"
       /\ ChildrenAt(p)' = ChildrenAt(p) \ {k} /\ k \in ChildrenAt(p)
       /\ StatusAt(p)' = StatusAt(p) /\ AnswerAt(p)' = exit_status[c]
  <2>1. RowOf(p, t) /\ RowOf(p, t)'
    BY <1>4, <1>5 DEF Rows
  <2>2. ~ Collected(t) /\ ~ Collected(t)' /\ pc'[t] = "user" /\ eax'[t] = exit_status[c]
    BY <1>2, <1>3, <1>4 DEF Collected
  <2> QED
    BY <1>2, <1>9, <2>1, <2>2 DEF RowOf
<1>12. /\ StateOf(k) \in {"exited", "killed"} /\ StateOf(k)' = "collected"
       /\ ChildrenAt(k)' = ChildrenAt(k)
       /\ StatusAt(k) = exit_status[c] /\ StatusAt(k)' = 0 /\ AnswerAt(k)' = AnswerAt(k)
  <2>1. RowOf(k, c) /\ RowOf(k, c)'
    BY <1>4, <1>6 DEF Rows
  <2>2. ~ Collected(c) /\ Collected(c)' /\ eax'[c] = eax[c]
    BY <1>2, <1>3, <1>4 DEF Collected
  <2> QED
    BY <1>2, <1>3, <1>8, <2>1, <2>2 DEF RowOf
<1>13. Table!Collect(p, k)
  <2>1. /\ \A j \in 1 .. MaxTid : StateOf(j)' = IF j = k THEN "collected" ELSE StateOf(j)
        /\ \A j \in 1 .. MaxTid :
             ChildrenAt(j)' = IF j = p THEN ChildrenAt(j) \ {k} ELSE ChildrenAt(j)
        /\ \A j \in 1 .. MaxTid : AnswerAt(j)' = IF j = p THEN StatusAt(k) ELSE AnswerAt(j)
        /\ \A j \in 1 .. MaxTid : StatusAt(j)' = IF j = k THEN 0 ELSE StatusAt(j)
    BY <1>7, <1>10, <1>11, <1>12 DEF SameRow
  <2> QED
    BY <1>11, <1>12, <2>1 DEF Table!Collect, ChildrenAt, StatusAt, AnswerAt
<1> QED
  BY <1>13 DEF Table!Next

\* The page of a collected process is freed.
LEMMA TableVanish ==
  ASSUME Inv, Rows, Rows', NEW t \in Thread, ExitDown(t)
  PROVE  Table!Next
<1>1. /\ pc[t] = "exit_down" /\ tid[t] # 0 /\ Collected(t)
      /\ \A u \in Thread : t \notin ToSet(child[u])
      /\ \A u \in Thread : pc[u] = "wait_up" => wait_on[u] # t
  <2>1. pc[t] = "exit_down" /\ mem_lock[t] > 0 /\ mem_lock[t] # 0
    BY DEF ExitDown, At, Inv, TypeOK
  <2> QED
    BY <2>1 DEF Inv, Struct, LiveInv, ExitInv, Takes, Collected
<1>2. /\ tid \in [Thread -> 0 .. MaxTid] /\ MaxTid \in Nat /\ next_tid \in Int
      /\ tid[t] < next_tid
      /\ \A u \in Thread : ToSet(child[u]) \subseteq Thread
      /\ \A u, v \in Thread : tid[u] = tid[v] /\ tid[u] # 0 => u = v
  <2>1. tid \in [Thread -> 0 .. MaxTid] /\ MaxTid \in Nat /\ next_tid \in Int
    BY ProcessAssumption DEF Inv, TypeOK
  <2>2. tid[t] < next_tid /\ \A u, v \in Thread : tid[u] = tid[v] /\ tid[u] # 0 => u = v
    BY DEF Inv, Struct, TidInv, Live
  <2> QED
    BY <2>1, <2>2, ChildrenAreThreads DEF Inv
<1>3. /\ UNCHANGED <<next_tid, wait_on>>
      /\ \A u \in Thread : tid'[u] = IF u = t THEN 0 ELSE tid[u]
      /\ \A u \in Thread : pc'[u] = IF u = t THEN "none" ELSE pc[u]
      /\ \A u \in Thread \ {t} : /\ child'[u] = child[u] /\ exit_status'[u] = exit_status[u]
                                 /\ killed'[u] = killed[u]
                                 /\ mem_lock'[u] = mem_lock[u] /\ eax'[u] = eax[u]
  BY DEF ExitDown, Free, Goto, Inv, TypeOK
<1>4. PICK k \in 1 .. MaxTid : k = tid[t]
  BY <1>1, <1>2
<1>5. \A u \in Thread \ {t} : ChildrenOf(u)' = ChildrenOf(u)
  <2> SUFFICES ASSUME NEW u \in Thread \ {t}
               PROVE  ChildrenOf(u)' = ChildrenOf(u)
    OBVIOUS
  <2>1. \A d \in ToSet(child[u]) : tid'[d] = tid[d]
    BY <1>1, <1>2, <1>3
  <2>2. pc[u] = "wait_up" => tid'[wait_on[u]] = tid[wait_on[u]]
    BY <1>1, <1>3 DEF Inv, Struct, WaitInv, Waits, WaitLabel
  <2> QED
    BY <1>3, <2>1, <2>2 DEF ChildrenOf
<1>6. ASSUME NEW j \in (1 .. MaxTid) \ {k} PROVE SameRow(j)
  <2>1. \A u \in Thread : tid'[u] = j <=> tid[u] = j
    BY <1>2, <1>3, <1>4
  <2>2. \A u \in Thread : tid[u] = j => Kept(u)
    BY <1>3, <1>4, <1>5 DEF Kept, Collected
  <2> QED
    BY <1>3, <2>1, <2>2, RowKept
<1>7. /\ StateOf(k) = "collected" /\ StatusAt(k) = 0
  <2>1. RowOf(k, t)
    BY <1>4 DEF Rows
  <2> QED
    BY <1>1, <2>1 DEF RowOf
<1>8. /\ StateOf(k)' = "gone" /\ ChildrenAt(k)' = {} /\ StatusAt(k)' = 0 /\ AnswerAt(k)' = 0
  <2>1. \A u \in Thread : tid'[u] # k
    BY <1>1, <1>2, <1>3, <1>4
  <2>2. NoRow(k)'
    BY <2>1 DEF Rows, Known
  <2>3. ~ (k >= next_tid')
    BY <1>2, <1>3, <1>4
  <2> QED
    BY <2>2, <2>3 DEF NoRow
<1>9. Table!Vanish(k)
  <2>1. /\ \A j \in 1 .. MaxTid : StateOf(j)' = IF j = k THEN "gone" ELSE StateOf(j)
        /\ \A j \in 1 .. MaxTid : ChildrenAt(j)' = IF j = k THEN {} ELSE ChildrenAt(j)
        /\ \A j \in 1 .. MaxTid : AnswerAt(j)' = IF j = k THEN 0 ELSE AnswerAt(j)
        /\ \A j \in 1 .. MaxTid : StatusAt(j)' = StatusAt(j)
    BY <1>6, <1>7, <1>8 DEF SameRow
  <2> QED
    BY <1>7, <2>1 DEF Table!Vanish, ChildrenAt, StatusAt, AnswerAt
<1> QED
  BY <1>9 DEF Table!Next

\* Every step of a thread is a step of the table, or one it does not see.
LEMMA TableStep ==
  ASSUME Inv, AnswerInv, StatusInv, Rows, Rows', [Next]_vars
  PROVE  [Table!Next]_(Table!vars)
<1> USE DEF At, Goto, Return, fields, semas, frame
<1>1. /\ pc \in [Thread -> Label] /\ eax \in [Thread -> Int]
      /\ child \in [Thread -> Seq(Thread)] /\ wait_on \in [Thread -> Thread \union {None}]
      /\ exit_status \in [Thread -> Status \union {-1, 0}]
      /\ killed \in [Thread -> BOOLEAN]
      /\ \A t \in Thread : pc[t] # "none" => Live(t)
  BY DEF Inv, TypeOK, Struct, LiveInv, Live
<1>2. CASE UNCHANGED vars
  <2>1. \A t \in Thread : Kept(t)
    BY <1>2 DEF vars, Kept, Collected, ChildrenOf
  <2> QED
    BY <1>2, <2>1, TableStutter DEF vars
\* Steps inside a call.
<1>3. ASSUME NEW t \in Thread,
             ExecNoPage(t) \/ ExecDown(t) \/ Load(t) \/ LoadUp(t)
               \/ WaitDown(t) \/ WaitRead(t)
               \/ \E k \in 1 .. MaxTid : Wait(t, k)
      PROVE  UNCHANGED Table!vars
  <2>1. /\ UNCHANGED <<tid, next_tid, killed, child, exit_status, mem_lock, wait_on, eax>>
        /\ \A u \in Thread \ {t} : pc'[u] = pc[u]
        /\ pc[t] \notin {"wait_up", "exit_down"} /\ pc'[t] \notin {"wait_up", "exit_down"}
    BY <1>1, <1>3 DEF ExecNoPage, ExecDown, Load, LoadUp, WaitDown, WaitRead, Wait
  <2>2. ASSUME NEW u \in Thread PROVE Kept(u)
    <3>1. /\ pc'[u] = "exit_down" <=> pc[u] = "exit_down"
          /\ pc'[u] = "wait_up" <=> pc[u] = "wait_up"
      BY <2>1
    <3> QED
      BY <2>1, <3>1 DEF Kept, Collected, ChildrenOf
  <2> QED
    BY <2>1, <2>2, TableStutter
\* exit() keeps the status it is called with to itself.
<1>4. ASSUME NEW t \in Thread, NEW s, exit(t, s), pc[t] \in {"user", "load_exit"}
      PROVE  UNCHANGED Table!vars
  <2>1. /\ UNCHANGED <<tid, next_tid, killed, child, mem_lock, wait_on, eax>>
        /\ \A u \in Thread : pc'[u] = IF u = t THEN "exit_up" ELSE pc[u]
        /\ \A u \in Thread \ {t} : exit_status'[u] = exit_status[u]
    BY <1>1, <1>4 DEF exit
  <2>2. \A u \in Thread : Kept(u)
    BY <1>4, <2>1 DEF Kept, Collected, ChildrenOf
  <2> QED
    BY <2>1, <2>2, TableStutter
\* kill() is not seen before process_exit() lets the parent know.
<1>10. ASSUME NEW t \in Thread, Kill(t)
       PROVE  UNCHANGED Table!vars
  <2>1. /\ UNCHANGED <<tid, next_tid, child, exit_status, mem_lock, wait_on, eax>>
        /\ \A u \in Thread : pc'[u] = IF u = t THEN "exit_up" ELSE pc[u]
        /\ \A u \in Thread \ {t} : killed'[u] = killed[u]
        /\ pc[t] = "user"
    BY <1>1, <1>10 DEF Kill
  <2>2. \A u \in Thread : Kept(u)
    BY <2>1 DEF Kept, Collected, ChildrenOf
  <2> QED
    BY <2>1, <2>2, TableStutter
\* list_remove(): the child is still one whose status has not been taken.
<1>5. ASSUME NEW t \in Thread, WaitRemove(t)
      PROVE  UNCHANGED Table!vars
  <2>1. PICK i \in DOMAIN child[t] :
          child[t][i] = wait_on[t] /\ child' = [child EXCEPT ![t] = RemoveAt(child[t], i)]
    BY <1>5 DEF WaitRemove
  <2>2. child[t] \in Seq(Thread) /\ IsInjective(child[t])
    BY <1>1 DEF Inv, Struct, ChildInv
  <2>3. ToSet(RemoveAt(child[t], i)) = ToSet(child[t]) \ {wait_on[t]}
    BY <2>1, <2>2, UnlinkElems
  <2>4. wait_on[t] \in ToSet(child[t]) /\ pc[t] = "wait_remove"
    BY <1>5 DEF WaitRemove, Inv, Struct, WaitInv, Waits, WaitLabel
  <2>5. /\ UNCHANGED <<tid, next_tid, killed, exit_status, mem_lock, wait_on, eax>>
        /\ \A u \in Thread : pc'[u] = IF u = t THEN "wait_up" ELSE pc[u]
        /\ child'[t] = RemoveAt(child[t], i)
        /\ \A u \in Thread \ {t} : child'[u] = child[u]
    BY <1>1, <1>5, <2>1 DEF WaitRemove
  <2>6. ChildrenOf(t)' = ChildrenOf(t)
    <3>1. /\ ChildrenOf(t)' =
               {tid[c] : c \in ToSet(child[t]) \ {wait_on[t]}} \union {tid[wait_on[t]]}
          /\ ChildrenOf(t) = {tid[c] : c \in ToSet(child[t])}
      BY <2>3, <2>4, <2>5 DEF ChildrenOf
    <3> QED
      BY <2>4, <3>1
  <2>7. \A u \in Thread : Kept(u)
    BY <2>4, <2>5, <2>6 DEF Kept, Collected, ChildrenOf
  <2> QED
    BY <2>5, <2>7, TableStutter
\* A call returns without a status.
<1>6. ASSUME NEW t \in Thread, ExecFail(t)
      PROVE  Table!Next
  <2>1. /\ UNCHANGED <<tid, next_tid, killed, child, wait_on, exit_status, mem_lock, pc>>
        /\ eax' = [eax EXCEPT ![t] = -1] /\ pc[t] = "user"
    BY <1>6 DEF ExecFail
  <2> QED
    BY <1>1, <2>1, TableAnswer
<1>7. ASSUME NEW t \in Thread, ExecScan(t)
      PROVE  [Table!Next]_(Table!vars)
  <2>1. /\ UNCHANGED <<tid, next_tid, killed, child, wait_on, exit_status, mem_lock>>
        /\ pc[t] = "scan"
    BY <1>7 DEF ExecScan
  <2>2. CASE Failed(t)
    <3>1. eax' = eax /\ \A u \in Thread : pc'[u] = IF u = t THEN "find" ELSE pc[u]
      BY <1>1, <1>7, <2>2 DEF ExecScan
    <3>2. \A u \in Thread : Kept(u)
      BY <2>1, <3>1 DEF Kept, Collected, ChildrenOf
    <3> QED
      BY <2>1, <3>2, TableStutter
  <2>3. CASE ~ Failed(t)
    <3>1. /\ eax' = [eax EXCEPT ![t] = new_tid[t]]
          /\ \A u \in Thread : pc'[u] = IF u = t THEN "user" ELSE pc[u]
      BY <1>1, <1>7, <2>3 DEF ExecScan
    <3>2. new_tid[t] \in ChildrenOf(t) \union {-1}
      BY <2>1 DEF AnswerInv, ChildrenOf, TID_ERROR
    <3> QED
      BY <1>1, <2>1, <3>1, <3>2, TableAnswer
  <2> QED
    BY <2>2, <2>3
<1>8. ASSUME NEW t \in Thread, WaitFind(t)
      PROVE  [Table!Next]_(Table!vars)
  <2>1. /\ UNCHANGED <<tid, next_tid, killed, child, exit_status, mem_lock>>
        /\ pc[t] = "find"
    BY <1>8 DEF WaitFind
  <2>2. CASE /\ eax' = [eax EXCEPT ![t] = -1] /\ wait_on' = wait_on
             /\ pc' = [pc EXCEPT ![t] = "user"]
    BY <1>1, <2>1, <2>2, TableAnswer
  <2>3. CASE /\ eax' = eax /\ pc' = [pc EXCEPT ![t] = "wait_down"]
             /\ \E c \in ToSet(child[t]) : wait_on' = [wait_on EXCEPT ![t] = c]
    <3>1. \A u \in Thread \ {t} : pc'[u] = pc[u] /\ wait_on'[u] = wait_on[u]
      BY <1>1, <2>3
    <3>2. pc'[t] = "wait_down"
      BY <1>1, <2>3
    <3>3. \A u \in Thread : Kept(u)
      BY <2>1, <2>3, <3>1, <3>2 DEF Kept, Collected, ChildrenOf
    <3> QED
      BY <2>1, <3>3, TableStutter
  <2> QED
    BY <1>8, <2>2, <2>3 DEF WaitFind
<1>9. ASSUME NEW t \in Thread, Step(t) \/ UserStep(t)
      PROVE  [Table!Next]_(Table!vars)
  <2>1. CASE Step(t)
    BY <1>3, <1>4, <1>5, <1>7, <1>8, <2>1, TableExit, TableCollect, TableVanish
       DEF Step, LoadExit
  <2>2. CASE UserStep(t)
    BY <1>3, <1>4, <1>6, <1>10, <2>2, TableCreate DEF UserStep, Exit
  <2> QED
    BY <1>9, <2>1, <2>2
<1> QED
  BY <1>2, <1>9 DEF Next

\* At boot there is the first process alone.
LEMMA TableInit ==
  ASSUME Init, Rows
  PROVE  Table!Init
<1>1. /\ MaxTid \in Nat \ {0} /\ main \in Thread
      /\ \A t \in Thread : tid[t] = IF t = main THEN 1 ELSE 0
      /\ pc[main] = "user" /\ child[main] = <<>> /\ mem_lock[main] = 0 /\ eax[main] = 0
      /\ next_tid = 2
  BY ProcessAssumption DEF Init
<1>2. PICK k \in 1 .. MaxTid : k = 1
  BY <1>1
<1>3. /\ StateOf(k) = "running" /\ ChildrenAt(k) = {} /\ StatusAt(k) = 0 /\ AnswerAt(k) = 0
  <2>1. RowOf(k, main)
    BY <1>1, <1>2 DEF Rows
  <2>2. ToSet(<<>>) = {}
    BY DEF ToSet
  <2>3. ChildrenOf(main) = {} /\ ~ Collected(main)
    BY <1>1, <2>2 DEF ChildrenOf, Collected
  <2> QED
    BY <1>1, <2>1, <2>3 DEF RowOf
<1>4. ASSUME NEW j \in (1 .. MaxTid) \ {k}
      PROVE  /\ StateOf(j) = "unused" /\ ChildrenAt(j) = {}
             /\ StatusAt(j) = 0 /\ AnswerAt(j) = 0
  <2>1. NoRow(j) /\ j >= next_tid
    BY <1>1, <1>2 DEF Rows, Known
  <2> QED
    BY <2>1 DEF NoRow
<1>5. \A j \in 1 .. MaxTid :
        /\ StateOf(j) = IF j = 1 THEN "running" ELSE "unused"
        /\ ChildrenAt(j) = {} /\ StatusAt(j) = 0 /\ AnswerAt(j) = 0
  BY <1>2, <1>3, <1>4
<1> QED
  BY <1>5 DEF Table!Init, ChildrenAt, StatusAt, AnswerAt

\* process_execute(), process_wait(), exit() keep the promise of ProcessTable: a
\* process is waited for by its parent only and once, its status is what the parent
\* gets, and its page stays until then -- whatever the interleaving of any number
\* of processes.
THEOREM Implements == Spec => TableSpec
<1>1. Init => Table!Init /\ AnswerInv
  <2>1. Init => Rows
    BY InvInit, RowsHold
  <2> QED
    BY <2>1, TableInit, AnswerInit
<1>2. Inv => Rows
  BY RowsHold
<1>3. Inv /\ AnswerInv /\ [Next]_vars => AnswerInv'
  BY AnswerNext
<1>4. Inv /\ AnswerInv /\ StatusInv /\ Rows /\ Rows' /\ [Next]_vars =>
        [Table!Next]_(Table!vars)
  BY TableStep
<1>5. Inv /\ StatusInv /\ [Next]_vars => StatusInv'
  BY StatusNext
<1> QED
  BY <1>1, <1>2, <1>3, <1>4, <1>5, StatusInit, Invariance, PTL DEF Spec, TableSpec

-----------------------------------------------------------------------------
(***************************************************************************)
(* What process_execute() returns.                                         *)
(***************************************************************************)

\* A child that failed keeps -1 until its page is freed, and process_wait() carries
\* it from the new child to the answer -- unless an older failure is on the list.
Failing(c) == exit_status[c] = -1
Searches(t) == caller[t] = "exec" /\ pc[t] \in {"find"} \union WaitLabel
ExecAt(t) ==
  Searches(t) =>
    /\ pc[t] \in {"wait_down", "wait_read", "wait_remove"} => tid[wait_on[t]] = new_tid[t]
    /\ \/ OldFailure(t)
       \/ pc[t] = "find" /\ \E c \in ToSet(child[t]) : tid[c] = new_tid[t] /\ Failing(c)
       \/ pc[t] \in {"wait_down", "wait_read"} /\ Failing(wait_on[t])
       \/ pc[t] \in {"wait_remove", "wait_up"} /\ result[t] = -1
ExecInv == \A t \in Thread : ExecAt(t)

LEMMA ExecInit == Init => ExecInv
  BY DEF Init, ExecInv, ExecAt, Searches, WaitLabel

\* What ExecAt says of u is about u and its children only.
LEMMA ExecFrame ==
  ASSUME Inv, NEW u \in Thread, ExecAt(u),
         pc'[u] = pc[u], caller'[u] = caller[u], new_tid'[u] = new_tid[u],
         wait_on'[u] = wait_on[u], result'[u] = result[u], child'[u] = child[u],
         \A c \in ToSet(child[u]) : tid'[c] = tid[c] /\ (Failing(c) => Failing(c)')
  PROVE  ExecAt(u)'
<1> SUFFICES ASSUME Searches(u) PROVE ExecAt(u)'
  BY DEF ExecAt, Searches
<1>1. pc[u] \in {"wait_down", "wait_read", "wait_remove"} => wait_on[u] \in ToSet(child[u])
  BY DEF Inv, Struct, WaitInv, Waits, WaitLabel
<1>2. OldFailure(u) => OldFailure(u)'
  BY DEF OldFailure, Failing
<1>3. pc[u] \in {"wait_down", "wait_read", "wait_remove"} => tid'[wait_on'[u]] = new_tid'[u]
  BY <1>1 DEF ExecAt
<1>4. pc[u] \in {"wait_down", "wait_read"} /\ Failing(wait_on[u]) => Failing(wait_on[u])'
  BY <1>1 DEF Failing
<1>5. (\E c \in ToSet(child[u]) : tid[c] = new_tid[u] /\ Failing(c))
        => \E c \in ToSet(child'[u]) : tid'[c] = new_tid'[u] /\ Failing(c)'
  OBVIOUS
<1> QED
  BY <1>2, <1>3, <1>4, <1>5 DEF ExecAt

\* A step of t, which alone may come or go in process_execute() by it.
LEMMA ExecOwn ==
  ASSUME Inv, ExecInv, NEW t \in Thread, ExecAt(t)',
         \A u \in Thread \ {t} :
           /\ pc'[u] = pc[u] /\ caller'[u] = caller[u] /\ new_tid'[u] = new_tid[u]
           /\ wait_on'[u] = wait_on[u] /\ result'[u] = result[u] /\ child'[u] = child[u],
         UNCHANGED tid, \A c \in Thread : Failing(c) => Failing(c)'
  PROVE  ExecInv'
<1> SUFFICES ASSUME NEW u \in Thread \ {t} PROVE ExecAt(u)'
  BY DEF ExecInv
<1>1. \A c \in ToSet(child[u]) : tid'[c] = tid[c] /\ (Failing(c) => Failing(c)')
  BY ChildrenAreThreads DEF Inv
<1> QED
  BY <1>1, ExecFrame DEF ExecInv


LEMMA ExecNext ==
  ASSUME Inv, StatusInv, ExecInv, [Next]_vars
  PROVE  ExecInv'
<1> USE DEF At, Goto, Return, fields, semas, frame
<1>1. /\ pc \in [Thread -> Label] /\ new_tid \in [Thread -> -1 .. MaxTid]
      /\ child \in [Thread -> Seq(Thread)] /\ caller \in [Thread -> {"exec", "wait"}]
      /\ exit_status \in [Thread -> Status \union {-1, 0}]
      /\ result \in [Thread -> Status \union {-1, 0}]
      /\ wait_on \in [Thread -> Thread \union {None}]
      /\ tid \in [Thread -> 0 .. MaxTid]
  BY DEF Inv, TypeOK
<1>2. CASE UNCHANGED vars
  BY <1>2 DEF vars, ExecInv, ExecAt, Searches, OldFailure, Failing
<1>3. ASSUME NEW t \in Thread,
             ExecFail(t) \/ ExecNoPage(t) \/ ExecDown(t) \/ Load(t) \/ LoadUp(t)
               \/ ExitUp(t) \/ Kill(t) \/ WaitUp(t)
      PROVE  ExecInv'
  <2>1. UNCHANGED <<tid, child, exit_status>>
    BY <1>3 DEF ExecFail, ExecNoPage, ExecDown, Load, LoadUp, ExitUp, Kill, WaitUp
  <2>2. \A u \in Thread \ {t} :
          /\ pc'[u] = pc[u] /\ caller'[u] = caller[u] /\ new_tid'[u] = new_tid[u]
          /\ wait_on'[u] = wait_on[u] /\ result'[u] = result[u]
    BY <1>1, <1>3 DEF ExecFail, ExecNoPage, ExecDown, Load, LoadUp, ExitUp, Kill, WaitUp
  <2>3. pc'[t] \in {"user", "load_down", "scan", "load_up", "load_exit", "exit_up", "exit_down"}
    BY <1>1, <1>3 DEF ExecFail, ExecNoPage, ExecDown, Load, LoadUp, ExitUp, Kill, WaitUp
  <2>4. ExecAt(t)'
    BY <2>3 DEF ExecAt, Searches, WaitLabel
  <2> QED
    BY <2>1, <2>2, <2>4, ExecOwn DEF Failing
<1>4. ASSUME NEW t \in Thread, NEW k \in 1 .. MaxTid, Wait(t, k)
      PROVE  ExecInv'
  <2>1. UNCHANGED <<tid, child, exit_status, wait_on, result>>
    BY <1>4 DEF Wait
  <2>2. \A u \in Thread \ {t} :
          pc'[u] = pc[u] /\ caller'[u] = caller[u] /\ new_tid'[u] = new_tid[u]
    BY <1>1, <1>4 DEF Wait
  <2>3. ExecAt(t)'
    BY <1>1, <1>4 DEF Wait, ExecAt, Searches
  <2> QED
    BY <2>1, <2>2, <2>3, ExecOwn DEF Failing
\* A child has failed: the new one, which process_wait() will find, or another.
<1>5. ASSUME NEW t \in Thread, ExecScan(t)
      PROVE  ExecInv'
  <2>1. UNCHANGED <<tid, child, exit_status, wait_on, result>>
    BY <1>5 DEF ExecScan
  <2>2. \A u \in Thread \ {t} :
          pc'[u] = pc[u] /\ caller'[u] = caller[u] /\ new_tid'[u] = new_tid[u]
    BY <1>1, <1>5 DEF ExecScan
  <2>3. CASE Failed(t) /\ pc'[t] = "find" /\ new_tid' = new_tid
    <3>1. PICK c \in ToSet(child[t]) : Failing(c)
      BY <2>3 DEF Failed, Failing
    <3>2. ASSUME tid[c] = new_tid[t] PROVE ExecAt(t)'
      BY <2>1, <2>3, <3>1, <3>2 DEF ExecAt, Failing
    <3>3. ASSUME tid[c] # new_tid[t] PROVE ExecAt(t)'
      <4>1. OldFailure(t)'
        BY <2>1, <2>3, <3>1, <3>3 DEF OldFailure, Failing
      <4> QED
        BY <2>3, <4>1 DEF ExecAt
    <3>4. ExecAt(t)'
      BY <3>2, <3>3
    <3> QED
      BY <2>1, <2>2, <3>4, ExecOwn DEF Failing
  <2>4. CASE pc'[t] = "user"
    <3>1. ExecAt(t)'
      BY <2>4 DEF ExecAt, Searches, WaitLabel
    <3> QED
      BY <2>1, <2>2, <3>1, ExecOwn DEF Failing
  <2> QED
    BY <1>1, <1>5, <2>3, <2>4 DEF ExecScan
\* Nobody else has the tid of the new child, so the one found is the one that failed.
<1>6. ASSUME NEW t \in Thread, WaitFind(t)
      PROVE  ExecInv'
  <2>1. UNCHANGED <<tid, child, exit_status, result>> /\ pc[t] = "find"
    BY <1>6 DEF WaitFind
  <2>2. \A u \in Thread \ {t} :
          /\ pc'[u] = pc[u] /\ caller'[u] = caller[u] /\ new_tid'[u] = new_tid[u]
          /\ wait_on'[u] = wait_on[u]
    BY <1>1, <1>6 DEF WaitFind
  <2>3. ASSUME NEW c \in ToSet(child[t]), tid[c] = new_tid[t], wait_on'[t] = c,
               pc'[t] = "wait_down", UNCHANGED <<new_tid, caller>>
        PROVE  ExecAt(t)'
    <3>1. ASSUME Searches(t)'
          PROVE  OldFailure(t)' \/ Failing(c)'
      <4>1. Searches(t)
        BY <2>1, <2>3, <3>1 DEF Searches
      <4>2. CASE OldFailure(t)
        BY <2>1, <2>3, <4>2 DEF OldFailure
      <4>3. CASE \E d \in ToSet(child[t]) : tid[d] = new_tid[t] /\ Failing(d)
        <5>1. PICK d \in ToSet(child[t]) : tid[d] = new_tid[t] /\ Failing(d)
          BY <4>3
        <5>2. c \in Thread /\ d \in Thread /\ Live(c)
          BY ChildrenAreThreads DEF Inv, Struct, ChildInv
        <5>3. c = d
          BY <2>3, <5>1, <5>2 DEF Inv, Struct, TidInv
        <5> QED
          BY <2>1, <5>1, <5>3 DEF Failing
      <4> QED
        BY <2>1, <4>1, <4>2, <4>3 DEF ExecInv, ExecAt
    <3>2. tid'[wait_on'[t]] = new_tid'[t]
      BY <2>1, <2>3
    <3> QED
      BY <2>3, <3>1, <3>2 DEF ExecAt, Failing
  <2>4. CASE pc'[t] = "user"
    <3>1. ExecAt(t)'
      BY <2>4 DEF ExecAt, Searches, WaitLabel
    <3> QED
      BY <2>1, <2>2, <3>1, ExecOwn DEF Failing
  <2>5. CASE pc'[t] # "user"
    <3>1. PICK c \in ToSet(child[t]) :
            tid[c] = new_tid[t] /\ wait_on' = [wait_on EXCEPT ![t] = c]
      BY <1>1, <1>6, <2>5 DEF WaitFind
    <3>2. wait_on'[t] = c /\ pc'[t] = "wait_down" /\ UNCHANGED <<new_tid, caller>>
      BY <1>1, <1>6, <2>5, <3>1 DEF WaitFind
    <3>3. ExecAt(t)'
      BY <2>3, <3>1, <3>2
    <3> QED
      BY <2>1, <2>2, <3>3, ExecOwn DEF Failing
  <2> QED
    BY <2>4, <2>5
<1>7. ASSUME NEW t \in Thread, WaitDown(t) \/ WaitRead(t)
      PROVE  ExecInv'
  <2>1. UNCHANGED <<tid, child, exit_status, wait_on, new_tid, caller>>
    BY <1>7 DEF WaitDown, WaitRead
  <2>2. \A u \in Thread \ {t} : pc'[u] = pc[u] /\ result'[u] = result[u]
    BY <1>1, <1>7 DEF WaitDown, WaitRead
  <2>3. \/ pc[t] = "wait_down" /\ pc'[t] = "wait_read"
        \/ pc[t] = "wait_read" /\ pc'[t] = "wait_remove" /\ result'[t] = exit_status[wait_on[t]]
    BY <1>1, <1>7 DEF WaitDown, WaitRead
  <2>4. Searches(t)' => Searches(t)
    BY <2>1, <2>3 DEF Searches, WaitLabel
  <2>5. OldFailure(t) => OldFailure(t)'
    BY <2>1 DEF OldFailure
  <2>6. ExecAt(t)
    BY DEF ExecInv
  <2>7. ExecAt(t)'
    BY <2>1, <2>3, <2>4, <2>5, <2>6 DEF ExecAt, Failing
  <2> QED
    BY <2>1, <2>2, <2>7, ExecOwn DEF Failing
\* The child that is taken off the list is the new one: an older failure stays.
<1>8. ASSUME NEW t \in Thread, WaitRemove(t)
      PROVE  ExecInv'
  <2>1. /\ UNCHANGED <<tid, exit_status, wait_on, new_tid, caller, result>>
        /\ pc[t] = "wait_remove"
    BY <1>8 DEF WaitRemove
  <2>2. /\ \A u \in Thread \ {t} : pc'[u] = pc[u] /\ child'[u] = child[u]
        /\ pc'[t] = "wait_up"
    BY <1>1, <1>8 DEF WaitRemove
  <2>3. PICK i \in DOMAIN child[t] :
          child[t][i] = wait_on[t] /\ child' = [child EXCEPT ![t] = RemoveAt(child[t], i)]
    BY <1>8 DEF WaitRemove
  <2>4. ToSet(child'[t]) = ToSet(child[t]) \ {wait_on[t]}
    <3>1. child[t] \in Seq(Thread) /\ IsInjective(child[t])
      BY <1>1 DEF Inv, Struct, ChildInv
    <3>2. child'[t] = RemoveAt(child[t], i)
      BY <1>1, <2>3
    <3> QED
      BY <2>3, <3>1, <3>2, UnlinkElems
  <2>5. Searches(t)' => Searches(t)
    BY <2>1, <2>2 DEF Searches, WaitLabel
  <2>6. ExecAt(t)
    BY DEF ExecInv
  <2>7. Searches(t) /\ OldFailure(t) => OldFailure(t)'
    <3>1. Searches(t) => tid[wait_on[t]] = new_tid[t]
      BY <2>1, <2>6 DEF ExecAt
    <3> QED
      BY <2>1, <2>4, <3>1 DEF OldFailure
  <2>8. ExecAt(t)'
    BY <2>1, <2>2, <2>5, <2>6, <2>7 DEF ExecAt
  <2> QED
    BY <2>1, <2>2, <2>8, ExecOwn DEF Failing
<1>9. ASSUME NEW t \in Thread, NEW s, exit(t, s), pc[t] \in {"user", "load_exit"}
      PROVE  ExecInv'
  <2>1. UNCHANGED <<tid, child, wait_on, new_tid, caller, result>>
    BY <1>9 DEF exit
  <2>2. /\ \A u \in Thread \ {t} : pc'[u] = pc[u] /\ exit_status'[u] = exit_status[u]
        /\ pc'[t] = "exit_up"
    BY <1>1, <1>9 DEF exit
  <2>3. \A c \in Thread : Failing(c) => Failing(c)'
    BY <1>9, <2>2 DEF StatusInv, Ends, Failing
  <2>4. ExecAt(t)'
    BY <2>2 DEF ExecAt, Searches, WaitLabel
  <2> QED
    BY <2>1, <2>2, <2>3, <2>4, ExecOwn
\* The page of the new thread was nobody's child.
<1>10. ASSUME NEW t \in Thread, NEW c \in Thread, ExecCreate(t, c)
       PROVE  ExecInv'
  <2>1. /\ pc[t] = "user" /\ pc[c] = "none" /\ c # t
        /\ \A u \in Thread : c \notin ToSet(child[u])
    BY <1>10 DEF ExecCreate, Inv, Struct, LiveInv, ChildInv, Live
  <2>2. /\ UNCHANGED <<caller, wait_on, result>>
        /\ \A u \in Thread \ {c} : tid'[u] = tid[u] /\ exit_status'[u] = exit_status[u]
    BY <1>1, <1>10 DEF ExecCreate
  <2>3. /\ \A u \in Thread \ {t, c} :
             pc'[u] = pc[u] /\ child'[u] = child[u] /\ new_tid'[u] = new_tid[u]
        /\ pc'[t] = "load_down" /\ pc'[c] = "start"
    BY <1>1, <1>10, <2>1 DEF ExecCreate
  <2>4. ExecAt(t)' /\ ExecAt(c)'
    BY <2>3 DEF ExecAt, Searches, WaitLabel
  <2>5. ASSUME NEW u \in Thread \ {t, c} PROVE ExecAt(u)'
    <3>1. \A d \in ToSet(child[u]) : tid'[d] = tid[d] /\ (Failing(d) => Failing(d)')
      BY <2>1, <2>2, ChildrenAreThreads DEF Inv, Failing
    <3> QED
      BY <2>2, <2>3, <3>1, ExecFrame DEF ExecInv
  <2> QED
    BY <2>4, <2>5 DEF ExecInv
\* A page that is freed is nobody's child any more.
<1>11. ASSUME NEW t \in Thread, ExitDown(t)
       PROVE  ExecInv'
  <2>1. \A u \in Thread : t \notin ToSet(child[u])
    BY <1>11 DEF ExitDown, Inv, Struct, ExitInv
  <2>2. UNCHANGED <<caller, wait_on, result, new_tid>>
    BY <1>11 DEF ExitDown, Free
  <2>3. /\ \A u \in Thread \ {t} : /\ pc'[u] = pc[u] /\ child'[u] = child[u]
                                   /\ tid'[u] = tid[u] /\ exit_status'[u] = exit_status[u]
        /\ pc'[t] = "none"
    BY <1>1, <1>11 DEF ExitDown, Free
  <2>4. ExecAt(t)'
    BY <2>3 DEF ExecAt, Searches, WaitLabel
  <2>5. ASSUME NEW u \in Thread \ {t} PROVE ExecAt(u)'
    <3>1. \A d \in ToSet(child[u]) : tid'[d] = tid[d] /\ (Failing(d) => Failing(d)')
      BY <2>1, <2>3, ChildrenAreThreads DEF Inv, Failing
    <3> QED
      BY <2>2, <2>3, <3>1, ExecFrame DEF ExecInv
  <2> QED
    BY <2>4, <2>5 DEF ExecInv
<1>12. ASSUME NEW t \in Thread, Step(t) \/ UserStep(t)
       PROVE  ExecInv'
  <2>1. CASE Step(t)
    BY <1>3, <1>5, <1>6, <1>7, <1>8, <1>9, <1>11, <2>1 DEF Step, LoadExit
  <2>2. CASE UserStep(t)
    BY <1>3, <1>4, <1>9, <1>10, <2>2 DEF UserStep, Exit
  <2> QED
    BY <1>12, <2>1, <2>2
<1> QED
  BY <1>2, <1>12 DEF Next

\* The step that returns from process_execute() returns what it found.
LEMMA ExecStep ==
  ASSUME Inv, ExecInv, [Next]_vars, NEW t \in Thread, InExec(t), pc'[t] = "user"
  PROVE  eax'[t] \in {new_tid[t], -1} \/ OldFailure(t)
<1> USE DEF At, Goto, Return, fields, semas, frame
<1>1. /\ pc \in [Thread -> Label] /\ eax \in [Thread -> Int]
      /\ pc[t] \in {"scan", "find"} \union WaitLabel
      /\ pc[t] # "scan" => Searches(t)
  BY DEF Inv, TypeOK, InExec, Searches
<1>2. pc'[t] # pc[t]
  BY <1>1 DEF WaitLabel
<1>3. PICK u \in Thread : Step(u) \/ UserStep(u)
  BY <1>2 DEF Next, vars
<1>4. CASE u = t
  <2>1. ~ UserStep(t) /\ ~ ExitUp(t) /\ ~ ExitDown(t) /\ ~ LoadExit(t)
        /\ ~ Load(t) /\ ~ LoadUp(t) /\ ~ ExecDown(t)
    BY <1>1 DEF UserStep, ExecFail, ExecNoPage, ExecCreate, Wait, Exit, Kill, ExitUp, ExitDown,
         LoadExit, Load, LoadUp, ExecDown, WaitLabel
  <2>2. CASE ExecScan(t)
    BY <1>1, <2>2 DEF ExecScan
  <2>3. CASE WaitFind(t)
    BY <1>1, <2>3 DEF WaitFind
  <2>4. CASE WaitUp(t)
    <3>1. eax'[t] = result[t] /\ pc[t] = "wait_up" /\ Searches(t)
      BY <1>1, <2>4 DEF WaitUp
    <3> QED
      BY <3>1 DEF ExecInv, ExecAt
  <2>5. CASE WaitDown(t) \/ WaitRead(t) \/ WaitRemove(t)
    BY <1>1, <2>5 DEF WaitDown, WaitRead, WaitRemove
  <2> QED
    BY <1>3, <1>4, <2>1, <2>2, <2>3, <2>4, <2>5 DEF Step
\* Nobody else takes t out of process_execute().
<1>5. CASE u # t
  <2>1. ASSUME NEW c \in Thread, ExecCreate(u, c) PROVE pc[c] = "none"
    BY <2>1 DEF ExecCreate, Inv, Struct, LiveInv
  <2>2. CASE \E c \in Thread : ExecCreate(u, c)
    BY <1>1, <1>2, <1>5, <2>1, <2>2 DEF ExecCreate, WaitLabel
  <2>3. CASE Step(u)
    BY <1>1, <1>2, <1>5, <2>3 DEF Step, ExecDown, ExecScan, Load, LoadUp, LoadExit, exit, WaitFind,
         WaitDown, WaitRead, WaitRemove, WaitUp, ExitUp, ExitDown, Free
  <2>4. CASE UserStep(u) /\ ~ \E c \in Thread : ExecCreate(u, c)
    BY <1>1, <1>2, <1>5, <2>4 DEF UserStep, ExecFail, ExecNoPage, Wait, Exit, exit, Kill
  <2> QED
    BY <1>3, <2>2, <2>3, <2>4
<1> QED
  BY <1>4, <1>5

\* process_execute() returns the new tid or -1 unless an earlier child failed that
\* nobody has waited for -- for any number of processes, however early the new child
\* runs, fails or exits.
THEOREM ExecKept == Spec => ExecAnswers
<1>1. Inv /\ StatusInv /\ ExecInv /\ [Next]_vars =>
        [\A t \in Thread : InExec(t) /\ pc'[t] = "user" =>
           eax'[t] \in {new_tid[t], -1} \/ OldFailure(t)]_vars
  BY ExecStep
<1>2. Inv /\ StatusInv /\ ExecInv /\ [Next]_vars => StatusInv' /\ ExecInv'
  BY StatusNext, ExecNext
<1> QED
  BY <1>1, <1>2, StatusInit, ExecInit, Invariance, PTL DEF Spec, ExecAnswers
=============================================================================
