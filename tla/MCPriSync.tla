------------------------------ MODULE MCPriSync ------------------------------
(***************************************************************************)
(* PriSync on small instances.                                             *)
(***************************************************************************)
EXTENDS PriSync, TLC

CONSTANTS a, b, c,       \* threads
          l1, l2, tidl,  \* locks
          s1,            \* a semaphore
          c1             \* a condition variable

Two == {a, b}
Three == {a, b, c}
Two_idle == Two \union {idle}
Three_idle == Three \union {idle}

Pages3 == a :> 3 @@ b :> 2 @@ idle :> 1
Pages4 == a :> 4 @@ b :> 3 @@ c :> 2 @@ idle :> 1
EqualTwo == a :> 1 @@ b :> 1
OneTwo == a :> 1 @@ b :> 2
OneTwoThree == a :> 1 @@ b :> 2 @@ c :> 3

TwoLocks == {l1, tidl}
Rank2 == l1 :> 1 @@ tidl :> 2
ThreeLocks == {l1, l2, tidl}
Rank3 == l1 :> 1 @@ l2 :> 2 @@ tidl :> 3

NoSema == {}
OneSema == {s1}
NoCond == {}
OneCond == {c1}
NoLockOf == [x \in {} |-> l1]
C1L1 == c1 :> l1

MonitorOps == {"acquire", "release", "wait", "signal", "broadcast"}
\* Everything, from all threads but b, which uses the monitor only.
AllCalls == [t \in Thread |-> IF t = b THEN MonitorOps ELSE CallName]
LockCalls == [t \in Thread |-> {"acquire", "release", "sleep"}]
SomeSleep ==
  [t \in Thread |-> {"acquire", "release", "exit"} \union IF t = c THEN {"sleep"} ELSE {}]
SemaCalls == [t \in Thread |-> {"down", "up", "sleep"}]

NoPriorities == {}
LowPriority == {1}
=============================================================================
