CONSTANTS
  a = a
  b = b
  c = c
  l1 = l1
  l2 = l2
  tidl = tidl
  s1 = s1
  c1 = c1
  idle = idle
  None = None
  Thread <- Three_idle
  Started <- Three
  Page <- Pages4
  InitPriority <- OneTwoThree
  Priorities <- NoPriorities
  TIME_SLICE = 1
  Lock <- TwoLocks
  tid_lock = tidl
  LockRank <- Rank2
  Sema <- NoSema
  DeviceSema <- NoSema
  MaxValue = 1
  Cond <- NoCond
  LockOf <- NoLockOf
  Calls <- SomeSleep
SPECIFICATION Spec
INVARIANTS ElemInOneList FrontRuns
PROPERTIES PicksHighest
CHECK_DEADLOCK FALSE
