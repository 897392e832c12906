CONSTANTS
  a = a
  b = b
  c = c
  l1 = l1
  l2 = l2
  tidl = tidl
  s1 = s1
  c1 = c1
  idle = idle
  None = None
  Thread <- Two_idle
  Started <- Two
  Page <- Pages3
  InitPriority <- OneTwo
  Priorities <- NoPriorities
  TIME_SLICE = 1
  Lock <- TwoLocks
  tid_lock = tidl
  LockRank <- Rank2
  Sema <- OneSema
  DeviceSema <- OneSema
  MaxValue = 1
  Cond <- NoCond
  LockOf <- NoLockOf
  Calls <- SemaCalls
SPECIFICATION Spec
INVARIANTS HandlerMayUp
CHECK_DEADLOCK FALSE
