CONSTANTS
  a = a
  b = b
  c = c
  l1 = l1
  l2 = l2
  tidl = tidl
  s1 = s1
  c1 = c1
  idle = idle
  None = None
  Thread <- Three_idle
  Started <- Three
  Page <- Pages4
  InitPriority <- OneTwoThree
  Priorities <- NoPriorities
  TIME_SLICE = 1
  Lock <- ThreeLocks
  tid_lock = tidl
  LockRank <- Rank3
  Sema <- NoSema
  DeviceSema <- NoSema
  MaxValue = 1
  Cond <- NoCond
  LockOf <- NoLockOf
  Calls <- LockCalls
SPECIFICATION Spec
PROPERTIES ResetToHighest
CHECK_DEADLOCK FALSE
