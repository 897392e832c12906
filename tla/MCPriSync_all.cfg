CONSTANTS
  a = a
  b = b
  c = c
  l1 = l1
  l2 = l2
  tidl = tidl
  s1 = s1
  c1 = c1
  idle = idle
  None = None
  Thread <- Three_idle
  Started <- Two
  Page <- Pages4
  InitPriority <- OneTwo
  Priorities <- LowPriority
  TIME_SLICE = 1
  Lock <- TwoLocks
  tid_lock = tidl
  LockRank <- Rank2
  Sema <- OneSema
  DeviceSema <- OneSema
  MaxValue = 1
  Cond <- OneCond
  LockOf <- C1L1
  Calls <- AllCalls
SPECIFICATION Spec
INVARIANTS TypeOK MutualExclusion NoLostWakeup
PROPERTIES MonitorSpec
CHECK_DEADLOCK FALSE
