CONSTANTS
  main = main
  idle = idle
  a = a
  b = b
  c = c
  None = None
  Thread <- Pages5
  TIME_SLICE = 2
  Durations <- SleepArgs
  Horizon = 2
  MaxTick = 4
  MaxTid = 5
SPECIFICATION SafeSpec
INVARIANTS TypeOK SchedulerFindsThread ElemInOneList NoThreadLost QuantumBound UniqueTids
PROPERTIES NotOvertaken AlarmClockSpec
SYMMETRY PageSymmetry
