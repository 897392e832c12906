CONSTANTS
  main = main
  idle = idle
  a = a
  b = b
  c = c
  None = None
  Thread <- Pages5
  TIME_SLICE = 1
  Durations <- NextTick
  Horizon = 1
  MaxTick = 1
  MaxTid = 5
SPECIFICATION Spec
PROPERTIES SleeperRuns ReadyRuns CreateCompletes
