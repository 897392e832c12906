CONSTANTS
  FIRST = 16
  Word = 512
  Tick <- Ticks
  Jitter = 2
  TIMER_FREQ = 3
  Scale = 10
  Num <- Nums
SPECIFICATION Spec
INVARIANTS Accurate TimeKept
CHECK_DEADLOCK FALSE
