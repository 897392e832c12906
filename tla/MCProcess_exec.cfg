CONSTANTS
  main = main
  a = a
  b = b
  None = None
  Thread <- Pages2
  Status <- OneStatus
  MaxTid = 2
SPECIFICATION Spec
PROPERTIES ExecReturns
CHECK_DEADLOCK FALSE
