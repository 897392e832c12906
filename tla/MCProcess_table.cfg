CONSTANTS
  main = main
  a = a
  b = b
  None = None
  Thread <- Pages3
  Status <- OneStatus
  MaxTid = 3
SPECIFICATION Spec
INVARIANTS TypeOK NoDanglingPointer
PROPERTIES TableSpec ExecAnswers WaitEnds LoadedReturns
CHECK_DEADLOCK FALSE
