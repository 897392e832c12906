CONSTANTS
  p = p
  q = q
  f = f
  g = g
  h1 = h1
  h2 = h2
  h3 = h3
  None = None
  Thread <- Two
  File <- TwoFiles
  Handle <- Handles
  Last = 4
  Fd <- SomeFd
SPECIFICATION Spec
INVARIANTS TypeOK OwnFile
PROPERTIES DescriptorStable LostByOpenExecKill LockGivenBack LockMovesOn
CHECK_DEADLOCK FALSE
