CONSTANTS
  PGSIZE = 2
  PHYS_BASE = 12
  Word = 16
  MaxDepth = 2
  Program <- Programs
SPECIFICATION Spec
INVARIANTS TypeOK AssertionsHold UserPagesOnly SegmentsLoaded ArgumentsPassed PagesAccounted
PROPERTIES PageStays Settles
CHECK_DEADLOCK FALSE
