CONSTANTS
  Requests = {r1, r2}
  LastDay = 2
  MaxGeneration = 2
  Uploads = 1
  MaxFaults = 1
SYMMETRY Threads
SPECIFICATION Spec
INVARIANTS
  TypeOK
  AnswersAreOfOneBuild
  CornersSpanTheDomain
PROPERTIES
  NothingMissingIsInvented
CHECK_DEADLOCK FALSE
