CONSTANTS
  Rows = {1, 2}
  VOL_SEED = 1
  MAX_SWEEPS = 3
  BISECTION_STEPS = 2
  Width <- MCWidth
SPECIFICATION Spec
INVARIANTS
  BracketHoldsTheAnswer
  RescuesWhatItMust
CHECK_DEADLOCK FALSE
