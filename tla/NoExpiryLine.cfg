CONSTANTS
  call = call
  put = put
  Dates = {1, 2}
  Series = {10, 24}
  Traded <- MCTraded
  Clocks = {1, 2, 3}
  Minutes <- MCMinutes
  AnchorDate = 1
  AnchorClock = 2
  Contracts <- MCContracts
  Quote <- MCQuote
  Shapes <- MCShapes
  Links <- MCServedLink
  MaxLegs = 2
  MaxGestures = 5
SPECIFICATION Spec
INVARIANT NoExpiryLineMeansTwoSeries
CHECK_DEADLOCK FALSE
