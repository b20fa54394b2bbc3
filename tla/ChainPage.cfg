CONSTANTS
  call = call
  put = put
  Dates = {1, 2}
  Series = {10, 24}
  Traded <- MCTraded
  Clocks = {1, 2, 3}
  Minutes <- MCMinutes
  AnchorDate = 1
  AnchorClock = 2
  Contracts <- MCContracts
  Quote <- MCQuote
  Shapes <- MCShapes
  Links <- MCLinks
  MaxLegs = 2
  MaxGestures = 6
SPECIFICATION Spec
INVARIANTS
  ScreenIsServed
  OneDayPerAddress
  LinkReopens
  LegsOfTheSeries
  NotQuotedOnlyAfterMoving
CHECK_DEADLOCK FALSE
