CONSTANTS
  TradingDates = {4}
  SESSIONS_WITHOUT_BARS = {}
  BARS_WITHOUT_SESSIONS = {}
  Expiry = 4
  MINUTES_PER_SESSION = 2
  Strikes = {10, 20}
  Levels = {10, 15}
  Spots = {15}
  MIN_PAIRS = 1
  NoVolatility = NoVolatility
  MaxBars = 2
  OtherSeries = 5
  NotALabel = NotALabel
  MaxLegs = 1
SPECIFICATION Spec
INVARIANTS
  OfferedIsAcceptedToTheClose
CHECK_DEADLOCK FALSE
