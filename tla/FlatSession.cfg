CONSTANTS
  TradingDates = {1, 3, 4}
  SESSIONS_WITHOUT_BARS = {2}
  BARS_WITHOUT_SESSIONS = {3}
  Expiry = 4
  MINUTES_PER_SESSION = 2
  Strikes = {10, 20}
  Levels = {10, 15}
  Spots = {15}
  MIN_PAIRS = 2
  NoVolatility = NoVolatility
  MaxBars = 2
  OtherSeries = 5
  NotALabel = NotALabel
  MaxLegs = 1
SPECIFICATION Spec
INVARIANTS
  SitsFlat
CHECK_DEADLOCK FALSE
