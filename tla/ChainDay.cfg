CONSTANTS
  TradingDates = {1, 3, 4}
  SESSIONS_WITHOUT_BARS = {2}
  BARS_WITHOUT_SESSIONS = {3}
  Expiry = 4
  MINUTES_PER_SESSION = 2
  Strikes = {10, 20}
  Levels = {10, 15}
  Spots = {15}
  MIN_PAIRS = 1
  NoVolatility = NoVolatility
  MaxBars = 4
  OtherSeries = 5
  NotALabel = NotALabel
  MaxLegs = 2
SPECIFICATION Spec
INVARIANTS
  ServesTheLastPrints
  HeaderIsTheTables
  VolatilityMovesOnlyOnAPrint
  SolvedOnce
  MoneyIsOfTheMinute
  ClockCountsSessionMinutes
  AnswersFitTheirModels
  DeltasArePairs
  AnalysisIsOfTheChain
  SessionIsServed
CHECK_DEADLOCK FALSE
