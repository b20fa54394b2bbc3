CONSTANTS
  Strikes = {100, 200, 300}
  Amounts <- MCAmounts
  LastPrice <- MCLastPrice
  Volatile = {100, 200}
  Forward = 190
  MaxLegs = 2
SPECIFICATION Spec
INVARIANTS
  EveryLegPriceable
  PremiumIsOfItsContract
  ReadWholeOrNotAtAll
CHECK_DEADLOCK FALSE
