CONSTANTS
  Strikes = {2, 4, 6, 8, 10}
  Premiums = {0, 1, 2, 3, 4, 5, 6, 7, 8, 9, 10}
  Quantities = {1, 2}
  High = 20
  Forward = 6
  FORWARD_RANGE = 10
  WING_MARGIN = 5
  ZOOM_HEADROOM = 3
  TABLE_STEP = 2
  MaxLegs = 4
  Centre = 6
  DEFAULT_WIDTH = 2
  Picked <- MCPicked
  MaxPicked = 3
SPECIFICATION PresetSpec
INVARIANTS
  LineFollowsTheLegs
  ExtremaAreTheLines
  BreakevensAreTheZeros
  WingsAreOnTheChart
  WingsCapTheLoss
  PresetsKeepTheirShape
CHECK_DEADLOCK FALSE
