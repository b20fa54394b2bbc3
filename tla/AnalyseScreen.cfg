CONSTANTS
  empty = empty
  one = one
  two = two
  Strategies <- MCStrategies
  NoLegs <- empty
  MaxEdits = 3
SPECIFICATION FairSpec
INVARIANTS
  OneInFlight
  NoFreeze
PROPERTIES
  NoQuestionRepeated
  ImplementsLatestAnswer
  ComesToRest
