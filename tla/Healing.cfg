CONSTANTS
  monday = monday
  tuesday = tuesday
  Days <- MCDays
  Strikes <- MCStrikes
  Quoted <- MCQuoted
  MaxVersion = 2
  MaxHandBuilds = 2
  MaxCrashes = 2
SPECIFICATION FairSpec
PROPERTY HalfWrittenHeals
