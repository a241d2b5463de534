CONSTANTS
  Handlers = {h1, h2}
  Hour = 2
  Day = 4
  MinInterval = 1
  MaxCyclesPerHour = 2
  MaxReservedTokensPerDay = 5
  CooldownAfterError = 2
  MaxTokens = 2
  MaxDelay = 1
  MaxTime = 6

SPECIFICATION FairSpec

INVARIANTS
  MinIntervalKept
  ErrorBacksOff
  BudgetUnlessRewound
PROPERTIES
  FlightEnds
