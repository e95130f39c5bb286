SPECIFICATION Spec
CONSTANTS
  Dumps <- MCDumps
  Pairings <- MCPairings
  Loggers <- MCLoggers
  Programs <- MCPrograms
CHECK_DEADLOCK FALSE
INVARIANTS
  UsesAreTheirDescriptors
  PairsAreTheBest
  TimesAreTrue
PROPERTY CompleteIsTheTruth
