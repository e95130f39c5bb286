CONSTANTS
  Games <- MCGames
  Forms <- MCForms
  Series <- MCSeries
  Caches <- MCCaches
  Works <- MCWorks
  Trees <- MCTrees
SPECIFICATION Spec
CHECK_DEADLOCK FALSE
INVARIANTS
  AcceptedRunsAreReal
  ChecksAreEarned
  CompleteMeansRight
  OkMeansSound
  StackInStageOrder
  OkMeansSame
PROPERTIES
  RegressionIsFinal
  WaitsEnd
