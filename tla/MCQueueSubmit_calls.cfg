SPECIFICATION FairSpec
CONSTANTS
  b1 = b1
  b2 = b2
  b3 = b3
  b4 = b4
  s1 = s1
  s2 = s2
  NoSync = NoSync
  File = File
  Batches <- FourBatches
  EventBatches <- SecondSets
  Syncs <- TwoSyncs
  Calls <- AllCalls
  MaxChain = 2
  MaxSubmits = 26
  MaxCalls = 2
  MayFail <- Anything
INVARIANTS
  BatchesAreInOrder
  SignalsAreEarned
PROPERTIES
  FailureIsLatched
  EveryCallReturns
