SPECIFICATION MCSpec
CONSTANTS
  t1 = t1
  t2 = t2
  own = own
  shared = shared
  NoThread = NoThread
  Threads <- TwoThreads
  Bos <- TwoBos
  Uses <- OwnAndShared
  MaxPending = 2
  MaxOffset = 2
  MaxAsks = 3
INVARIANTS
  FlushMeansDone
  NoWriteIsLost
  OperationsAwaitABarrier
PROPERTIES
  EveryFlushOfTheSmallReturns
