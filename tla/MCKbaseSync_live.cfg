SPECIFICATION LiveSpec
CONSTANTS
  s1 = s1
  s2 = s2
  t1 = t1
  t2 = t2
  t3 = t3
  f1 = f1
  Syncs <- OneSync
  Threads <- TwoThreads
  Fences = {f1}
  MaxSeqno = 1
  Lists <- One
PROPERTY
  EveryArmedWaitReturns
