SPECIFICATION FairSpec
CONSTANTS
  a1 = a1
  a2 = a2
  a3 = a3
  submitter = submitter
  t1 = t1
  Atoms <- TwoAtoms
  Threads <- TwoThreads
  NoThread = NoThread
  Submitter = submitter
  MaxJobs = 1
  MaxRead = 1
  MaxSubmits = 2
  Faults = {"gpu", "poll"}
PROPERTY
  EveryCallReturns
