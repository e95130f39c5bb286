SPECIFICATION Spec
CONSTANTS
  a1 = a1
  a2 = a2
  a3 = a3
  submitter = submitter
  t1 = t1
  Atoms <- ThreeAtoms
  Threads <- TwoThreads
  NoThread = NoThread
  Submitter = submitter
  MaxJobs = 2
  MaxRead = 2
  MaxSubmits = 2
  Faults = {"gpu", "fence_wait", "no_fd", "poll", "submit"}
SYMMETRY Symmetry
INVARIANTS
  TypeOK
  AtomsAreInOrder
  NothingEndsEarly
  ToldTheTruth
PROPERTIES
  KeepsItsPromise
