SPECIFICATION ShapesSpec
CONSTANTS
  a1 = a1
  a2 = a2
  a3 = a3
  submitter = submitter
  t1 = t1
  t2 = t2
  Atoms <- ThreeAtoms
  Threads <- ThreeThreads
  NoThread = NoThread
  Submitter = submitter
  MaxJobs = 1
  MaxRead = 2
  MaxSubmits = 3
  Faults = {"fence_wait"}
SYMMETRY SymmetricThreads
INVARIANTS
  FreeCountIsExact
  RingHoldsTheSeqnosInFlight
  SubmissionsOwnTheirNumbers
  SleepersHaveOneReader
  ImportErrorsAreHarmless
