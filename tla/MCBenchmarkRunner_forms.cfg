SPECIFICATION MCSpec
CONSTANTS
  r1 = r1
  r2 = r2
  NoRun = NoRun
  Runs = {r1, r2}
  Activation = "verified"
  MaxAttempts = 4
  MaxRows = 4
  MayFail <- Anything
CHECK_DEADLOCK FALSE
INVARIANTS
  ResultsAreReal
PROPERTIES
  ActivatesWhatItChecked
  EveryRunEnds
