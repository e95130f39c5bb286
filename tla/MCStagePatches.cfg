SPECIFICATION Spec
CONSTANTS
  f1 = f1
  f2 = f2
  s1 = s1
  s2 = s2
  Files <- TwoFiles
  Stages <- TwoStages
  InRepo <- Patched
  MaxEdits = 2
  Careless = FALSE
INVARIANT
  StackExactly
CHECK_DEADLOCK FALSE
