SPECIFICATION ShapesSpec
CONSTANTS
  s1 = s1
  s2 = s2
  t1 = t1
  t2 = t2
  t3 = t3
  f1 = f1
  Syncs <- TwoSyncs
  Threads <- ThreeThreads
  Fences = {f1}
  MaxSeqno = 2
  Lists <- OneOrBoth
SYMMETRY Symmetry
INVARIANTS
  TypeOK
  WaitsAreHandedOver
  PayloadIsWhatWasArmed
  DescriptorsAreOwnedOnce
PROPERTIES
  IsABinaryPayload
