\* One process at a time, killed anywhere, run again on either version.
SPECIFICATION Spec
CONSTANTS
  Writer = {w1}
  Images <- FullAndPadded
  Encodings <- TwoEncodings
  Junk = {0, 1}
  MaxRuns = 3
  MaxFaults = 0
INVARIANTS TypeOK FirstRunReferences CleanWriteStoresAll
PROPERTIES RerunAddsNothing ImplementsCatalog
