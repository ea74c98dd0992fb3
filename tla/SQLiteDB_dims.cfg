SPECIFICATION UninterruptedSpec
CONSTANTS
  Writer = {w1}
  Images <- FullAndOther
  Encodings <- OneEncoding
  Junk = {0}
  MaxRuns = 2
  MaxFaults = 0
INVARIANT DimensionReferences
