SPECIFICATION UninterruptedSpec
CONSTANTS
  Writer = {w1}
  Images <- SmallOnly
  Encodings <- OneEncoding
  Junk = {0}
  MaxRuns = 1
  MaxFaults = 1
INVARIANT OkMeansStored
