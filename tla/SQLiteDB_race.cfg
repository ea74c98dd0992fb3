SPECIFICATION Spec
CONSTANTS
  Writer = {w1, w2}
  Images <- SmallPair
  Encodings <- OneEncoding
  Junk = {0, 1}
  MaxRuns = 2
  MaxFaults = 0
INVARIANTS HeldIdsNameTheirRows ErrorMeansFault CleanWriteStoresNames
SYMMETRY WriterSymmetry
