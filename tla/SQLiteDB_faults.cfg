SPECIFICATION FairSpec
CONSTANTS
  Writer = {w1}
  Images <- LeanAndChanged
  Encodings <- TwoEncodings
  Junk = {0, 1}
  MaxRuns = 2
  MaxFaults = 2
INVARIANTS HeldIdsNameTheirRows ErrorMeansFault CleanWriteStoresAll
PROPERTIES ProcessEnds
