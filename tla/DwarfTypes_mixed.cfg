CONSTANTS
  Dies <- MixedDies
  Null = Null
  Junk = {3}
  Range32 = 16
  MaxErrors = 1
SPECIFICATION FairSpec
CHECK_DEADLOCK FALSE
INVARIANTS
  TypeOK
  ReferencesAreStored
  TypedefHasSizeOfTarget
  TypedefsNameTheirTypes
  FieldsNameTheirTypes
  EnumeratorsAreTheDies
PROPERTIES
  TypedefsNameEarlierSymbols
  ReadingEnds
