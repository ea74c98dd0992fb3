CONSTANTS
  Units <- TwoUnits
  Dies <- TwoDies
  Imports <- TwoImports
  Sections <- TwoSections
  Absent = Absent
  MaxErrors = 2
SPECIFICATION FairSpec
CHECK_DEADLOCK FALSE
INVARIANTS
  TypeOK
  CleanParseStoresAll
  MacrosAreExpanded
  NothingReadAfterFailedUnit
  MissedOnlyBelowFailedCall
  SymbolFilesAreTheirUnits
  LookupsAreInRange
  OnlyEarlyErrorsPreventWrite
PROPERTIES
  ParseEnds
