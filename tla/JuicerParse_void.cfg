CONSTANTS
  Units <- OneUnit
  Dies <- OneDies
  Imports <- NoImports
  Sections <- NoSections
  Absent = Absent
  MaxErrors = 0
SPECIFICATION FairSpec
CHECK_DEADLOCK FALSE
INVARIANTS
  VoidPointersAreRead
