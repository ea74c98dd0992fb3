SPECIFICATION FairSpec
CONSTANTS
  Dies <- PlainProgram
  Absent = absent
  Junk = {77}
  Modulus = 4096
  MaxErrors = 1
CHECK_DEADLOCK FALSE
INVARIANTS TypeOK FieldsTileStruct FieldTypesAreRead
PROPERTIES ReadAgainAddsNothing ReadingEnds
