SPECIFICATION Spec
CONSTANTS
  Dies <- MixedProgram
  Absent = absent
  Junk = {77}
  Modulus = 4096
  MaxErrors = 1
CHECK_DEADLOCK FALSE
INVARIANTS FieldsTileStruct ReadableMembersStored PaddingsFit
PROPERTIES FieldsAreKept
