SPECIFICATION Spec
CONSTANTS
  Dies <- TailProgram
  Absent = absent
  Junk = {77}
  Modulus = 4096
  MaxErrors = 0
CHECK_DEADLOCK FALSE
INVARIANTS EndPaddingIsFree
