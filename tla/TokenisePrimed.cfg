CONSTANTS
  Texts <- MCNames
  MAX_VAR_LEN = 6
  MAX_OP_LEN = 3
SPECIFICATION Spec
INVARIANT PrimedNameFits
CHECK_DEADLOCK FALSE
