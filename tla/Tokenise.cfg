CONSTANTS
  Texts <- MCTexts
  MAX_VAR_LEN = 6
  MAX_OP_LEN = 3
SPECIFICATION Spec
INVARIANT TokensKeepUp
INVARIANT ComparisonsAreExact
INVARIANT TokensAreWords
CHECK_DEADLOCK FALSE
