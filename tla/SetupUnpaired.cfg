CONSTANTS
  Var = {1, 2, 3, 4, 5, 6}
  Null = Null
  Formulas <- MCEven
  MaxCalls = 3
SPECIFICATION SetupSpec
INVARIANT EveryVariableIsPaired
CHECK_DEADLOCK FALSE
