CONSTANTS
  Var = {1, 2, 3, 4, 5, 6}
  Null = Null
  Formulas <- MCFormulas
  MaxCalls = 3
SPECIFICATION SetupSpec
INVARIANT PairingIsOneToOne
INVARIANT ModelVarsOnly
INVARIANT CapacitySuffices
CHECK_DEADLOCK FALSE
