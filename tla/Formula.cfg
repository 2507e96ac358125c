CONSTANTS
  Var = {1, 2, 3}
  Null = Null
  Formulas <- MCFormulas
  MaxCalls = 3
SPECIFICATION Spec
INVARIANT PushAlwaysFits
INVARIANT OneNodePerName
INVARIANT RootIsMeaning
INVARIANT RejectsOnlyIllFormed
CHECK_DEADLOCK FALSE
