CONSTANTS
  s1 = s1
  s2 = s2
  s3 = s3
  State = {s1, s2, s3}
  Null = Null
  Formulas <- MCFormulas
  Declared <- MCDeclared
SPECIFICATION MCMainSpec
INVARIANT AnswersRight
INVARIANT UnreachableStatesDoNotMatter
INVARIANT ResultIsMeaning
INVARIANT RejectsOnlyIllFormed
PROPERTY MainEnds
CHECK_DEADLOCK FALSE
