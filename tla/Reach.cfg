CONSTANT State = {s1, s2, s3}
SPECIFICATION Spec
INVARIANT ReachableIsClosure
INVARIANT FrontierSuffices
PROPERTY ImplementsExploration
CHECK_DEADLOCK FALSE
