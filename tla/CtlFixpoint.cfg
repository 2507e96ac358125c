CONSTANT State = {s1, s2, s3}
SPECIFICATION Spec
INVARIANT FixpointResult
INVARIANT PathSemantics
PROPERTY MonotoneChain
PROPERTY Termination
CHECK_DEADLOCK FALSE
