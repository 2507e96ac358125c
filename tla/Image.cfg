CONSTANTS
  Var = {1, 2, 3, 4}
  numNodes = 2
  primedNodes <- MCPrimed
  unprimedNodes <- MCUnprimed
  MaxEdges = 3
SPECIFICATION MCSpec
INVARIANT AbstractedStayGone
INVARIANT EXIsPreImage
INVARIANT ImageIsImage
CHECK_DEADLOCK FALSE
