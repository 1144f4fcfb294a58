SPECIFICATION Spec
CONSTANTS
  v1 = v1
  v2 = v2
  v3 = v3
  id1 = id1
  id2 = id2
  id3 = id3
  Nodes = {v1, v2, v3}
  VM1 = v1
  Modes = {"control"}
  expectedReachability <- Expected
  TotalRuns <- LaterInAttackMode
  FallbackIDs = {id1, id2, id3}
  Listed <- Once
  maxNodes = 2
  Enough = 2
  Attempts = 2
INVARIANT
  ControlCompletes
\* the test ends
CHECK_DEADLOCK FALSE
