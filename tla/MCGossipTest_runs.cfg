SPECIFICATION FairSpec
CONSTANTS
  v1 = v1
  v2 = v2
  v3 = v3
  id1 = id1
  id2 = id2
  id3 = id3
  Nodes = {v1, v2, v3}
  VM1 = v1
  Modes = {"attack", "control"}
  expectedReachability <- Expected
  TotalRuns <- LaterInAttackMode
  FallbackIDs = {id1, id2, id3}
  Listed <- TwiceV2
  maxNodes = 1
  Enough = 2
  Attempts = 2
INVARIANTS
  TypeOK
  CompletedMeansReached
  NotOverstated
  EveryReceiptCounts
PROPERTY
  EveryRunRecorded
\* the test ends
CHECK_DEADLOCK FALSE
