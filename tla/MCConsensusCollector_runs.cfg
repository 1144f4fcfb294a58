SPECIFICATION FairSpec
CONSTANTS
  v1 = v1
  v2 = v2
  Nodes = {v1, v2}
  Attackers = {v2}
  ChatsPerRun = 1
  TotalRuns = 3
INVARIANTS
  TypeOK
  OnlyThisRunStored
  ResultsByRun
  AssessedComplete
PROPERTY
  TestEnds
\* the test ends
CHECK_DEADLOCK FALSE
