SPECIFICATION Spec
CONSTANTS
  v1 = v1
  v2 = v2
  Nodes = {v1, v2}
  Attackers = {v2}
  ChatsPerRun = 1
  TotalRuns = 3
INVARIANT
  OneResultPerRun
\* the test ends
CHECK_DEADLOCK FALSE
