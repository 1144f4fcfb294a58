SPECIFICATION Spec
CONSTANTS
  w1 = w1
  w2 = w2
  w3 = w3
  w4 = w4
  alice = alice
  bob = bob
  old = old
  Workers = {w1, w2}
  Job <- Adders
  Serialized = FALSE
  MayCrash = FALSE
  MayFail = FALSE
  Spare = 1
  Fresh = {FALSE}
  InitialData <- NewRoom
INVARIANT
  AddedIsInMemory
\* every worker has one call to make, and a panic ends the process
CHECK_DEADLOCK FALSE
