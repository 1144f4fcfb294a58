SPECIFICATION Spec
CONSTANTS
  w1 = w1
  w2 = w2
  w3 = w3
  w4 = w4
  alice = alice
  bob = bob
  old = old
  Workers = {w1, w2, w3, w4}
  Job <- AddClear
  Serialized = TRUE
  MayCrash = TRUE
  MayFail = TRUE
  Spare = 1
  Fresh = {TRUE, FALSE}
  InitialData <- UsedRoom
INVARIANTS
  TypeOK
  ChainLinked
  AddedIsInMemory
  AddedIsOnFile
  FileMatchesMemory
  NoPanic
\* every worker has one call to make, and a panic ends the process
CHECK_DEADLOCK FALSE
