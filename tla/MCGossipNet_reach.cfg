SPECIFICATION FairSpec
CONSTANTS
  n1 = n1
  n2 = n2
  n3 = n3
  n4 = n4
  m1 = m1
  m2 = m2
  c1 = c1
  Nodes = {n1, n2, n3, n4}
  Msgs = {m1}
  Clears = {c1}
  Author <- ByDifferentNodes
  Timestamp <- InOrder
  Neighbours <- Detour
  Room <- WholeRoom
  Fanout <- ToAll
  TTL = 3
  Threshold <- ThirdWantsThree
  Attackers = {n4}
  Silent = {n3}
  Direct = {n4}
INVARIANTS
  EveryNodeReached
  EverythingDecided
  QuorumKnown
PROPERTY
  Settles
\* the finite supply of messages is used up
CHECK_DEADLOCK FALSE
