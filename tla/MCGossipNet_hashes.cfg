SPECIFICATION Spec
CONSTANTS
  n1 = n1
  n2 = n2
  n3 = n3
  n4 = n4
  m1 = m1
  m2 = m2
  c1 = c1
  Nodes = {n1, n2, n3}
  Msgs = {m1, m2}
  Clears = {}
  Author <- ByDifferentNodes
  Timestamp <- SameSecond
  Neighbours <- Everyone
  Room <- WholeRoom
  Fanout <- ToAll
  TTL = 2
  Threshold <- TwoAcks
  Attackers = {}
  Silent = {}
  Direct = {}
INVARIANT
  IdenticalHashes
\* the finite supply of messages is used up
CHECK_DEADLOCK FALSE
