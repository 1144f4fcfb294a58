SPECIFICATION Spec
CONSTANTS
  n1 = n1
  n2 = n2
  n3 = n3
  n4 = n4
  m1 = m1
  m2 = m2
  c1 = c1
  Nodes = {n1, n2, n3, n4}
  Msgs = {m1, m2}
  Clears = {}
  Author <- ByDifferentNodes
  Timestamp <- InOrder
  Neighbours <- Row
  Room <- Added
  Fanout <- ThirdToOne
  TTL = 2
  Threshold <- TwoAcks
  Attackers = {n4}
  Silent = {n2}
  Direct = {}
INVARIANTS
  TypeOK
  QuorumIsGenuine
  HopsBounded
  OneBlockPerChat
PROPERTY
  NodesKeepPromise
\* the finite supply of messages is used up
CHECK_DEADLOCK FALSE
