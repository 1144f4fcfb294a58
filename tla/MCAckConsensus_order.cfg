SPECIFICATION FairSpec
CONSTANTS
  m1 = m1
  m2 = m2
  self = self
  p1 = p1
  p2 = p2
  Msgs = {m1, m2}
  Peers = {self, p1, p2}
  Members = {self, p1, p2}
  Self = self
  Copies = {1}
  Timestamp <- Ascending
  Threshold = 2
  SendsAcks = TRUE
  Ticks = 1
INVARIANTS
  TypeOK
  AckCountExact
  QuorumBacked
  SavedOnce
  OvertakenOnlyByEarlierDecision
PROPERTIES
  QueueDrains
  TimeoutSparesQuorum
  ImplementsQuorumLog
\* the finite supply of messages is used up
CHECK_DEADLOCK FALSE
