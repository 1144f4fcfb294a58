SPECIFICATION Spec
CONSTANTS
  self = self
  p1 = p1
  p2 = p2
  m1 = m1
  Keys = {self, p1, p2}
  Self = self
  Messages = {m1}
  MaxBlocks = 6
INVARIANTS
  TypeOK
  PeersAreHistory
  ChainLinked
  AdminBlocksAlternate
  ThresholdReachable
