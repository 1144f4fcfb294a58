--------------------------- MODULE MCAckConsensus ---------------------------
EXTENDS AckConsensus

CONSTANTS m1, m2, self, p1, p2

(* Two chats, the clocks of their senders a second apart.                  *)
Ascending == [m \in {m1, m2} |-> IF m = m1 THEN 1 ELSE 2]
=============================================================================
