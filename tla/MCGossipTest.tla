------------------------------ MODULE MCGossipTest ------------------------------
EXTENDS GossipTest

CONSTANTS v1, v2, v3, id1, id2, id3

(* The drivers were started once; v2's was started twice.                  *)
Once    == [x \in Nodes |-> 1]
TwiceV2 == [x \in Nodes |-> IF x = v2 THEN 2 ELSE 1]

(* setGossipMode, with three VMs instead of four.                          *)
Expected == [mode \in Modes |-> IF mode = "attack" THEN 2 ELSE 3]

LaterInAttackMode == [mode \in Modes |-> IF mode = "attack" THEN 3 ELSE 2]
================================================================================
