------------------------------ MODULE MCGossipNet ------------------------------
EXTENDS GossipNet

CONSTANTS n1, n2, n3, n4, m1, m2, c1

Everyone  == [n \in Nodes |-> Nodes \ {n}]
WholeRoom == [n \in Nodes |-> Nodes]

(* n1 - n2 - n3 - n4 in a row, where n1, which started first, has become a *)
(* peer of n3 and n4 later: they know it, and it does not send to them.    *)
Row == [n \in Nodes |-> CASE n = n1 -> {n2}
                          [] n = n2 -> {n1, n3}
                          [] n = n3 -> {n1, n2, n4}
                          [] n = n4 -> {n1, n3}]

(* Here n1 sends to n3 as well: two ways lead from n1 to n3.               *)
Detour == [n \in Nodes |-> IF n = n1 THEN {n2, n3} ELSE Row[n]]

(* n4 has not added n1 to its copy of the peer list.                       *)
Added == [n \in Nodes |-> IF n = n4 THEN Nodes \ {n1} ELSE Nodes]

ByDifferentNodes == [m \in Msgs \cup Clears |-> IF m = m2 THEN n2 ELSE n1]
SameSecond       == [m \in Msgs |-> 1]
InOrder          == [m \in Msgs |-> IF m = m1 THEN 1 ELSE 2]
ToAll            == [n \in Nodes |-> 0]
ThirdToOne       == [n \in Nodes |-> IF n = n3 THEN 1 ELSE 0]
(* n3 found one member more in its peer list when it started.              *)
ThirdWantsThree  == [n \in Nodes |-> IF n = n3 THEN 3 ELSE 2]
TwoAcks          == [n \in Nodes |-> 2]
================================================================================
