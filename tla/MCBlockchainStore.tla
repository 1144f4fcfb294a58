--------------------------- MODULE MCBlockchainStore ---------------------------
EXTENDS BlockchainStore

CONSTANTS w1, w2, w3, w4, alice, bob, old

Adders   == [w \in Workers |-> "add"]
AddClear == [w \in Workers |-> IF w = w1 THEN "clear"
                               ELSE IF w = w2 THEN "read" ELSE "add"]

(* What CreateRoom writes, a peer that joined, and one chat.               *)
NewRoom  == <<PeerAdded(<<alice>>), AdminAdd(alice)>>
UsedRoom == NewRoom \o <<PeerAdded(<<alice, bob>>), Chat(old)>>
================================================================================
