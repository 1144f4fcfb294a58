------------------------------ MODULE QuorumLog ------------------------------
(***************************************************************************)
(* What one node promises about the chat messages of its room in "ack      *)
(* mode": a message is taken in once, gathers acknowledgements of distinct *)
(* room members, and is then decided exactly once.  It is either appended  *)
(* to the log, for which it needs a quorum and no message of an earlier    *)
(* timestamp may be waiting, or it is dropped.                             *)
(*                                                                         *)
(* AckConsensus (the handlers of one node, step by step) and GossipNet     *)
(* (several nodes and the network between them) both implement this.       *)
(***************************************************************************)
EXTENDS Naturals, Sequences

CONSTANTS Msgs,        \* chat messages
          Members,     \* members of the room, whose acknowledgements count
          Quorums,     \* sets of members whose acknowledgement is enough
          Timestamp    \* Timestamp[m]: the sender's clock, in seconds

VARIABLES ackers,      \* ackers[m]: the members known to have acknowledged m
          status,      \* status[m]: see Status
          log          \* messages appended to the chain, oldest first

vars == <<ackers, status, log>>

Status == {"new", "waiting", "saved", "dropped"}

Init == /\ ackers = [m \in Msgs |-> {}]
        /\ status = [m \in Msgs |-> "new"]
        /\ log = << >>

Waiting == {m \in Msgs : status[m] = "waiting"}

(* Of the waiting messages, none is older than m.                          *)
Oldest(m) == \A other \in Waiting : Timestamp[other] >= Timestamp[m]

Receive(m) == /\ status[m] = "new"
              /\ status' = [status EXCEPT ![m] = "waiting"]
              /\ UNCHANGED <<ackers, log>>

Acknowledge(m, p) == /\ p \notin ackers[m]
                     /\ ackers' = [ackers EXCEPT ![m] = @ \cup {p}]

(* The ackers of the next state: the last acknowledgement may arrive in    *)
(* the very step that appends the message.                                 *)
Save(m) == /\ status[m] = "waiting"
           /\ Oldest(m)
           /\ ackers'[m] \in Quorums
           /\ status' = [status EXCEPT ![m] = "saved"]
           /\ log' = Append(log, m)

Drop(m) == /\ status[m] = "waiting"
           /\ status' = [status EXCEPT ![m] = "dropped"]
           /\ UNCHANGED log

Next == \E m \in Msgs :
          \/ Receive(m)
          \/ \E p \in Members :
               /\ Acknowledge(m, p)
               /\ UNCHANGED <<status, log>> \/ Save(m) \/ Drop(m)
          \/ UNCHANGED ackers /\ (Save(m) \/ Drop(m))

Spec == Init /\ [][Next]_vars
=============================================================================
