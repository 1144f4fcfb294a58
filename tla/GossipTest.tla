------------------------------- MODULE GossipTest -------------------------------
(***************************************************************************)
(* The gossip test: the collector, VM1 and the nodes that report to it.    *)
(*                                                                         *)
(* In mode "attack" the nodes run network_gossip (module GossipNet), of    *)
(* which only the receipts matter here.  In mode "control" they run the    *)
(* older network: VM1 dials the nodes in its peer list itself, and a node  *)
(* that accepts a message reports it to the collector.                     *)
(***************************************************************************)
EXTENDS GossipCollector

CONSTANTS Listed,    \* Listed[x]: how often every VM is in x's peer list: once
                     \* for each start of x's driver, which adds them anew
          VM1,       \* the sender, on the collector's machine
          maxNodes,  \* 3, from the command SEND_LIMITED_MESSAGE:3
          Enough,    \* peers InitializeNetwork wants online, 3 in the code
          Attempts   \* times it looks, 10 in the code

ASSUME TestAssumption == /\ VM1 \in Nodes
                         /\ Listed \in [Nodes -> Nat \ {0}]
                         /\ maxNodes \in Nat
                         /\ Enough \in Nat
                         /\ Attempts \in Nat \ {0}

Others == Nodes \ {VM1}

(* The entries of the others in VM1's peer list.                           *)
Entries == Others \X (1..Listed[VM1])

Runs     == 1..TotalRuns[gossipMode]
Messages == {0} \cup Runs

VARIABLES
  attempts,    \* attempts[n]: how often n has looked for its peers in vain
  listening,   \* the nodes that have started ListenOnPort
  sentTo       \* sentTo[m]: the entries message m is sent to; 0 is the one
               \* that VM1 sends when it starts, m that of run m

nodeVars == <<attempts, listening, sentTo>>

vars == <<collectorVars, nodeVars>>

TypeOK == /\ CollectorTypeOK
          /\ attempts \in [Others -> 0..Attempts]
          /\ listening \subseteq Others
          /\ sentTo \in [Messages -> SUBSET Entries]

Init == /\ CollectorInit
        /\ attempts = [n \in Others |-> 0]
        /\ listening = {}
        /\ sentTo = [m \in Messages |-> {}]
--------------------------------------------------------------------------------
StopsLooking(n, enough) == enough \/ attempts[n] + 1 = Attempts

(* InitializeNetwork looks which entries of the peer list are online, and  *)
(* listens if they are enough, or this was its last attempt: the branch    *)
(* that would give up comes after two that leave no case to it.            *)
LookForPeers(n) ==
  /\ gossipMode = "control" /\ n \notin listening /\ attempts[n] < Attempts
  /\ \E online \in SUBSET (Nodes \ {n}) :
       IF StopsLooking(n, Cardinality(online) * Listed[n] >= Enough)
       THEN listening' = listening \cup {n} /\ UNCHANGED attempts
       ELSE attempts' = [attempts EXCEPT ![n] = @ + 1] /\ UNCHANGED listening
  /\ UNCHANGED <<sentTo, collectorVars>>

(* Any count of the entries: they may be entries of the same node.         *)
selectRandomPeers(entries, count) ==
  {T \in SUBSET entries : Cardinality(T) = count}

Selected(entries) ==
  IF maxNodes = 0 \/ maxNodes >= Cardinality(entries) THEN {entries}
  ELSE selectRandomPeers(entries, maxNodes)

Send(m, entries) ==
  /\ gossipMode = "control" /\ sentTo[m] = {}
  /\ sentTo' = [sentTo EXCEPT ![m] = entries]
  /\ UNCHANGED <<attempts, listening, collectorVars>>

(* VM1 starts and sends a first message to its whole list.  (Nothing       *)
(* listens on VM1 itself.)                                                 *)
SendMessage == Send(0, Entries)

(* VM1 gets the command of run r, at once or late.                         *)
SendMessageToLimitedNodes(r) ==
  /\ Commanded(r)
  /\ \E T \in Selected(Entries) : Send(r, T)

(* handleConnection takes a chat of whoever has sent it (disableAuth),     *)
(* answers and reports it (isCensoringTest), on a node that listens.       *)
Accepts(e) == e[1] \in listening

(* What a node reports of message m, sent to entry e.                      *)
Report(m, e, k) == [node |-> e[1], message |-> m, copy |-> <<e[2], k>>]

(* Mutant: every entry of the list that authenticates the message is       *)
(* served, not only the first.                                             *)
ReportsPerEntry(n) == 1..(Listed[n] * Cardinality(Nodes))

(* One for each entry of the collector in n's own list.                    *)
Reports(n) == 1..Listed[n]

(* A node that has accepted m reports it to the collector, and waits for   *)
(* the answer to one report before the next.  After an error nothing more  *)
(* is reported; it is as if the next step were never taken.                *)
SendMessageToStatCollector(m, e, k) ==
  /\ main # "exit"
  /\ Accepts(e)
  /\ k > 1 => Answered(Report(m, e, k - 1))
  /\ SendReceipt(Report(m, e, k))
  /\ UNCHANGED nodeVars

(* In mode "attack" the message of a run reaches a node for the first time;*)
(* VM1, whose own message it is, sends no receipt.                         *)
ReceiveGossip(n, r) ==
  /\ gossipMode = "attack" /\ Commanded(r)
  /\ SendReceipt([node |-> n, message |-> r, copy |-> <<1, 1>>])
  /\ UNCHANGED nodeVars

Next == \/ (Main \/ Handlers) /\ UNCHANGED nodeVars
        \/ \E n \in Others : LookForPeers(n)
        \/ \E n \in Others, r \in Runs : ReceiveGossip(n, r)
        \/ SendMessage
        \/ \E r \in Runs : SendMessageToLimitedNodes(r)
        \/ \E m \in Messages : \E e \in sentTo[m] : \E k \in Reports(e[1]) :
             SendMessageToStatCollector(m, e, k)

Spec == Init /\ [][Next]_vars

FairSpec == Spec /\ CollectorFairness
--------------------------------------------------------------------------------
(* What message m can have brought in: receipts of the nodes that it       *)
(* reached by gossip, or one per entry it was sent to and entry of the     *)
(* collector in the list of that node.                                     *)
Due(m) ==
  IF gossipMode = "attack"
  THEN Cardinality({n \in Others : \E r \in sent : r.node = n /\ r.message = m})
  ELSE Cardinality(UNION {{e} \X (1..Listed[e[1]]) : e \in sentTo[m]})

(* No run is credited with more nodes than its message reached, provided   *)
(* that no receipt of an earlier message was counted in it: receipts carry *)
(* no run, only the ten seconds between two runs keep them apart.  In mode *)
(* "control" every entry in a peer list counts as a node.                  *)
NotOverstated ==
  \A i \in 1..Len(results) :
    (\A r \in results[i].receipts : r.message = results[i].run)
      => results[i].reached <= Due(results[i].run)

(* "Expect all 4 nodes to receive message (control scenario)"              *)
(* (gossip_test_StatCollector.go:137): a run whose message was sent, and   *)
(* whose record has the reports of all nodes it was sent to, is completed. *)
ControlCompletes ==
  gossipMode = "control" =>
    \A i \in 1..Len(results) :
      LET m == results[i].run
      IN  /\ sentTo[m] # {}
          /\ Cardinality({r \in results[i].receipts : r.message = m}) = Due(m)
          => results[i].completed
================================================================================
