------------------------------- MODULE GossipNet -------------------------------
(***************************************************************************)
(* The gossip network of one room: every node forwards what it sees for    *)
(* the first time, acknowledges chats and decides by the acknowledgements  *)
(* it has seen.  What a node decides is kept in the terms of QuorumLog,    *)
(* which AckConsensus, the model of one node's goroutines, implements.     *)
(*                                                                         *)
(* A node only handles messages whose author it finds among its own        *)
(* gossipPeers, so that a message travels along nodes that know its author *)
(* and stops at the first that does not.                                   *)
(*                                                                         *)
(* A copy of a message that was sent may arrive at any time, in any order, *)
(* or never: SendGossipMessage dials anew for each copy and its errors are *)
(* ignored.                                                                *)
(***************************************************************************)
EXTENDS Naturals, Sequences, FiniteSets

CONSTANTS Nodes,
          Msgs,          \* chats
          Clears,        \* clear commands that are gossiped
          Author,        \* Author[m]: the node that gossips m
          Timestamp,     \* Timestamp[m]: the author's clock, in seconds
          Neighbours,    \* Neighbours[n]: gossipPeers of n, without n itself:
                         \* its Yggdrasil peers at its start
          Room,          \* Room[n]: the nodes in n's copy of the peer list
          Fanout,        \* Fanout[n]: forwardingFanout of n, 0 for all peers
          TTL,           \* time to live of a new message, 10 in the code
          Threshold,     \* Threshold[n]: thresholdAcks of n
          Attackers,     \* nodes with isAttackerNode: they never forward
          Silent,        \* nodes with disableAckSending
          Direct         \* nodes with noAckBlockchainSave: they save chats on
                         \* receipt and acknowledge none

ASSUME NetAssumption == /\ IsFiniteSet(Nodes)
                        /\ Msgs \cap Clears = {}
                        /\ Author \in [Msgs \cup Clears -> Nodes]
                        /\ Timestamp \in [Msgs -> Nat]
                        /\ Neighbours \in [Nodes -> SUBSET Nodes]
                        /\ \A n \in Nodes : n \notin Neighbours[n]
                        /\ Room \in [Nodes -> SUBSET Nodes]
                        /\ \A n \in Nodes : n \in Room[n]
                        /\ Fanout \in [Nodes -> Nat]
                        /\ TTL \in Nat \ {0}
                        /\ Threshold \in [Nodes -> Nat]
                        /\ Attackers \subseteq Nodes
                        /\ Silent \subseteq Nodes
                        /\ Direct \subseteq Nodes

Chat(m)   == [type |-> "chat", msg |-> m]
Clear(c)  == [type |-> "clear_blockchain", msg |-> c]
Ack(m, n) == [type |-> "ack", msg |-> m, from |-> n]

GossipIDs == {Chat(m) : m \in Msgs} \cup {Clear(c) : c \in Clears}
               \cup {Ack(m, n) : m \in Msgs, n \in Nodes}

Copies == [id : GossipIDs, ttl : 0..(TTL - 1)]

VARIABLES
  inbox,     \* inbox[n]: copies sent to n
  seen,      \* seen[n]: messageHistory of n
  handling,  \* handling[n]: chats, with their TTL, that n has acknowledged
             \* and is yet to queue and forward
  ackers,    \* ackers[n][m]: processedAcks of n
  status,    \* status[n][m]: what n has decided about m
  log,       \* log[n]: the chats n has ever added to its chain
  cleared    \* cleared[n]: how many of them the last clear removed

vars == <<inbox, seen, handling, ackers, status, log, cleared>>

TypeOK ==
  /\ inbox \in [Nodes -> SUBSET Copies]
  /\ seen \in [Nodes -> SUBSET GossipIDs]
  /\ handling \in [Nodes -> SUBSET (Msgs \X (0..TTL))]
  /\ ackers \in [Nodes -> [Msgs -> SUBSET Nodes]]
  /\ status \in [Nodes -> [Msgs -> {"new", "waiting", "saved", "dropped"}]]
  /\ log \in [Nodes -> Seq(Msgs)]
  /\ \A n \in Nodes : cleared[n] \in 0..Len(log[n])

Init == /\ inbox = [n \in Nodes |-> {}]
        /\ seen = [n \in Nodes |-> {}]
        /\ handling = [n \in Nodes |-> {}]
        /\ ackers = [n \in Nodes |-> [m \in Msgs |-> {}]]
        /\ status = [n \in Nodes |-> [m \in Msgs |-> "new"]]
        /\ log = [n \in Nodes |-> << >>]
        /\ cleared = [n \in Nodes |-> 0]
--------------------------------------------------------------------------------
(* A node's Yggdrasil peers at its start, and itself.                      *)
gossipPeers(n) == Neighbours[n] \cup {n}

(* Mutant: only other nodes' messages are authenticated.                   *)
KnownPeer(n, p) == p \in Neighbours[n] \cap Room[n]

(* n finds p's key among its gossipPeers and in the room.                  *)
Authenticates(n, p) == p \in gossipPeers(n) \cap Room[n]

(* Any count of the peers, or all if there are no more than that.          *)
selectRandomPeers(peers, count) ==
  IF count >= Cardinality(peers) THEN {peers}
  ELSE {T \in SUBSET peers : Cardinality(T) = count}

(* The peers a message may be forwarded to: none by an attacker, else all  *)
(* or a choice of Fanout of them.                                          *)
Targets(n) ==
  IF n \in Attackers THEN {{}}
  ELSE IF Fanout[n] = 0 THEN {gossipPeers(n) \ {n}}
  ELSE selectRandomPeers(gossipPeers(n) \ {n}, Fanout[n])

(* Mutants: the time to live is not counted down; its last unit is lost.   *)
SameHop(id, ttl) == [id |-> id, ttl |-> ttl]

SpentEarly(ttl) == ttl <= 1

Hop(id, ttl) == [id |-> id, ttl |-> ttl - 1]

Spent(ttl) == ttl = 0

(* Mutant: messageHistory is not consulted.                                *)
AlwaysNew(n, id) == TRUE

New(n, id) == id \notin seen[n]

(* What n forwards, or nothing when its time to live is used up, joins the *)
(* copies under way.  A copy that would find its ID in messageHistory has  *)
(* no effect and is left out.                                              *)
Forward(copies, n, id, ttl) ==
  IF Spent(ttl) THEN {copies}
  ELSE {[x \in Nodes |-> IF x \in T /\ New(x, id) THEN copies[x] \cup {Hop(id, ttl)}
                         ELSE copies[x]] : T \in Targets(n)}

(* The copies under way after n has taken one of id: its others are void.  *)
Rest(n, id) == [inbox EXCEPT ![n] = {c \in @ : c.id # id}]

Waiting(n) == {m \in Msgs : status[n][m] = "waiting"}

(* Mutant: queued chats are saved in the order of their quorums.           *)
CanSaveAnytime(n, m) == TRUE

(* No other queued chat has an earlier timestamp.                          *)
CanSave(n, m) == \A other \in Waiting(n) : Timestamp[other] >= Timestamp[m]

(* Mutant: one ack less is enough.                                         *)
NearQuorum(n, peers) == Cardinality(peers) + 1 >= Threshold[n]

Quorum(n, peers) == Cardinality(peers) >= Threshold[n]

Save(n, m) == /\ status' = [status EXCEPT ![n][m] = "saved"]
              /\ log' = [log EXCEPT ![n] = Append(@, m)]

(* A first copy whose author is unknown or not in the room is dropped, yet *)
(* its ID stays marked.                                                    *)
Ignore(n, id) == /\ New(n, id)
                 /\ seen' = [seen EXCEPT ![n] = @ \cup {id}]
                 /\ inbox' = Rest(n, id)
                 /\ UNCHANGED <<handling, ackers, status, log, cleared>>

(* The first copy of chat m reaches n, or n gossips its own chat.  Unless  *)
(* told not to, n acknowledges at once: it counts its own ack and sends it *)
(* on, before the chat itself is queued.  In direct mode it adds the block.*)
TakeChat(n, m, ttl) ==
  /\ New(n, Chat(m))
  /\ handling' = [handling EXCEPT ![n] = @ \cup {<<m, ttl>>}]
  /\ IF n \in Direct
     THEN /\ seen' = [seen EXCEPT ![n] = @ \cup {Chat(m)}]
          /\ inbox' = Rest(n, Chat(m))
          /\ Save(n, m)
          /\ UNCHANGED ackers
     ELSE IF n \in Silent
     THEN /\ seen' = [seen EXCEPT ![n] = @ \cup {Chat(m)}]
          /\ inbox' = Rest(n, Chat(m))
          /\ UNCHANGED <<ackers, status, log>>
     ELSE /\ seen' = [seen EXCEPT ![n] = @ \cup {Chat(m), Ack(m, n)}]
          /\ ackers' = [ackers EXCEPT ![n][m] = @ \cup {n}]
          /\ inbox' \in Forward(Rest(n, Chat(m)), n, Ack(m, n), TTL)
          /\ UNCHANGED <<status, log>>
  /\ UNCHANGED cleared

HandleChat(n, m, ttl) ==
  IF Authenticates(n, Author[m]) THEN TakeChat(n, m, ttl) ELSE Ignore(n, Chat(m))

Gossip(m) == HandleChat(Author[m], m, TTL)

ReceiveChat(n, m) ==
  \E c \in inbox[n] : c.id = Chat(m) /\ HandleChat(n, m, c.ttl)

(* Mutant: a chat whose quorum is there already is not queued any more.    *)
QueuedUnlessQuorum(n, m) ==
  IF n \in Direct \/ Quorum(n, ackers[n][m]) THEN status
  ELSE [status EXCEPT ![n][m] = "waiting"]

Queued(n, m) == IF n \in Direct THEN status
                ELSE [status EXCEPT ![n][m] = "waiting"]

(* The rest of the chat's handler: the chat is queued, with the acks that  *)
(* have come already, and forwarded.                                       *)
Queue(n, m) ==
  \E h \in handling[n] :
    /\ h[1] = m
    /\ handling' = [handling EXCEPT ![n] = @ \ {h}]
    /\ status' = Queued(n, m)
    /\ inbox' \in Forward(inbox, n, Chat(m), h[2])
    /\ UNCHANGED <<seen, ackers, log, cleared>>

(* Mutant: only acks that are authenticated count.                         *)
CountKnown(n, m, p) ==
  IF Authenticates(n, p) THEN [ackers EXCEPT ![n][m] = @ \cup {p}] ELSE ackers

(* An ack counts if its author is in the room, authenticated or not.       *)
Count(n, m, p) ==
  IF p \in Room[n] THEN [ackers EXCEPT ![n][m] = @ \cup {p}] ELSE ackers

(* The first copy of p's ack of m reaches n: it may complete the quorum,   *)
(* and is forwarded if n knows p.                                          *)
ReceiveAck(n, m, p) ==
  \E c \in inbox[n] :
    /\ c.id = Ack(m, p)
    /\ New(n, Ack(m, p))
    /\ seen' = [seen EXCEPT ![n] = @ \cup {Ack(m, p)}]
    /\ ackers' = Count(n, m, p)
    /\ inbox' \in IF Authenticates(n, p) THEN Forward(Rest(n, c.id), n, c.id, c.ttl)
                   ELSE {Rest(n, c.id)}
    /\ IF /\ m \in Waiting(n)
          /\ p \in Room[n]
          /\ Quorum(n, ackers'[n][m])
          /\ CanSave(n, m)
       THEN Save(n, m)
       ELSE UNCHANGED <<status, log>>
    /\ UNCHANGED <<handling, cleared>>

(* A node that takes a clear command removes its chats from chain and file *)
(* and sends the command on; chats that are queued stay so.                *)
HandleClear(n, c, ttl) ==
  IF ~Authenticates(n, Author[c]) THEN Ignore(n, Clear(c))
  ELSE /\ New(n, Clear(c))
       /\ seen' = [seen EXCEPT ![n] = @ \cup {Clear(c)}]
       /\ cleared' = [cleared EXCEPT ![n] = Len(log[n])]
       /\ inbox' \in Forward(Rest(n, Clear(c)), n, Clear(c), ttl)
       /\ UNCHANGED <<handling, ackers, status, log>>

GossipClear(c) == HandleClear(Author[c], c, TTL)

ReceiveClear(n, c) ==
  \E copy \in inbox[n] : copy.id = Clear(c) /\ HandleClear(n, c, copy.ttl)

(* The waiter of m at n finds that m can be saved.                         *)
Tick(n, m) == /\ m \in Waiting(n)
              /\ Quorum(n, ackers[n][m])
              /\ CanSave(n, m)
              /\ Save(n, m)
              /\ UNCHANGED <<inbox, seen, handling, ackers, cleared>>

(* Mutant: the waiter has no timer.                                        *)
NoTimer(n, m) == FALSE

(* The waiter of m at n gives up.                                          *)
Timeout(n, m) == /\ m \in Waiting(n)
                 /\ status' = [status EXCEPT ![n][m] = "dropped"]
                 /\ UNCHANGED <<inbox, seen, handling, ackers, log, cleared>>

(* What nodes do without their users.                                      *)
Handle ==
  \E n \in Nodes :
    \/ \E m \in Msgs : \/ ReceiveChat(n, m) \/ Queue(n, m)
                      \/ \E p \in Nodes : ReceiveAck(n, m, p)
                      \/ Tick(n, m) \/ Timeout(n, m)
    \/ \E c \in Clears : ReceiveClear(n, c)

Next == \/ \E m \in Msgs : Gossip(m)
        \/ \E c \in Clears : GossipClear(c)
        \/ Handle

Spec == Init /\ [][Next]_vars

(* No copy is lost, every goroutine gets its turn and every timer fires;   *)
(* whether anything is gossiped is up to the users.  No step can be taken  *)
(* again, so that fairness to all of them is fairness to each.             *)
Fairness == WF_vars(Handle)

FairSpec == Spec /\ Fairness
--------------------------------------------------------------------------------
InLog(n, m) == \E i \in 1..Len(log[n]) : log[n][i] = m

Processes(n, m) == Chat(m) \in seen[n] /\ Authenticates(n, Author[m])

(* The nodes that send acks.                                               *)
Acking == Nodes \ (Silent \cup Direct)

(* A chat in the chain of a node that waits for acks was really processed  *)
(* by at least Threshold nodes of its room that send acks: acks are        *)
(* counted where they arrive, after any number of hops, from nodes that    *)
(* are no peers of this one and before their signature is checked.         *)
QuorumIsGenuine ==
  \A n \in Nodes \ Direct, m \in Msgs :
    InLog(n, m) =>
      Cardinality({p \in Acking \cap Room[n] : Processes(p, m)}) >= Threshold[n]

(* The nodes that send on what p gossips, and of these the ones that send  *)
(* it to all their peers.                                                  *)
Relays(p) ==
  {x \in Nodes \ Attackers : x = p \/ p \in Neighbours[x] \cap Room[x]}

SureRelays(p) ==
  {x \in Relays(p) : Fanout[x] = 0 \/ Fanout[x] >= Cardinality(Neighbours[x])}

(* The nodes that at most h hops over relays can lead to from p.           *)
Within(p, relays, h) ==
  LET after[i \in 0..h] ==
        IF i = 0 THEN {p}
        ELSE after[i - 1] \cup UNION {Neighbours[x] : x \in after[i - 1] \cap relays}
  IN  after[h]

InReach == [p \in Nodes |-> Within(p, Relays(p), TTL)]

GossipedBy(id) == IF id.type = "ack" THEN id.from ELSE Author[id.msg]

(* Nothing gets further than TTL hops from the node that gossiped it, and  *)
(* only over nodes that know that node (the TTL of GossipMessage, which    *)
(* HandleGossipMessage counts down, and the lookup in gossipPeers).        *)
HopsBounded ==
  \A n \in Nodes : \A id \in seen[n] : n \in InReach[GossipedBy(id)]

(* No node adds a chat twice, however many copies of it are forwarded to   *)
(* it, over different paths and with different times to live.              *)
OneBlockPerChat ==
  \A n \in Nodes : \A i, j \in 1..Len(log[n]) : log[n][i] = log[n][j] => i = j

(* No copy is under way, no goroutine at work and no timer running.        *)
Quiet == \A n \in Nodes : inbox[n] = {} /\ handling[n] = {} /\ Waiting(n) = {}

(* The net comes to rest whatever was gossiped: every chat is decided.     *)
Settles == []<>Quiet

(* No node forwards a message twice, so no copy makes more hops than there *)
(* are relays: with a TTL as large, none stops for want of it.             *)
Reached == [p \in Nodes |-> IF TTL >= Cardinality(Relays(p))
                           THEN Within(p, SureRelays(p), TTL) ELSE {p}]

(* What a node gossips has reached every node that sure relays lead to     *)
(* when all copies have arrived, although the copy that comes first may    *)
(* have taken the longer way and suppresses those with more TTL.           *)
EveryNodeReached ==
  Quiet => \A id \in GossipIDs :
             id \in seen[GossipedBy(id)] =>
               \A n \in Reached[GossipedBy(id)] : id \in seen[n]

(* What a node has seen from an author it knows it has decided then.       *)
EverythingDecided ==
  Quiet => \A n \in Nodes, m \in Msgs :
             Processes(n, m) => status[n][m] \in {"saved", "dropped"}

(* Where enough acks can get to a node, it then knows the quorum, also by  *)
(* acks of nodes that are no peers of it.                                  *)
QuorumKnown ==
  Quiet =>
    \A n \in Nodes, m \in Msgs :
      LET near == {p \in Acking \cap Room[n] \cap Reached[Author[m]] :
                     Authenticates(p, Author[m]) /\ n \in Reached[p]}
      IN  Chat(m) \in seen[Author[m]] /\ Cardinality(near) >= Threshold[n]
            => Quorum(n, ackers[n][m])

(* The chats in the chain of n.                                            *)
ChatsOf(n) == SubSeq(log[n], cleared[n] + 1, Len(log[n]))

(* "identical messages generate identical hashes regardless of when        *)
(* they're processed" (blockchain.go:31), "for consensus consistency": the *)
(* hash of a chat's block depends on the blocks before it, so nodes that   *)
(* both saved m should have saved the same chats before it.                *)
IdenticalHashes ==
  \A n, x \in Nodes :
    \A i \in 1..Len(ChatsOf(n)), j \in 1..Len(ChatsOf(x)) :
      ChatsOf(n)[i] = ChatsOf(x)[j] =>
        SubSeq(ChatsOf(n), 1, i) = SubSeq(ChatsOf(x), 1, j)

(* Each node that waits for acks keeps, seen alone, the promise of         *)
(* QuorumLog, although its acks and chats come over the network.           *)
Node(n) == INSTANCE QuorumLog
             WITH Members <- Room[n], ackers <- ackers[n], status <- status[n],
                  log <- log[n],
                  Quorums <- {S \in SUBSET Room[n] : Quorum(n, S)}

NodesKeepPromise ==
  /\ \A n \in Nodes \ Direct : Node(n)!Init
  /\ [][\A n \in Nodes \ Direct : UNCHANGED Node(n)!vars \/ Node(n)!Next]_vars
================================================================================
