----------------------------- MODULE RoomRegistry -----------------------------
(***************************************************************************)
(* Who is in a room and who administers it.  Both are kept on the room's   *)
(* chain: every AddPeer writes a block with the whole peer list, every     *)
(* change of the administrators a block of its own.  Beside the chain the  *)
(* process has the list of administrators it loaded last and the number of *)
(* acknowledgements a chat needs, computed when the gossip network starts. *)
(*                                                                         *)
(* One process, whose calls do not overlap (BlockchainStore is about those *)
(* that do), is started again any number of times: a VM driver adds its    *)
(* peers and starts the network on every run.                              *)
(***************************************************************************)
EXTENDS Chain

CONSTANTS Keys,        \* public keys
          Self,        \* the key of this node
          Messages,    \* chats
          MaxBlocks    \* bound: no call when the chain is this long

ASSUME RegistryAssumption == /\ Self \in Keys
                             /\ MaxBlocks \in Nat

VARIABLES
  chain,          \* the room's chain, in memory and on file; << >>: no file
  administrators, \* the administrators loaded last
  threshold,      \* thresholdAcks, 0 while the network is not started
  down,           \* the process has panicked
  joined,         \* history: the keys given to AddPeer, in order
  removed         \* history: the keys given to RemovePeer

vars == <<chain, administrators, threshold, down, joined, removed>>

Init == /\ chain = << >>
        /\ administrators = {}
        /\ threshold = 0
        /\ down = FALSE
        /\ joined = << >>
        /\ removed = {}
--------------------------------------------------------------------------------
(* LoadBlockchainFromFile makes and saves a genesis block if it has to.    *)
Loaded == IF chain = << >> THEN <<GenesisBlock>> ELSE chain

AddBlock(c, data) == Append(c, GenerateBlock(c[Len(c)], data))

IsPeerBlock(block) == block.data.kind \in {"PEER_ADDED", "PEER_REMOVED"}

(* The block GetPeersInRoom takes the peer list from; 0 if there is none.  *)
LatestPeerBlock(c) == LET found == {i \in 1..Len(c) : IsPeerBlock(c[i])}
                      IN  IF found = {} THEN 0 ELSE LastOf(found)

GetPeersInRoom(c) == LET i == LatestPeerBlock(c)
                     IN  IF i = 0 THEN << >> ELSE c[i].data.about

(* It looks for a list after a "$".  RemovePeer writes none: then it panics.*)
Unreadable(c) == LET i == LatestPeerBlock(c)
                 IN  i # 0 /\ c[i].data.kind = "PEER_REMOVED"

WithPeer(c, key) == AddBlock(c, PeerAdded(Append(GetPeersInRoom(c), key)))

(* Added and not removed since: what loadAdminsFromBlockchain collects.    *)
AdminsOf(c) == {p \in Keys : \E i \in 1..Len(c) :
                  /\ c[i].data = AdminAdd(p)
                  /\ \A j \in (i + 1)..Len(c) : c[j].data # AdminRemove(p)}

(* Mutant: the list loaded last is used.                                   *)
CachedAdmins(c) == administrators

LoadAdmins(c) == AdminsOf(c)

IsAdmin(key) == key \in administrators

(* Mutants: there is no minimum; the minimum is 3.                         *)
ThresholdUnbounded(peers) == (66 * Len(peers)) \div 100

ThresholdTooHigh(peers) == LET t == (66 * Len(peers)) \div 100
                           IN  IF t < 3 THEN 3 ELSE t

(* Two thirds of the peer list, rounded down, and at least 2.              *)
ThresholdFor(peers) == LET t == (66 * Len(peers)) \div 100
                       IN  IF t < 2 THEN 2 ELSE t
--------------------------------------------------------------------------------
Running == ~down /\ Len(chain) < MaxBlocks

Panic == /\ down' = TRUE
         /\ UNCHANGED <<chain, administrators, threshold, joined, removed>>

AddPeer(key) ==
  /\ Running
  /\ IF Unreadable(Loaded) THEN Panic
     ELSE /\ chain' = WithPeer(Loaded, key)
          /\ joined' = Append(joined, key)
          /\ UNCHANGED <<administrators, threshold, down, removed>>

RemovePeer(key) ==
  /\ Running
  /\ IF Unreadable(Loaded) THEN Panic
     ELSE LET peers == GetPeersInRoom(Loaded)
              Other(k) == k # key
              left  == SelectSeq(peers, Other)
          IN  /\ chain' = IF left = peers THEN Loaded      \* not found
                          ELSE AddBlock(Loaded, PeerRemoved(left))
              /\ removed' = removed \cup {key}
              /\ UNCHANGED <<administrators, threshold, down, joined>>

(* The list is loaded anew from the chain the caller has just read, before *)
(* it is decided whether there is anything to record, and not afterwards.  *)
AddAdmin(key) ==
  /\ Running /\ chain # << >>
  /\ administrators' = LoadAdmins(chain)
  /\ chain' = IF IsAdmin(key)' THEN chain ELSE AddBlock(chain, AdminAdd(key))
  /\ UNCHANGED <<threshold, down, joined, removed>>

RemoveAdmin(key) ==
  /\ Running /\ chain # << >>
  /\ administrators' = LoadAdmins(chain)
  /\ chain' = IF IsAdmin(key)' THEN AddBlock(chain, AdminRemove(key)) ELSE chain
  /\ UNCHANGED <<threshold, down, joined, removed>>

(* The creator becomes the first peer and the first administrator.         *)
CreateRoom ==
  /\ Running /\ chain = << >>
  /\ LET c == WithPeer(Loaded, Self)
     IN  /\ administrators' = LoadAdmins(c)
         /\ chain' = AddBlock(c, AdminAdd(Self))
  /\ joined' = Append(joined, Self)
  /\ UNCHANGED <<threshold, down, removed>>

(* InitializeGossipNetwork computes the threshold first, and only then     *)
(* adds the node itself to the room, if it is not there.                   *)
StartGossip ==
  /\ Running /\ threshold = 0
  /\ IF Unreadable(Loaded) THEN Panic
     ELSE LET peers == GetPeersInRoom(Loaded)
              known == \E i \in 1..Len(peers) : peers[i] = Self
          IN  /\ threshold' = ThresholdFor(peers)
              /\ chain' = IF known THEN Loaded ELSE WithPeer(Loaded, Self)
              /\ joined' = IF known THEN joined ELSE Append(joined, Self)
              /\ UNCHANGED <<administrators, down, removed>>

(* A chat is decided and its block added.                                  *)
SaveChat(m) ==
  /\ Running /\ threshold # 0
  /\ chain' = AddBlock(chain, Chat(m))
  /\ UNCHANGED <<administrators, threshold, down, joined, removed>>

(* The command "clear_blockchain" arrives.                                 *)
Clear ==
  /\ ~down /\ threshold # 0
  /\ chain' = Preserved(chain)
  /\ UNCHANGED <<administrators, threshold, down, joined, removed>>

Restart == /\ administrators' = {}
           /\ threshold' = 0
           /\ down' = FALSE
           /\ UNCHANGED <<chain, joined, removed>>

Next == \/ \E key \in Keys : \/ AddPeer(key) \/ RemovePeer(key)
                             \/ AddAdmin(key) \/ RemoveAdmin(key)
        \/ CreateRoom \/ StartGossip \/ Clear \/ Restart
        \/ \E m \in Messages : SaveChat(m)

Spec == Init /\ [][Next]_vars
--------------------------------------------------------------------------------
TypeOK == /\ \A i \in 1..Len(chain) :
               chain[i].data.kind \in {"GENESIS", "CHAT_MSG", "PEER_ADDED",
                                       "PEER_REMOVED", "ADMIN_ADD",
                                       "ADMIN_REMOVE"}
          /\ administrators \subseteq Keys
          /\ threshold = 0 \/ threshold \in Nat \ {0, 1}
          /\ down \in BOOLEAN
          /\ joined \in Seq(Keys)
          /\ removed \subseteq Keys

(* No peer is lost and none is invented: across chats, changes of the      *)
(* administrators, clears and restarts, the list in the latest peer block  *)
(* is everyone AddPeer was called for (peerDetails.go:26, :64), as long as *)
(* RemovePeer was not called.  (A clear undoes a removal: what it keeps    *)
(* ends with the last PEER_ADDED block.)                                   *)
PeersAreHistory == removed = {} => GetPeersInRoom(Loaded) = joined

(* Clearing cuts the chain where it can be continued: blocks added after a *)
(* clear or a restart link to what was kept, from the genesis block on.    *)
ChainLinked == chain # << >> => chain[1] = GenesisBlock /\ Linked(chain)

(* The cached list never makes AddAdmin or RemoveAdmin record what the     *)
(* chain already says, though restarts empty it and clears take blocks     *)
(* away: the administrator blocks of one key alternate, an ADMIN_ADD first.*)
AdminBlocksAlternate ==
  \A p \in Keys : \A i \in 1..Len(chain) :
    /\ chain[i].data = AdminAdd(p) => p \notin AdminsOf(SubSeq(chain, 1, i - 1))
    /\ chain[i].data = AdminRemove(p) => p \in AdminsOf(SubSeq(chain, 1, i - 1))

(* A chat can be decided at all: the threshold of a started network is not *)
(* above the number of peers whose ack can count, although it is computed  *)
(* before the node adds itself.  That takes a room no peer joined twice,   *)
(* and none has left (network_gossip.go:279, "66% of peers").              *)
ThresholdReachable ==
  LET list   == GetPeersInRoom(Loaded)
      peers  == {list[i] : i \in 1..Len(list)}
  IN  removed = {} /\ Len(list) = Cardinality(peers) /\ Len(list) >= 2
        => threshold <= Cardinality(peers)

================================================================================
