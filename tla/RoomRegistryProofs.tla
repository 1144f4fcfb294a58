--------------------------- MODULE RoomRegistryProofs ---------------------------
(***************************************************************************)
(* Proofs about RoomRegistry for any keys, any messages and any bound on   *)
(* the length of the chain.                                                *)
(***************************************************************************)
EXTENDS RoomRegistry, ChainProofs

--------------------------------------------------------------------------------
(* A chain as a value: what every block of it says, and in which order.    *)

Kinds == {"GENESIS", "CHAT_MSG", "PEER_ADDED", "PEER_REMOVED", "ADMIN_ADD",
          "ADMIN_REMOVE"}

Alternate(c) ==
  \A p \in Keys : \A i \in 1..Len(c) :
    /\ c[i].data = AdminAdd(p) => p \notin AdminsOf(Prefix(c, i - 1))
    /\ c[i].data = AdminRemove(p) => p \in AdminsOf(Prefix(c, i - 1))

GoodBlock(b) == /\ b.data.kind \in Kinds
                /\ b.data.kind = "PEER_ADDED" => b.data.about \in Seq(Keys)

GoodChain(c) == /\ IsSeq(c) /\ c # << >>
                /\ c[1] = GenesisBlock /\ Linked(c)
                /\ \A i \in 1..Len(c) : GoodBlock(c[i])
                /\ Alternate(c)

(* Data that may follow: an administrator is added or removed only if the  *)
(* chain does not say so already.                                          *)
Follows(c, data) ==
  /\ data.kind \in Kinds
  /\ data.kind = "PEER_ADDED" => data.about \in Seq(Keys)
  /\ \A p \in Keys : /\ data = AdminAdd(p) => p \notin AdminsOf(c)
                     /\ data = AdminRemove(p) => p \in AdminsOf(c)

LEMMA AddedBlock ==
  ASSUME NEW c, GoodChain(c), NEW data
  PROVE  /\ IsSeq(AddBlock(c, data)) /\ Linked(AddBlock(c, data))
         /\ AddBlock(c, data) # << >>
         /\ Len(c) \in Nat \ {0} /\ Len(AddBlock(c, data)) = Len(c) + 1
         /\ \A i \in 1..Len(c) : AddBlock(c, data)[i] = c[i]
         /\ AddBlock(c, data)[Len(c) + 1].data = data
         /\ \A k \in 0..Len(c) : Prefix(AddBlock(c, data), k) = Prefix(c, k)
<1> DEFINE b == GenerateBlock(c[Len(c)], data)
<1>1. b.data = data
  BY DEF GenerateBlock, NewBlock
<1>2. AddBlock(c, data) = Append(c, b)
  BY DEF AddBlock
<1>3. Linked(Append(c, b))
  BY LinkedAppended DEF GoodChain
<1> HIDE DEF b
<1>4. IsSeq(c) /\ Len(c) \in Nat \ {0}
  BY NotEmpty DEF GoodChain
<1>5. /\ IsSeq(Append(c, b)) /\ Len(Append(c, b)) = Len(c) + 1
      /\ \A i \in 1..Len(c) : Append(c, b)[i] = c[i]
      /\ Append(c, b)[Len(c) + 1] = b
  BY <1>4, AppendedSeq
<1>6. \A k \in 0..Len(c) : Prefix(Append(c, b), k) = Prefix(c, k)
  BY <1>4, PrefixOfAppended
<1>7. Append(c, b) # << >>
  BY <1>4, <1>5, NotEmpty
<1> QED
  BY <1>1, <1>2, <1>3, <1>4, <1>5, <1>6, <1>7

LEMMA GoodAdded ==
  ASSUME NEW c, GoodChain(c), NEW data, Follows(c, data)
  PROVE  GoodChain(AddBlock(c, data))
<1> DEFINE d == AddBlock(c, data)
<1>1. /\ IsSeq(d) /\ Linked(d) /\ d # << >>
      /\ Len(c) \in Nat \ {0} /\ Len(d) = Len(c) + 1
      /\ \A i \in 1..Len(c) : d[i] = c[i]
      /\ d[Len(c) + 1].data = data
      /\ \A k \in 0..Len(c) : Prefix(d, k) = Prefix(c, k)
  BY AddedBlock
<1> HIDE DEF d
<1>2. d[1] = GenesisBlock
  BY <1>1 DEF GoodChain
<1>3. \A i \in 1..Len(d) : GoodBlock(d[i])
  BY <1>1 DEF GoodChain, Follows, GoodBlock
<1>4. Alternate(d)
  <2> SUFFICES ASSUME NEW p \in Keys, NEW i \in 1..Len(d)
               PROVE  /\ d[i].data = AdminAdd(p)
                           => p \notin AdminsOf(Prefix(d, i - 1))
                      /\ d[i].data = AdminRemove(p)
                           => p \in AdminsOf(Prefix(d, i - 1))
    BY DEF Alternate
  <2>1. CASE i \in 1..Len(c)
    <3>1. i - 1 \in 0..Len(c)
      BY <1>1, <2>1
    <3> QED
      BY <1>1, <2>1, <3>1 DEF GoodChain, Alternate
  <2>2. CASE i = Len(c) + 1
    <3>1. Prefix(d, i - 1) = c
      <4>1. i - 1 = Len(c) /\ Len(c) \in 0..Len(c)
        BY <1>1, <2>2
      <4> QED
        BY <1>1, <4>1, WholePrefix DEF GoodChain
    <3> QED
      BY <1>1, <2>2, <3>1 DEF Follows
  <2> QED
    BY <1>1, <2>1, <2>2
<1> QED
  BY <1>1, <1>2, <1>3, <1>4 DEF GoodChain, d

LEMMA GoodPrefix ==
  ASSUME NEW c, GoodChain(c), NEW k \in 1..Len(c)
  PROVE  GoodChain(Prefix(c, k))
<1> DEFINE d == Prefix(c, k)
<1>1. IsSeq(c) /\ Len(c) \in Nat /\ k \in 0..Len(c)
  BY NotEmpty DEF GoodChain
<1>2. /\ IsSeq(d) /\ Len(d) = k
      /\ \A i \in 1..k : d[i] = c[i]
      /\ \A l \in 0..k : Prefix(d, l) = Prefix(c, l)
      /\ Linked(d)
  BY <1>1, PrefixSeq, PrefixOfPrefix, LinkedPrefix DEF GoodChain
<1> HIDE DEF d
<1>3. d # << >> /\ d[1] = GenesisBlock
  BY <1>1, <1>2, NotEmpty DEF GoodChain
<1>4. \A i \in 1..Len(d) : GoodBlock(d[i])
  BY <1>1, <1>2 DEF GoodChain
<1>5. Alternate(d)
  <2> SUFFICES ASSUME NEW p \in Keys, NEW i \in 1..Len(d)
               PROVE  /\ d[i].data = AdminAdd(p)
                           => p \notin AdminsOf(Prefix(d, i - 1))
                      /\ d[i].data = AdminRemove(p)
                           => p \in AdminsOf(Prefix(d, i - 1))
    BY DEF Alternate
  <2>1. i \in 1..Len(c) /\ i \in 1..k /\ i - 1 \in 0..k
    BY <1>1, <1>2
  <2>2. d[i] = c[i] /\ Prefix(d, i - 1) = Prefix(c, i - 1)
    BY <1>2, <2>1
  <2> QED
    BY <2>1, <2>2 DEF GoodChain, Alternate
<1> QED
  BY <1>2, <1>3, <1>4, <1>5 DEF GoodChain, d

LEMMA GoodGenesis == GoodChain(<<GenesisBlock>>)
<1> DEFINE c == <<GenesisBlock>>
<1>1. /\ IsSeq(c) /\ Linked(c) /\ Len(c) = 1 /\ c # << >>
      /\ c[1] = GenesisBlock /\ GenesisBlock.data = Genesis
  BY GenesisLinked
<1> HIDE DEF c
<1>2. \A i \in 1..Len(c) : c[i].data = Genesis
  BY <1>1
<1>3. /\ Genesis.kind = "GENESIS"
      /\ \A p : Genesis # AdminAdd(p) /\ Genesis # AdminRemove(p)
  BY DEF Genesis, AdminAdd, AdminRemove
<1>4. \A i \in 1..Len(c) : GoodBlock(c[i])
  BY <1>2, <1>3 DEF GoodBlock, Kinds
<1>5. Alternate(c)
  BY <1>2, <1>3 DEF Alternate
<1> QED
  BY <1>1, <1>4, <1>5 DEF GoodChain, c
--------------------------------------------------------------------------------
(* The peer list of a chain.                                               *)

PeerIndices(c) == {i \in 1..Len(c) : IsPeerBlock(c[i])}

LEMMA Latest ==
  ASSUME NEW c, IsSeq(c)
  PROVE  /\ PeerIndices(c) = {} => LatestPeerBlock(c) = 0
         /\ PeerIndices(c) # {} =>
              /\ LatestPeerBlock(c) \in PeerIndices(c)
              /\ LatestPeerBlock(c) \in 1..Len(c)
              /\ LatestPeerBlock(c) # 0
              /\ \A j \in PeerIndices(c) : j <= LatestPeerBlock(c)
<1>1. Len(c) \in Nat /\ PeerIndices(c) \in SUBSET (1..Len(c))
  BY NotEmpty DEF PeerIndices
<1>2. LatestPeerBlock(c) = IF PeerIndices(c) = {} THEN 0 ELSE LastOf(PeerIndices(c))
  BY DEF LatestPeerBlock, PeerIndices
<1>3. CASE PeerIndices(c) # {}
  BY <1>1, <1>2, <1>3, LastExists
<1> QED
  BY <1>2, <1>3

(* The largest of the peer blocks is the latest.                           *)
LEMMA LatestIs ==
  ASSUME NEW c, IsSeq(c), NEW k \in PeerIndices(c),
         \A j \in PeerIndices(c) : j <= k
  PROVE  LatestPeerBlock(c) = k
<1>1. Len(c) \in Nat
  BY NotEmpty
<1>2. /\ LatestPeerBlock(c) \in PeerIndices(c)
      /\ k <= LatestPeerBlock(c)
  BY Latest
<1> QED
  BY <1>1, <1>2 DEF PeerIndices

LEMMA PeersAreKeys ==
  ASSUME NEW c, GoodChain(c), ~Unreadable(c)
  PROVE  GetPeersInRoom(c) \in Seq(Keys)
<1>1. IsSeq(c)
  BY DEF GoodChain
<1>2. CASE PeerIndices(c) = {}
  BY <1>1, <1>2, Latest DEF GetPeersInRoom
<1>3. CASE PeerIndices(c) # {}
  <2> DEFINE i == LatestPeerBlock(c)
  <2>1. i \in 1..Len(c) /\ i # 0 /\ IsPeerBlock(c[i])
    BY <1>1, <1>3, Latest DEF PeerIndices
  <2> HIDE DEF i
  <2>2. c[i].data.kind = "PEER_ADDED"
    BY <2>1 DEF Unreadable, IsPeerBlock, i
  <2>3. c[i].data.about \in Seq(Keys)
    BY <2>1, <2>2 DEF GoodChain, GoodBlock
  <2> QED
    BY <2>1, <2>3 DEF GetPeersInRoom, i
<1> QED
  BY <1>2, <1>3

(* A block of another kind leaves the peer list as it is.                  *)
LEMMA PeersStay ==
  ASSUME NEW c, GoodChain(c), NEW data,
         data.kind \notin {"PEER_ADDED", "PEER_REMOVED"}
  PROVE  GetPeersInRoom(AddBlock(c, data)) = GetPeersInRoom(c)
<1> DEFINE d == AddBlock(c, data)
<1>1. /\ IsSeq(d) /\ IsSeq(c)
      /\ Len(c) \in Nat \ {0} /\ Len(d) = Len(c) + 1
      /\ \A i \in 1..Len(c) : d[i] = c[i]
      /\ d[Len(c) + 1].data = data
  BY AddedBlock DEF GoodChain
<1> HIDE DEF d
<1>2. PeerIndices(d) = PeerIndices(c)
  BY <1>1 DEF PeerIndices, IsPeerBlock
<1>3. LatestPeerBlock(d) = LatestPeerBlock(c)
  <2>1. CASE PeerIndices(c) = {}
    BY <1>1, <1>2, <2>1, Latest
  <2>2. CASE PeerIndices(c) # {}
    BY <1>1, <1>2, <2>2, Latest, LatestIs
  <2> QED
    BY <2>1, <2>2
<1>4. LatestPeerBlock(c) # 0 => LatestPeerBlock(c) \in 1..Len(c)
  BY <1>1, Latest
<1> QED
  BY <1>1, <1>3, <1>4 DEF GetPeersInRoom, d

(* A list that AddPeer writes is the peer list then.                       *)
LEMMA PeersWritten ==
  ASSUME NEW c, GoodChain(c), NEW l
  PROVE  GetPeersInRoom(AddBlock(c, PeerAdded(l))) = l
<1> DEFINE d == AddBlock(c, PeerAdded(l))
           k == Len(c) + 1
<1>1. /\ IsSeq(d)
      /\ Len(c) \in Nat \ {0} /\ Len(d) = k
      /\ d[k].data = PeerAdded(l)
  BY AddedBlock
<1> HIDE DEF d
<1>2. k \in PeerIndices(d) /\ \A j \in PeerIndices(d) : j <= k
  BY <1>1 DEF PeerIndices, IsPeerBlock, PeerAdded
<1>3. LatestPeerBlock(d) = k
  BY <1>1, <1>2, LatestIs
<1>4. k # 0 /\ d[k].data.about = l
  BY <1>1 DEF PeerAdded
<1> QED
  BY <1>3, <1>4 DEF GetPeersInRoom, d

NoRemovals(c) == \A i \in 1..Len(c) : c[i].data.kind # "PEER_REMOVED"

(* A clear keeps the peer list if no list was written by RemovePeer.       *)
LEMMA PeersKept ==
  ASSUME NEW c, GoodChain(c)
  PROVE  /\ GoodChain(Preserved(c))
         /\ NoRemovals(c) =>
              /\ NoRemovals(Preserved(c))
              /\ GetPeersInRoom(Preserved(c)) = GetPeersInRoom(c)
<1>1. IsSeq(c) /\ c # << >> /\ Len(c) \in Nat
  BY NotEmpty DEF GoodChain
<1>2. PICK k \in 1..Len(c) :
        /\ Preserved(c) = Prefix(c, k)
        /\ \A i \in 1..Len(c) : c[i].data.kind = "PEER_ADDED" => i <= k
        /\ PeerBlocks(c) # {} => c[k].data.kind = "PEER_ADDED"
        /\ PeerBlocks(c) = {} => k = 1
  BY <1>1, PreservedIsPrefix
<1> DEFINE d == Prefix(c, k)
<1>3. /\ IsSeq(d) /\ Len(d) = k
      /\ \A i \in 1..k : d[i] = c[i]
  <2>1. k \in 0..Len(c)
    BY <1>1
  <2> HIDE DEF Prefix
  <2> QED
    BY <1>1, <2>1, PrefixSeq
<1>4. GoodChain(d)
  BY GoodPrefix
<1> HIDE DEF d
<1>5. ASSUME NoRemovals(c)
      PROVE  NoRemovals(d) /\ GetPeersInRoom(d) = GetPeersInRoom(c)
  <2>1. NoRemovals(d)
    BY <1>1, <1>3, <1>5 DEF NoRemovals
  <2>2. PeerIndices(c) = PeerBlocks(c)
    BY <1>5 DEF NoRemovals, PeerIndices, PeerBlocks, IsPeerBlock
  <2>3. PeerIndices(d) = PeerIndices(c)
    <3>1. \A i \in PeerIndices(c) : i \in 1..k
      BY <1>1, <1>2, <2>2 DEF PeerBlocks
    <3>2. 1..k \subseteq 1..Len(c)
      BY <1>1
    <3> QED
      BY <1>3, <3>1, <3>2 DEF PeerIndices
  <2>4. CASE PeerBlocks(c) = {}
    BY <1>1, <1>3, <2>1, <2>2, <2>3, <2>4, Latest DEF GetPeersInRoom
  <2>5. CASE PeerBlocks(c) # {}
    <3>1. k \in PeerIndices(c) /\ \A j \in PeerIndices(c) : j <= k
      BY <1>2, <2>2, <2>5 DEF PeerBlocks
    <3>2. LatestPeerBlock(c) = k
      BY <1>1, <3>1, LatestIs
    <3>4. LatestPeerBlock(d) = k
      BY <1>3, <2>3, <3>1, LatestIs
    <3>3. d[k] = c[k]
      BY <1>3
    <3> QED
      BY <2>1, <3>2, <3>3, <3>4 DEF GetPeersInRoom
  <2> QED
    BY <2>1, <2>4, <2>5
<1> QED
  BY <1>2, <1>4, <1>5 DEF d
--------------------------------------------------------------------------------
(* The inductive invariant.                                                *)

(* As long as no peer was removed: the threshold of a started network was  *)
(* computed from a part of the peers there are now.                        *)
History == /\ NoRemovals(chain)
           /\ GetPeersInRoom(Loaded) = joined
           /\ threshold > 2 => 100 * threshold <= 66 * Len(joined)

Inv == /\ TypeOK
       /\ chain = << >> \/ GoodChain(chain)
       /\ threshold # 0 => chain # << >>
       /\ removed = {} => History

LEMMA InitInv == Init => Inv
<1> SUFFICES ASSUME Init PROVE Inv
  OBVIOUS
<1> USE DEF Init
<1>1. TypeOK
  <2>1. Len(chain) = 0 /\ joined \in Seq(Keys)
    OBVIOUS
  <2>2. \A i \in 1..Len(chain) : FALSE
    BY <2>1
  <2> QED
    BY <2>1, <2>2 DEF TypeOK
<1>2. Loaded = <<GenesisBlock>>
  BY DEF Loaded
<1>3. GetPeersInRoom(<<GenesisBlock>>) = << >>
  <2>1. /\ IsSeq(<<GenesisBlock>>) /\ Len(<<GenesisBlock>>) = 1
        /\ <<GenesisBlock>>[1].data = Genesis
    BY GenesisLinked
  <2>2. PeerIndices(<<GenesisBlock>>) = {}
    BY <2>1 DEF PeerIndices, IsPeerBlock, Genesis
  <2> QED
    BY <2>1, <2>2, Latest DEF GetPeersInRoom
<1>4. History
  BY <1>2, <1>3 DEF History, NoRemovals
<1> QED
  BY <1>1, <1>4 DEF Inv

(* What calls begin with.                                                  *)
LEMMA LoadedGood ==
  ASSUME Inv
  PROVE  /\ GoodChain(Loaded)
         /\ chain # << >> => Loaded = chain
         /\ removed = {} => NoRemovals(Loaded)
<1>1. CASE chain = << >>
  <2>1. /\ Len(<<GenesisBlock>>) = 1
        /\ <<GenesisBlock>>[1].data = Genesis
    BY GenesisLinked
  <2>2. NoRemovals(<<GenesisBlock>>)
    BY <2>1 DEF NoRemovals, Genesis
  <2> QED
    BY <1>1, <2>2, GoodGenesis DEF Loaded
<1>2. CASE chain # << >>
  BY <1>2 DEF Inv, Loaded, History
<1> QED
  BY <1>1, <1>2

(* A chain that is there is loaded as it is.                               *)
LEMMA NextLoaded ==
  ASSUME GoodChain(chain)'
  PROVE  chain' # << >> /\ Loaded' = chain'
BY DEF GoodChain, Loaded

LEMMA KindsOf ==
  ASSUME NEW c, GoodChain(c)
  PROVE  \A i \in 1..Len(c) : c[i].data.kind \in Kinds
BY DEF GoodChain, GoodBlock

(* AddBlock with any data that may follow, other than a peer list.         *)
LEMMA AddOther ==
  ASSUME NEW c, GoodChain(c), NEW data, Follows(c, data),
         data.kind \notin {"PEER_ADDED", "PEER_REMOVED"}
  PROVE  /\ GoodChain(AddBlock(c, data))
         /\ NoRemovals(c) => NoRemovals(AddBlock(c, data))
         /\ GetPeersInRoom(AddBlock(c, data)) = GetPeersInRoom(c)
<1>1. /\ Len(c) \in Nat \ {0} /\ Len(AddBlock(c, data)) = Len(c) + 1
      /\ \A i \in 1..Len(c) : AddBlock(c, data)[i] = c[i]
      /\ AddBlock(c, data)[Len(c) + 1].data = data
  BY AddedBlock
<1> QED
  BY <1>1, GoodAdded, PeersStay DEF NoRemovals

(* AddPeer's block.                                                        *)
LEMMA AddList ==
  ASSUME NEW c, GoodChain(c), ~Unreadable(c), NEW key \in Keys
  PROVE  /\ GoodChain(WithPeer(c, key))
         /\ NoRemovals(c) => NoRemovals(WithPeer(c, key))
         /\ GetPeersInRoom(WithPeer(c, key)) = Append(GetPeersInRoom(c), key)
<1> DEFINE l == Append(GetPeersInRoom(c), key)
<1>1. l \in Seq(Keys)
  BY PeersAreKeys
<1>2. WithPeer(c, key) = AddBlock(c, PeerAdded(l))
  BY DEF WithPeer
<1> HIDE DEF l
<1>3. /\ PeerAdded(l).kind = "PEER_ADDED" /\ PeerAdded(l).about = l
      /\ \A p : PeerAdded(l) # AdminAdd(p) /\ PeerAdded(l) # AdminRemove(p)
  BY DEF PeerAdded, AdminAdd, AdminRemove
<1>4. Follows(c, PeerAdded(l))
  BY <1>1, <1>3 DEF Follows, Kinds
<1>5. /\ Len(c) \in Nat \ {0} /\ Len(AddBlock(c, PeerAdded(l))) = Len(c) + 1
      /\ \A i \in 1..Len(c) : AddBlock(c, PeerAdded(l))[i] = c[i]
      /\ AddBlock(c, PeerAdded(l))[Len(c) + 1].data = PeerAdded(l)
  BY AddedBlock
<1>6. NoRemovals(c) => NoRemovals(AddBlock(c, PeerAdded(l)))
  BY <1>3, <1>5 DEF NoRemovals
<1> QED
  BY <1>2, <1>4, <1>6, GoodAdded, PeersWritten DEF l
--------------------------------------------------------------------------------
(* One lemma per call.                                                     *)

LEMMA PanicInv ==
  ASSUME Inv, Panic PROVE Inv'
BY DEF Panic, Inv, TypeOK, History, Loaded, GetPeersInRoom, NoRemovals,
       GoodChain, Linked, Alternate

LEMMA AddPeerInv ==
  ASSUME Inv, NEW key \in Keys, AddPeer(key) PROVE Inv'
<1>1. CASE Unreadable(Loaded)
  BY <1>1, PanicInv DEF AddPeer
<1>2. CASE ~Unreadable(Loaded)
  <2>1. /\ chain' = WithPeer(Loaded, key)
        /\ joined' = Append(joined, key)
        /\ UNCHANGED <<administrators, threshold, down, removed>>
    BY <1>2 DEF AddPeer
  <2>2. /\ GoodChain(Loaded)
        /\ removed = {} => NoRemovals(Loaded)
    BY LoadedGood
  <2>3. /\ GoodChain(chain')
        /\ NoRemovals(Loaded) => NoRemovals(chain')
        /\ GetPeersInRoom(chain') = Append(GetPeersInRoom(Loaded), key)
    BY <1>2, <2>1, <2>2, AddList
  <2>4. chain' # << >> /\ Loaded' = chain'
    BY <2>3, NextLoaded
  <2>5. joined' \in Seq(Keys) /\ Len(joined) \in Nat /\ Len(joined') = Len(joined) + 1
    BY <2>1 DEF Inv, TypeOK
  <2>6. TypeOK'
    BY <2>1, <2>3, <2>5, KindsOf DEF Inv, TypeOK, Kinds
  <2>7. removed' = {} => History'
    <3> SUFFICES ASSUME removed' = {} PROVE History'
      OBVIOUS
    <3>1. History /\ NoRemovals(chain') /\ GetPeersInRoom(Loaded') = joined'
      BY <2>1, <2>2, <2>3, <2>4 DEF Inv, History
    <3>2. threshold' > 2 => 100 * threshold' <= 66 * Len(joined')
      BY <2>1, <2>5, <3>1 DEF History, Inv, TypeOK
    <3> QED
      BY <3>1, <3>2 DEF History
  <2> QED
    BY <2>3, <2>4, <2>6, <2>7 DEF Inv
<1> QED
  BY <1>1, <1>2

LEMMA RemovePeerInv ==
  ASSUME Inv, NEW key \in Keys, RemovePeer(key) PROVE Inv'
<1>1. CASE Unreadable(Loaded)
  BY <1>1, PanicInv DEF RemovePeer
<1>2. CASE ~Unreadable(Loaded)
  <2>1. /\ \/ chain' = Loaded
           \/ \E left : chain' = AddBlock(Loaded, PeerRemoved(left))
        /\ removed' = removed \cup {key}
        /\ UNCHANGED <<administrators, threshold, down, joined>>
    BY <1>2 DEF RemovePeer
  <2>2. GoodChain(Loaded)
    BY LoadedGood
  <2>3. GoodChain(chain')
    <3>1. CASE chain' = Loaded
      BY <2>2, <3>1
    <3>2. ASSUME NEW left, chain' = AddBlock(Loaded, PeerRemoved(left))
          PROVE  GoodChain(chain')
      <4>1. Follows(Loaded, PeerRemoved(left))
        BY DEF Follows, Kinds, PeerRemoved, AdminAdd, AdminRemove
      <4> QED
        BY <2>2, <3>2, <4>1, GoodAdded
    <3> QED
      BY <2>1, <3>1, <3>2
  <2>4. chain' # << >>
    BY <2>3, NextLoaded
  <2>5. TypeOK'
    BY <2>1, <2>3, KindsOf DEF Inv, TypeOK, Kinds
  <2> QED
    BY <2>1, <2>3, <2>4, <2>5 DEF Inv
<1> QED
  BY <1>1, <1>2

(* Administrators: the list loaded is what the chain says.                 *)
LEMMA AdminInv ==
  ASSUME Inv, NEW key \in Keys, AddAdmin(key) \/ RemoveAdmin(key) PROVE Inv'
<1>1. /\ chain # << >> /\ GoodChain(chain) /\ Loaded = chain
      /\ administrators' = AdminsOf(chain)
      /\ UNCHANGED <<threshold, down, joined, removed>>
  BY LoadedGood DEF AddAdmin, RemoveAdmin, LoadAdmins
<1>2. \/ chain' = chain
      \/ key \notin AdminsOf(chain) /\ chain' = AddBlock(chain, AdminAdd(key))
      \/ key \in AdminsOf(chain) /\ chain' = AddBlock(chain, AdminRemove(key))
  BY <1>1 DEF AddAdmin, RemoveAdmin, IsAdmin
<1>3. /\ GoodChain(chain')
      /\ NoRemovals(chain) => NoRemovals(chain')
      /\ GetPeersInRoom(chain') = GetPeersInRoom(chain)
  <2>1. CASE chain' = chain
    BY <1>1, <2>1
  <2>2. CASE key \notin AdminsOf(chain) /\ chain' = AddBlock(chain, AdminAdd(key))
    <3>1. /\ Follows(chain, AdminAdd(key))
          /\ AdminAdd(key).kind \notin {"PEER_ADDED", "PEER_REMOVED"}
      BY <2>2 DEF Follows, Kinds, AdminAdd, AdminRemove
    <3> QED
      BY <1>1, <2>2, <3>1, AddOther
  <2>3. CASE key \in AdminsOf(chain) /\ chain' = AddBlock(chain, AdminRemove(key))
    <3>1. /\ Follows(chain, AdminRemove(key))
          /\ AdminRemove(key).kind \notin {"PEER_ADDED", "PEER_REMOVED"}
      BY <2>3 DEF Follows, Kinds, AdminAdd, AdminRemove
    <3> QED
      BY <1>1, <2>3, <3>1, AddOther
  <2> QED
    BY <1>2, <2>1, <2>2, <2>3
<1>4. chain' # << >> /\ Loaded' = chain'
  BY <1>3, NextLoaded
<1>5. administrators' \subseteq Keys
  BY <1>1 DEF AdminsOf
<1>6. TypeOK'
  BY <1>1, <1>3, <1>5, KindsOf DEF Inv, TypeOK, Kinds
<1>7. removed' = {} => History'
  BY <1>1, <1>3, <1>4 DEF Inv, History
<1> QED
  BY <1>1, <1>3, <1>4, <1>6, <1>7 DEF Inv

LEMMA CreateRoomInv ==
  ASSUME Inv, CreateRoom PROVE Inv'
<1> DEFINE c == WithPeer(Loaded, Self)
<1>1. /\ chain = << >> /\ threshold = 0 /\ Loaded = <<GenesisBlock>>
      /\ administrators' = AdminsOf(c)
      /\ chain' = AddBlock(c, AdminAdd(Self))
      /\ joined' = Append(joined, Self)
      /\ UNCHANGED <<threshold, down, removed>>
  BY DEF CreateRoom, LoadAdmins, Loaded, Inv
<1>2. /\ IsSeq(Loaded) /\ Len(Loaded) = 1 /\ Loaded[1].data = Genesis
      /\ GoodChain(Loaded)
      /\ removed = {} => NoRemovals(Loaded)
  BY <1>1, GenesisLinked, LoadedGood
<1>3. ~Unreadable(Loaded)
  <2>1. PeerIndices(Loaded) = {}
    BY <1>2 DEF PeerIndices, IsPeerBlock, Genesis
  <2> QED
    BY <1>2, <2>1, Latest DEF Unreadable
<1>4. /\ GoodChain(c)
      /\ NoRemovals(Loaded) => NoRemovals(c)
      /\ GetPeersInRoom(c) = Append(GetPeersInRoom(Loaded), Self)
  BY <1>2, <1>3, AddList, RegistryAssumption
<1>5. Self \notin AdminsOf(c)
  <2>1. PICK l : c = AddBlock(Loaded, PeerAdded(l))
    BY DEF WithPeer
  <2> HIDE DEF c
  <2>2. /\ Len(c) = 2 /\ c[1].data = Genesis /\ c[2].data = PeerAdded(l)
    <3> DEFINE d == AddBlock(Loaded, PeerAdded(l))
    <3>1. /\ Len(d) = Len(Loaded) + 1
          /\ \A i \in 1..Len(Loaded) : d[i] = Loaded[i]
          /\ d[Len(Loaded) + 1].data = PeerAdded(l)
      BY <1>2, AddedBlock
    <3> HIDE DEF d
    <3>2. Len(d) = 2 /\ d[1].data = Genesis /\ d[2].data = PeerAdded(l)
      BY <1>2, <3>1
    <3> QED
      BY <2>1, <3>2 DEF d
  <2> QED
    BY <2>2 DEF AdminsOf, Genesis, PeerAdded, AdminAdd
<1> HIDE DEF c
<1>6. /\ GoodChain(chain')
      /\ NoRemovals(c) => NoRemovals(chain')
      /\ GetPeersInRoom(chain') = GetPeersInRoom(c)
  <2>1. /\ Follows(c, AdminAdd(Self))
        /\ AdminAdd(Self).kind \notin {"PEER_ADDED", "PEER_REMOVED"}
    BY <1>5 DEF Follows, Kinds, AdminAdd, AdminRemove
  <2> QED
    BY <1>1, <1>4, <2>1, AddOther
<1>7. chain' # << >> /\ Loaded' = chain'
  BY <1>6, NextLoaded
<1>8. administrators' \subseteq Keys
  BY <1>1 DEF AdminsOf
<1>9. TypeOK'
  BY <1>1, <1>6, <1>8, KindsOf, RegistryAssumption DEF Inv, TypeOK, Kinds
<1>10. removed' = {} => History'
  BY <1>1, <1>2, <1>4, <1>6, <1>7 DEF Inv, History
<1> QED
  BY <1>6, <1>7, <1>9, <1>10 DEF Inv

LEMMA StartGossipInv ==
  ASSUME Inv, StartGossip PROVE Inv'
<1>1. CASE Unreadable(Loaded)
  BY <1>1, PanicInv DEF StartGossip
<1>2. CASE ~Unreadable(Loaded)
  <2> DEFINE peers == GetPeersInRoom(Loaded)
  <2>1. /\ threshold' = ThresholdFor(peers)
        /\ UNCHANGED <<administrators, down, removed>>
        /\ \/ chain' = Loaded /\ joined' = joined
           \/ chain' = WithPeer(Loaded, Self) /\ joined' = Append(joined, Self)
    BY <1>2 DEF StartGossip
  <2>2. /\ GoodChain(Loaded)
        /\ removed = {} => NoRemovals(Loaded)
    BY LoadedGood
  <2>3. peers \in Seq(Keys)
    BY <1>2, <2>2, PeersAreKeys
  <2> HIDE DEF peers
  <2>4. /\ threshold' \in Nat \ {0, 1}
        /\ Len(peers) \in Nat
        /\ threshold' > 2 => 100 * threshold' <= 66 * Len(peers)
    BY <2>1, <2>3 DEF ThresholdFor
  <2>5. joined \in Seq(Keys) /\ Len(joined) \in Nat
    BY DEF Inv, TypeOK
  <2>6. /\ GoodChain(chain') /\ joined' \in Seq(Keys)
        /\ NoRemovals(Loaded) => NoRemovals(chain')
        /\ peers = joined => GetPeersInRoom(chain') = joined'
        /\ Len(joined) <= Len(joined') /\ Len(joined') \in Nat
    <3>1. CASE chain' = Loaded /\ joined' = joined
      BY <2>2, <2>5, <3>1 DEF peers
    <3>2. CASE chain' = WithPeer(Loaded, Self) /\ joined' = Append(joined, Self)
      <4>1. /\ GoodChain(chain')
            /\ NoRemovals(Loaded) => NoRemovals(chain')
            /\ GetPeersInRoom(chain') = Append(peers, Self)
        BY <1>2, <2>2, <3>2, AddList, RegistryAssumption DEF peers
      <4>2. joined' \in Seq(Keys) /\ Len(joined') = Len(joined) + 1
        BY <2>5, <3>2, RegistryAssumption
      <4> QED
        BY <2>5, <3>2, <4>1, <4>2
    <3> QED
      BY <2>1, <3>1, <3>2
  <2>7. chain' # << >> /\ Loaded' = chain'
    BY <2>6, NextLoaded
  <2>8. TypeOK'
    BY <2>1, <2>4, <2>6, KindsOf DEF Inv, TypeOK, Kinds
  <2>9. removed' = {} => History'
    <3> SUFFICES ASSUME removed' = {} PROVE History'
      OBVIOUS
    <3>1. peers = joined
      BY <2>1 DEF Inv, History, peers
    <3>2. NoRemovals(chain') /\ GetPeersInRoom(Loaded') = joined'
      BY <2>1, <2>2, <2>6, <2>7, <3>1
    <3>3. threshold' > 2 => 100 * threshold' <= 66 * Len(joined')
      BY <2>4, <2>5, <2>6, <3>1
    <3> QED
      BY <3>2, <3>3 DEF History
  <2> QED
    BY <2>6, <2>7, <2>8, <2>9 DEF Inv
<1> QED
  BY <1>1, <1>2

(* A chat is added, or the chats are cleared.                              *)
LEMMA ChatsInv ==
  ASSUME Inv, Clear \/ \E m \in Messages : SaveChat(m) PROVE Inv'
<1>1. /\ GoodChain(chain) /\ Loaded = chain
      /\ \/ chain' = Preserved(chain)
         \/ \E m \in Messages : chain' = AddBlock(chain, Chat(m))
      /\ UNCHANGED <<administrators, threshold, down, joined, removed>>
  BY LoadedGood DEF Clear, SaveChat, Inv
<1>2. /\ GoodChain(chain')
      /\ NoRemovals(chain) => /\ NoRemovals(chain')
                              /\ GetPeersInRoom(chain') = GetPeersInRoom(chain)
  <2>1. CASE chain' = Preserved(chain)
    BY <1>1, <2>1, PeersKept
  <2>2. ASSUME NEW m \in Messages, chain' = AddBlock(chain, Chat(m))
        PROVE  /\ GoodChain(chain')
               /\ NoRemovals(chain) => NoRemovals(chain')
               /\ GetPeersInRoom(chain') = GetPeersInRoom(chain)
    <3>1. /\ Follows(chain, Chat(m))
          /\ Chat(m).kind \notin {"PEER_ADDED", "PEER_REMOVED"}
      BY DEF Follows, Kinds, Chat, AdminAdd, AdminRemove
    <3> QED
      BY <1>1, <2>2, <3>1, AddOther
  <2> QED
    BY <1>1, <2>1, <2>2
<1>3. chain' # << >> /\ Loaded' = chain'
  BY <1>2, NextLoaded
<1>4. TypeOK'
  BY <1>1, <1>2, KindsOf DEF Inv, TypeOK, Kinds
<1>5. removed' = {} => History'
  BY <1>1, <1>2, <1>3 DEF Inv, History
<1> QED
  BY <1>2, <1>3, <1>4, <1>5 DEF Inv

LEMMA RestartInv ==
  ASSUME Inv, Restart \/ UNCHANGED vars PROVE Inv'
<1>1. /\ administrators' \subseteq Keys /\ threshold' \in {0, threshold}
      /\ down' \in BOOLEAN /\ UNCHANGED <<chain, joined, removed>>
  BY DEF Restart, vars, Inv, TypeOK
<1>2. TypeOK'
  BY <1>1 DEF Inv, TypeOK
<1>3. Loaded' = Loaded
  BY <1>1 DEF Loaded
<1>4. removed' = {} => History'
  BY <1>1, <1>3 DEF Inv, History
<1> QED
  BY <1>1, <1>2, <1>4 DEF Inv

(* The invariant holds in every state of the registry.                     *)
THEOREM Invariance == Spec => []Inv
<1>1. Inv /\ [Next]_vars => Inv'
  BY AddPeerInv, RemovePeerInv, AdminInv, CreateRoomInv, StartGossipInv,
     ChatsInv, RestartInv DEF Next
<1> QED
  BY <1>1, InitInv, PTL DEF Spec
--------------------------------------------------------------------------------
(* Every block is of a kind the code writes, and the threshold of a        *)
(* started network is at least two.                                        *)
THEOREM TypeCorrect == Spec => []TypeOK
BY Invariance, PTL DEF Inv

(* The peer list on the chain is everyone AddPeer was called for, through  *)
(* chats, changes of the administrators, clears and restarts.              *)
THEOREM PeerListIsHistory == Spec => []PeersAreHistory
<1>1. Inv => PeersAreHistory
  BY DEF Inv, History, PeersAreHistory
<1> QED
  BY <1>1, Invariance, PTL

(* Blocks added after a clear or a restart link to what was kept.          *)
THEOREM ChainStaysLinked == Spec => []ChainLinked
<1>1. Inv => ChainLinked
  BY DEF Inv, GoodChain, ChainLinked
<1> QED
  BY <1>1, Invariance, PTL

(* The administrator blocks of a key alternate, an ADMIN_ADD first.        *)
THEOREM AdministratorsAlternate == Spec => []AdminBlocksAlternate
<1>1. ASSUME Inv PROVE AdminBlocksAlternate
  <2>1. CASE chain = << >>
    BY <2>1 DEF AdminBlocksAlternate
  <2>2. CASE GoodChain(chain)
    BY <2>2 DEF GoodChain, Alternate, AdminBlocksAlternate, Prefix
  <2> QED
    BY <1>1, <2>1, <2>2 DEF Inv
<1> QED
  BY <1>1, Invariance, PTL

LEMMA TwoThirds ==
  ASSUME NEW t \in Nat, NEW n \in Nat, n >= 2, t > 2 => 100 * t <= 66 * n
  PROVE  t <= n
OBVIOUS

(* The threshold of a started network is no more than the peers there are. *)
THEOREM ThresholdCanBeReached == Spec => []ThresholdReachable
<1>1. ASSUME Inv, removed = {}, Len(GetPeersInRoom(Loaded)) >= 2
      PROVE  threshold <= Len(GetPeersInRoom(Loaded))
  <2>1. /\ GetPeersInRoom(Loaded) = joined
        /\ threshold > 2 => 100 * threshold <= 66 * Len(joined)
        /\ Len(joined) >= 2
    BY <1>1 DEF Inv, History
  <2>2. threshold \in Nat /\ Len(joined) \in Nat
    BY <1>1 DEF Inv, TypeOK
  <2>3. threshold <= Len(joined)
    BY <2>1, <2>2, TwoThirds
  <2> QED
    BY <2>1, <2>3
<1>2. Inv => ThresholdReachable
  BY <1>1 DEF ThresholdReachable
<1> QED
  BY <1>2, Invariance, PTL
================================================================================
