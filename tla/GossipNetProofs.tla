---------------------------- MODULE GossipNetProofs ----------------------------
(***************************************************************************)
(* Proofs about GossipNet for any number of nodes, any peer lists, fanouts *)
(* and times to live, any messages and any nodes that attack, stay silent  *)
(* or save without acknowledgements.                                       *)
(***************************************************************************)
EXTENDS GossipNet, Induction, FiniteSetTheorems

--------------------------------------------------------------------------------
(* Within, hop by hop.                                                     *)

Beyond(S, relays) == S \cup UNION {Neighbours[x] : x \in S \cap relays}

IsHops(f, p, relays, h) ==
  f = [i \in 0..h |-> IF i = 0 THEN {p} ELSE Beyond(f[i - 1], relays)]

LEMMA HopsExist ==
  ASSUME NEW p, NEW relays, NEW h \in Nat
  PROVE  \E f : IsHops(f, p, relays, h)
<1> DEFINE S == {k \in Nat : \E f : IsHops(f, p, relays, k)}
<1>1. 0 \in S
  <2>1. IsHops([i \in 0..0 |-> {p}], p, relays, 0)
    BY DEF IsHops
  <2> QED
    BY <2>1
<1>2. ASSUME NEW k \in Nat, k \in S PROVE k + 1 \in S
  <2>1. PICK f : IsHops(f, p, relays, k)
    BY <1>2
  <2> DEFINE g == [i \in 0..(k + 1) |-> IF i = k + 1 THEN Beyond(f[k], relays)
                                        ELSE f[i]]
  <2>2. ASSUME NEW i \in 0..(k + 1)
        PROVE  g[i] = IF i = 0 THEN {p} ELSE Beyond(g[i - 1], relays)
    <3>1. CASE i = k + 1
      BY <3>1
    <3>2. CASE i \in 0..k
      <4>1. f[i] = IF i = 0 THEN {p} ELSE Beyond(f[i - 1], relays)
        BY <2>1, <3>2 DEF IsHops
      <4>2. i # 0 => g[i - 1] = f[i - 1]
        BY <3>2
      <4> QED
        BY <3>2, <4>1, <4>2
    <3> QED
      BY <3>1, <3>2
  <2>3. IsHops(g, p, relays, k + 1)
    BY <2>2 DEF IsHops
  <2> QED
    BY <2>3
<1>3. Nat \subseteq S
  <2> HIDE DEF S
  <2> QED
    BY <1>1, <1>2, InductionOnSet
<1> QED
  BY <1>3

LEMMA HopsUnique ==
  ASSUME NEW p, NEW relays, NEW h \in Nat, NEW k \in Nat,
         NEW f, IsHops(f, p, relays, h), NEW g, IsHops(g, p, relays, k)
  PROVE  \A i \in Nat : i <= h /\ i <= k => f[i] = g[i]
<1> DEFINE S == {i \in Nat : i <= h /\ i <= k => f[i] = g[i]}
<1>1. 0 \in S
  BY DEF IsHops
<1>2. ASSUME NEW i \in Nat, i \in S PROVE i + 1 \in S
  <2>1. SUFFICES ASSUME i + 1 <= h, i + 1 <= k PROVE f[i + 1] = g[i + 1]
    OBVIOUS
  <2>2. f[i] = g[i] /\ i + 1 \in 0..h /\ i + 1 \in 0..k
      /\ i + 1 # 0 /\ (i + 1) - 1 = i
    BY <1>2, <2>1
  <2>3. f[i + 1] = Beyond(f[i], relays)
    BY <2>2 DEF IsHops
  <2>4. g[i + 1] = Beyond(g[i], relays)
    BY <2>2 DEF IsHops
  <2> QED
    BY <2>2, <2>3, <2>4
<1>3. Nat \subseteq S
  <2> HIDE DEF S
  <2> QED
    BY <1>1, <1>2, InductionOnSet
<1> QED
  BY <1>3

LEMMA WithinHops ==
  ASSUME NEW p, NEW relays, NEW h \in Nat
  PROVE  \E f : IsHops(f, p, relays, h) /\ Within(p, relays, h) = f[h]
<1> DEFINE f == CHOOSE f : IsHops(f, p, relays, h)
<1>1. IsHops(f, p, relays, h)
  BY HopsExist
<1>2. Within(p, relays, h) = f[h]
  BY DEF Within, IsHops, Beyond
<1> QED
  BY <1>1, <1>2

(* What Within means: no hop leads to p alone, and one hop more to the     *)
(* neighbours of the relays that were reached.                             *)
LEMMA WithinStep ==
  ASSUME NEW p, NEW relays
  PROVE  /\ Within(p, relays, 0) = {p}
         /\ \A h \in Nat : Within(p, relays, h + 1)
                             = Beyond(Within(p, relays, h), relays)
<1>1. Within(p, relays, 0) = {p}
  <2>1. PICK f : IsHops(f, p, relays, 0) /\ Within(p, relays, 0) = f[0]
    BY WithinHops
  <2> QED
    BY <2>1 DEF IsHops
<1>2. ASSUME NEW h \in Nat
      PROVE  Within(p, relays, h + 1) = Beyond(Within(p, relays, h), relays)
  <2>1. PICK f : IsHops(f, p, relays, h) /\ Within(p, relays, h) = f[h]
    BY WithinHops
  <2>2. PICK g : IsHops(g, p, relays, h + 1) /\ Within(p, relays, h + 1) = g[h + 1]
    BY WithinHops
  <2>3. g[h] = f[h]
    BY <2>1, <2>2, HopsUnique
  <2>4. h + 1 \in 0..(h + 1) /\ h + 1 # 0 /\ (h + 1) - 1 = h
    OBVIOUS
  <2>5. g[h + 1] = Beyond(g[h], relays)
    BY <2>2, <2>4 DEF IsHops
  <2> QED
    BY <2>1, <2>2, <2>3, <2>5
<1> QED
  BY <1>1, <1>2

LEMMA WithinGrows ==
  ASSUME NEW p, NEW relays, NEW h \in Nat, NEW k \in Nat, h <= k
  PROVE  Within(p, relays, h) \subseteq Within(p, relays, k)
<1> DEFINE S == {d \in Nat :
                   Within(p, relays, h) \subseteq Within(p, relays, h + d)}
<1>1. 0 \in S
  OBVIOUS
<1>2. ASSUME NEW d \in Nat, d \in S PROVE d + 1 \in S
  <2>a. h + d \in Nat
    OBVIOUS
  <2>1. Within(p, relays, (h + d) + 1)
          = Beyond(Within(p, relays, h + d), relays)
    BY <2>a, WithinStep
  <2>2. (h + d) + 1 = h + (d + 1)
    OBVIOUS
  <2>3. Within(p, relays, h + d) \subseteq Within(p, relays, h + (d + 1))
    BY <2>1, <2>2 DEF Beyond
  <2> QED
    BY <1>2, <2>3
<1>3. Nat \subseteq S
  <2> HIDE DEF S
  <2> QED
    BY <1>1, <1>2, InductionOnSet
<1>4. k - h \in S /\ h + (k - h) = k
  BY <1>3
<1> QED
  BY <1>4
--------------------------------------------------------------------------------
(* The net at large: i are the copies under way, s the IDs marked as seen  *)
(* and h what each node is yet to forward, with its time to live.  To take *)
(* a message is to mark it, and then to forward it; for a chat, whose      *)
(* acknowledgement goes first, with other steps in between.                *)

Pending == [n \in Nodes |-> {<<Chat(e[1]), e[2]>> : e \in handling[n]}]

(* The relays of id that have seen it.                                     *)
Passed(s, id) == {x \in Relays(GossipedBy(id)) : id \in s[x]}

NetType(i, s, h) == /\ i \in [Nodes -> SUBSET Copies]
                    /\ s \in [Nodes -> SUBSET GossipIDs]
                    /\ h \in [Nodes -> SUBSET (GossipIDs \X (0..TTL))]

(* What is anywhere was gossiped by its author.                            *)
Source(i, s) == \A n \in Nodes :
                  /\ \A id \in s[n] : id \in s[GossipedBy(id)]
                  /\ \A c \in i[n] : c.id \in s[GossipedBy(c.id)]

(* What is forwarded was seen, and its author is known.                    *)
Known(s, h) == \A n \in Nodes : \A e \in h[n] :
                 e[1] \in s[n] /\ Authenticates(n, GossipedBy(e[1]))

(* A message that has t hops left has made at most TTL - t.                *)
Near(n, id, hops) ==
  n \in Within(GossipedBy(id), Relays(GossipedBy(id)), hops)

HopsMade(i, s, h) == \A n \in Nodes :
                       /\ \A id \in s[n] : Near(n, id, TTL)
                       /\ \A c \in i[n] : Near(n, c.id, TTL - c.ttl)
                       /\ \A e \in h[n] : Near(n, e[1], TTL - e[2])

(* For each hop a message has made, a relay has seen it, and another.      *)
HopsCounted(i, s, h) ==
  \A n \in Nodes :
    /\ \A c \in i[n] : Cardinality(Passed(s, c.id)) >= TTL - c.ttl
    /\ \A e \in h[n] : n \in Relays(GossipedBy(e[1])) =>
                         Cardinality(Passed(s, e[1])) >= TTL - e[2] + 1

LongLived(p) == TTL >= Cardinality(Relays(p))

(* What a sure relay has seen, it is yet to forward, or every neighbour    *)
(* has seen it or is about to.                                             *)
PassedOn(n, id, i, s, h) ==
  \/ \E e \in h[n] : e[1] = id
  \/ \A x \in Neighbours[n] : id \in s[x] \/ \E c \in i[x] : c.id = id

Spread(i, s, h) ==
  \A n \in Nodes : \A id \in s[n] :
    n \in SureRelays(GossipedBy(id)) /\ LongLived(GossipedBy(id))
      => PassedOn(n, id, i, s, h)

NetInv(i, s, h) == /\ NetType(i, s, h)
                   /\ Source(i, s)
                   /\ Known(s, h)
                   /\ HopsMade(i, s, h)
                   /\ HopsCounted(i, s, h)
                   /\ Spread(i, s, h)

LEMMA RelaysKnow ==
  ASSUME NEW p \in Nodes
  PROVE  /\ Relays(p) = {n \in Nodes \ Attackers : Authenticates(n, p)}
         /\ IsFiniteSet(Relays(p))
         /\ Cardinality(Relays(p)) \in Nat
         /\ Authenticates(p, p)
<1>1. Relays(p) = {n \in Nodes \ Attackers : Authenticates(n, p)}
  BY NetAssumption DEF Relays, Authenticates, gossipPeers
<1>2. IsFiniteSet(Relays(p))
  BY <1>1, NetAssumption, FS_Subset
<1> QED
  BY <1>1, <1>2, NetAssumption, FS_CardinalityType
     DEF Authenticates, gossipPeers

LEMMA GossipedByType ==
  ASSUME NEW id \in GossipIDs
  PROVE  GossipedBy(id) \in Nodes
BY NetAssumption DEF GossipIDs, GossipedBy, Chat, Clear, Ack

(* Counting the relays that have seen id.                                  *)
LEMMA PassedCount ==
  ASSUME NEW id \in GossipIDs, NEW s, NEW t,
         \A x \in Nodes : s[x] \subseteq t[x]
  PROVE  /\ IsFiniteSet(Passed(s, id)) /\ Cardinality(Passed(s, id)) \in Nat
         /\ Cardinality(Passed(s, id)) <= Cardinality(Relays(GossipedBy(id)))
         /\ Cardinality(Passed(t, id)) \in Nat
         /\ Cardinality(Passed(s, id)) <= Cardinality(Passed(t, id))
         /\ \A n \in Relays(GossipedBy(id)) :
              id \notin s[n] /\ id \in t[n] =>
                Cardinality(Passed(t, id)) >= Cardinality(Passed(s, id)) + 1
<1> DEFINE R == Relays(GossipedBy(id))
<1>1. R \subseteq Nodes /\ IsFiniteSet(R)
  BY GossipedByType, RelaysKnow DEF Relays
<1>2. /\ Passed(s, id) \in SUBSET R
      /\ Passed(t, id) \in SUBSET R
      /\ Passed(s, id) \in SUBSET Passed(t, id)
  BY <1>1 DEF Passed
<1>3. IsFiniteSet(Passed(s, id)) /\ IsFiniteSet(Passed(t, id))
  BY <1>1, <1>2, FS_Subset
<1>4. /\ Cardinality(Passed(s, id)) \in Nat
      /\ Cardinality(Passed(t, id)) \in Nat
  BY <1>3, FS_CardinalityType
<1>5. /\ Cardinality(Passed(s, id)) <= Cardinality(R)
      /\ Cardinality(Passed(s, id)) <= Cardinality(Passed(t, id))
  BY <1>1, <1>2, <1>3, FS_Subset
<1>6. ASSUME NEW n \in R, id \notin s[n], id \in t[n]
      PROVE  Cardinality(Passed(t, id)) >= Cardinality(Passed(s, id)) + 1
  <2>1. n \in Passed(t, id) /\ n \notin Passed(s, id)
    BY <1>6 DEF Passed
  <2>2. Cardinality(Passed(s, id)) # Cardinality(Passed(t, id))
    BY <1>2, <1>3, <2>1, FS_Subset
  <2> QED
    BY <1>4, <1>5, <2>2
<1> QED
  BY <1>3, <1>4, <1>5, <1>6

(* The times to live that id may come to n with.                           *)
Incoming(i, n, id) == {c.ttl : c \in {x \in i[n] : x.id = id}}
                        \cup (IF n = GossipedBy(id) THEN {TTL} ELSE {})

(* To take id with t hops left, and to have it to forward if n may.        *)
Taken(i, n, id) == [i EXCEPT ![n] = {c \in @ : c.id # id}]

Seen(s, n, id) == [s EXCEPT ![n] = @ \cup {id}]

ToForward(h, n, id, t) ==
  [h EXCEPT ![n] = @ \cup (IF Authenticates(n, GossipedBy(id)) THEN {<<id, t>>}
                           ELSE {})]

LEMMA MarkNet ==
  ASSUME NEW i, NEW s, NEW h, NetInv(i, s, h),
         NEW n \in Nodes, NEW id \in GossipIDs, id \notin s[n],
         NEW t \in Incoming(i, n, id)
  PROVE  NetInv(Taken(i, n, id), Seen(s, n, id), ToForward(h, n, id, t))
<1> DEFINE i1 == Taken(i, n, id)
           s1 == Seen(s, n, id)
           h1 == ToForward(h, n, id, t)
           p  == GossipedBy(id)
<1> USE DEF NetInv
<1>1. t \in 0..TTL /\ p \in Nodes
  BY NetAssumption, GossipedByType DEF Incoming, NetType, Copies
<1>2. /\ \A x \in Nodes : i1[x] = IF x = n THEN {c \in i[n] : c.id # id} ELSE i[x]
      /\ \A x \in Nodes : s1[x] = IF x = n THEN s[n] \cup {id} ELSE s[x]
      /\ \A x \in Nodes : h1[x] = IF x = n /\ Authenticates(n, p)
                                 THEN h[n] \cup {<<id, t>>} ELSE h[x]
  BY DEF NetType, Taken, Seen, ToForward
<1>3. NetType(i1, s1, h1)
  BY <1>1 DEF NetType, Taken, Seen, ToForward
<1> HIDE DEF i1, s1, h1
<1>4. Source(i1, s1)
  <2>1. id \in s1[p]
    BY <1>1, <1>2 DEF Source, Incoming
  <2> QED
    <3>1. \A x \in Nodes : \A d \in s1[x] : d \in s1[GossipedBy(d)]
      BY <1>1, <1>2, <2>1, GossipedByType DEF Source, NetType
    <3>2. ASSUME NEW x \in Nodes, NEW c \in i1[x]
          PROVE  c.id \in s1[GossipedBy(c.id)]
      <4>1. c \in i[x] /\ c \in Copies
        BY <1>2 DEF NetType
      <4>2. c.id \in s[GossipedBy(c.id)] /\ GossipedBy(c.id) \in Nodes
        BY <4>1, GossipedByType DEF Source, Copies
      <4> QED
        BY <1>2, <4>2
    <3> QED
      BY <3>1, <3>2 DEF Source
<1>5. Known(s1, h1)
  BY <1>2 DEF Known
<1>6. /\ Near(n, id, TTL - t)
      /\ Near(n, id, TTL)
  <2>1. Near(n, id, TTL - t)
    <3>1. CASE n = p /\ t = TTL
      BY <3>1, WithinStep, NetAssumption DEF Near
    <3>2. CASE \E c \in i[n] : c.id = id /\ c.ttl = t
      BY <3>2 DEF HopsMade
    <3> QED
      BY <3>1, <3>2 DEF Incoming
  <2>2. TTL - t \in Nat /\ TTL \in Nat /\ TTL - t <= TTL
    BY <1>1, NetAssumption
  <2> QED
    BY <2>1, <2>2, WithinGrows DEF Near
<1>7. HopsMade(i1, s1, h1)
  <2>1. \A x \in Nodes : \A d \in s1[x] : Near(x, d, TTL)
    BY <1>2, <1>6 DEF HopsMade
  <2>2. \A x \in Nodes : \A c \in i1[x] : Near(x, c.id, TTL - c.ttl)
    BY <1>2 DEF HopsMade
  <2>3. \A x \in Nodes : \A e \in h1[x] : Near(x, e[1], TTL - e[2])
    BY <1>2, <1>6 DEF HopsMade
  <2> QED
    BY <2>1, <2>2, <2>3 DEF HopsMade
<1>8. HopsCounted(i1, s1, h1)
  <2>1. ASSUME NEW x \in GossipIDs
        PROVE  /\ Cardinality(Passed(s, x)) \in Nat
               /\ Cardinality(Passed(s1, x)) \in Nat
               /\ Cardinality(Passed(s, x)) <= Cardinality(Passed(s1, x))
    <3>1. \A y \in Nodes : s[y] \subseteq s1[y]
      BY <1>2
    <3> QED
      BY <3>1, PassedCount
  <2>2. ASSUME NEW x \in Nodes, NEW c \in i1[x]
        PROVE  Cardinality(Passed(s1, c.id)) >= TTL - c.ttl
    <3>1. c \in i[x] /\ c \in Copies
      BY <1>2 DEF NetType
    <3>2. Cardinality(Passed(s, c.id)) >= TTL - c.ttl
      BY <3>1 DEF HopsCounted
    <3>3. c.id \in GossipIDs /\ TTL - c.ttl \in Int
      BY <3>1, NetAssumption DEF Copies
    <3> QED
      BY <2>1, <3>2, <3>3
  <2>3. ASSUME NEW x \in Nodes, NEW e \in h1[x], x \in Relays(GossipedBy(e[1]))
        PROVE  Cardinality(Passed(s1, e[1])) >= TTL - e[2] + 1
    <3>1. CASE e \in h[x]
      <4>1. e[1] \in GossipIDs /\ e[2] \in 0..TTL
        BY <3>1 DEF NetType
      <4>2. Cardinality(Passed(s, e[1])) >= TTL - e[2] + 1
        BY <2>3, <3>1 DEF HopsCounted
      <4> QED
        BY <2>1, <4>1, <4>2, NetAssumption
    <3>2. CASE x = n /\ e = <<id, t>>
      <4>1. Cardinality(Passed(s, id)) >= TTL - t
        <5>1. CASE t = TTL
          BY <5>1, <2>1, NetAssumption
        <5>2. CASE \E c \in i[n] : c.id = id /\ c.ttl = t
          BY <5>2 DEF HopsCounted
        <5> QED
          BY <5>1, <5>2 DEF Incoming
      <4>2. Cardinality(Passed(s1, id)) >= Cardinality(Passed(s, id)) + 1
        <5>1. \A y \in Nodes : s[y] \subseteq s1[y]
          BY <1>2
        <5>2. n \in Relays(GossipedBy(id)) /\ id \notin s[n] /\ id \in s1[n]
          BY <1>2, <2>3, <3>2
        <5> QED
          BY <5>1, <5>2, PassedCount
      <4> QED
        BY <1>1, <2>1, <3>2, <4>1, <4>2, NetAssumption
    <3> QED
      BY <1>2, <2>3, <3>1, <3>2
  <2> QED
    BY <2>2, <2>3 DEF HopsCounted
<1>9. Spread(i1, s1, h1)
  <2> SUFFICES ASSUME NEW x \in Nodes, NEW d \in s1[x],
                      x \in SureRelays(GossipedBy(d)), LongLived(GossipedBy(d))
               PROVE  PassedOn(x, d, i1, s1, h1)
    BY DEF Spread
  <2>1. CASE d \in s[x]
    <3>1. PassedOn(x, d, i, s, h)
      BY <2>1 DEF Spread
    <3>2. ASSUME NEW y \in Neighbours[x],
                 d \in s[y] \/ \E c \in i[y] : c.id = d
          PROVE  d \in s1[y] \/ \E c \in i1[y] : c.id = d
      <4>1. y \in Nodes
        BY NetAssumption
      <4> QED
        BY <1>2, <3>2, <4>1
    <3> QED
      BY <1>2, <3>1, <3>2 DEF PassedOn
  <2>2. CASE x = n /\ d = id
    <3>1. Authenticates(n, p)
      BY <1>1, <2>2, RelaysKnow DEF SureRelays
    <3>2. <<id, t>> \in h1[n] /\ <<id, t>>[1] = id
      BY <1>2, <3>1
    <3> QED
      BY <2>2, <3>2 DEF PassedOn
  <2> QED
    BY <1>2, <2>1, <2>2
<1> QED
  BY <1>3, <1>4, <1>5, <1>7, <1>8, <1>9 DEF i1, s1, h1

(* What forwarding adds to the copies under way.                           *)
LEMMA ForwardSteps ==
  ASSUME NEW i \in [Nodes -> SUBSET Copies], NEW n \in Nodes,
         NEW id \in GossipIDs, NEW t \in 0..TTL, NEW j \in Forward(i, n, id, t)
  PROVE  /\ j \in [Nodes -> SUBSET Copies]
         /\ \A x \in Nodes : i[x] \subseteq j[x]
         /\ \A x \in Nodes : \A c \in j[x] :
              \/ c \in i[x]
              \/ /\ t > 0 /\ c = Hop(id, t)
                 /\ x \in Neighbours[n] /\ n \notin Attackers
         /\ \A p : t > 0 /\ n \in SureRelays(p) =>
              \A x \in Neighbours[n] : id \in seen[x] \/ Hop(id, t) \in j[x]
<1>1. t > 0 => Hop(id, t) \in Copies
  BY NetAssumption DEF Hop, Copies
<1>2. CASE t = 0
  BY <1>2 DEF Forward, Spent
<1>3. CASE t > 0
  <2>1. PICK T \in Targets(n) :
          j = [x \in Nodes |-> IF x \in T /\ New(x, id)
                               THEN i[x] \cup {Hop(id, t)} ELSE i[x]]
    BY <1>3 DEF Forward, Spent
  <2>2. T \subseteq Neighbours[n] /\ (T # {} => n \notin Attackers)
    BY <2>1 DEF Targets, selectRandomPeers, gossipPeers
  <2>3. ASSUME NEW p, n \in SureRelays(p) PROVE T = Neighbours[n]
    <3>1. gossipPeers(n) \ {n} = Neighbours[n]
      BY NetAssumption DEF gossipPeers
    <3> QED
      BY <2>1, <2>3, <3>1
         DEF Targets, SureRelays, Relays, selectRandomPeers
  <2>4. j \in [Nodes -> SUBSET Copies]
    BY <1>1, <1>3, <2>1
  <2>5. \A x \in Nodes : j[x] = IF x \in T /\ New(x, id)
                                THEN i[x] \cup {Hop(id, t)} ELSE i[x]
    BY <2>1
  <2>6. \A p : n \in SureRelays(p) =>
          \A x \in Neighbours[n] : id \in seen[x] \/ Hop(id, t) \in j[x]
    BY <2>3, <2>5, NetAssumption DEF New
  <2> QED
    BY <1>3, <2>2, <2>4, <2>5, <2>6
<1> QED
  BY <1>2, <1>3

LEMMA ForwardNet ==
  ASSUME NEW i, NEW s, NEW h, NetInv(i, s, h),
         NEW n \in Nodes, NEW e \in h[n],
         NEW j \in [Nodes -> SUBSET Copies],
         \A x \in Nodes : i[x] \subseteq j[x],
         \A x \in Nodes : \A c \in j[x] :
           \/ c \in i[x]
           \/ /\ e[2] > 0 /\ c = Hop(e[1], e[2])
              /\ x \in Neighbours[n] /\ n \notin Attackers,
         n \in SureRelays(GossipedBy(e[1])) /\ e[2] > 0 =>
           \A x \in Neighbours[n] :
             e[1] \in s[x] \/ Hop(e[1], e[2]) \in j[x]
  PROVE  NetInv(j, s, [h EXCEPT ![n] = @ \ {e}])
<1> DEFINE h1 == [h EXCEPT ![n] = @ \ {e}]
           id == e[1]
           t  == e[2]
           p  == GossipedBy(id)
<1> USE DEF NetInv
<1>1. id \in GossipIDs /\ t \in 0..TTL /\ p \in Nodes
  BY GossipedByType DEF NetType
<1>2. \A x \in Nodes : h1[x] = IF x = n THEN h[n] \ {e} ELSE h[x]
  BY DEF NetType
<1>3. NetType(j, s, h1)
  BY DEF NetType
<1> HIDE DEF h1, id, t, p
<1>4. id \in s[n] /\ Authenticates(n, p)
  BY DEF Known, id, p
<1>5. ASSUME NEW x \in Nodes, NEW c \in j[x]
      PROVE  \/ c \in i[x] /\ c \in Copies
             \/ /\ c.id = id /\ c.ttl = t - 1 /\ t > 0
                /\ x \in Neighbours[n] /\ n \in Relays(p)
  BY <1>1, <1>4, RelaysKnow DEF NetType, Hop, id, t
<1>6. Source(j, s)
  BY <1>4, <1>5 DEF Source
<1>7. Known(s, h1)
  BY <1>2 DEF Known
<1>8. HopsMade(j, s, h1)
  <2>1. ASSUME NEW x \in Neighbours[n], n \in Relays(p), t > 0
        PROVE  Near(x, id, TTL - (t - 1))
    <3>1. n \in Within(p, Relays(p), TTL - t)
      BY DEF HopsMade, Near, id, t, p
    <3>2. TTL - t \in Nat /\ (TTL - t) + 1 = TTL - (t - 1)
      BY <1>1, NetAssumption
    <3>3. Within(p, Relays(p), (TTL - t) + 1)
            = Beyond(Within(p, Relays(p), TTL - t), Relays(p))
      BY <3>2, WithinStep
    <3>4. x \in Beyond(Within(p, Relays(p), TTL - t), Relays(p))
      BY <2>1, <3>1 DEF Beyond
    <3> QED
      BY <3>2, <3>3, <3>4 DEF Near, p
  <2>2. \A x \in Nodes : \A c \in j[x] : Near(x, c.id, TTL - c.ttl)
    BY <1>5, <2>1 DEF HopsMade
  <2> QED
    BY <1>2, <2>2 DEF HopsMade
<1>9. HopsCounted(j, s, h1)
  <2>1. ASSUME n \in Relays(p), t > 0
        PROVE  Cardinality(Passed(s, id)) >= TTL - (t - 1)
    <3>1. Cardinality(Passed(s, id)) >= TTL - t + 1
      BY <2>1 DEF HopsCounted, id, t, p
    <3> QED
      BY <1>1, <3>1, NetAssumption
  <2>2. \A x \in Nodes : \A c \in j[x] :
          Cardinality(Passed(s, c.id)) >= TTL - c.ttl
    BY <1>5, <2>1 DEF HopsCounted
  <2> QED
    BY <1>2, <2>2 DEF HopsCounted
<1>10. Spread(j, s, h1)
  <2> SUFFICES ASSUME NEW x \in Nodes, NEW d \in s[x],
                      x \in SureRelays(GossipedBy(d)), LongLived(GossipedBy(d))
               PROVE  PassedOn(x, d, j, s, h1)
    BY DEF Spread
  <2>1. CASE x = n /\ d = id
    <3>1. n \in Relays(p)
      BY <2>1 DEF SureRelays, p
    <3>2. Cardinality(Passed(s, id)) >= TTL - t + 1
      BY <3>1 DEF HopsCounted, id, t, p
    <3>3. Cardinality(Passed(s, id)) <= Cardinality(Relays(p))
      BY <1>1, PassedCount DEF p
    <3>4. t > 0
      BY <1>1, <2>1, <3>2, <3>3, NetAssumption, PassedCount, RelaysKnow
         DEF LongLived, p
    <3>5. \A y \in Neighbours[n] : id \in s[y] \/ Hop(id, t) \in j[y]
      BY <2>1, <3>4 DEF id, t, p
    <3>6. Hop(id, t).id = id
      BY DEF Hop
    <3> QED
      BY <2>1, <3>5, <3>6 DEF PassedOn
  <2>2. CASE ~(x = n /\ d = id)
    <3>1. PassedOn(x, d, i, s, h)
      BY DEF Spread
    <3>2. CASE \E f \in h[x] : f[1] = d
      BY <1>2, <2>2, <3>2 DEF PassedOn, id
    <3>3. CASE \A y \in Neighbours[x] : d \in s[y] \/ \E c \in i[y] : c.id = d
      BY <3>3, NetAssumption DEF PassedOn
    <3> QED
      BY <3>1, <3>2, <3>3 DEF PassedOn
  <2> QED
    BY <2>1, <2>2
<1> QED
  BY <1>3, <1>6, <1>7, <1>8, <1>9, <1>10 DEF h1
--------------------------------------------------------------------------------
(* The nodes: what they acknowledge, count and decide.                     *)

(* A node has sent its acknowledgement of the chats it processes.          *)
AckSent == \A p \in Nodes, m \in Msgs :
             Ack(m, p) \in seen[p] <=> p \in Acking /\ Processes(p, m)

(* What it has counted is what it has seen of its room.                    *)
AckCount == \A n \in Nodes, m \in Msgs :
              ackers[n][m] = {p \in Room[n] : Ack(m, p) \in seen[n]}

Handled(n, m) == \E e \in handling[n] : e[1] = m

(* A chat that a node takes is handled, then queued, then decided.         *)
Stages ==
  \A n \in Nodes, m \in Msgs :
    IF n \in Direct
    THEN status[n][m] = IF Processes(n, m) THEN "saved" ELSE "new"
    ELSE /\ Processes(n, m) <=> Handled(n, m) \/ status[n][m] # "new"
         /\ Handled(n, m) => status[n][m] = "new"
         /\ \A d, e \in handling[n] : d[1] = e[1] => d = e

LogOf(n) == /\ \A m \in Msgs : InLog(n, m) <=> status[n][m] = "saved"
            /\ \A i, j \in 1..Len(log[n]) : log[n][i] = log[n][j] => i = j

SavedByQuorum == \A n \in Nodes \ Direct, m \in Msgs :
                   status[n][m] = "saved" => Quorum(n, ackers[n][m])

NodeInv == /\ AckSent
           /\ AckCount
           /\ Stages
           /\ \A n \in Nodes : LogOf(n)
           /\ SavedByQuorum

Inv == TypeOK /\ NetInv(inbox, seen, Pending) /\ NodeInv

LEMMA IDs ==
  /\ \A m \in Msgs : Chat(m) \in GossipIDs /\ GossipedBy(Chat(m)) = Author[m]
  /\ \A c \in Clears : Clear(c) \in GossipIDs /\ GossipedBy(Clear(c)) = Author[c]
  /\ \A m \in Msgs, p \in Nodes :
       Ack(m, p) \in GossipIDs /\ GossipedBy(Ack(m, p)) = p
  /\ \A m, l : Chat(m) = Chat(l) => m = l
  /\ \A m, l, p, q : Ack(m, p) = Ack(l, q) => m = l /\ p = q
  /\ \A m, l, p : Chat(m) # Ack(l, p) /\ Chat(m) # Clear(l) /\ Clear(m) # Ack(l, p)
<1>1. /\ \A m : Chat(m).type = "chat" /\ Chat(m).msg = m
      /\ \A c : Clear(c).type = "clear_blockchain" /\ Clear(c).msg = c
      /\ \A m, p : /\ Ack(m, p).type = "ack"
                   /\ Ack(m, p).msg = m /\ Ack(m, p).from = p
  BY DEF Chat, Clear, Ack
<1>2. /\ \A m \in Msgs : Chat(m) \in GossipIDs
      /\ \A c \in Clears : Clear(c) \in GossipIDs
      /\ \A m \in Msgs, p \in Nodes : Ack(m, p) \in GossipIDs
  BY DEF GossipIDs
<1>3. /\ \A m : GossipedBy(Chat(m)) = Author[m]
      /\ \A c : GossipedBy(Clear(c)) = Author[c]
      /\ \A m, p : GossipedBy(Ack(m, p)) = p
  BY <1>1 DEF GossipedBy
<1>4. /\ \A m, l : Chat(m) = Chat(l) => m = l
      /\ \A m, l, p, q : Ack(m, p) = Ack(l, q) => m = l /\ p = q
  BY <1>1
<1>5. \A m, l, p : /\ Chat(m) # Ack(l, p)
                   /\ Chat(m) # Clear(l)
                   /\ Clear(m) # Ack(l, p)
  <2> SUFFICES ASSUME NEW m, NEW l, NEW p
               PROVE  /\ Chat(m) # Ack(l, p)
                      /\ Chat(m) # Clear(l)
                      /\ Clear(m) # Ack(l, p)
    OBVIOUS
  <2> QED
    BY <1>1
<1> QED
  BY <1>2, <1>3, <1>4, <1>5

LEMMA InitInv == Init => Inv
<1> SUFFICES ASSUME Init PROVE Inv
  OBVIOUS
<1> USE DEF Init
<1>1. TypeOK
  BY DEF TypeOK
<1>2. \A n \in Nodes : Pending[n] = {}
  BY DEF Pending
<1>3. Pending \in [Nodes -> SUBSET (GossipIDs \X (0..TTL))]
  BY <1>2 DEF Pending
<1>4. NetInv(inbox, seen, Pending)
  BY <1>2, <1>3
     DEF NetInv, NetType, Source, Known, HopsMade, HopsCounted, Spread
<1>5. AckSent /\ AckCount
  BY DEF AckSent, AckCount, Processes
<1>6. Stages
  BY DEF Stages, Processes, Handled
<1>7. \A n \in Nodes : LogOf(n)
  BY DEF LogOf, InLog
<1>8. SavedByQuorum
  BY DEF SavedByQuorum
<1> QED
  BY <1>1, <1>4, <1>5, <1>6, <1>7, <1>8 DEF Inv, NodeInv

(* A chat that is saved was not yet, and the log of no other node changes. *)
LEMMA SaveLog ==
  ASSUME TypeOK, \A x \in Nodes : LogOf(x),
         NEW n \in Nodes, NEW m \in Msgs, status[n][m] # "saved", Save(n, m)
  PROVE  /\ status' \in [Nodes -> [Msgs -> {"new", "waiting", "saved", "dropped"}]]
         /\ log' \in [Nodes -> Seq(Msgs)]
         /\ \A x \in Nodes : Len(log[x]) \in Nat /\ Len(log[x]) <= Len(log'[x])
         /\ \A x \in Nodes, l \in Msgs :
              status'[x][l] = IF x = n /\ l = m THEN "saved" ELSE status[x][l]
         /\ \A x \in Nodes : LogOf(x)'
<1>1. /\ status' \in [Nodes -> [Msgs -> {"new", "waiting", "saved", "dropped"}]]
      /\ \A x \in Nodes, l \in Msgs :
           status'[x][l] = IF x = n /\ l = m THEN "saved" ELSE status[x][l]
  BY DEF TypeOK, Save
<1>2. /\ log' \in [Nodes -> Seq(Msgs)]
      /\ log[n] \in Seq(Msgs)
      /\ \A x \in Nodes : log'[x] = IF x = n THEN Append(log[n], m) ELSE log[x]
  BY DEF TypeOK, Save
<1>3. \A x \in Nodes : Len(log[x]) \in Nat /\ Len(log[x]) <= Len(log'[x])
  BY <1>2 DEF TypeOK
<1>4. ASSUME NEW x \in Nodes PROVE LogOf(x)'
  <2>1. CASE x # n
    <3>1. log'[x] = log[x] /\ \A l \in Msgs : status'[x][l] = status[x][l]
      BY <1>1, <1>2, <2>1
    <3> QED
      BY <3>1 DEF LogOf, InLog
  <2>2. CASE x = n
    <3>a. log'[n] = Append(log[n], m)
      BY <1>2
    <3>1. /\ Len(log'[n]) = Len(log[n]) + 1
          /\ Len(log[n]) \in Nat
          /\ log'[n][Len(log[n]) + 1] = m
          /\ \A k \in 1..Len(log[n]) : log'[n][k] = log[n][k]
      BY <1>2, <3>a
    <3>2. \A k \in 1..Len(log[n]) : log[n][k] # m
      BY DEF LogOf, InLog
    <3>3. \A l \in Msgs : InLog(n, l)' <=> InLog(n, l) \/ l = m
      BY <3>1 DEF InLog
    <3>4. \A l \in Msgs : InLog(n, l)' <=> status'[n][l] = "saved"
      BY <1>1, <3>3 DEF LogOf
    <3>5. \A i, j \in 1..Len(log'[n]) : log'[n][i] = log'[n][j] => i = j
      BY <3>1, <3>2 DEF LogOf
    <3> QED
      BY <2>2, <3>4, <3>5 DEF LogOf
  <2> QED
    BY <2>1, <2>2
<1> QED
  BY <1>1, <1>2, <1>3, <1>4
--------------------------------------------------------------------------------
(* One lemma per handler.                                                  *)

(* The time to live that a message comes with.                             *)
LEMMA Arrives ==
  ASSUME Inv, NEW n \in Nodes, NEW id \in GossipIDs
  PROVE  /\ \A c \in inbox[n] : c.id = id => c.ttl \in Incoming(inbox, n, id)
         /\ TTL \in Incoming(inbox, GossipedBy(id), id)
         /\ \A t \in Incoming(inbox, n, id) : t \in 0..TTL
BY NetAssumption DEF Incoming, Inv, TypeOK, Copies

(* A message of an unknown author is marked, and that is all.              *)
LEMMA IgnoreInv ==
  ASSUME Inv, NEW n \in Nodes, NEW id \in GossipIDs,
         \A m \in Msgs, p \in Nodes : id # Ack(m, p),
         NEW t \in Incoming(inbox, n, id),
         ~Authenticates(n, GossipedBy(id)), Ignore(n, id)
  PROVE  Inv'
<1> USE DEF Inv
<1>1. NetInv(inbox, seen, Pending)'
  <2>1. NetInv(Taken(inbox, n, id), Seen(seen, n, id),
               ToForward(Pending, n, id, t))
    BY MarkNet DEF Ignore, New
  <2>2. inbox' = Taken(inbox, n, id) /\ seen' = Seen(seen, n, id)
    BY DEF Ignore, Rest, Taken, Seen
  <2>3. Pending' = Pending /\ ToForward(Pending, n, id, t) = Pending
    BY DEF Ignore, Pending, ToForward
  <2> QED
    BY <2>1, <2>2, <2>3
<1>2. TypeOK'
  BY <1>1 DEF Ignore, TypeOK, NetInv, NetType
<1>3. /\ \A x \in Nodes : seen'[x] = IF x = n THEN seen[n] \cup {id} ELSE seen[x]
      /\ UNCHANGED <<handling, ackers, status, log>>
  BY DEF Ignore, TypeOK
<1>4. /\ \A x \in Nodes, m \in Msgs : Processes(x, m)' <=> Processes(x, m)
      /\ \A x, p \in Nodes, m \in Msgs : Ack(m, p) \in seen'[x] <=> Ack(m, p) \in seen[x]
  BY <1>3, IDs DEF Processes, Authenticates, gossipPeers
<1>5. AckSent' /\ AckCount'
  BY <1>3, <1>4, NetAssumption DEF NodeInv, AckSent, AckCount, Acking
<1>6. Stages'
  BY <1>3, <1>4 DEF NodeInv, Stages, Handled
<1>7. SavedByQuorum' /\ \A x \in Nodes : LogOf(x)'
  BY <1>3 DEF NodeInv, SavedByQuorum, LogOf, InLog, Quorum
<1> QED
  BY <1>1, <1>2, <1>5, <1>6, <1>7 DEF NodeInv

(* What it means for handling that n takes chat m.                         *)
LEMMA TakeHandling ==
  ASSUME Inv, NEW n \in Nodes, NEW m \in Msgs, NEW t \in 0..TTL,
         Authenticates(n, Author[m]), TakeChat(n, m, t)
  PROVE  /\ handling' \in [Nodes -> SUBSET (Msgs \X (0..TTL))]
         /\ \A x \in Nodes : handling'[x] = IF x = n
                                            THEN handling[n] \cup {<<m, t>>}
                                            ELSE handling[x]
         /\ \A x \in Nodes, l \in Msgs :
              Handled(x, l)' <=> Handled(x, l) \/ (x = n /\ l = m)
         /\ Pending' = ToForward(Pending, n, Chat(m), t)
         /\ ~Processes(n, m) /\ ~Handled(n, m) /\ status[n][m] = "new"
<1>1. handling' = [handling EXCEPT ![n] = @ \cup {<<m, t>>}]
  BY DEF TakeChat
<1>2. /\ handling' \in [Nodes -> SUBSET (Msgs \X (0..TTL))]
      /\ \A x \in Nodes : handling'[x] = IF x = n
                                         THEN handling[n] \cup {<<m, t>>}
                                         ELSE handling[x]
  BY <1>1 DEF Inv, TypeOK
<1>3. \A x \in Nodes, l \in Msgs :
        Handled(x, l)' <=> Handled(x, l) \/ (x = n /\ l = m)
  <2> TAKE x \in Nodes, l \in Msgs
  <2>1. CASE x = n
    <3>1. handling'[x] = handling[n] \cup {<<m, t>>} /\ <<m, t>>[1] = m
      BY <1>2, <2>1
    <3> QED
      BY <2>1, <3>1 DEF Handled
  <2>2. CASE x # n
    BY <1>2, <2>2 DEF Handled
  <2> QED
    BY <2>1, <2>2
<1>4. Pending' = ToForward(Pending, n, Chat(m), t)
  <2>1. Authenticates(n, GossipedBy(Chat(m)))
    BY IDs
  <2>2. ToForward(Pending, n, Chat(m), t)
          = [x \in Nodes |-> IF x = n THEN Pending[n] \cup {<<Chat(m), t>>}
                             ELSE Pending[x]]
    BY <2>1 DEF ToForward, Pending
  <2>3. \A x \in Nodes : Pending'[x] = IF x = n
                                       THEN Pending[n] \cup {<<Chat(m), t>>}
                                       ELSE Pending[x]
    <3> TAKE x \in Nodes
    <3>1. CASE x = n
      <4>1. Pending'[n] = {<<Chat(e[1]), e[2]>> : e \in handling'[n]}
        BY DEF Pending
      <4>2. handling'[n] = handling[n] \cup {<<m, t>>}
        BY <1>2
      <4>3. Pending[n] = {<<Chat(e[1]), e[2]>> : e \in handling[n]}
        BY DEF Pending
      <4>4. <<m, t>>[1] = m /\ <<m, t>>[2] = t
        OBVIOUS
      <4>5. {<<Chat(e[1]), e[2]>> : e \in handling[n] \cup {<<m, t>>}}
              = {<<Chat(e[1]), e[2]>> : e \in handling[n]} \cup {<<Chat(m), t>>}
        BY <4>4
      <4>6. Pending'[n] = Pending[n] \cup {<<Chat(m), t>>}
        BY <4>1, <4>2, <4>3, <4>5
      <4> QED
        BY <3>1, <4>6
    <3>2. CASE x # n
      BY <1>2, <3>2 DEF Pending
    <3> QED
      BY <3>1, <3>2
  <2> QED
    BY <2>2, <2>3 DEF Pending
<1>5. ~Processes(n, m)
  BY DEF TakeChat, New, Processes
<1>6. ~Handled(n, m)
  <2>1. ASSUME NEW e \in handling[n], e[1] = m PROVE FALSE
    <3>1. <<Chat(m), e[2]>> \in Pending[n]
      BY <2>1 DEF Pending
    <3>2. Chat(m) \in seen[n]
      BY <3>1 DEF Inv, NetInv, Known
    <3> QED
      BY <3>2 DEF TakeChat, New
  <2> QED
    BY <2>1 DEF Handled
<1>7. status[n][m] = "new"
  BY <1>5 DEF Inv, NodeInv, Stages
<1> QED
  BY <1>2, <1>3, <1>4, <1>5, <1>6, <1>7

(* Without an acknowledgement: in direct mode, or told to be silent.       *)
LEMMA TakeQuietly ==
  ASSUME Inv, NEW n \in Nodes, NEW m \in Msgs,
         NEW t \in Incoming(inbox, n, Chat(m)), n \in Direct \cup Silent,
         Authenticates(n, Author[m]), TakeChat(n, m, t)
  PROVE  Inv'
<1> USE DEF Inv
<1>1. t \in 0..TTL
  BY Arrives, IDs
<1>2. /\ seen' = Seen(seen, n, Chat(m))
      /\ inbox' = Taken(inbox, n, Chat(m))
      /\ UNCHANGED <<ackers, cleared>>
      /\ n \in Direct => Save(n, m)
      /\ n \notin Direct => UNCHANGED <<status, log>>
  BY DEF TakeChat, Seen, Taken, Rest
<1>3. NetInv(inbox, seen, Pending)'
  <2>1. NetInv(Taken(inbox, n, Chat(m)), Seen(seen, n, Chat(m)),
               ToForward(Pending, n, Chat(m), t))
    BY IDs, MarkNet DEF TakeChat, New
  <2> QED
    BY <1>1, <1>2, <2>1, TakeHandling
<1>4. /\ \A x \in Nodes : seen'[x] = IF x = n THEN seen[n] \cup {Chat(m)} ELSE seen[x]
  BY <1>2 DEF TypeOK, Seen
<1>5. /\ \A x \in Nodes, l \in Msgs :
           Processes(x, l)' <=> Processes(x, l) \/ (x = n /\ l = m)
      /\ \A x, p \in Nodes, l \in Msgs : Ack(l, p) \in seen'[x] <=> Ack(l, p) \in seen[x]
  BY <1>4, IDs DEF Processes, Authenticates, gossipPeers
<1>6. AckSent' /\ AckCount'
  BY <1>2, <1>5, NetAssumption DEF NodeInv, AckSent, AckCount, Acking
<1>7. /\ status' \in [Nodes -> [Msgs -> {"new", "waiting", "saved", "dropped"}]]
      /\ log' \in [Nodes -> Seq(Msgs)]
      /\ \A x \in Nodes : Len(log[x]) \in Nat /\ Len(log[x]) <= Len(log'[x])
      /\ \A x \in Nodes, l \in Msgs :
           status'[x][l] = IF x = n /\ l = m /\ n \in Direct THEN "saved"
                           ELSE status[x][l]
      /\ \A x \in Nodes : LogOf(x)'
  <2>1. CASE n \in Direct
    <3>1. status[n][m] # "saved" /\ Save(n, m)
      BY <1>1, <1>2, <2>1, TakeHandling
    <3>2. \A x \in Nodes : LogOf(x)
      BY DEF NodeInv
    <3> QED
      BY <2>1, <3>1, <3>2, SaveLog
  <2>2. CASE n \notin Direct
    BY <1>2, <2>2 DEF NodeInv, TypeOK, LogOf, InLog
  <2> QED
    BY <2>1, <2>2
<1>8. TypeOK'
  <2>1. \A x \in Nodes : cleared'[x] \in 0..Len(log'[x])
    BY <1>2, <1>7 DEF TypeOK
  <2> QED
    BY <1>1, <1>2, <1>3, <1>7, <2>1, TakeHandling DEF TypeOK, NetInv, NetType
<1>9. Stages'
  <2>1. /\ handling'[n] = handling[n] \cup {<<m, t>>}
        /\ \A x \in Nodes : x # n => handling'[x] = handling[x]
        /\ \A x \in Nodes, l \in Msgs :
             Handled(x, l)' <=> Handled(x, l) \/ (x = n /\ l = m)
        /\ ~Processes(n, m) /\ ~Handled(n, m) /\ status[n][m] = "new"
    BY <1>1, TakeHandling
  <2>2. ASSUME NEW d \in handling'[n], NEW e \in handling'[n], d[1] = e[1],
               n \notin Direct
        PROVE  d = e
    <3>1. \A f \in handling[n] : f[1] # m
      BY <2>1 DEF Handled
    <3> QED
      BY <2>1, <2>2, <3>1 DEF NodeInv, Stages
  <2>3. ASSUME NEW x \in Nodes, x \notin Direct,
               NEW d \in handling'[x], NEW e \in handling'[x], d[1] = e[1]
        PROVE  d = e
    BY <2>1, <2>2, <2>3 DEF NodeInv, Stages
  <2>4. ASSUME NEW x \in Nodes, x \notin Direct, NEW l \in Msgs
        PROVE  /\ Processes(x, l)' <=> Handled(x, l)' \/ status'[x][l] # "new"
               /\ Handled(x, l)' => status'[x][l] = "new"
    <3>1. /\ Processes(x, l) <=> Handled(x, l) \/ status[x][l] # "new"
          /\ Handled(x, l) => status[x][l] = "new"
      BY <2>4 DEF NodeInv, Stages
    <3>2. CASE x = n /\ l = m
      <4>1. status'[n][m] = status[n][m]
        BY <1>7, <2>4, <3>2
      <4> QED
        BY <1>5, <2>1, <3>2, <4>1
    <3>3. CASE ~(x = n /\ l = m)
      <4>1. status'[x][l] = status[x][l]
        BY <1>7, <3>3
      <4> QED
        BY <1>5, <2>1, <3>1, <3>3, <4>1
    <3> QED
      BY <3>2, <3>3
  <2>5. ASSUME NEW x \in Direct, NEW l \in Msgs
        PROVE  status'[x][l] = IF Processes(x, l)' THEN "saved" ELSE "new"
    BY <1>5, <1>7, <2>1, NetAssumption DEF NodeInv, Stages
  <2> QED
    BY <2>3, <2>4, <2>5 DEF Stages
<1>10. SavedByQuorum'
  BY <1>2, <1>7 DEF NodeInv, SavedByQuorum, Quorum
<1> QED
  BY <1>3, <1>6, <1>7, <1>8, <1>9, <1>10 DEF NodeInv

(* To take a message and forward it at once.                               *)
LEMMA MarkForward ==
  ASSUME NEW i, NEW s, NEW h, NetInv(i, s, h),
         NEW n \in Nodes, NEW id \in GossipIDs, id \notin s[n],
         \A x \in Nodes : id \in seen[x] => id \in s[x],
         Authenticates(n, GossipedBy(id)),
         NEW t \in Incoming(i, n, id), t \in 0..TTL,
         NEW j \in Forward(Taken(i, n, id), n, id, t)
  PROVE  NetInv(j, Seen(s, n, id), h)
<1> DEFINE i1 == Taken(i, n, id)
           s1 == Seen(s, n, id)
           h1 == ToForward(h, n, id, t)
           e  == <<id, t>>
<1>1. NetInv(i1, s1, h1)
  BY MarkNet
<1>2. /\ e[1] = id /\ e[2] = t
      /\ h1[n] = h[n] \cup {e}
      /\ i1 \in [Nodes -> SUBSET Copies]
      /\ \A x \in Nodes : s[x] \subseteq s1[x]
  BY DEF NetInv, NetType, Taken, Seen, ToForward
<1>3. [h1 EXCEPT ![n] = @ \ {e}] = h
  <2>1. e \notin h[n]
    BY <1>2 DEF NetInv, Known
  <2> QED
    BY <2>1 DEF NetInv, NetType, ToForward
<1> HIDE DEF i1, s1, h1, e
<1>4. /\ j \in [Nodes -> SUBSET Copies]
      /\ \A x \in Nodes : i1[x] \subseteq j[x]
      /\ \A x \in Nodes : \A c \in j[x] :
           \/ c \in i1[x]
           \/ /\ t > 0 /\ c = Hop(id, t)
              /\ x \in Neighbours[n] /\ n \notin Attackers
      /\ \A p : t > 0 /\ n \in SureRelays(p) =>
           \A x \in Neighbours[n] : id \in seen[x] \/ Hop(id, t) \in j[x]
  BY <1>2, ForwardSteps DEF i1
<1>5. n \in SureRelays(GossipedBy(id)) /\ t > 0 =>
        \A x \in Neighbours[n] : id \in s1[x] \/ Hop(id, t) \in j[x]
  BY <1>2, <1>4, NetAssumption
<1>6. NetInv(j, s1, [h1 EXCEPT ![n] = @ \ {e}])
  BY <1>1, <1>2, <1>4, <1>5, ForwardNet
<1> QED
  BY <1>3, <1>6 DEF s1

(* With an acknowledgement, which goes out before the chat is queued.      *)
LEMMA TakeLoudly ==
  ASSUME Inv, NEW n \in Nodes, NEW m \in Msgs,
         NEW t \in Incoming(inbox, n, Chat(m)), n \notin Direct \cup Silent,
         Authenticates(n, Author[m]), TakeChat(n, m, t)
  PROVE  Inv'
<1> USE DEF Inv
<1> DEFINE i1 == Taken(inbox, n, Chat(m))
           s1 == Seen(seen, n, Chat(m))
           ack == Ack(m, n)
<1>1. t \in 0..TTL
  BY Arrives, IDs
<1>2. /\ seen' = [seen EXCEPT ![n] = @ \cup {Chat(m), ack}]
      /\ ackers' = [ackers EXCEPT ![n][m] = @ \cup {n}]
      /\ inbox' \in Forward(Rest(n, Chat(m)), n, ack, TTL)
      /\ UNCHANGED <<status, log, cleared>>
  BY DEF TakeChat
<1>3. n \in Acking /\ ~Processes(n, m) /\ status[n][m] = "new"
  BY <1>1, TakeHandling DEF Acking
<1>4. ack \notin seen[n]
  BY <1>3 DEF NodeInv, AckSent
<1>5. NetInv(inbox, seen, Pending)'
  <2>1. NetInv(i1, s1, ToForward(Pending, n, Chat(m), t))
    BY IDs, MarkNet DEF TakeChat, New
  <2>2. NetInv(i1, s1, Pending')
    BY <1>1, <2>1, TakeHandling
  <2>3. ack \notin s1[n] /\ \A x \in Nodes : ack \in seen[x] => ack \in s1[x]
    BY <1>4, IDs DEF TypeOK, Seen
  <2>4. ack \in GossipIDs /\ GossipedBy(ack) = n
    BY IDs
  <2>5. Taken(i1, n, ack) = i1
    <3>1. \A c \in i1[n] : c.id # ack
      BY <2>2, <2>3, <2>4 DEF NetInv, Source
    <3> QED
      BY <3>1 DEF Taken, TypeOK
  <2>6. /\ TTL \in Incoming(i1, n, ack) /\ TTL \in 0..TTL
        /\ Authenticates(n, GossipedBy(ack))
    BY <2>4, NetAssumption, RelaysKnow DEF Incoming
  <2>7. inbox' \in Forward(Taken(i1, n, ack), n, ack, TTL)
    BY <1>2, <2>5 DEF Rest, Taken
  <2>8. NetInv(inbox', Seen(s1, n, ack), Pending')
    <3> HIDE DEF i1, s1, ack
    <3> QED
      BY <2>2, <2>3, <2>4, <2>6, <2>7, MarkForward
  <2>9. Seen(s1, n, ack) = seen'
    BY <1>2 DEF Seen, TypeOK
  <2> QED
    BY <2>8, <2>9
<1>6. /\ \A x \in Nodes, l \in Msgs :
           Processes(x, l)' <=> Processes(x, l) \/ (x = n /\ l = m)
      /\ \A x, p \in Nodes, l \in Msgs :
           Ack(l, p) \in seen'[x] <=> \/ Ack(l, p) \in seen[x]
                                      \/ x = n /\ p = n /\ l = m
  <2>1. \A x \in Nodes : seen'[x] = IF x = n THEN seen[n] \cup {Chat(m), ack}
                                    ELSE seen[x]
    BY <1>2 DEF TypeOK
  <2> QED
    BY <2>1, IDs DEF Processes, Authenticates, gossipPeers
<1>7. AckSent'
  BY <1>3, <1>6 DEF NodeInv, AckSent, Acking
<1>8. /\ ackers' \in [Nodes -> [Msgs -> SUBSET Nodes]]
      /\ \A x \in Nodes, l \in Msgs :
           ackers'[x][l] = IF x = n /\ l = m THEN ackers[n][m] \cup {n}
                           ELSE ackers[x][l]
  BY <1>2 DEF TypeOK
<1>9. AckCount'
  <2> SUFFICES ASSUME NEW x \in Nodes, NEW l \in Msgs
               PROVE  ackers'[x][l] = {p \in Room[x] : Ack(l, p) \in seen'[x]}
    BY DEF AckCount
  <2>1. Room[x] \subseteq Nodes /\ n \in Room[n]
    BY NetAssumption
  <2>2. ackers[x][l] = {p \in Room[x] : Ack(l, p) \in seen[x]}
    BY DEF NodeInv, AckCount
  <2> QED
    BY <1>6, <1>8, <2>1, <2>2
<1>10. TypeOK'
  BY <1>1, <1>2, <1>5, <1>8, TakeHandling DEF TypeOK, NetInv, NetType
<1>11. Stages'
  <2>1. /\ handling'[n] = handling[n] \cup {<<m, t>>}
        /\ \A x \in Nodes : x # n => handling'[x] = handling[x]
        /\ \A x \in Nodes, l \in Msgs :
             Handled(x, l)' <=> Handled(x, l) \/ (x = n /\ l = m)
        /\ ~Handled(n, m)
    BY <1>1, TakeHandling
  <2>2. ASSUME NEW x \in Nodes, x \notin Direct,
               NEW d \in handling'[x], NEW e \in handling'[x], d[1] = e[1]
        PROVE  d = e
    <3>1. \A f \in handling[n] : f[1] # m
      BY <2>1 DEF Handled
    <3> QED
      BY <2>1, <2>2, <3>1 DEF NodeInv, Stages
  <2>3. ASSUME NEW x \in Nodes, x \notin Direct, NEW l \in Msgs
        PROVE  /\ Processes(x, l)' <=> Handled(x, l)' \/ status'[x][l] # "new"
               /\ Handled(x, l)' => status'[x][l] = "new"
    BY <1>2, <1>3, <1>6, <2>1, <2>3 DEF NodeInv, Stages
  <2>4. ASSUME NEW x \in Direct, NEW l \in Msgs
        PROVE  status'[x][l] = IF Processes(x, l)' THEN "saved" ELSE "new"
    BY <1>2, <1>6, NetAssumption DEF NodeInv, Stages
  <2> QED
    BY <2>2, <2>3, <2>4 DEF Stages
<1>12. SavedByQuorum' /\ \A x \in Nodes : LogOf(x)'
  BY <1>2, <1>3, <1>8 DEF NodeInv, SavedByQuorum, Quorum, LogOf, InLog
<1> QED
  BY <1>5, <1>7, <1>9, <1>10, <1>11, <1>12 DEF NodeInv

LEMMA QueueInv ==
  ASSUME Inv, NEW n \in Nodes, NEW m \in Msgs, Queue(n, m)
  PROVE  Inv'
<1> USE DEF Inv
<1>1. PICK e \in handling[n] :
        /\ e[1] = m
        /\ handling' = [handling EXCEPT ![n] = @ \ {e}]
        /\ status' = Queued(n, m)
        /\ inbox' \in Forward(inbox, n, Chat(m), e[2])
        /\ UNCHANGED <<seen, ackers, log, cleared>>
  BY DEF Queue
<1> DEFINE f == <<Chat(m), e[2]>>
<1>2. /\ e = <<m, e[2]>> /\ e[2] \in 0..TTL
      /\ f \in Pending[n] /\ f[1] = Chat(m) /\ f[2] = e[2]
  BY <1>1 DEF TypeOK, Pending
<1>3. Pending' = [Pending EXCEPT ![n] = @ \ {f}]
  <2>1. ASSUME NEW d \in handling[n] PROVE <<Chat(d[1]), d[2]>> = f <=> d = e
    <3>1. d = <<d[1], d[2]>>
      BY DEF TypeOK
    <3> QED
      BY <1>2, <3>1, IDs
  <2>2. Pending'[n] = {<<Chat(d[1]), d[2]>> : d \in handling[n] \ {e}}
    BY <1>1 DEF TypeOK, Pending
  <2>3. Pending'[n] = Pending[n] \ {f}
    BY <2>1, <2>2 DEF Pending
  <2>4. \A x \in Nodes : x # n => Pending'[x] = Pending[x]
    BY <1>1 DEF TypeOK, Pending
  <2> QED
    BY <2>3, <2>4 DEF Pending
<1> HIDE DEF f
<1>4. NetInv(inbox, seen, Pending)'
  <2>1. /\ inbox' \in [Nodes -> SUBSET Copies]
        /\ \A x \in Nodes : inbox[x] \subseteq inbox'[x]
        /\ \A x \in Nodes : \A c \in inbox'[x] :
             \/ c \in inbox[x]
             \/ /\ f[2] > 0 /\ c = Hop(f[1], f[2])
                /\ x \in Neighbours[n] /\ n \notin Attackers
        /\ \A p : f[2] > 0 /\ n \in SureRelays(p) =>
             \A x \in Neighbours[n] :
               f[1] \in seen[x] \/ Hop(f[1], f[2]) \in inbox'[x]
    <3>1. Chat(m) \in GossipIDs /\ inbox \in [Nodes -> SUBSET Copies]
      BY IDs DEF TypeOK
    <3>2. /\ f[1] \in GossipIDs /\ f[2] \in 0..TTL
          /\ inbox' \in Forward(inbox, n, f[1], f[2])
      BY <1>1, <1>2, <3>1
    <3> QED
      BY <3>1, <3>2, ForwardSteps
  <2>2. NetInv(inbox', seen, [Pending EXCEPT ![n] = @ \ {f}])
    BY <1>2, <2>1, ForwardNet
  <2> QED
    BY <1>1, <1>3, <2>2
<1>5. /\ Processes(n, m)
      /\ \A x \in Nodes, l \in Msgs : Processes(x, l)' <=> Processes(x, l)
  <2>1. Chat(m) \in seen[n] /\ Authenticates(n, Author[m])
    BY <1>2, IDs DEF NetInv, Known
  <2> QED
    BY <1>1, <2>1 DEF Processes, Authenticates, gossipPeers
<1>6. AckSent' /\ AckCount'
  BY <1>1, <1>5 DEF NodeInv, AckSent, AckCount, Acking
<1>7. n \notin Direct => status[n][m] = "new"
  BY <1>1 DEF NodeInv, Stages, Handled
<1>8. /\ status' \in [Nodes -> [Msgs -> {"new", "waiting", "saved", "dropped"}]]
      /\ \A x \in Nodes, l \in Msgs :
           status'[x][l] = IF x = n /\ l = m /\ n \notin Direct THEN "waiting"
                           ELSE status[x][l]
  BY <1>1 DEF Queued, TypeOK
<1>9. TypeOK'
  BY <1>1, <1>4, <1>8 DEF TypeOK, NetInv, NetType
<1>10. Stages'
  <2>1. /\ \A x \in Nodes : handling'[x] \subseteq handling[x]
        /\ \A x \in Nodes : x # n => handling'[x] = handling[x]
        /\ handling'[n] = handling[n] \ {e}
    BY <1>1 DEF TypeOK
  <2>2. ASSUME NEW x \in Nodes, x \notin Direct,
               NEW d \in handling'[x], NEW g \in handling'[x], d[1] = g[1]
        PROVE  d = g
    BY <2>1, <2>2 DEF NodeInv, Stages
  <2>3. ASSUME NEW x \in Nodes, x \notin Direct, NEW l \in Msgs
        PROVE  /\ Processes(x, l)' <=> Handled(x, l)' \/ status'[x][l] # "new"
               /\ Handled(x, l)' => status'[x][l] = "new"
    <3>1. /\ Processes(x, l) <=> Handled(x, l) \/ status[x][l] # "new"
          /\ Handled(x, l) => status[x][l] = "new"
          /\ \A d, g \in handling[x] : d[1] = g[1] => d = g
      BY <2>3 DEF NodeInv, Stages
    <3>2. CASE x = n /\ l = m
      <4>1. ~Handled(n, m)'
        BY <1>1, <2>1, <3>1, <3>2 DEF Handled
      <4>2. status'[n][m] = "waiting"
        BY <1>8, <2>3, <3>2
      <4> QED
        BY <1>5, <3>2, <4>1, <4>2
    <3>3. CASE ~(x = n /\ l = m)
      <4>1. Handled(x, l)' <=> Handled(x, l)
        BY <1>1, <2>1, <3>3 DEF Handled
      <4>2. status'[x][l] = status[x][l]
        BY <1>8, <3>3
      <4> QED
        BY <1>5, <3>1, <4>1, <4>2
    <3> QED
      BY <3>2, <3>3
  <2>4. ASSUME NEW x \in Direct, NEW l \in Msgs
        PROVE  status'[x][l] = IF Processes(x, l)' THEN "saved" ELSE "new"
    BY <1>5, <1>8, NetAssumption DEF NodeInv, Stages
  <2> QED
    BY <2>2, <2>3, <2>4 DEF Stages
<1>11. SavedByQuorum'
  BY <1>1, <1>8 DEF NodeInv, SavedByQuorum, Quorum
<1>12. \A x \in Nodes : LogOf(x)'
  <2>1. \A x \in Nodes, l \in Msgs : status'[x][l] = "saved" <=> status[x][l] = "saved"
    BY <1>7, <1>8
  <2> QED
    BY <1>1, <2>1 DEF NodeInv, LogOf, InLog
<1> QED
  BY <1>4, <1>6, <1>9, <1>10, <1>11, <1>12 DEF NodeInv

(* A chat that waits is decided: the rest of Inv needs to know no more.    *)
LEMMA DecideInv ==
  ASSUME Inv, NEW n \in Nodes, NEW m \in Waiting(n),
         \/ Save(n, m) /\ Quorum(n, ackers'[n][m])
         \/ status' = [status EXCEPT ![n][m] = "dropped"] /\ log' = log,
         \A x \in Nodes \ Direct, l \in Msgs :
           Quorum(x, ackers[x][l]) => Quorum(x, ackers'[x][l]),
         \A x \in Nodes, l \in Msgs : Processes(x, l)' <=> Processes(x, l),
         UNCHANGED <<handling, cleared>>
  PROVE  /\ status' \in [Nodes -> [Msgs -> {"new", "waiting", "saved", "dropped"}]]
         /\ log' \in [Nodes -> Seq(Msgs)]
         /\ \A x \in Nodes : cleared'[x] \in 0..Len(log'[x])
         /\ Stages' /\ SavedByQuorum' /\ \A x \in Nodes : LogOf(x)'
<1> USE DEF Inv
<1>1. /\ m \in Msgs /\ status[n][m] = "waiting"
      /\ n \notin Direct
  BY DEF Waiting, NodeInv, Stages
<1>2. /\ status' \in [Nodes -> [Msgs -> {"new", "waiting", "saved", "dropped"}]]
      /\ log' \in [Nodes -> Seq(Msgs)]
      /\ \A x \in Nodes : cleared'[x] \in 0..Len(log'[x])
      /\ \A x \in Nodes : LogOf(x)'
      /\ \A x \in Nodes, l \in Msgs :
           status'[x][l] = IF x = n /\ l = m THEN status'[n][m] ELSE status[x][l]
      /\ status'[n][m] \in {"saved", "dropped"}
      /\ status'[n][m] = "saved" => Quorum(n, ackers'[n][m])
  <2>1. CASE Save(n, m) /\ Quorum(n, ackers'[n][m])
    <3>1. \A x \in Nodes : LogOf(x)
      BY DEF NodeInv
    <3>2. /\ status' \in [Nodes -> [Msgs -> {"new", "waiting", "saved", "dropped"}]]
          /\ log' \in [Nodes -> Seq(Msgs)]
          /\ \A x \in Nodes : Len(log[x]) \in Nat /\ Len(log[x]) <= Len(log'[x])
          /\ \A x \in Nodes, l \in Msgs :
               status'[x][l] = IF x = n /\ l = m THEN "saved" ELSE status[x][l]
          /\ \A x \in Nodes : LogOf(x)'
      BY <1>1, <2>1, <3>1, SaveLog
    <3>3. \A x \in Nodes : cleared'[x] \in 0..Len(log'[x])
      BY <3>2 DEF TypeOK
    <3> QED
      BY <1>1, <2>1, <3>2, <3>3
  <2>2. CASE status' = [status EXCEPT ![n][m] = "dropped"] /\ log' = log
    <3>1. /\ status' \in [Nodes -> [Msgs -> {"new", "waiting", "saved", "dropped"}]]
          /\ \A x \in Nodes, l \in Msgs :
               status'[x][l] = IF x = n /\ l = m THEN "dropped" ELSE status[x][l]
      BY <1>1, <2>2 DEF TypeOK
    <3>2. \A x \in Nodes : LogOf(x)'
      BY <1>1, <2>2, <3>1 DEF NodeInv, LogOf, InLog
    <3> QED
      BY <1>1, <2>2, <3>1, <3>2 DEF TypeOK
  <2> QED
    BY <2>1, <2>2
<1>3. Stages'
  <2>1. \A x \in Nodes, l \in Msgs : Handled(x, l)' <=> Handled(x, l)
    BY DEF Handled
  <2>2. ASSUME NEW x \in Nodes, x \notin Direct, NEW l \in Msgs
        PROVE  /\ Processes(x, l)' <=> Handled(x, l)' \/ status'[x][l] # "new"
               /\ Handled(x, l)' => status'[x][l] = "new"
    <3>1. /\ Processes(x, l) <=> Handled(x, l) \/ status[x][l] # "new"
          /\ Handled(x, l) => status[x][l] = "new"
      BY <2>2 DEF NodeInv, Stages
    <3>2. CASE x = n /\ l = m
      BY <1>1, <1>2, <2>1, <3>1, <3>2
    <3>3. CASE ~(x = n /\ l = m)
      BY <1>2, <2>1, <3>1, <3>3
    <3> QED
      BY <3>2, <3>3
  <2>3. ASSUME NEW x \in Direct, NEW l \in Msgs
        PROVE  status'[x][l] = IF Processes(x, l)' THEN "saved" ELSE "new"
    BY <1>1, <1>2, NetAssumption DEF NodeInv, Stages
  <2>4. \A x \in Nodes \ Direct : \A d, e \in handling'[x] : d[1] = e[1] => d = e
    BY <1>1 DEF NodeInv, Stages
  <2> QED
    BY <2>2, <2>3, <2>4 DEF Stages
<1>4. SavedByQuorum'
  BY <1>1, <1>2 DEF NodeInv, SavedByQuorum, Quorum
<1> QED
  BY <1>2, <1>3, <1>4

(* An acknowledgement is counted if its author is in the room, may decide  *)
(* its chat, and is forwarded if its author is known.                      *)
LEMMA ReceiveAckInv ==
  ASSUME Inv, NEW n \in Nodes, NEW m \in Msgs, NEW p \in Nodes,
         ReceiveAck(n, m, p)
  PROVE  Inv'
<1> USE DEF Inv
<1> DEFINE ack == Ack(m, p)
<1>1. PICK c \in inbox[n] :
        /\ c.id = ack
        /\ New(n, ack)
        /\ seen' = [seen EXCEPT ![n] = @ \cup {ack}]
        /\ ackers' = Count(n, m, p)
        /\ inbox' \in IF Authenticates(n, p) THEN Forward(Rest(n, c.id), n, c.id, c.ttl)
                      ELSE {Rest(n, c.id)}
        /\ IF /\ m \in Waiting(n)
              /\ p \in Room[n]
              /\ Quorum(n, ackers'[n][m])
              /\ CanSave(n, m)
           THEN Save(n, m)
           ELSE UNCHANGED <<status, log>>
        /\ UNCHANGED <<handling, cleared>>
  BY DEF ReceiveAck
<1>2. /\ ack \in GossipIDs /\ GossipedBy(ack) = p
      /\ c.ttl \in Incoming(inbox, n, ack) /\ c.ttl \in 0..TTL
      /\ ack \notin seen[n]
  BY <1>1, IDs, Arrives DEF New
<1>3. p # n
  <2>1. ack \in seen[p]
    BY <1>1, <1>2 DEF NetInv, Source
  <2> QED
    BY <1>2, <2>1
<1> HIDE DEF ack
<1>4. NetInv(inbox, seen, Pending)'
  <2>1. Pending' = Pending /\ seen' = Seen(seen, n, ack)
    BY <1>1 DEF Pending, Seen
  <2>2. CASE Authenticates(n, p)
    <3>1. inbox' \in Forward(Taken(inbox, n, ack), n, ack, c.ttl)
      BY <1>1, <2>2 DEF Rest, Taken
    <3>2. NetInv(inbox', Seen(seen, n, ack), Pending)
      BY <1>2, <2>2, <3>1, MarkForward
    <3> QED
      BY <2>1, <3>2
  <2>3. CASE ~Authenticates(n, p)
    <3>1. NetInv(Taken(inbox, n, ack), Seen(seen, n, ack),
                 ToForward(Pending, n, ack, c.ttl))
      BY <1>2, MarkNet
    <3>2. ToForward(Pending, n, ack, c.ttl) = Pending
      BY <1>2, <2>3 DEF ToForward, Pending
    <3>3. inbox' = Taken(inbox, n, ack)
      BY <1>1, <2>3 DEF Rest, Taken
    <3> QED
      BY <2>1, <3>1, <3>2, <3>3
  <2> QED
    BY <2>2, <2>3
<1>5. /\ \A x \in Nodes, l \in Msgs : Processes(x, l)' <=> Processes(x, l)
      /\ \A x, q \in Nodes, l \in Msgs :
           Ack(l, q) \in seen'[x] <=> \/ Ack(l, q) \in seen[x]
                                      \/ x = n /\ q = p /\ l = m
  <2>1. \A x \in Nodes : seen'[x] = IF x = n THEN seen[n] \cup {ack} ELSE seen[x]
    BY <1>1 DEF TypeOK
  <2> QED
    BY <2>1, IDs DEF Processes, Authenticates, gossipPeers, ack
<1>6. AckSent'
  BY <1>3, <1>5 DEF NodeInv, AckSent, Acking
<1>7. /\ ackers' \in [Nodes -> [Msgs -> SUBSET Nodes]]
      /\ \A x \in Nodes, l \in Msgs :
           ackers'[x][l] = IF x = n /\ l = m /\ p \in Room[n]
                           THEN ackers[n][m] \cup {p} ELSE ackers[x][l]
  BY <1>1 DEF TypeOK, Count
<1>8. AckCount'
  <2> SUFFICES ASSUME NEW x \in Nodes, NEW l \in Msgs
               PROVE  ackers'[x][l] = {q \in Room[x] : Ack(l, q) \in seen'[x]}
    BY DEF AckCount
  <2>1. Room[x] \subseteq Nodes
    BY NetAssumption
  <2>2. ackers[x][l] = {q \in Room[x] : Ack(l, q) \in seen[x]}
    BY DEF NodeInv, AckCount
  <2> QED
    BY <1>5, <1>7, <2>1, <2>2
<1>9. \A x \in Nodes \ Direct, l \in Msgs :
        Quorum(x, ackers[x][l]) => Quorum(x, ackers'[x][l])
  <2> TAKE x \in Nodes \ Direct, l \in Msgs
  <2>1. ackers[x][l] \subseteq ackers'[x][l] /\ ackers'[x][l] \subseteq Nodes
    BY <1>7
  <2>2. /\ IsFiniteSet(ackers'[x][l]) /\ IsFiniteSet(ackers[x][l])
        /\ Cardinality(ackers[x][l]) <= Cardinality(ackers'[x][l])
    BY <2>1, NetAssumption, FS_Subset
  <2>3. Threshold[x] \in Nat /\ Cardinality(ackers[x][l]) \in Nat
        /\ Cardinality(ackers'[x][l]) \in Nat
    BY <2>2, NetAssumption, FS_CardinalityType
  <2> QED
    BY <2>2, <2>3 DEF Quorum
<1>10. /\ status' \in [Nodes -> [Msgs -> {"new", "waiting", "saved", "dropped"}]]
       /\ log' \in [Nodes -> Seq(Msgs)]
       /\ \A x \in Nodes : cleared'[x] \in 0..Len(log'[x])
       /\ Stages' /\ SavedByQuorum' /\ \A x \in Nodes : LogOf(x)'
  <2>1. CASE UNCHANGED <<status, log>>
    <3>1. Stages'
      BY <1>1, <1>5, <2>1 DEF NodeInv, Stages, Handled
    <3>2. SavedByQuorum'
      BY <1>9, <2>1 DEF NodeInv, SavedByQuorum
    <3>3. \A x \in Nodes : LogOf(x)'
      BY <2>1 DEF NodeInv, LogOf, InLog
    <3> QED
      BY <1>1, <2>1, <3>1, <3>2, <3>3 DEF TypeOK
  <2>2. CASE m \in Waiting(n) /\ Save(n, m) /\ Quorum(n, ackers'[n][m])
    BY <1>1, <1>5, <1>9, <2>2, DecideInv
  <2> QED
    BY <1>1, <2>1, <2>2
<1>11. TypeOK'
  BY <1>1, <1>4, <1>7, <1>10 DEF TypeOK, NetInv, NetType
<1> QED
  BY <1>4, <1>6, <1>8, <1>10, <1>11 DEF NodeInv

LEMMA HandleClearInv ==
  ASSUME Inv, NEW n \in Nodes, NEW c \in Clears,
         NEW t \in Incoming(inbox, n, Clear(c)), HandleClear(n, c, t)
  PROVE  Inv'
<1> DEFINE id == Clear(c)
<1>1. /\ id \in GossipIDs /\ GossipedBy(id) = Author[c] /\ t \in 0..TTL
      /\ \A m \in Msgs, p \in Nodes : id # Ack(m, p)
      /\ \A m \in Msgs : id # Chat(m)
  BY IDs, Arrives
<1>2. CASE ~Authenticates(n, Author[c])
  BY <1>1, <1>2, IgnoreInv DEF HandleClear
<1>3. CASE Authenticates(n, Author[c])
  <2> USE DEF Inv
  <2>1. /\ id \notin seen[n]
        /\ seen' = [seen EXCEPT ![n] = @ \cup {id}]
        /\ cleared' = [cleared EXCEPT ![n] = Len(log[n])]
        /\ inbox' \in Forward(Rest(n, id), n, id, t)
        /\ UNCHANGED <<handling, ackers, status, log>>
    BY <1>3 DEF HandleClear, New
  <2> HIDE DEF id
  <2>2. NetInv(inbox, seen, Pending)'
    <3>1. NetInv(inbox', Seen(seen, n, id), Pending)
      <4>1. inbox' \in Forward(Taken(inbox, n, id), n, id, t)
        BY <2>1 DEF Rest, Taken
      <4>2. t \in Incoming(inbox, n, id)
        BY DEF id
      <4> QED
        BY <1>1, <1>3, <2>1, <4>1, <4>2, MarkForward
    <3>2. Pending' = Pending /\ seen' = Seen(seen, n, id)
      BY <2>1 DEF Pending, Seen
    <3> QED
      BY <3>1, <3>2
  <2>3. \A x \in Nodes : cleared'[x] \in 0..Len(log'[x])
    <3>1. \A x \in Nodes : Len(log[x]) \in Nat
      BY DEF TypeOK
    <3> TAKE x \in Nodes
    <3>2. CASE x = n /\ n \in DOMAIN cleared
      BY <2>1, <3>1, <3>2
    <3>3. CASE x # n \/ n \notin DOMAIN cleared
      BY <2>1, <3>3 DEF TypeOK
    <3> QED
      BY <3>2, <3>3
  <2>4. TypeOK'
    BY <2>1, <2>2, <2>3 DEF TypeOK, NetInv, NetType
  <2>5. \A x \in Nodes : seen'[x] = IF x = n THEN seen[n] \cup {id} ELSE seen[x]
    BY <2>1 DEF TypeOK
  <2>6. /\ \A x \in Nodes, m \in Msgs : Processes(x, m)' <=> Processes(x, m)
        /\ \A x, p \in Nodes, m \in Msgs :
             Ack(m, p) \in seen'[x] <=> Ack(m, p) \in seen[x]
    BY <1>1, <2>5 DEF Processes, Authenticates, gossipPeers
  <2>7. AckSent' /\ AckCount'
    BY <2>1, <2>6, NetAssumption DEF NodeInv, AckSent, AckCount, Acking
  <2>8. Stages'
    BY <2>1, <2>6 DEF NodeInv, Stages, Handled
  <2>9. SavedByQuorum' /\ \A x \in Nodes : LogOf(x)'
    BY <2>1 DEF NodeInv, SavedByQuorum, LogOf, InLog, Quorum
  <2> QED
    BY <2>2, <2>4, <2>7, <2>8, <2>9 DEF NodeInv
<1> QED
  BY <1>2, <1>3

LEMMA HandleChatInv ==
  ASSUME Inv, NEW n \in Nodes, NEW m \in Msgs,
         NEW t \in Incoming(inbox, n, Chat(m)), HandleChat(n, m, t)
  PROVE  Inv'
<1>1. CASE Authenticates(n, Author[m])
  BY <1>1, TakeQuietly, TakeLoudly DEF HandleChat
<1>2. CASE ~Authenticates(n, Author[m])
  BY <1>2, IDs, IgnoreInv DEF HandleChat
<1> QED
  BY <1>1, <1>2

(* A waiter that saves its chat or gives up.                               *)
LEMMA WaiterInv ==
  ASSUME Inv, NEW n \in Nodes, NEW m \in Msgs, Tick(n, m) \/ Timeout(n, m)
  PROVE  Inv'
<1> USE DEF Inv
<1>1. /\ m \in Waiting(n)
      /\ UNCHANGED <<inbox, seen, handling, ackers, cleared>>
      /\ \/ Save(n, m) /\ Quorum(n, ackers'[n][m])
         \/ status' = [status EXCEPT ![n][m] = "dropped"] /\ log' = log
  BY DEF Tick, Timeout
<1>2. NetInv(inbox, seen, Pending)'
  BY <1>1 DEF Pending
<1>3. /\ \A x \in Nodes, l \in Msgs : Processes(x, l)' <=> Processes(x, l)
      /\ AckSent' /\ AckCount'
  BY <1>1 DEF NodeInv, AckSent, AckCount, Processes, Authenticates, gossipPeers,
              Acking
<1>4. /\ status' \in [Nodes -> [Msgs -> {"new", "waiting", "saved", "dropped"}]]
      /\ log' \in [Nodes -> Seq(Msgs)]
      /\ \A x \in Nodes : cleared'[x] \in 0..Len(log'[x])
      /\ Stages' /\ SavedByQuorum' /\ \A x \in Nodes : LogOf(x)'
  BY <1>1, <1>3, DecideInv
<1>5. TypeOK'
  BY <1>1, <1>4 DEF TypeOK
<1> QED
  BY <1>2, <1>3, <1>4, <1>5 DEF NodeInv

LEMMA NextInv == Inv /\ [Next]_vars => Inv'
<1> SUFFICES ASSUME Inv, [Next]_vars PROVE Inv'
  OBVIOUS
<1>1. \A m \in Msgs \cup Clears : Author[m] \in Nodes
  BY NetAssumption
<1>2. ASSUME NEW m \in Msgs, Gossip(m) PROVE Inv'
  BY <1>1, <1>2, IDs, Arrives, HandleChatInv DEF Gossip
<1>3. ASSUME NEW c \in Clears, GossipClear(c) PROVE Inv'
  BY <1>1, <1>3, IDs, Arrives, HandleClearInv DEF GossipClear
<1>4. ASSUME NEW n \in Nodes, NEW m \in Msgs, ReceiveChat(n, m) PROVE Inv'
  BY <1>4, IDs, Arrives, HandleChatInv DEF ReceiveChat
<1>5. ASSUME NEW n \in Nodes, NEW c \in Clears, ReceiveClear(n, c) PROVE Inv'
  BY <1>5, IDs, Arrives, HandleClearInv DEF ReceiveClear
<1>6. ASSUME NEW n \in Nodes, NEW m \in Msgs,
             \/ Queue(n, m)
             \/ \E p \in Nodes : ReceiveAck(n, m, p)
             \/ Tick(n, m) \/ Timeout(n, m)
      PROVE  Inv'
  BY <1>6, QueueInv, ReceiveAckInv, WaiterInv
<1>7. CASE UNCHANGED vars
  <2> USE DEF Inv
  <2>1. TypeOK'
    BY <1>7 DEF vars, TypeOK
  <2>2. NetInv(inbox, seen, Pending)'
    BY <1>7 DEF vars, Pending
  <2>3. \A x \in Nodes, l \in Msgs : Processes(x, l)' <=> Processes(x, l)
    BY <1>7 DEF vars, Processes, Authenticates, gossipPeers
  <2>4. AckSent' /\ AckCount'
    BY <1>7, <2>3 DEF vars, NodeInv, AckSent, AckCount
  <2>5. Stages'
    BY <1>7, <2>3 DEF vars, NodeInv, Stages, Handled
  <2>6. SavedByQuorum' /\ \A x \in Nodes : LogOf(x)'
    BY <1>7 DEF vars, NodeInv, SavedByQuorum, LogOf, InLog
  <2> QED
    BY <2>1, <2>2, <2>4, <2>5, <2>6 DEF NodeInv
<1> QED
  BY <1>2, <1>3, <1>4, <1>5, <1>6, <1>7 DEF Next, Handle

(* The invariant holds in every state of the net.                          *)
THEOREM Invariance == Spec => []Inv
BY InitInv, NextInv, PTL DEF Spec
--------------------------------------------------------------------------------
(* The variables of every node keep their types, and the time to live of a *)
(* copy that is under way or handled stays in its range.                   *)
THEOREM TypeCorrect == Spec => []TypeOK
BY Invariance, PTL DEF Inv

(* No node adds a chat to its chain twice, whatever the paths its copies   *)
(* take and however its goroutines interleave.                             *)
THEOREM NoChatTwice == Spec => []OneBlockPerChat
<1>1. Inv => OneBlockPerChat
  BY DEF Inv, NodeInv, LogOf, OneBlockPerChat
<1> QED
  BY <1>1, Invariance, PTL

(* What a node has counted towards a quorum are acknowledgements that      *)
(* their authors sent when they processed the chat.                        *)
LEMMA AckersProcess ==
  ASSUME Inv, NEW n \in Nodes, NEW m \in Msgs
  PROVE  ackers[n][m] \subseteq {p \in Acking \cap Room[n] : Processes(p, m)}
<1> SUFFICES ASSUME NEW p \in ackers[n][m]
             PROVE  p \in Acking \cap Room[n] /\ Processes(p, m)
  OBVIOUS
<1>1. p \in Room[n] /\ p \in Nodes /\ Ack(m, p) \in seen[n]
  BY NetAssumption DEF Inv, NodeInv, AckCount
<1>2. Ack(m, p) \in seen[p]
  BY <1>1, IDs DEF Inv, NetInv, Source
<1> QED
  BY <1>1, <1>2 DEF Inv, NodeInv, AckSent

(* A chat in the chain of a node that waits for acks was processed by a    *)
(* quorum of its room, through any number of hops and although unknown     *)
(* authors' acks count.                                                    *)
THEOREM GenuineQuorums == Spec => []QuorumIsGenuine
<1>1. ASSUME Inv PROVE QuorumIsGenuine
  <2> SUFFICES ASSUME NEW n \in Nodes \ Direct, NEW m \in Msgs, InLog(n, m)
               PROVE  Cardinality({p \in Acking \cap Room[n] : Processes(p, m)})
                        >= Threshold[n]
    BY DEF QuorumIsGenuine
  <2> DEFINE P == {p \in Acking \cap Room[n] : Processes(p, m)}
  <2>1. Cardinality(ackers[n][m]) >= Threshold[n]
    BY <1>1 DEF Inv, NodeInv, LogOf, SavedByQuorum, Quorum
  <2>2. ackers[n][m] \subseteq P
    BY <1>1, AckersProcess
  <2>3. IsFiniteSet(P)
    <3>1. P \subseteq Nodes
      BY DEF Acking
    <3> QED
      BY <3>1, NetAssumption, FS_Subset
  <2> HIDE DEF P
  <2>4. /\ IsFiniteSet(ackers[n][m])
        /\ Cardinality(ackers[n][m]) <= Cardinality(P)
    BY <2>2, <2>3, FS_Subset
  <2>5. /\ Cardinality(P) \in Nat /\ Cardinality(ackers[n][m]) \in Nat
        /\ Threshold[n] \in Nat
    BY <2>3, <2>4, FS_CardinalityType, NetAssumption
  <2>6. Cardinality(P) >= Threshold[n]
    BY <2>1, <2>4, <2>5
  <2> QED
    BY <2>6 DEF P
<1> QED
  BY <1>1, Invariance, PTL

(* Nothing gets further than TTL hops over nodes that know its author.     *)
THEOREM BoundedHops == Spec => []HopsBounded
<1>1. ASSUME Inv PROVE HopsBounded
  <2> SUFFICES ASSUME NEW n \in Nodes, NEW id \in seen[n]
               PROVE  n \in InReach[GossipedBy(id)]
    BY DEF HopsBounded
  <2>1. GossipedBy(id) \in Nodes
    BY <1>1, GossipedByType DEF Inv, TypeOK
  <2>2. Near(n, id, TTL)
    BY <1>1 DEF Inv, NetInv, HopsMade
  <2> QED
    BY <2>1, <2>2 DEF InReach, Near
<1> QED
  BY <1>1, Invariance, PTL

(* Hop by hop, what sure relays lead to has been reached.                  *)
LEMMA QuietReached ==
  ASSUME Inv, Quiet, NEW id \in GossipIDs, id \in seen[GossipedBy(id)]
  PROVE  \A n \in Reached[GossipedBy(id)] : n \in Nodes /\ id \in seen[n]
<1> DEFINE p == GossipedBy(id)
           R == {n \in Nodes : id \in seen[n]}
           S == {h \in Nat : Within(p, SureRelays(p), h) \subseteq R}
<1>1. p \in Nodes
  BY GossipedByType
<1>2. CASE LongLived(p)
  <2>1. 0 \in S
    BY <1>1, WithinStep
  <2>2. ASSUME NEW h \in Nat, h \in S PROVE h + 1 \in S
    <3>1. Within(p, SureRelays(p), h + 1)
            = Beyond(Within(p, SureRelays(p), h), SureRelays(p))
      BY WithinStep
    <3>2. ASSUME NEW x \in R \cap SureRelays(p), NEW y \in Neighbours[x]
          PROVE  y \in R
      <4>1. x \in Nodes /\ y \in Nodes /\ id \in seen[x]
        BY <3>2, NetAssumption
      <4>2. PassedOn(x, id, inbox, seen, Pending)
        BY <1>2, <3>2, <4>1 DEF Inv, NetInv, Spread
      <4>3. Pending[x] = {} /\ inbox[y] = {}
        BY <4>1 DEF Quiet, Pending
      <4> QED
        BY <4>1, <4>2, <4>3 DEF PassedOn
    <3>3. Beyond(Within(p, SureRelays(p), h), SureRelays(p)) \subseteq R
      BY <2>2, <3>2 DEF Beyond
    <3> QED
      BY <3>1, <3>3
  <2>3. Nat \subseteq S
    <3> HIDE DEF S
    <3> QED
      BY <2>1, <2>2, InductionOnSet
  <2>4. Within(p, SureRelays(p), TTL) \subseteq R
    BY <2>3, NetAssumption
  <2>5. Reached[p] = Within(p, SureRelays(p), TTL)
    BY <1>1, <1>2 DEF Reached, LongLived
  <2> QED
    BY <2>4, <2>5
<1>3. CASE ~LongLived(p)
  BY <1>1, <1>3 DEF Reached, LongLived
<1> QED
  BY <1>2, <1>3

(* Once the net is quiet, a message has reached every node that relays     *)
(* which forward to all their peers lead to: the copy that comes first     *)
(* suppresses the others, whatever is left of its time to live.            *)
THEOREM AllReached == Spec => []EveryNodeReached
<1>1. Inv => EveryNodeReached
  BY QuietReached DEF EveryNodeReached
<1> QED
  BY <1>1, Invariance, PTL

(* Once the net is quiet, every chat that a node processed is decided.     *)
THEOREM AllDecided == Spec => []EverythingDecided
<1>1. ASSUME Inv PROVE EverythingDecided
  <2> SUFFICES ASSUME Quiet, NEW n \in Nodes, NEW m \in Msgs, Processes(n, m)
               PROVE  status[n][m] \in {"saved", "dropped"}
    BY DEF EverythingDecided
  <2>1. status[n][m] # "waiting"
    BY DEF Quiet, Waiting
  <2>2. status[n][m] \in {"new", "waiting", "saved", "dropped"}
    BY <1>1 DEF Inv, TypeOK
  <2>3. ~Handled(n, m)
    BY DEF Quiet, Handled
  <2> QED
    BY <1>1, <2>1, <2>2, <2>3 DEF Inv, NodeInv, Stages
<1> QED
  BY <1>1, Invariance, PTL

(* Once the net is quiet, a node that enough acks can reach has counted a  *)
(* quorum.                                                                 *)
THEOREM QuorumsKnown == Spec => []QuorumKnown
<1>1. ASSUME Inv PROVE QuorumKnown
  <2> SUFFICES ASSUME Quiet, NEW n \in Nodes, NEW m \in Msgs,
                      Chat(m) \in seen[Author[m]],
                      Cardinality({p \in Acking \cap Room[n] \cap Reached[Author[m]] :
                                     Authenticates(p, Author[m]) /\ n \in Reached[p]})
                        >= Threshold[n]
               PROVE  Quorum(n, ackers[n][m])
    BY DEF QuorumKnown
  <2> DEFINE near == {p \in Acking \cap Room[n] \cap Reached[Author[m]] :
                        Authenticates(p, Author[m]) /\ n \in Reached[p]}
  <2>1. ASSUME NEW p \in near PROVE p \in ackers[n][m]
    <3>1. p \in Nodes /\ p \in Acking /\ p \in Room[n]
      BY NetAssumption
    <3>2. Chat(m) \in seen[p]
      BY <1>1, <2>1, QuietReached, IDs
    <3>3. Ack(m, p) \in seen[p]
      BY <1>1, <2>1, <3>1, <3>2 DEF Inv, NodeInv, AckSent, Processes
    <3>4. Ack(m, p) \in seen[n]
      BY <1>1, <2>1, <3>1, <3>3, QuietReached, IDs
    <3> QED
      BY <1>1, <3>1, <3>4 DEF Inv, NodeInv, AckCount
  <2> HIDE DEF near
  <2>2. near \subseteq ackers[n][m] /\ ackers[n][m] \subseteq Nodes
    BY <1>1, <2>1 DEF Inv, TypeOK
  <2>3. /\ IsFiniteSet(ackers[n][m]) /\ IsFiniteSet(near)
        /\ Cardinality(near) <= Cardinality(ackers[n][m])
    BY <2>2, NetAssumption, FS_Subset
  <2>4. /\ Cardinality(near) \in Nat /\ Cardinality(ackers[n][m]) \in Nat
        /\ Threshold[n] \in Nat
    BY <2>3, FS_CardinalityType, NetAssumption
  <2>5. Cardinality(near) >= Threshold[n]
    BY DEF near
  <2> QED
    BY <2>3, <2>4, <2>5 DEF Quorum
<1> QED
  BY <1>1, Invariance, PTL
--------------------------------------------------------------------------------
(* Every node that waits for acks implements QuorumLog.                    *)

(* A step of the net as node n, seen alone, may take it.                   *)
Kept(n) == UNCHANGED Node(n)!vars \/ Node(n)!Next

LEMMA NodeStarts ==
  ASSUME Init, NEW n \in Nodes PROVE Node(n)!Init
BY DEF Init, Node!Init


LEMMA OthersKeep ==
  ASSUME NEW n \in Nodes, UNCHANGED <<ackers[n], status[n], log[n]>>
  PROVE  Kept(n)
BY DEF Kept, Node!vars

(* What n saves and drops, what it queues and what it counts.              *)
LEMMA SaveKeeps ==
  ASSUME Inv, Inv', NEW n \in Nodes, NEW m \in Waiting(n),
         \/ Save(n, m) /\ CanSave(n, m) /\ Quorum(n, ackers'[n][m])
         \/ status' = [status EXCEPT ![n][m] = "dropped"] /\ log' = log,
         \/ ackers' = ackers
         \/ \E p \in Room[n] : /\ p \notin ackers[n][m]
                               /\ ackers' = [ackers EXCEPT ![n][m] = @ \cup {p}]
  PROVE  Kept(n)
<1>1. m \in Msgs /\ status[n][m] = "waiting"
  BY DEF Waiting
<1>2. Node(n)!Save(m) \/ Node(n)!Drop(m)
  <2>1. CASE Save(n, m) /\ CanSave(n, m) /\ Quorum(n, ackers'[n][m])
    <3>1. Node(n)!Oldest(m)
      BY <2>1 DEF CanSave, Waiting, Node!Oldest, Node!Waiting
    <3>2. ackers'[n][m] \in {S \in SUBSET Room[n] : Quorum(n, S)}
      <4>1. ackers'[n][m] \subseteq Room[n]
        BY <1>1 DEF Inv, NodeInv, AckCount
      <4> QED
        BY <2>1, <4>1
    <3>3. /\ status'[n] = [status[n] EXCEPT ![m] = "saved"]
          /\ log'[n] = Append(log[n], m)
      BY <2>1 DEF Save, Inv, TypeOK
    <3> QED
      BY <1>1, <3>1, <3>2, <3>3 DEF Node!Save
  <2>2. CASE status' = [status EXCEPT ![n][m] = "dropped"] /\ log' = log
    <3>1. status'[n] = [status[n] EXCEPT ![m] = "dropped"] /\ log'[n] = log[n]
      BY <2>2 DEF Inv, TypeOK
    <3> QED
      BY <1>1, <3>1 DEF Node!Drop
  <2> QED
    BY <2>1, <2>2
<1>3. \/ ackers'[n] = ackers[n]
      \/ \E p \in Room[n] : Node(n)!Acknowledge(m, p)
  BY DEF Node!Acknowledge, Inv, TypeOK
<1> QED
  BY <1>1, <1>2, <1>3 DEF Kept, Node!Next

LEMMA CountKeeps ==
  ASSUME Inv, NEW n \in Nodes, NEW m \in Msgs, NEW p \in Room[n],
         p \notin ackers[n][m],
         ackers' = [ackers EXCEPT ![n][m] = @ \cup {p}],
         UNCHANGED <<status, log>>
  PROVE  Kept(n)
<1>1. ackers'[n] = [ackers[n] EXCEPT ![m] = @ \cup {p}]
  BY DEF Inv, TypeOK
<1>2. Node(n)!Acknowledge(m, p)
  BY <1>1 DEF Node!Acknowledge
<1> QED
  BY <1>2 DEF Kept, Node!Next

LEMMA HandleChatKeeps ==
  ASSUME Inv, NEW x \in Nodes, NEW m \in Msgs, NEW t \in Incoming(inbox, x, Chat(m)),
         HandleChat(x, m, t), NEW n \in Nodes \ Direct
  PROVE  Kept(n)
<1>1. CASE UNCHANGED <<ackers, status, log>>
  BY <1>1, OthersKeep
<1>2. CASE Authenticates(x, Author[m])
  <2>1. TakeChat(x, m, t) /\ t \in 0..TTL
    BY <1>2, Arrives, IDs DEF HandleChat
  <2>2. CASE x \in Direct
    <3>1. x # n /\ UNCHANGED ackers /\ Save(x, m)
      BY <2>1, <2>2 DEF TakeChat
    <3>2. UNCHANGED <<ackers[n], status[n], log[n]>>
      BY <3>1 DEF Save, Inv, TypeOK
    <3> QED
      BY <3>2, OthersKeep
  <2>3. CASE x \notin Direct /\ x \in Silent
    BY <1>1, <2>1, <2>3 DEF TakeChat
  <2>4. CASE x \notin Direct /\ x \notin Silent
    <3>1. /\ ackers' = [ackers EXCEPT ![x][m] = @ \cup {x}]
          /\ UNCHANGED <<status, log>>
      BY <2>1, <2>4 DEF TakeChat
    <3>2. CASE x = n
      <4>1. ~Processes(n, m)
        BY <1>2, <2>1, <3>2, TakeHandling
      <4>2. Ack(m, n) \notin seen[n]
        BY <4>1 DEF Inv, NodeInv, AckSent
      <4>3. n \in Room[n] /\ n \notin ackers[n][m]
        BY <4>2, NetAssumption DEF Inv, NodeInv, AckCount
      <4> QED
        BY <3>1, <3>2, <4>3, CountKeeps
    <3>3. CASE x # n
      <4>1. UNCHANGED <<ackers[n], status[n], log[n]>>
        BY <3>1, <3>3 DEF Inv, TypeOK
      <4> QED
        BY <4>1, OthersKeep
    <3> QED
      BY <3>2, <3>3
  <2> QED
    BY <2>2, <2>3, <2>4
<1>3. CASE ~Authenticates(x, Author[m])
  BY <1>1, <1>3 DEF HandleChat, Ignore
<1> QED
  BY <1>2, <1>3

LEMMA QueueKeeps ==
  ASSUME Inv, NEW x \in Nodes, NEW m \in Msgs, Queue(x, m), NEW n \in Nodes \ Direct
  PROVE  Kept(n)
<1>1. PICK h \in handling[x] : h[1] = m /\ status' = Queued(x, m)
  BY DEF Queue
<1>2. UNCHANGED <<ackers, log>>
  BY DEF Queue
<1>3. CASE x = n
  <2>1. status[n][m] = "new"
    BY <1>1, <1>3 DEF Inv, NodeInv, Stages, Handled
  <2>2. status'[n] = [status[n] EXCEPT ![m] = "waiting"]
    BY <1>1, <1>3 DEF Queued, Inv, TypeOK
  <2>3. Node(n)!Receive(m)
    BY <1>2, <2>1, <2>2 DEF Node!Receive
  <2> QED
    BY <2>3 DEF Kept, Node!Next
<1>4. CASE x # n
  <2>1. status'[n] = status[n]
    BY <1>1, <1>4 DEF Queued, Inv, TypeOK
  <2> QED
    BY <1>2, <2>1, OthersKeep
<1> QED
  BY <1>3, <1>4

LEMMA ReceiveAckKeeps ==
  ASSUME Inv, Inv', NEW x \in Nodes, NEW m \in Msgs, NEW p \in Nodes,
         ReceiveAck(x, m, p), NEW n \in Nodes \ Direct
  PROVE  Kept(n)
<1>1. /\ New(x, Ack(m, p))
      /\ ackers' = Count(x, m, p)
      /\ IF /\ m \in Waiting(x)
            /\ p \in Room[x]
            /\ Quorum(x, ackers'[x][m])
            /\ CanSave(x, m)
         THEN Save(x, m)
         ELSE UNCHANGED <<status, log>>
  BY DEF ReceiveAck
<1>2. CASE x = n
  <2>1. CASE p \in Room[n]
    <3>1. p \notin ackers[n][m]
      BY <1>1, <1>2 DEF New, Inv, NodeInv, AckCount
    <3>2. ackers' = [ackers EXCEPT ![n][m] = @ \cup {p}]
      BY <1>1, <1>2, <2>1 DEF Count
    <3>3. CASE UNCHANGED <<status, log>>
      BY <2>1, <3>1, <3>2, <3>3, CountKeeps
    <3>4. CASE /\ m \in Waiting(n) /\ Quorum(n, ackers'[n][m])
               /\ CanSave(n, m) /\ Save(n, m)
      BY <2>1, <3>1, <3>2, <3>4, SaveKeeps
    <3> QED
      BY <1>1, <1>2, <3>3, <3>4
  <2>2. CASE p \notin Room[n]
    BY <1>1, <1>2, <2>2, OthersKeep DEF Count
  <2> QED
    BY <2>1, <2>2
<1>3. CASE x # n
  <2>1. UNCHANGED <<ackers[n], status[n], log[n]>>
    BY <1>1, <1>3 DEF Count, Save, Inv, TypeOK
  <2> QED
    BY <2>1, OthersKeep
<1> QED
  BY <1>2, <1>3

LEMMA WaiterKeeps ==
  ASSUME Inv, Inv', NEW x \in Nodes, NEW m \in Msgs, Tick(x, m) \/ Timeout(x, m),
         NEW n \in Nodes \ Direct
  PROVE  Kept(n)
<1>1. /\ m \in Waiting(x) /\ ackers' = ackers
      /\ \/ Save(x, m) /\ CanSave(x, m) /\ Quorum(x, ackers'[x][m])
         \/ status' = [status EXCEPT ![x][m] = "dropped"] /\ log' = log
  BY DEF Tick, Timeout
<1>2. CASE x = n
  BY <1>1, <1>2, SaveKeeps
<1>3. CASE x # n
  <2>1. UNCHANGED <<ackers[n], status[n], log[n]>>
    BY <1>1, <1>3 DEF Save, Inv, TypeOK
  <2> QED
    BY <2>1, OthersKeep
<1> QED
  BY <1>2, <1>3

LEMMA NextKeeps ==
  ASSUME Inv, Inv', Next, NEW n \in Nodes \ Direct PROVE Kept(n)
<1>1. \A m \in Msgs \cup Clears : Author[m] \in Nodes
  BY NetAssumption
<1>2. ASSUME NEW m \in Msgs, Gossip(m) PROVE Kept(n)
  BY <1>1, <1>2, IDs, Arrives, HandleChatKeeps DEF Gossip
<1>3. ASSUME NEW x \in Nodes, NEW c \in Clears, NEW t, HandleClear(x, c, t)
      PROVE  Kept(n)
  <2>1. UNCHANGED <<ackers, status, log>>
    BY <1>3 DEF HandleClear, Ignore
  <2> QED
    BY <2>1, OthersKeep
<1>4. ASSUME NEW x \in Nodes, NEW m \in Msgs, ReceiveChat(x, m) PROVE Kept(n)
  BY <1>4, IDs, Arrives, HandleChatKeeps DEF ReceiveChat
<1>5. ASSUME NEW x \in Nodes, NEW m \in Msgs,
             \/ Queue(x, m)
             \/ \E p \in Nodes : ReceiveAck(x, m, p)
             \/ Tick(x, m) \/ Timeout(x, m)
      PROVE  Kept(n)
  BY <1>5, QueueKeeps, ReceiveAckKeeps, WaiterKeeps
<1> QED
  BY <1>1, <1>2, <1>3, <1>4, <1>5
     DEF Next, Handle, GossipClear, ReceiveClear

(* Each node that waits for acks takes only the steps that QuorumLog, the  *)
(* abstract promise, allows, whatever the network does.                    *)
THEOREM PromiseKept == Spec => NodesKeepPromise
<1>1. Init => \A n \in Nodes \ Direct : Node(n)!Init
  BY NodeStarts
<1>2. Inv /\ Inv' /\ [Next]_vars =>
        [\A n \in Nodes \ Direct : UNCHANGED Node(n)!vars \/ Node(n)!Next]_vars
  BY NextKeeps DEF Kept
<1> QED
  BY <1>1, <1>2, Invariance, PTL DEF Spec, NodesKeepPromise
================================================================================
