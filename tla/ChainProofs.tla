------------------------------ MODULE ChainProofs ------------------------------
(***************************************************************************)
(* Facts about Chain that the proofs about the room registry and about the *)
(* store rest on: how blocks are appended and cut, and what stays linked.  *)
(***************************************************************************)
EXTENDS Chain, Induction, SequenceTheorems

(* A sequence of whatever it holds: blocks hold hashes, which hold blocks, *)
(* so there is no set of all blocks to name.                               *)
IsSeq(c) == c \in Seq({c[i] : i \in 1..Len(c)})

Prefix(c, k) == SubSeq(c, 1, k)

LEMMA SequenceIsSeq ==
  ASSUME NEW S, NEW c \in Seq(S)
  PROVE  /\ IsSeq(c) /\ Len(c) \in Nat /\ DOMAIN c = 1..Len(c)
         /\ c = [i \in 1..Len(c) |-> c[i]]
<1>1. Len(c) \in Nat /\ DOMAIN c = 1..Len(c) /\ c = [i \in 1..Len(c) |-> c[i]]
  OBVIOUS
<1> QED
  BY <1>1 DEF IsSeq

LEMMA FunctionIsSeq ==
  ASSUME NEW n \in Nat, NEW f, f = [i \in 1..n |-> f[i]]
  PROVE  IsSeq(f) /\ Len(f) = n
<1> DEFINE S == {f[i] : i \in 1..n}
<1>1. f \in [1..n -> S]
  OBVIOUS
<1> HIDE DEF S
<1>2. f \in Seq(S)
  BY <1>1, SeqDef
<1>3. Len(f) = n
  <2>1. Len(f) \in Nat /\ DOMAIN f = 1..Len(f)
    BY <1>2, LenProperties
  <2>2. DOMAIN f = 1..n
    BY <1>1
  <2> QED
    BY <2>1, <2>2
<1> QED
  BY <1>2, <1>3, SequenceIsSeq

LEMMA NotEmpty ==
  ASSUME NEW c, IsSeq(c)
  PROVE  Len(c) \in Nat /\ (c # << >> <=> Len(c) # 0)
<1> DEFINE S == {c[i] : i \in 1..Len(c)}
<1>1. c \in Seq(S)
  BY DEF IsSeq
<1> HIDE DEF S
<1>2. Len(c) \in Nat /\ (c # << >> => Len(c) \in Nat \ {0})
  BY <1>1, EmptySeq, LenProperties
<1>3. Len(<< >>) = 0
  BY EmptySeq
<1> QED
  BY <1>2, <1>3

(* Sequences are the same if their elements are.                           *)
LEMMA SameSeq ==
  ASSUME NEW c, IsSeq(c), NEW d, IsSeq(d), Len(c) = Len(d),
         \A i \in 1..Len(c) : c[i] = d[i]
  PROVE  c = d
<1>1. c = [i \in 1..Len(c) |-> c[i]] /\ d = [i \in 1..Len(d) |-> d[i]]
  BY SequenceIsSeq DEF IsSeq
<1> QED
  BY <1>1

LEMMA AppendedSeq ==
  ASSUME NEW c, IsSeq(c), NEW b
  PROVE  /\ IsSeq(Append(c, b))
         /\ Len(c) \in Nat /\ Len(Append(c, b)) = Len(c) + 1
         /\ \A i \in 1..Len(c) : Append(c, b)[i] = c[i]
         /\ Append(c, b)[Len(c) + 1] = b
<1> DEFINE S == {c[i] : i \in 1..Len(c)} \cup {b}
<1>1. c \in Seq(S)
  <2>1. c \in Seq({c[i] : i \in 1..Len(c)})
    BY DEF IsSeq
  <2>2. {c[i] : i \in 1..Len(c)} \subseteq S
    OBVIOUS
  <2> QED
    BY <2>1, <2>2, SeqMonotonic
<1>2. b \in S
  OBVIOUS
<1> HIDE DEF S
<1>3. Append(c, b) \in Seq(S)
  BY <1>1, <1>2
<1>4. /\ Len(c) \in Nat /\ Len(Append(c, b)) = Len(c) + 1
      /\ \A i \in 1..Len(c) : Append(c, b)[i] = c[i]
      /\ Append(c, b)[Len(c) + 1] = b
  BY <1>1, <1>2
<1>5. IsSeq(Append(c, b))
  BY <1>3, SequenceIsSeq
<1> QED
  BY <1>4, <1>5

LEMMA PrefixSeq ==
  ASSUME NEW c, IsSeq(c), NEW k \in 0..Len(c)
  PROVE  /\ IsSeq(Prefix(c, k)) /\ Len(c) \in Nat
         /\ Len(Prefix(c, k)) = k
         /\ \A i \in 1..k : Prefix(c, k)[i] = c[i]
<1> DEFINE S == {c[i] : i \in 1..Len(c)}
<1>1. c \in Seq(S)
  BY DEF IsSeq
<1> HIDE DEF S
<1>2. Len(c) \in Nat /\ Prefix(c, k) \in Seq(S)
  BY <1>1 DEF Prefix
<1>3. Len(Prefix(c, k)) = k /\ \A i \in 1..k : Prefix(c, k)[i] = c[i]
  BY <1>1, <1>2 DEF Prefix
<1> QED
  BY <1>2, <1>3, SequenceIsSeq

(* What was before an append is before it still.                           *)
LEMMA PrefixOfAppended ==
  ASSUME NEW c, IsSeq(c), NEW b, NEW k \in 0..Len(c)
  PROVE  Prefix(Append(c, b), k) = Prefix(c, k)
<1>1. /\ IsSeq(Append(c, b)) /\ Len(c) \in Nat /\ Len(Append(c, b)) = Len(c) + 1
      /\ \A i \in 1..Len(c) : Append(c, b)[i] = c[i]
  BY AppendedSeq
<1>2. k \in 0..Len(Append(c, b))
  BY <1>1
<1> HIDE DEF Prefix
<1>3. /\ IsSeq(Prefix(c, k)) /\ Len(Prefix(c, k)) = k
      /\ \A i \in 1..k : Prefix(c, k)[i] = c[i]
  BY PrefixSeq
<1>4. /\ IsSeq(Prefix(Append(c, b), k)) /\ Len(Prefix(Append(c, b), k)) = k
      /\ \A i \in 1..k : Prefix(Append(c, b), k)[i] = Append(c, b)[i]
  BY <1>1, <1>2, PrefixSeq
<1> QED
  BY <1>1, <1>3, <1>4, SameSeq

LEMMA PrefixOfPrefix ==
  ASSUME NEW c, IsSeq(c), NEW k \in 0..Len(c), NEW l \in 0..k
  PROVE  Prefix(Prefix(c, k), l) = Prefix(c, l)
<1>1. /\ IsSeq(Prefix(c, k)) /\ Len(c) \in Nat /\ Len(Prefix(c, k)) = k
      /\ \A i \in 1..k : Prefix(c, k)[i] = c[i]
  BY PrefixSeq
<1>2. l \in 0..Len(c)
  BY <1>1
<1> HIDE DEF Prefix
<1>3. /\ IsSeq(Prefix(c, l)) /\ Len(Prefix(c, l)) = l
      /\ \A i \in 1..l : Prefix(c, l)[i] = c[i]
  BY <1>2, PrefixSeq
<1>4. /\ IsSeq(Prefix(Prefix(c, k), l)) /\ Len(Prefix(Prefix(c, k), l)) = l
      /\ \A i \in 1..l : Prefix(Prefix(c, k), l)[i] = Prefix(c, k)[i]
  BY <1>1, PrefixSeq
<1> QED
  BY <1>1, <1>3, <1>4, SameSeq

LEMMA WholePrefix ==
  ASSUME NEW c, IsSeq(c)
  PROVE  Prefix(c, Len(c)) = c
<1>1. Len(c) \in Nat
  BY SequenceIsSeq DEF IsSeq
<1>2. Len(c) \in 0..Len(c)
  BY <1>1
<1> QED
  BY <1>2, PrefixSeq, SameSeq
--------------------------------------------------------------------------------
(* The last of some indices.                                               *)
LEMMA LastExists ==
  ASSUME NEW n \in Nat, NEW S \in SUBSET (1..n), S # {}
  PROVE  LastOf(S) \in S /\ \A j \in S : j <= LastOf(S)
<1> DEFINE T == {n - j : j \in S}
<1>1. T \in SUBSET Nat /\ T # {}
  <2>1. \A j \in S : n - j \in Nat
    OBVIOUS
  <2> QED
    BY <2>1
<1> HIDE DEF T
<1>2. PICK t \in T : \A y \in T : t <= y
  BY <1>1, LeastElement
<1>3. PICK i \in S : t = n - i
  BY DEF T
<1>4. \A j \in S : j <= i
  <2> TAKE j \in S
  <2>1. n - j \in T
    BY DEF T
  <2> QED
    BY <1>2, <1>3, <2>1
<1> QED
  BY <1>3, <1>4 DEF LastOf

(* A clear keeps a prefix that is not empty, and the peer blocks in it.    *)
LEMMA PreservedIsPrefix ==
  ASSUME NEW c, IsSeq(c), c # << >>
  PROVE  \E k \in 1..Len(c) :
           /\ Preserved(c) = Prefix(c, k)
           /\ \A i \in 1..Len(c) : c[i].data.kind = "PEER_ADDED" => i <= k
           /\ PeerBlocks(c) # {} => c[k].data.kind = "PEER_ADDED"
           /\ PeerBlocks(c) = {} => k = 1
<1>1. Len(c) \in Nat /\ Len(c) # 0
  <2>1. c = [i \in 1..Len(c) |-> c[i]] /\ Len(c) \in Nat
    BY SequenceIsSeq DEF IsSeq
  <2>2. c \in Seq({c[i] : i \in 1..Len(c)})
    BY DEF IsSeq
  <2> QED
    BY <2>1, <2>2
<1>2. PeerBlocks(c) \in SUBSET (1..Len(c))
  BY DEF PeerBlocks
<1>3. CASE PeerBlocks(c) = {}
  <2>1. Preserved(c) = Prefix(c, 1) /\ 1 \in 1..Len(c)
    BY <1>1, <1>3 DEF Preserved, Prefix
  <2> QED
    BY <1>3, <2>1 DEF PeerBlocks
<1>4. CASE PeerBlocks(c) # {}
  <2> DEFINE k == LastOf(PeerBlocks(c))
  <2>1. k \in PeerBlocks(c) /\ \A j \in PeerBlocks(c) : j <= k
    BY <1>1, <1>2, <1>4, LastExists
  <2>2. Preserved(c) = Prefix(c, k)
    BY <1>4 DEF Preserved, Prefix
  <2> QED
    BY <1>4, <2>1, <2>2 DEF PeerBlocks
<1> QED
  BY <1>3, <1>4
--------------------------------------------------------------------------------
(* What GenerateBlock makes is a valid successor.                          *)
LEMMA GeneratedValid ==
  ASSUME NEW b, NEW data
  PROVE  IsBlockValid(GenerateBlock(b, data), b)
BY DEF IsBlockValid, GenerateBlock, NewBlock, HashOf, CalculateHash

(* A chain stays linked when a block made from its last one is appended.   *)
LEMMA LinkedAppended ==
  ASSUME NEW c, IsSeq(c), c # << >>, Linked(c), NEW data
  PROVE  Linked(Append(c, GenerateBlock(c[Len(c)], data)))
<1> DEFINE b == GenerateBlock(c[Len(c)], data)
<1>1. /\ Len(c) \in Nat /\ Len(Append(c, b)) = Len(c) + 1
      /\ \A i \in 1..Len(c) : Append(c, b)[i] = c[i]
      /\ Append(c, b)[Len(c) + 1] = b
  BY AppendedSeq
<1>2. IsBlockValid(b, c[Len(c)])
  BY GeneratedValid
<1> HIDE DEF b
<1>3. ASSUME NEW i \in 1..(Len(Append(c, b)) - 1)
      PROVE  IsBlockValid(Append(c, b)[i + 1], Append(c, b)[i])
  <2>1. CASE i = Len(c)
    BY <1>1, <1>2, <2>1
  <2>2. CASE i # Len(c)
    <3>1. i \in 1..(Len(c) - 1) /\ i \in 1..Len(c) /\ i + 1 \in 1..Len(c)
      BY <1>1, <2>2
    <3>2. IsBlockValid(c[i + 1], c[i])
      BY <3>1 DEF Linked
    <3> QED
      BY <1>1, <3>1, <3>2
  <2> QED
    BY <2>1, <2>2
<1> QED
  BY <1>3 DEF Linked, b

(* And when it is cut.                                                     *)
LEMMA LinkedPrefix ==
  ASSUME NEW c, IsSeq(c), Linked(c), NEW k \in 0..Len(c)
  PROVE  Linked(Prefix(c, k))
<1>1. /\ Len(c) \in Nat /\ Len(Prefix(c, k)) = k
      /\ \A i \in 1..k : Prefix(c, k)[i] = c[i]
  BY PrefixSeq
<1> HIDE DEF Prefix
<1>2. ASSUME NEW i \in 1..(Len(Prefix(c, k)) - 1)
      PROVE  IsBlockValid(Prefix(c, k)[i + 1], Prefix(c, k)[i])
  <2>1. i \in 1..(Len(c) - 1) /\ i \in 1..k /\ i + 1 \in 1..k
    BY <1>1
  <2>2. IsBlockValid(c[i + 1], c[i])
    BY <2>1 DEF Linked
  <2> QED
    BY <1>1, <2>1, <2>2
<1> QED
  BY <1>2 DEF Linked

LEMMA GenesisLinked ==
  /\ IsSeq(<<GenesisBlock>>) /\ Linked(<<GenesisBlock>>)
  /\ Len(<<GenesisBlock>>) = 1 /\ <<GenesisBlock>> # << >>
  /\ <<GenesisBlock>>[1] = GenesisBlock
  /\ GenesisBlock.data = Genesis
<1>1. <<GenesisBlock>> \in Seq({GenesisBlock})
  OBVIOUS
<1>2. IsSeq(<<GenesisBlock>>)
  BY <1>1, SequenceIsSeq
<1>3. Len(<<GenesisBlock>>) = 1 /\ <<GenesisBlock>>[1] = GenesisBlock
  OBVIOUS
<1>4. Linked(<<GenesisBlock>>)
  BY <1>3 DEF Linked
<1> QED
  BY <1>2, <1>3, <1>4 DEF GenesisBlock, NewBlock
--------------------------------------------------------------------------------
(* A chain from its data: what ChainOf gives is linked.                    *)
IsBlocks(f, data, n) ==
  f = [i \in 0..n |-> IF i = 0 THEN GenesisBlock
                      ELSE GenerateBlock(f[i - 1], data[i])]

LEMMA BlocksExist ==
  ASSUME NEW data, NEW n \in Nat
  PROVE  \E f : IsBlocks(f, data, n)
<1> DEFINE S == {k \in Nat : \E f : IsBlocks(f, data, k)}
<1>1. 0 \in S
  <2> DEFINE g == [i \in 0..0 |-> GenesisBlock]
  <2>1. IsBlocks(g, data, 0)
    BY DEF IsBlocks
  <2> QED
    BY <2>1
<1>2. ASSUME NEW k \in Nat, k \in S PROVE k + 1 \in S
  <2>1. PICK f : IsBlocks(f, data, k)
    BY <1>2
  <2> DEFINE g == [i \in 0..(k + 1) |-> IF i = k + 1
                                        THEN GenerateBlock(f[k], data[k + 1])
                                        ELSE f[i]]
  <2>2. ASSUME NEW i \in 0..(k + 1)
        PROVE  g[i] = IF i = 0 THEN GenesisBlock
                      ELSE GenerateBlock(g[i - 1], data[i])
    <3>1. CASE i = k + 1
      <4>1. i # 0 /\ i - 1 = k /\ k \in 0..(k + 1) /\ k # k + 1
        BY <3>1
      <4>2. g[i - 1] = f[k]
        BY <4>1
      <4> QED
        BY <3>1, <4>1, <4>2
    <3>2. CASE i # k + 1
      <4>1. i \in 0..k /\ g[i] = f[i]
        BY <3>2
      <4>2. f[i] = IF i = 0 THEN GenesisBlock ELSE GenerateBlock(f[i - 1], data[i])
        BY <2>1, <4>1 DEF IsBlocks
      <4>3. i # 0 => i - 1 \in 0..(k + 1) /\ i - 1 # k + 1
        BY <3>2
      <4>4. i # 0 => g[i - 1] = f[i - 1]
        BY <4>3
      <4> QED
        BY <4>1, <4>2, <4>4
    <3> QED
      BY <3>1, <3>2
  <2>3. IsBlocks(g, data, k + 1)
    BY <2>2 DEF IsBlocks
  <2> QED
    BY <2>3
<1>3. Nat \subseteq S
  <2> HIDE DEF S
  <2> QED
    BY <1>1, <1>2, InductionOnSet
<1> QED
  BY <1>3

LEMMA ChainOfLinked ==
  ASSUME NEW data, IsSeq(data)
  PROVE  /\ IsSeq(ChainOf(data)) /\ Linked(ChainOf(data))
         /\ ChainOf(data) # << >> /\ Len(ChainOf(data)) = Len(data) + 1
<1>1. Len(data) \in Nat
  BY SequenceIsSeq DEF IsSeq
<1> DEFINE n == Len(data)
           f == CHOOSE f : IsBlocks(f, data, n)
           c == [i \in 1..(n + 1) |-> f[i - 1]]
<1>2. IsBlocks(f, data, n)
  BY <1>1, BlocksExist
<1>3. ChainOf(data) = c
  BY DEF ChainOf, IsBlocks
<1> HIDE DEF f, n
<1>4. n \in Nat
  BY <1>1 DEF n
<1>5. IsSeq(c) /\ Len(c) = n + 1
  <2>1. n + 1 \in Nat /\ c = [i \in 1..(n + 1) |-> c[i]]
    BY <1>4
  <2> HIDE DEF c
  <2> QED
    BY <2>1, FunctionIsSeq
<1>6. ASSUME NEW i \in 1..(Len(c) - 1) PROVE IsBlockValid(c[i + 1], c[i])
  <2>1. /\ i \in 0..n /\ i # 0 /\ i \in 1..(n + 1) /\ i + 1 \in 1..(n + 1)
        /\ (i + 1) - 1 = i
    BY <1>4, <1>5
  <2>2. c[i + 1] = f[i] /\ c[i] = f[i - 1]
    BY <2>1
  <2>3. f[i] = GenerateBlock(f[i - 1], data[i])
    BY <1>2, <2>1 DEF IsBlocks
  <2> QED
    BY <2>2, <2>3, GeneratedValid
<1>7. c # << >>
  <2> HIDE DEF c
  <2> QED
    BY <1>4, <1>5, NotEmpty
<1> QED
  BY <1>3, <1>5, <1>6, <1>7 DEF Linked, n
================================================================================
