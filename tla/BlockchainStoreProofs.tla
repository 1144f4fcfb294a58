------------------------- MODULE BlockchainStoreProofs -------------------------
(***************************************************************************)
(* Proofs about BlockchainStore for any number of goroutines with any      *)
(* operations, any slack of the backing arrays and any initial chain.      *)
(***************************************************************************)
EXTENDS BlockchainStore, ChainProofs

--------------------------------------------------------------------------------
(* Types the module's own invariant leaves open.  A chain is never empty.  *)
GoodChain(c) == IsSeq(c) /\ c # << >>

GoodArray(a) == /\ a = [cells |-> a.cells, cap |-> a.cap]
                /\ GoodChain(a.cells)
                /\ a.cap \in Nat /\ Len(a.cells) <= a.cap

GoodArrays(as) == IsSeq(as) /\ \A i \in 1..Len(as) : GoodArray(as[i])

(* A slice of the backing arrays as, what it holds, and one with no cell   *)
(* of its array behind it.                                                 *)
GoodSlice(as, s) == \/ s = Nil
                    \/ /\ s = [array |-> s.array, len |-> s.len]
                       /\ s.array \in 1..Len(as)
                       /\ s.len \in 1..Len(as[s.array].cells)

Held(as, s) == IF s = Nil THEN << >> ELSE Prefix(as[s.array].cells, s.len)

Full(as, s) == s # Nil => s.len = Len(as[s.array].cells)

NoChain == {NoFile, Empty, Null, Torn}

GoodFile(f) == f \in NoChain \/ (f = File(f.chain) /\ GoodChain(f.chain))

Steps(w) == {"idle", "done"} \cup
            CASE Job[w] = "add"   -> {"load", "fetch", "install", "use", "append",
                                      "truncate", "encode", "write"}
              [] Job[w] = "read"  -> {"load", "fetch", "install", "use",
                                      "truncate", "encode", "write"}
              [] Job[w] = "clear" -> {"scan", "truncate", "write"}

AllSteps == {"idle", "load", "fetch", "install", "use", "append", "truncate",
             "encode", "write", "scan", "done"}

Basics == /\ loaded \in BOOLEAN /\ down \in BOOLEAN
          /\ pc \in [Workers -> AllSteps]
          /\ holder \subseteq Workers
          /\ added \subseteq Workers
          /\ failed \subseteq Workers

MemType == GoodArrays(arrays) /\ GoodSlice(arrays, mem) /\ GoodFile(file)

CallType == /\ slice = [w \in Workers |-> slice[w]]
            /\ lastBlock = [w \in Workers |-> lastBlock[w]]
            /\ buffer = [w \in Workers |-> buffer[w]]
            /\ \A w \in Workers : /\ GoodSlice(arrays, slice[w])
                                  /\ GoodFile(buffer[w])
                                  /\ pc[w] \in Steps(w)
                                  /\ pc[w] = "append" => slice[w] # Nil \/ down
                                  /\ pc[w] = "install" =>
                                       buffer[w] \notin {Empty, Torn}

Types == Basics /\ MemType /\ CallType

(* As long as nothing is cleared the entry has a chain whenever AddBlock   *)
(* takes its last block.                                                   *)
HasEntry(w) == \/ pc[w] \in {"append", "truncate", "encode", "write"}
               \/ pc[w] = "use" /\ Job[w] = "add"

EntryInv == /\ ~down
            /\ file # Null /\ \A w \in Workers : buffer[w] # Null
            /\ loaded => mem # Nil
            /\ \A w \in Workers : HasEntry(w) => loaded

(* With gossipMutex one add is under way at a time, and appends are made   *)
(* at the end of what a backing array holds.                               *)
MutexInv == /\ \A w \in Workers :
                 Job[w] = "add" /\ pc[w] \notin {"idle", "done"} => w \in holder
            /\ \A v, w \in holder : v = w

Memory == Held(arrays, mem)

LinkInv == /\ Full(arrays, mem)
           /\ \A w \in Workers : pc[w] = "append" /\ slice[w] # Nil =>
                /\ Full(arrays, slice[w])
                /\ lastBlock[w] = Held(arrays, slice[w])[slice[w].len]
           /\ \A i \in 1..Len(arrays) : Linked(arrays[i].cells)
           /\ Linked(file.chain)
           /\ \A w \in Workers : Linked(buffer[w].chain)

(* And as long as nothing is cleared: only a room without a file is loaded *)
(* a second time, by the add that makes it; nobody else saves meanwhile.   *)
LoadInv ==
  /\ ~loaded => file \in {NoFile, Empty, Torn}
  /\ file = NoFile => /\ added = {}
                      /\ \A w \in Workers :
                           pc[w] \notin {"idle", "done"} => Job[w] = "add"
  /\ \A w \in Workers :
       /\ pc[w] = "fetch" => ~loaded
       /\ pc[w] = "install" => ~loaded /\ file = NoFile /\ buffer[w] = NoFile
       /\ pc[w] \in {"truncate", "encode", "write"} => Job[w] = "add"
       /\ pc[w] \in {"idle", "load", "fetch", "install", "use"} => slice[w] = Nil
       /\ pc[w] = "append" => slice[w] = mem
       /\ pc[w] \in {"encode", "write"} => file = Empty
       /\ pc[w] = "write" => buffer[w] = File(Memory)

(* A file that lacks the end of the chain in memory, blocks of S only.     *)
Behind(f, chain, S) ==
  /\ Len(f.chain) <= Len(chain)
  /\ Prefix(chain, Len(f.chain)) = f.chain
  /\ f = NoFile => S # {}
  /\ \A i \in (Len(f.chain) + 1)..Len(chain) :
       chain[i].data.kind = "CHAT_MSG" => chain[i].data.about \in S

Truncating == {w \in Workers : pc[w] = "truncate"}

Follows == \/ /\ file \in {Empty, Torn}
              /\ failed # {} \/ \E w \in Workers : pc[w] \in {"encode", "write"}
           \/ Behind(file, Memory, failed \cup Truncating)

AddInv ==
  /\ \A w \in Workers : pc[w] \in {"truncate", "encode", "write"} /\ slice[w] # Nil =>
       w \in Chats(Memory)
  /\ loaded => added \subseteq Chats(Memory)
  /\ file.kind = "chain" => added \subseteq Chats(file.chain)
  /\ loaded => Follows

Inv == /\ Types
       /\ NothingCleared => EntryInv
       /\ Serialized => MutexInv /\ LinkInv
       /\ Serialized /\ NothingCleared => LoadInv /\ AddInv
--------------------------------------------------------------------------------
(* Slices and backing arrays.                                              *)

LEMMA NilHeld ==
  ASSUME NEW as
  PROVE  /\ GoodSlice(as, Nil) /\ Full(as, Nil) /\ Held(as, Nil) = << >>
         /\ IsSeq(Held(as, Nil)) /\ Len(Held(as, Nil)) = 0
<1>1. IsSeq(<< >>) /\ Len(<< >>) = 0
  BY EmptySeq DEF IsSeq
<1> QED
  BY <1>1 DEF GoodSlice, Full, Held

LEMMA SliceHeld ==
  ASSUME NEW as, GoodArrays(as), NEW s, GoodSlice(as, s), s # Nil
  PROVE  /\ s.array \in 1..Len(as) /\ s.array \in Nat /\ s.array # 0
         /\ s.len \in 1..Len(as[s.array].cells) /\ s.len \in Nat /\ s.len # 0
         /\ GoodArray(as[s.array])
         /\ GoodChain(Held(as, s)) /\ Len(Held(as, s)) = s.len
         /\ Held(as, s)[s.len] = as[s.array].cells[s.len]
         /\ Full(as, s) => Held(as, s) = as[s.array].cells
<1> DEFINE c == as[s.array].cells
<1>1. s.array \in 1..Len(as) /\ s.len \in 1..Len(c)
  BY DEF GoodSlice
<1>2. GoodArray(as[s.array]) /\ IsSeq(c) /\ Len(as) \in Nat
  BY <1>1, NotEmpty DEF GoodArrays, GoodArray, GoodChain
<1>3. Held(as, s) = Prefix(c, s.len)
  BY DEF Held
<1>4. Full(as, s) => s.len = Len(c)
  BY DEF Full
<1> HIDE DEF c
<1>5. Len(c) \in Nat /\ s.len \in 0..Len(c) /\ s.len \in Nat /\ s.len # 0
      /\ s.len \in 1..s.len
  BY <1>1, <1>2, NotEmpty
<1>6. /\ IsSeq(Held(as, s)) /\ Len(Held(as, s)) = s.len
      /\ Held(as, s)[s.len] = c[s.len]
  BY <1>2, <1>3, <1>5, PrefixSeq
<1>7. Full(as, s) => Held(as, s) = c
  BY <1>2, <1>3, <1>4, WholePrefix
<1>8. Held(as, s) # << >>
  BY <1>5, <1>6, NotEmpty
<1>9. s.array \in Nat /\ s.array # 0
  <2>1. Len(as) \in Nat
    BY <1>2
  <2>2. \A x \in 1..Len(as) : x \in Nat /\ x # 0
    BY <2>1
  <2> QED
    BY <1>1, <2>2
<1>10. GoodChain(Held(as, s))
  BY <1>6, <1>8 DEF GoodChain
<1> QED
  BY <1>1, <1>2, <1>5, <1>6, <1>7, <1>9, <1>10 DEF c

LEMMA OneMore ==
  ASSUME NEW n \in Nat
  PROVE  /\ n + 1 # 0 /\ n + 1 \in 1..(n + 1)
         /\ \A i \in 1..(n + 1) : i \in 1..n \/ i = n + 1
         /\ \A i \in 1..n : i \in 1..(n + 1)
OBVIOUS

Appended(as, a, bs) == bs = Append(as, a)

(* A new backing array leaves the slices of the others alone.              *)
LEMMA ArrayAdded ==
  ASSUME NEW as, GoodArrays(as), NEW a, GoodArray(a), NEW bs, Appended(as, a, bs)
  PROVE  /\ GoodArrays(bs) /\ Len(as) \in Nat /\ Len(bs) = Len(as) + 1
         /\ bs[Len(as) + 1] = a
         /\ \A i \in 1..Len(as) : bs[i] = as[i]
         /\ \A i \in 1..Len(bs) : bs[i] = a \/ \E j \in 1..Len(as) : bs[i] = as[j]
         /\ \A s : GoodSlice(as, s) => /\ GoodSlice(bs, s)
                                       /\ Held(bs, s) = Held(as, s)
                                       /\ Full(as, s) => Full(bs, s)
         /\ \A s : s = [array |-> Len(as) + 1, len |-> Len(a.cells)] =>
                     /\ s # Nil /\ GoodSlice(bs, s) /\ Full(bs, s)
                     /\ Held(bs, s) = a.cells
<1>1. /\ IsSeq(bs) /\ Len(as) \in Nat /\ Len(bs) = Len(as) + 1
      /\ bs[Len(as) + 1] = a
      /\ \A i \in 1..Len(as) : bs[i] = as[i]
  BY AppendedSeq DEF GoodArrays, Appended
<1>2. /\ \A i \in 1..Len(bs) : i \in 1..Len(as) \/ i = Len(as) + 1
      /\ Len(as) + 1 \in 1..Len(bs) /\ Len(as) + 1 # 0
      /\ \A i \in 1..Len(as) : i \in 1..Len(bs)
  BY <1>1, OneMore
<1>3. \A i \in 1..Len(bs) : bs[i] = a \/ \E j \in 1..Len(as) : bs[i] = as[j]
  BY <1>1, <1>2
<1>4. GoodArrays(bs)
  BY <1>1, <1>3 DEF GoodArrays
<1>5. ASSUME NEW s, GoodSlice(as, s)
      PROVE  /\ GoodSlice(bs, s) /\ Held(bs, s) = Held(as, s)
             /\ Full(as, s) => Full(bs, s)
  <2>1. CASE s = Nil
    BY <2>1 DEF GoodSlice, Held, Full
  <2>2. CASE s # Nil
    <3>1. s.array \in 1..Len(as)
      BY <1>5, <2>2 DEF GoodSlice
    <3>2. s.array \in 1..Len(bs) /\ bs[s.array] = as[s.array]
      BY <1>1, <1>2, <3>1
    <3> QED
      BY <1>5, <2>2, <3>2 DEF GoodSlice, Held, Full
  <2> QED
    BY <2>1, <2>2
<1>6. ASSUME NEW s, s = [array |-> Len(as) + 1, len |-> Len(a.cells)]
      PROVE  /\ s # Nil /\ GoodSlice(bs, s) /\ Full(bs, s) /\ Held(bs, s) = a.cells
  <2>1. s.array = Len(as) + 1 /\ s.len = Len(a.cells) /\ s = [array |-> s.array, len |-> s.len]
    BY <1>6
  <2>2. s # Nil
    <3>1. s.array # 0 /\ Nil.array = 0
      BY <1>2, <2>1 DEF Nil
    <3> QED
      BY <3>1
  <2>3. IsSeq(a.cells) /\ Len(a.cells) \in 1..Len(a.cells)
    <3>1. Len(a.cells) \in Nat /\ Len(a.cells) # 0
      BY NotEmpty DEF GoodArray, GoodChain
    <3> QED
      BY <3>1 DEF GoodArray, GoodChain
  <2>4. s.array \in 1..Len(bs) /\ bs[s.array] = a
    BY <1>1, <1>2, <2>1
  <2>5. GoodSlice(bs, s) /\ Full(bs, s)
    BY <2>1, <2>3, <2>4 DEF GoodSlice, Full
  <2>6. Held(bs, s) = bs[s.array].cells
    BY <1>4, <2>2, <2>5, SliceHeld
  <2> QED
    BY <2>2, <2>4, <2>5, <2>6
<1> QED
  BY <1>1, <1>3, <1>4, <1>5, <1>6

(* Cell n of a chain written over, or behind its end.                      *)
Written(c, n, b) == [i \in 1..n |-> IF i = n THEN b ELSE c[i]] \o SubSeq(c, n + 1, Len(c))

LEMMA CellWritten ==
  ASSUME NEW c, IsSeq(c), NEW n \in 1..(Len(c) + 1), NEW b
  PROVE  /\ GoodChain(Written(c, n, b))
         /\ Len(Written(c, n, b)) = IF n > Len(c) THEN n ELSE Len(c)
         /\ n = Len(c) + 1 => Written(c, n, b) = Append(c, b)
<1> DEFINE S == {c[i] : i \in 1..Len(c)} \cup {b}
           d == [i \in 1..n |-> IF i = n THEN b ELSE c[i]]
           e == SubSeq(c, n + 1, Len(c))
<1>1. Len(c) \in Nat /\ n \in Nat /\ n # 0
  BY NotEmpty
<1>2. d \in [1..n -> S]
  <2>1. \A i \in 1..n : i = n \/ i \in 1..Len(c)
    BY <1>1
  <2> QED
    BY <2>1
<1>3. \A i \in (n + 1)..Len(c) : c[i] \in S
  BY <1>1
<1> HIDE DEF S
<1>4. d \in Seq(S) /\ Len(d) = n
  <2>1. d \in Seq(S)
    BY <1>1, <1>2, SeqDef
  <2>2. d = [i \in 1..n |-> d[i]]
    BY <1>2
  <2> HIDE DEF d
  <2> QED
    BY <1>1, <2>1, <2>2, FunctionIsSeq
<1>5. e \in Seq(S) /\ Len(e) = IF n + 1 <= Len(c) THEN Len(c) - (n + 1) + 1 ELSE 0
  BY <1>1, <1>3, SubSeqProperties
<1>6. Written(c, n, b) = d \o e
  BY DEF Written
<1>7. n = Len(c) + 1 => d = Append(c, b)
  <2> SUFFICES ASSUME n = Len(c) + 1 PROVE d = Append(c, b)
    OBVIOUS
  <2>1. /\ IsSeq(Append(c, b)) /\ Len(Append(c, b)) = n
        /\ \A i \in 1..Len(c) : Append(c, b)[i] = c[i]
        /\ Append(c, b)[n] = b
    BY AppendedSeq
  <2>2. \A i \in 1..n : d[i] = Append(c, b)[i]
    <3>1. \A i \in 1..n : i = n \/ (i \in 1..Len(c) /\ i # n)
      BY <1>1
    <3> QED
      BY <2>1, <3>1
  <2>3. IsSeq(d)
    BY <1>4, SequenceIsSeq
  <2> HIDE DEF d
  <2> QED
    BY <1>4, <2>1, <2>2, <2>3, SameSeq
<1>8. n = Len(c) + 1 => e = << >>
  BY <1>1, SubSeqEmpty
<1> HIDE DEF d, e
<1>9. d \o e \in Seq(S) /\ Len(d \o e) = Len(d) + Len(e)
  BY <1>4, <1>5, ConcatProperties
<1>10. Len(d \o e) = IF n > Len(c) THEN n ELSE Len(c)
  BY <1>1, <1>4, <1>5, <1>9
<1>11. d \o << >> = d
  BY <1>4, ConcatEmptySeq
<1>12. IsSeq(d \o e)
  BY <1>9, SequenceIsSeq
<1>13. d \o e # << >>
  <2>1. Len(d \o e) # 0
    BY <1>1, <1>10
  <2> QED
    BY <1>12, <2>1, NotEmpty
<1> QED
  BY <1>6, <1>7, <1>8, <1>10, <1>11, <1>12, <1>13 DEF GoodChain

(* append in place: the slice grows by the cell behind it.                 *)
Grown(s) == [array |-> s.array, len |-> s.len + 1]

CellFree(as, s) == s.len < as[s.array].cap

AppendedInPlace(as, s, b, bs) ==
  bs = [as EXCEPT ![s.array].cells = Written(as[s.array].cells, s.len + 1, b)]

LEMMA InPlace ==
  ASSUME NEW as, GoodArrays(as), NEW s, GoodSlice(as, s), s # Nil,
         CellFree(as, s), NEW b, NEW bs, AppendedInPlace(as, s, b, bs)
  PROVE  /\ GoodArrays(bs) /\ Len(bs) = Len(as)
         /\ Grown(s) # Nil /\ GoodSlice(bs, Grown(s))
         /\ \A t : GoodSlice(as, t) => GoodSlice(bs, t)
         /\ Full(as, s) =>
              /\ Full(bs, Grown(s))
              /\ Held(bs, Grown(s)) = Append(Held(as, s), b)
              /\ \A t : GoodSlice(as, t) => Held(bs, t) = Held(as, t)
         /\ \A i \in 1..Len(as) : i # s.array => bs[i] = as[i]
<1> DEFINE c == as[s.array].cells
           k == as[s.array].cap
           n == s.len
           d == Written(c, n + 1, b)
<1>1. s.array \in 1..Len(as) /\ s.array \in Nat /\ s.array # 0 /\ GoodArray(as[s.array])
  BY SliceHeld
<1>2. n \in Nat /\ n \in 1..Len(c) /\ n < k
  BY SliceHeld DEF CellFree
<1>3. Full(as, s) => Held(as, s) = c
  BY SliceHeld
<1>4. IsSeq(c) /\ Len(c) \in Nat /\ Len(c) <= k /\ k \in Nat
  BY <1>1, NotEmpty DEF GoodArray, GoodChain
<1>5. IsSeq(as) /\ Len(as) \in Nat /\ as = [i \in 1..Len(as) |-> as[i]]
  BY SequenceIsSeq DEF GoodArrays, IsSeq
<1>6. as[s.array] = [cells |-> c, cap |-> k]
  BY <1>1 DEF GoodArray
<1>7. AppendedInPlace(as, s, b, bs) => bs = [as EXCEPT ![s.array].cells = d]
  BY DEF AppendedInPlace
<1> HIDE DEF c, k, n
<1>8. n + 1 \in 1..(Len(c) + 1)
  BY <1>2, <1>4
<1>9. /\ GoodChain(d) /\ Len(d) = IF n + 1 > Len(c) THEN n + 1 ELSE Len(c)
      /\ n + 1 = Len(c) + 1 => d = Append(c, b)
  BY <1>4, <1>8, CellWritten
<1> HIDE DEF d
<1>10. /\ Len(d) \in Nat /\ Len(c) <= Len(d) /\ n + 1 \in 1..Len(d) /\ Len(d) <= k
       /\ n = Len(c) => Len(d) = n + 1
  BY <1>2, <1>4, <1>9
<1>11. /\ bs = [i \in 1..Len(as) |-> bs[i]]
       /\ \A i \in 1..Len(as) : i # s.array => bs[i] = as[i]
       /\ bs[s.array] = [cells |-> d, cap |-> k]
  <2> DEFINE a == [as[s.array] EXCEPT !.cells = d]
  <2>1. bs = [as EXCEPT ![s.array] = a]
    BY <1>7
  <2>2. a = [[cells |-> c, cap |-> k] EXCEPT !.cells = d]
    BY <1>6
  <2>3. [[cells |-> c, cap |-> k] EXCEPT !.cells = d] = [cells |-> d, cap |-> k]
    OBVIOUS
  <2>4. DOMAIN as = 1..Len(as)
    BY <1>5
  <2> HIDE DEF a
  <2>5. a = [cells |-> d, cap |-> k]
    BY <2>2, <2>3
  <2> QED
    BY <1>1, <2>1, <2>4, <2>5
<1>12. bs[s.array].cells = d /\ bs[s.array].cap = k
  <2>1. bs[s.array] = [cells |-> d, cap |-> k]
    BY <1>11
  <2>2. [cells |-> d, cap |-> k].cells = d /\ [cells |-> d, cap |-> k].cap = k
    OBVIOUS
  <2> QED
    BY <2>1, <2>2, Zenon
<1>13. IsSeq(bs) /\ Len(bs) = Len(as)
  BY <1>5, <1>11, FunctionIsSeq
<1>14. GoodArray(bs[s.array])
  <2>1. bs[s.array] = [cells |-> bs[s.array].cells, cap |-> bs[s.array].cap]
    BY <1>11, <1>12
  <2> QED
    BY <1>4, <1>9, <1>10, <1>12, <2>1 DEF GoodArray
<1>15. GoodArrays(bs)
  <2>1. \A i \in 1..Len(as) : i # s.array => GoodArray(bs[i])
    BY <1>11 DEF GoodArrays
  <2> QED
    BY <1>13, <1>14, <2>1 DEF GoodArrays
<1>16. Grown(s).array = s.array /\ Grown(s).len = n + 1
       /\ Grown(s) = [array |-> Grown(s).array, len |-> Grown(s).len]
  BY DEF Grown, n
<1>17. Grown(s) # Nil /\ GoodSlice(bs, Grown(s))
  <2>1. Grown(s) # Nil
    BY <1>1, <1>16 DEF Nil
  <2> QED
    BY <1>1, <1>10, <1>12, <1>13, <1>16, <2>1 DEF GoodSlice
<1>18. ASSUME NEW t, GoodSlice(as, t) PROVE GoodSlice(bs, t)
  <2>1. CASE t = Nil
    BY <2>1 DEF GoodSlice
  <2>2. CASE t # Nil
    <3>1. /\ t = [array |-> t.array, len |-> t.len] /\ t.array \in 1..Len(bs)
          /\ t.len \in 1..Len(as[t.array].cells)
      BY <1>13, <1>18, <2>2 DEF GoodSlice
    <3>2. t.array = s.array => t.len \in 1..Len(bs[t.array].cells)
      <4>1. t.array = s.array => t.len \in 1..Len(c)
        BY <3>1 DEF c
      <4>2. t.len \in 1..Len(c) => t.len \in 1..Len(d)
        BY <1>4, <1>10
      <4> QED
        BY <1>12, <4>1, <4>2
    <3>3. t.array # s.array => t.len \in 1..Len(bs[t.array].cells)
      BY <1>11, <1>13, <3>1
    <3> QED
      BY <3>1, <3>2, <3>3 DEF GoodSlice
  <2> QED
    BY <2>1, <2>2
<1>19. ASSUME Full(as, s)
       PROVE  /\ Full(bs, Grown(s))
              /\ Held(bs, Grown(s)) = Append(Held(as, s), b)
              /\ \A t : GoodSlice(as, t) => Held(bs, t) = Held(as, t)
  <2>1. n = Len(c)
    BY <1>19 DEF Full, c, n
  <2>2. d = Append(c, b) /\ Len(d) = n + 1
    BY <1>9, <1>10, <2>1
  <2>3. Full(bs, Grown(s))
    BY <1>12, <1>16, <2>2 DEF Full
  <2>4. Held(bs, Grown(s)) = d
    <3>1. Held(bs, Grown(s)) = bs[Grown(s).array].cells
      BY <1>15, <1>17, <2>3, SliceHeld
    <3> QED
      BY <1>12, <1>16, <3>1
  <2>5. Held(bs, Grown(s)) = Append(Held(as, s), b)
    BY <1>3, <1>19, <2>2, <2>4
  <2>6. ASSUME NEW t, GoodSlice(as, t) PROVE Held(bs, t) = Held(as, t)
    <3>1. CASE t = Nil
      BY <3>1 DEF Held
    <3>2. CASE t # Nil
      <4>1. t.array \in 1..Len(as) /\ t.len \in 1..Len(as[t.array].cells)
        BY <2>6, <3>2 DEF GoodSlice
      <4>2. CASE t.array # s.array
        BY <1>11, <4>1, <4>2 DEF Held
      <4>3. CASE t.array = s.array
        <5>1. t.len \in 1..Len(c)
          BY <4>1, <4>3 DEF c
        <5>2. t.len \in 0..Len(c)
          BY <1>4, <5>1
        <5>3. Prefix(d, t.len) = Prefix(c, t.len)
          BY <1>4, <2>2, <5>2, PrefixOfAppended
        <5>4. bs[t.array].cells = d /\ as[t.array].cells = c
          BY <1>12, <4>3 DEF c
        <5> QED
          BY <3>2, <5>3, <5>4 DEF Held
      <4> QED
        BY <4>2, <4>3
    <3> QED
      BY <3>1, <3>2
  <2> QED
    BY <2>3, <2>5, <2>6
<1> QED
  BY <1>11, <1>13, <1>15, <1>17, <1>18, <1>19
--------------------------------------------------------------------------------
(* Files, goroutines and what the module's own invariant says of types.    *)

LEMMA FileKinds ==
  ASSUME NEW f, GoodFile(f)
  PROVE  /\ f.kind = "absent" <=> f = NoFile
         /\ f.kind = "empty" <=> f = Empty
         /\ f.kind = "null" <=> f = Null
         /\ f.kind = "torn" <=> f = Torn
         /\ f.kind = "chain" <=> f \notin NoChain
         /\ f.kind \in {"absent", "empty", "null", "torn", "chain"}
         /\ f \in NoChain => f.chain = << >> /\ Len(f.chain) = 0 /\ Linked(f.chain)
         /\ f \notin NoChain => f = File(f.chain) /\ GoodChain(f.chain)
         /\ IsSeq(f.chain) /\ Len(f.chain) \in Nat
<1>1. IsSeq(<< >>) /\ Len(<< >>) = 0
  BY EmptySeq DEF IsSeq
<1>2. Linked(<< >>)
  BY <1>1 DEF Linked
<1>3. /\ NoFile.kind = "absent" /\ Empty.kind = "empty" /\ Null.kind = "null"
      /\ Torn.kind = "torn"
      /\ NoFile.chain = << >> /\ Empty.chain = << >> /\ Null.chain = << >>
      /\ Torn.chain = << >>
  BY DEF NoFile, Empty, Null, Torn
<1>4. CASE f \in NoChain
  BY <1>1, <1>2, <1>3, <1>4 DEF NoChain
<1>5. CASE f \notin NoChain
  <2>1. f = File(f.chain) /\ GoodChain(f.chain)
    BY <1>5 DEF GoodFile
  <2>2. f.kind = "chain"
    BY <2>1 DEF File
  <2>3. Len(f.chain) \in Nat
    BY <2>1, NotEmpty DEF GoodChain
  <2> QED
    BY <1>3, <1>5, <2>1, <2>2, <2>3 DEF NoChain, GoodChain
<1> QED
  BY <1>4, <1>5

LEMMA ChainFile ==
  ASSUME NEW c, GoodChain(c)
  PROVE  /\ GoodFile(File(c)) /\ File(c).chain = c /\ File(c).kind = "chain"
         /\ File(c) \notin NoChain
BY DEF File, GoodFile, NoChain, NoFile, Empty, Null, Torn

LEMMA StepsOf ==
  ASSUME NEW w \in Workers
  PROVE  /\ Job[w] \in {"add", "read", "clear"}
         /\ Job[w] = "add" =>
              Steps(w) = {"idle", "done", "load", "fetch", "install", "use", "append",
                          "truncate", "encode", "write"}
         /\ Job[w] = "read" =>
              Steps(w) = {"idle", "done", "load", "fetch", "install", "use",
                          "truncate", "encode", "write"}
         /\ Job[w] = "clear" => Steps(w) = {"idle", "done", "scan", "truncate", "write"}
<1>1. Job[w] \in {"add", "read", "clear"}
  BY StoreAssumption
<1> QED
  BY <1>1 DEF Steps

(* One goroutine goes on.                                                  *)
LEMMA Moved ==
  ASSUME Types, NEW w \in Workers, NEW step \in Steps(w), Goto(w, step)
  PROVE  /\ pc' \in [Workers -> AllSteps]
         /\ pc'[w] = step
         /\ \A v \in Workers : v # w => pc'[v] = pc[v]
         /\ \A v \in Workers : pc'[v] \in Steps(v)
         /\ step # "idle" /\ NothingCleared' => NothingCleared /\ Job[w] # "clear"
<1>1. pc' = [pc EXCEPT ![w] = step]
  BY DEF Goto
<1>2. step \in AllSteps
  BY StepsOf DEF AllSteps
<1>3. pc' \in [Workers -> AllSteps]
  BY <1>1, <1>2 DEF Types, Basics
<1>4. pc'[w] = step /\ \A v \in Workers : v # w => pc'[v] = pc[v]
  BY <1>1 DEF Types, Basics
<1>5. \A v \in Workers : pc'[v] \in Steps(v)
  BY <1>4 DEF Types, CallType
<1>6. step # "idle" /\ NothingCleared' => NothingCleared /\ Job[w] # "clear"
  BY <1>4 DEF NothingCleared
<1> QED
  BY <1>3, <1>4, <1>5, <1>6

LEMMA TypesOK == Types => TypeOK
<1> SUFFICES ASSUME Types PROVE TypeOK
  OBVIOUS
<1>1. ASSUME NEW s, GoodSlice(arrays, s) PROVE s.array \in 0..Len(arrays)
  <2>1. Len(arrays) \in Nat
    BY NotEmpty DEF Types, MemType, GoodArrays
  <2>2. CASE s = Nil
    BY <2>1, <2>2 DEF Nil
  <2>3. CASE s # Nil
    <3>1. s.array \in 1..Len(arrays)
      BY <1>1, <2>3 DEF GoodSlice
    <3> QED
      BY <2>1, <3>1
  <2> QED
    BY <2>2, <2>3
<1>2. \A i \in 1..Len(arrays) : Len(arrays[i].cells) <= arrays[i].cap
  BY DEF Types, MemType, GoodArrays, GoodArray
<1>3. file.kind \in {"absent", "empty", "null", "torn", "chain"}
  BY FileKinds DEF Types, MemType
<1>4. mem.array \in 0..Len(arrays) /\ \A w \in Workers : slice[w].array \in 0..Len(arrays)
  BY <1>1 DEF Types, MemType, CallType
<1> QED
  BY <1>2, <1>3, <1>4 DEF TypeOK, Types, Basics, AllSteps
--------------------------------------------------------------------------------
(* The initial states.                                                     *)
LEMMA OneArray ==
  ASSUME NEW a, GoodArray(a)
  PROVE  /\ GoodArrays(<<a>>) /\ Len(<<a>>) = 1 /\ <<a>>[1] = a
         /\ \A s : s = [array |-> 1, len |-> Len(a.cells)] =>
              /\ s # Nil /\ GoodSlice(<<a>>, s) /\ Full(<<a>>, s)
              /\ Held(<<a>>, s) = a.cells
<1>1. IsSeq(<<a>>) /\ Len(<<a>>) = 1 /\ <<a>>[1] = a
  <2>1. <<a>> \in Seq({a}) /\ Len(<<a>>) = 1 /\ <<a>>[1] = a
    OBVIOUS
  <2> QED
    BY <2>1, SequenceIsSeq
<1>2. GoodArrays(<<a>>)
  BY <1>1 DEF GoodArrays
<1>3. ASSUME NEW s, s = [array |-> 1, len |-> Len(a.cells)]
      PROVE  s # Nil /\ GoodSlice(<<a>>, s) /\ Full(<<a>>, s) /\ Held(<<a>>, s) = a.cells
  <2>1. s.array = 1 /\ s.len = Len(a.cells) /\ s = [array |-> s.array, len |-> s.len]
    BY <1>3
  <2>2. Len(a.cells) \in Nat /\ Len(a.cells) # 0
    BY NotEmpty DEF GoodArray, GoodChain
  <2>3. Len(a.cells) \in 1..Len(a.cells)
    BY <2>2
  <2>4. s # Nil
    BY <2>1 DEF Nil
  <2>5. 1 \in 1..Len(<<a>>)
    BY <1>1
  <2>6. GoodSlice(<<a>>, s) /\ Full(<<a>>, s)
    BY <1>1, <2>1, <2>3, <2>5 DEF GoodSlice, Full
  <2>7. Held(<<a>>, s) = <<a>>[s.array].cells
    BY <1>2, <2>4, <2>6, SliceHeld
  <2> QED
    BY <1>1, <2>1, <2>4, <2>6, <2>7
<1> QED
  BY <1>1, <1>2, <1>3

LEMMA NewArray ==
  ASSUME NEW c, GoodChain(c), NEW spare \in 0..Spare, NEW n, n = Len(c),
         NEW a, a = [cells |-> c, cap |-> n + spare]
  PROVE  GoodArray(a) /\ a.cells = c /\ n \in Nat /\ n # 0
<1>1. /\ a.cells = c /\ a.cap = n + spare /\ a = [cells |-> a.cells, cap |-> a.cap]
  OBVIOUS
<1>2. Len(c) \in Nat /\ Len(c) # 0 /\ spare \in Nat
  BY NotEmpty, StoreAssumption DEF GoodChain
<1>3. n + spare \in Nat /\ Len(c) <= n + spare
  BY <1>2
<1> QED
  BY <1>1, <1>2, <1>3 DEF GoodArray

(* The same chain in memory and on file.                                   *)
LEMMA NotBehind ==
  ASSUME NEW c, GoodChain(c), NEW S
  PROVE  Behind(File(c), c, S)
<1>1. Len(c) \in Nat /\ Prefix(c, Len(c)) = c
  BY NotEmpty, WholePrefix DEF GoodChain
<1>2. File(c).chain = c /\ File(c) # NoFile
  BY ChainFile DEF NoChain
<1>3. Len(c) <= Len(c) /\ \A i \in (Len(c) + 1)..Len(c) : FALSE
  BY <1>1
<1> QED
  BY <1>1, <1>2, <1>3 DEF Behind

LEMMA InitInv == Init => Inv
<1> SUFFICES ASSUME Init PROVE Inv
  OBVIOUS
<1> DEFINE c == ChainOf(InitialData)
<1>1. GoodChain(c) /\ Linked(c)
  <2>1. IsSeq(InitialData)
    <3>1. InitialData \in Seq({InitialData[i] : i \in DOMAIN InitialData})
      BY StoreAssumption
    <3> QED
      BY <3>1, SequenceIsSeq
  <2> QED
    BY <2>1, ChainOfLinked DEF GoodChain
<1> HIDE DEF c
<1>2. PICK fresh \in Fresh, spare \in 0..Spare :
        /\ loaded = ~fresh
        /\ mem = IF fresh THEN Nil ELSE [array |-> 1, len |-> Len(c)]
        /\ arrays = IF fresh THEN << >> ELSE <<[cells |-> c, cap |-> Len(c) + spare]>>
        /\ file = IF fresh THEN NoFile ELSE File(c)
  BY DEF Init, c
<1>3. fresh \in BOOLEAN
  BY StoreAssumption
<1>4. /\ pc = [w \in Workers |-> "idle"]
      /\ slice = [w \in Workers |-> Nil]
      /\ lastBlock = [w \in Workers |-> GenesisBlock]
      /\ buffer = [w \in Workers |-> NoFile]
      /\ holder = {} /\ added = {} /\ failed = {} /\ down = FALSE
  BY DEF Init
<1>5. /\ GoodArrays(arrays) /\ GoodSlice(arrays, mem) /\ Full(arrays, mem)
      /\ GoodFile(file) /\ Linked(file.chain)
      /\ file \in {NoFile, File(c)} /\ file # Null
      /\ loaded => mem # Nil /\ Memory = c /\ file = File(c)
      /\ ~loaded => file = NoFile
      /\ file = NoFile => ~loaded
      /\ \A i \in 1..Len(arrays) : Linked(arrays[i].cells)
  <2>1. CASE fresh
    <3>1. ~loaded /\ mem = Nil /\ arrays = << >> /\ file = NoFile
      BY <1>2, <2>1
    <3>2. Len(arrays) = 0 /\ IsSeq(arrays)
      BY <3>1, EmptySeq DEF IsSeq
    <3>3. GoodFile(NoFile) /\ Linked(NoFile.chain) /\ NoFile # Null
      <4>1. NoFile \in NoChain /\ GoodFile(NoFile)
        BY DEF NoChain, GoodFile
      <4> QED
        BY <4>1, FileKinds DEF NoFile, Null
    <3> QED
      BY <3>1, <3>2, <3>3, NilHeld DEF GoodArrays
  <2>2. CASE ~fresh
    <3> DEFINE a == [cells |-> c, cap |-> Len(c) + spare]
    <3>1. loaded /\ mem = [array |-> 1, len |-> Len(c)] /\ arrays = <<a>> /\ file = File(c)
      BY <1>2, <2>2
    <3>2. GoodArray(a) /\ a.cells = c
      BY <1>1, NewArray
    <3> HIDE DEF a
    <3>3. /\ GoodArrays(arrays) /\ Len(arrays) = 1 /\ arrays[1] = a
          /\ mem # Nil /\ GoodSlice(arrays, mem) /\ Full(arrays, mem) /\ Memory = c
      BY <3>1, <3>2, OneArray DEF Memory
    <3>4. \A i \in 1..Len(arrays) : i = 1
      BY <3>3
    <3> QED
      BY <1>1, <3>1, <3>2, <3>3, <3>4, ChainFile DEF NoChain
  <2> QED
    BY <1>3, <2>1, <2>2
<1>6. GoodFile(NoFile) /\ NoFile # Null /\ Linked(NoFile.chain) /\ NoFile.kind # "chain"
  <2>1. NoFile \in NoChain /\ GoodFile(NoFile)
    BY DEF NoChain, GoodFile
  <2> QED
    BY <2>1, FileKinds DEF NoFile, Null
<1>7. Types
  <2>1. \A w \in Workers : pc[w] = "idle" /\ slice[w] = Nil /\ buffer[w] = NoFile
    BY <1>4
  <2>2. \A w \in Workers : "idle" \in Steps(w)
    BY StepsOf
  <2>3. CallType
    BY <1>4, <1>6, <2>1, <2>2, NilHeld DEF CallType
  <2>4. loaded \in BOOLEAN
    BY <1>2, <1>3
  <2> QED
    BY <1>4, <1>5, <2>3, <2>4 DEF Types, Basics, MemType, AllSteps
<1>8. EntryInv
  BY <1>4, <1>5, <1>6 DEF EntryInv, HasEntry
<1>9. MutexInv /\ LinkInv
  BY <1>4, <1>5, <1>6 DEF MutexInv, LinkInv
<1>10. LoadInv
  BY <1>4, <1>5 DEF LoadInv
<1>11. AddInv
  <2>1. loaded => Follows
    BY <1>1, <1>5, NotBehind DEF Follows
  <2> QED
    BY <1>4, <2>1 DEF AddInv
<1> QED
  BY <1>7, <1>8, <1>9, <1>10, <1>11 DEF Inv
--------------------------------------------------------------------------------
(* One lemma per step.  First what most of them leave alone.               *)

LEMMA BehindMore ==
  ASSUME NEW f, NEW c, NEW S, NEW T, Behind(f, c, S), S \subseteq T
  PROVE  Behind(f, c, T)
BY DEF Behind

(* A call that is not at its save, and does not come to it.                *)
LEMMA AddStays ==
  ASSUME AddInv, UNCHANGED <<loaded, mem, arrays, file, added, failed>>,
         \A v \in Workers :
           /\ pc'[v] \in {"truncate", "encode", "write"} =>
                pc[v] = pc'[v] /\ slice'[v] = slice[v]
           /\ pc[v] \in {"truncate", "encode", "write"} => pc'[v] = pc[v]
  PROVE  AddInv'
<1>1. Memory' = Memory
  BY DEF Memory
<1>2. Truncating' = Truncating
  BY DEF Truncating
<1>3. Follows => Follows'
  BY <1>1, <1>2 DEF Follows
<1> QED
  BY <1>1, <1>3 DEF AddInv

LEMMA StartKeeps == ASSUME Inv, NEW w \in Workers, Start(w) PROVE Inv'
<1> USE DEF Inv
<1> DEFINE step == IF Job[w] = "clear" THEN "scan" ELSE "load"
<1>1. /\ pc[w] = "idle" /\ ~down
      /\ file = NoFile => Job[w] = "add"
      /\ Goto(w, step)
      /\ loaded' = IF Job[w] = "clear" THEN FALSE ELSE loaded
      /\ mem' = IF Job[w] = "clear" THEN Nil ELSE mem
      /\ UNCHANGED <<arrays, file, slice, lastBlock, buffer, added, failed, down>>
  BY DEF Start, At
<1>2. step \in Steps(w) /\ step # "idle"
  BY StepsOf
<1>3. /\ Job[w] = "add" /\ Serialized => holder = {} /\ holder' = {w}
      /\ ~(Job[w] = "add" /\ Serialized) => holder' = holder
  BY DEF Start, NeedsMutex
<1>4. /\ pc' \in [Workers -> AllSteps]
      /\ pc'[w] = step /\ \A v \in Workers : v # w => pc'[v] = pc[v]
      /\ \A v \in Workers : pc'[v] \in Steps(v)
      /\ NothingCleared' => NothingCleared /\ Job[w] # "clear"
  BY <1>1, <1>2, Moved
<1>5. Types'
  <2>1. CallType'
    BY <1>1, <1>4 DEF Types, CallType
  <2>2. MemType'
    BY <1>1, NilHeld DEF Types, MemType
  <2>3. loaded' \in BOOLEAN /\ down' \in BOOLEAN
    BY <1>1 DEF Types, Basics
  <2>4. holder' \subseteq Workers
    BY <1>3 DEF Types, Basics
  <2> QED
    BY <1>1, <1>4, <2>1, <2>2, <2>3, <2>4 DEF Types, Basics
<1>6. NothingCleared' => EntryInv'
  BY <1>1, <1>4 DEF EntryInv, HasEntry
<1>7. Serialized => MutexInv' /\ LinkInv'
  <2> SUFFICES ASSUME Serialized PROVE MutexInv' /\ LinkInv'
    OBVIOUS
  <2>1. MutexInv'
    BY <1>1, <1>3, <1>4 DEF MutexInv
  <2>2. LinkInv'
    BY <1>1, <1>4, NilHeld DEF LinkInv
  <2> QED
    BY <2>1, <2>2
<1>8. Serialized /\ NothingCleared' => LoadInv' /\ AddInv'
  <2> SUFFICES ASSUME Serialized, NothingCleared' PROVE LoadInv' /\ AddInv'
    OBVIOUS
  <2>1. LoadInv /\ AddInv /\ Job[w] # "clear" /\ pc'[w] = "load"
    BY <1>4
  <2>2. Memory' = Memory /\ UNCHANGED <<loaded, mem>>
    BY <1>1, <2>1 DEF Memory
  <2>3. LoadInv'
    BY <1>1, <1>4, <2>1, <2>2 DEF LoadInv
  <2>4. AddInv'
    BY <1>1, <1>4, <2>1, <2>2, AddStays
  <2> QED
    BY <2>3, <2>4
<1> QED
  BY <1>5, <1>6, <1>7, <1>8

LEMMA LoadKeeps == ASSUME Inv, NEW w \in Workers, Load(w) PROVE Inv'
<1> USE DEF Inv
<1> DEFINE step == IF loaded THEN "use" ELSE "fetch"
<1>1. /\ pc[w] = "load" /\ Goto(w, step)
      /\ UNCHANGED <<loaded, mem, arrays, file, slice, lastBlock, buffer, holder,
                     added, failed, down>>
  BY DEF Load, At
<1>2. step \in Steps(w) /\ step # "idle" /\ Job[w] # "clear"
  BY <1>1, StepsOf DEF Types, CallType
<1>3. /\ pc' \in [Workers -> AllSteps]
      /\ pc'[w] = step /\ \A v \in Workers : v # w => pc'[v] = pc[v]
      /\ \A v \in Workers : pc'[v] \in Steps(v)
      /\ NothingCleared' => NothingCleared
  BY <1>1, <1>2, Moved
<1>4. Types'
  <2>1. CallType'
    BY <1>1, <1>3 DEF Types, CallType
  <2> QED
    BY <1>1, <1>3, <2>1 DEF Types, Basics, MemType
<1>5. NothingCleared' => EntryInv'
  BY <1>1, <1>3 DEF EntryInv, HasEntry
<1>6. Serialized => MutexInv' /\ LinkInv'
  BY <1>1, <1>3 DEF MutexInv, LinkInv
<1>7. Serialized /\ NothingCleared' => LoadInv' /\ AddInv'
  <2> SUFFICES ASSUME Serialized, NothingCleared' PROVE LoadInv' /\ AddInv'
    OBVIOUS
  <2>1. LoadInv /\ AddInv
    BY <1>3
  <2>2. Memory' = Memory
    BY <1>1 DEF Memory
  <2>3. LoadInv'
    BY <1>1, <1>3, <2>1, <2>2 DEF LoadInv
  <2>4. AddInv'
    BY <1>1, <1>3, <2>1, AddStays
  <2> QED
    BY <2>3, <2>4
<1> QED
  BY <1>4, <1>5, <1>6, <1>7

LEMMA FetchKeeps == ASSUME Inv, NEW w \in Workers, Fetch(w) PROVE Inv'
<1> USE DEF Inv
<1>1. /\ pc[w] = "fetch" /\ ~down
      /\ buffer' = [buffer EXCEPT ![w] = file]
      /\ UNCHANGED <<loaded, mem, arrays, file, slice, lastBlock, added, failed, down>>
  BY DEF Fetch, At
<1>2. PICK step \in {"install", "use", "done"} :
        /\ Goto(w, step)
        /\ step = "install" => file.kind \in {"absent", "null", "chain"}
        /\ step = "use" => Job[w] = "read"
        /\ step # "done" => holder' = holder
        /\ step = "done" => holder' = holder \ {w}
  <2>1. CASE file.kind \in {"absent", "null", "chain"} /\ Goto(w, "install") /\ holder' = holder
    BY <2>1
  <2>2. CASE Job[w] = "read" /\ Goto(w, "use") /\ holder' = holder
    BY <2>2
  <2>3. CASE Return(w)
    BY <2>3 DEF Return
  <2> QED
    BY <2>1, <2>2, <2>3 DEF Fetch
<1>3. step \in Steps(w) /\ step # "idle" /\ Job[w] # "clear"
  BY <1>1, <1>2, StepsOf DEF Types, CallType
<1>4. /\ pc' \in [Workers -> AllSteps]
      /\ pc'[w] = step /\ \A v \in Workers : v # w => pc'[v] = pc[v]
      /\ \A v \in Workers : pc'[v] \in Steps(v)
      /\ NothingCleared' => NothingCleared
  BY <1>2, <1>3, Moved
<1>5. /\ buffer' = [v \in Workers |-> buffer'[v]]
      /\ buffer'[w] = file /\ \A v \in Workers : v # w => buffer'[v] = buffer[v]
  BY <1>1 DEF Types, CallType
<1>6. GoodFile(file)
  BY DEF Types, MemType
<1>7. step = "install" => file \notin {Empty, Torn}
  BY <1>2, <1>6, FileKinds
<1>8. Types'
  <2>1. CallType'
    BY <1>1, <1>2, <1>4, <1>5, <1>6, <1>7 DEF Types, CallType
  <2>2. holder' \subseteq Workers
    BY <1>2 DEF Types, Basics
  <2> QED
    BY <1>1, <1>4, <2>1, <2>2 DEF Types, Basics, MemType
<1>9. NothingCleared' => EntryInv'
  BY <1>1, <1>2, <1>4, <1>5 DEF EntryInv, HasEntry
<1>10. Serialized => MutexInv' /\ LinkInv'
  <2> SUFFICES ASSUME Serialized PROVE MutexInv' /\ LinkInv'
    OBVIOUS
  <2>1. MutexInv'
    BY <1>1, <1>2, <1>4 DEF MutexInv
  <2>2. LinkInv'
    BY <1>1, <1>2, <1>4, <1>5 DEF LinkInv
  <2> QED
    BY <2>1, <2>2
<1>11. Serialized /\ NothingCleared' => LoadInv' /\ AddInv'
  <2> SUFFICES ASSUME Serialized, NothingCleared' PROVE LoadInv' /\ AddInv'
    OBVIOUS
  <2>1. LoadInv /\ AddInv
    BY <1>4
  <2>2. Memory' = Memory
    BY <1>1 DEF Memory
  <2>3. step = "install" => file = NoFile
    <3>1. file \in {NoFile, Empty, Torn}
      BY <1>1, <2>1 DEF LoadInv
    <3> QED
      BY <1>7, <3>1
  <2>4. LoadInv'
    BY <1>1, <1>2, <1>4, <1>5, <2>1, <2>2, <2>3 DEF LoadInv
  <2>5. AddInv'
    BY <1>1, <1>2, <1>4, <2>1, AddStays
  <2> QED
    BY <2>4, <2>5
<1> QED
  BY <1>8, <1>9, <1>10, <1>11

LEMMA UseKeeps == ASSUME Inv, NEW w \in Workers, Use(w) PROVE Inv'
<1> USE DEF Inv
<1>1. /\ pc[w] = "use" /\ ~down
      /\ slice' = [slice EXCEPT ![w] = mem]
      /\ UNCHANGED <<loaded, mem, arrays, file, buffer, added, failed>>
  BY DEF Use, At
<1>2. PICK step \in {"append", "done"} :
        /\ Goto(w, step)
        /\ step = "done" => /\ Job[w] = "read" /\ holder' = holder \ {w}
                            /\ UNCHANGED <<lastBlock, down>>
        /\ step = "append" =>
             /\ Job[w] = "add" /\ holder' = holder
             /\ down' = (mem = Nil)
             /\ lastBlock' = IF mem = Nil THEN lastBlock
                             ELSE [lastBlock EXCEPT ![w] = Content(mem)[mem.len]]
  <2>1. CASE Job[w] = "read" /\ Return(w) /\ UNCHANGED <<lastBlock, down>>
    BY <2>1 DEF Return
  <2>2. CASE /\ Job[w] = "add" /\ UNCHANGED holder /\ down' = (mem = Nil)
             /\ lastBlock' = IF mem = Nil THEN lastBlock
                             ELSE [lastBlock EXCEPT ![w] = Content(mem)[mem.len]]
             /\ Goto(w, "append")
    BY <2>2
  <2> QED
    BY <2>1, <2>2 DEF Use
<1>3. step \in Steps(w) /\ step # "idle" /\ Job[w] # "clear"
  BY <1>2, StepsOf
<1>4. /\ pc' \in [Workers -> AllSteps]
      /\ pc'[w] = step /\ \A v \in Workers : v # w => pc'[v] = pc[v]
      /\ \A v \in Workers : pc'[v] \in Steps(v)
      /\ NothingCleared' => NothingCleared
  BY <1>2, <1>3, Moved
<1>5. /\ slice' = [v \in Workers |-> slice'[v]]
      /\ slice'[w] = mem /\ \A v \in Workers : v # w => slice'[v] = slice[v]
  BY <1>1 DEF Types, CallType
<1>6. /\ lastBlock' = [v \in Workers |-> lastBlock'[v]]
      /\ \A v \in Workers : v # w => lastBlock'[v] = lastBlock[v]
      /\ step = "append" /\ mem # Nil => lastBlock'[w] = Memory[mem.len]
  <2>1. Content(mem) = Memory
    BY DEF Content, Memory, Held, Prefix
  <2>2. CASE step = "append" /\ mem # Nil
    BY <1>2, <2>1, <2>2 DEF Types, CallType
  <2>3. CASE ~(step = "append" /\ mem # Nil)
    BY <1>2, <2>3 DEF Types, CallType
  <2> QED
    BY <2>2, <2>3
<1>7. (down' <=> step = "append" /\ mem = Nil) /\ down' \in BOOLEAN
  <2>1. CASE step = "append"
    <3>1. down' = (mem = Nil)
      BY <1>2, <2>1
    <3> QED
      BY <2>1, <3>1, Zenon
  <2>2. CASE step = "done"
    <3>1. down' = down /\ ~down /\ down \in BOOLEAN /\ step # "append"
      BY <1>1, <1>2, <2>2 DEF Types, Basics
    <3> QED
      BY <3>1
  <2> QED
    BY <2>1, <2>2
<1>8. Types'
  <2>1. CallType'
    BY <1>1, <1>2, <1>4, <1>5, <1>6, <1>7 DEF Types, CallType, MemType
  <2>2. holder' \subseteq Workers
    BY <1>2 DEF Types, Basics
  <2> QED
    BY <1>1, <1>4, <1>7, <2>1, <2>2 DEF Types, Basics, MemType
<1>9. NothingCleared' => EntryInv'
  BY <1>1, <1>2, <1>4, <1>7 DEF EntryInv, HasEntry
<1>10. Serialized => MutexInv' /\ LinkInv'
  <2> SUFFICES ASSUME Serialized PROVE MutexInv' /\ LinkInv'
    OBVIOUS
  <2>1. MutexInv'
    BY <1>1, <1>2, <1>4 DEF MutexInv
  <2>2. LinkInv'
    BY <1>1, <1>2, <1>4, <1>5, <1>6 DEF LinkInv, Memory
  <2> QED
    BY <2>1, <2>2
<1>11. Serialized /\ NothingCleared' => LoadInv' /\ AddInv'
  <2> SUFFICES ASSUME Serialized, NothingCleared' PROVE LoadInv' /\ AddInv'
    OBVIOUS
  <2>1. LoadInv /\ AddInv
    BY <1>4
  <2>2. Memory' = Memory
    BY <1>1 DEF Memory
  <2>3. LoadInv'
    BY <1>1, <1>2, <1>4, <1>5, <2>1, <2>2 DEF LoadInv
  <2>4. AddInv'
    BY <1>1, <1>2, <1>4, <1>5, <2>1, AddStays
  <2> QED
    BY <2>3, <2>4
<1> QED
  BY <1>8, <1>9, <1>10, <1>11

(* Of the calls that save only one is under way, as long as nothing is     *)
(* cleared; and the entry is there.                                        *)
LEMMA OneSaves ==
  ASSUME MutexInv, LoadInv, NEW w \in Workers, NEW v \in Workers,
         pc[w] \in {"append", "truncate", "encode", "write"}, Job[w] = "add",
         \/ pc[v] \in {"truncate", "encode", "write"}
         \/ Job[v] = "add" /\ pc[v] \notin {"idle", "done"}
  PROVE  v = w
<1>1. Job[v] = "add" /\ pc[v] \notin {"idle", "done"}
  BY DEF LoadInv
<1> QED
  BY <1>1 DEF MutexInv

LEMMA TruncateKeeps == ASSUME Inv, NEW w \in Workers, Truncate(w) PROVE Inv'
<1> USE DEF Inv
<1> DEFINE step == IF Job[w] = "clear" THEN "write" ELSE "encode"
<1>1. /\ pc[w] = "truncate" /\ file' = Empty /\ Goto(w, step)
      /\ UNCHANGED <<loaded, mem, arrays, slice, lastBlock, buffer, holder, added,
                     failed, down>>
  BY DEF Truncate, At
<1>2. step \in Steps(w) /\ step # "idle"
  BY StepsOf
<1>3. /\ pc' \in [Workers -> AllSteps]
      /\ pc'[w] = step /\ \A v \in Workers : v # w => pc'[v] = pc[v]
      /\ \A v \in Workers : pc'[v] \in Steps(v)
      /\ NothingCleared' => NothingCleared /\ Job[w] # "clear"
  BY <1>1, <1>2, Moved
<1>4. /\ Empty \in NoChain /\ GoodFile(Empty) /\ Linked(Empty.chain)
      /\ Empty.kind # "chain" /\ Empty # Null /\ Empty # NoFile
  <2>1. Empty \in NoChain /\ GoodFile(Empty)
    BY DEF NoChain, GoodFile
  <2> QED
    BY <2>1, FileKinds DEF Empty, Null, NoFile
<1>5. Types'
  <2>1. CallType'
    BY <1>1, <1>3 DEF Types, CallType
  <2> QED
    BY <1>1, <1>3, <1>4, <2>1 DEF Types, Basics, MemType
<1>6. NothingCleared' => EntryInv'
  BY <1>1, <1>3, <1>4 DEF EntryInv, HasEntry
<1>7. Serialized => MutexInv' /\ LinkInv'
  BY <1>1, <1>3, <1>4 DEF MutexInv, LinkInv
<1>8. Serialized /\ NothingCleared' => LoadInv' /\ AddInv'
  <2> SUFFICES ASSUME Serialized, NothingCleared' PROVE LoadInv' /\ AddInv'
    OBVIOUS
  <2>1. LoadInv /\ AddInv /\ EntryInv /\ pc'[w] = "encode"
    BY <1>3
  <2>2. Memory' = Memory
    BY <1>1 DEF Memory
  <2>3. loaded
    BY <1>1, <2>1 DEF EntryInv, HasEntry
  <2>4. LoadInv'
    BY <1>1, <1>3, <1>4, <2>1, <2>2, <2>3 DEF LoadInv
  <2>5. Follows'
    BY <1>1, <2>1 DEF Follows
  <2>6. \A v \in Workers : pc'[v] \in {"truncate", "encode", "write"} =>
                             pc[v] \in {"truncate", "encode", "write"}
    BY <1>1, <1>3
  <2>7. AddInv'
    BY <1>1, <1>4, <2>1, <2>2, <2>5, <2>6 DEF AddInv
  <2> QED
    BY <2>4, <2>7
<1> QED
  BY <1>5, <1>6, <1>7, <1>8

LEMMA EncodeKeeps == ASSUME Inv, NEW w \in Workers, Encode(w) PROVE Inv'
<1> USE DEF Inv
<1>1. /\ pc[w] = "encode" /\ Goto(w, "write")
      /\ buffer' = [buffer EXCEPT ![w] = ToSave(w)]
      /\ UNCHANGED <<loaded, mem, arrays, file, slice, lastBlock, holder, added,
                     failed, down>>
  BY DEF Encode, At
<1>2. "write" \in Steps(w) /\ Job[w] # "clear"
  BY <1>1, StepsOf DEF Types, CallType
<1>3. /\ pc' \in [Workers -> AllSteps]
      /\ pc'[w] = "write" /\ \A v \in Workers : v # w => pc'[v] = pc[v]
      /\ \A v \in Workers : pc'[v] \in Steps(v)
      /\ NothingCleared' => NothingCleared
  BY <1>1, <1>2, Moved
<1>4. /\ buffer' = [v \in Workers |-> buffer'[v]]
      /\ buffer'[w] = ToSave(w) /\ \A v \in Workers : v # w => buffer'[v] = buffer[v]
  BY <1>1 DEF Types, CallType
<1>5. ToSave(w) = IF mem = Nil THEN Null ELSE File(Memory)
  BY DEF ToSave, Content, Memory, Held, Prefix
<1>6. GoodFile(ToSave(w)) /\ (mem # Nil => ToSave(w) # Null)
  <2>1. CASE mem = Nil
    BY <1>5, <2>1 DEF GoodFile, NoChain
  <2>2. CASE mem # Nil
    <3>1. GoodChain(Memory)
      BY <2>2, SliceHeld DEF Types, MemType, Memory
    <3> QED
      BY <1>5, <2>2, <3>1, ChainFile DEF NoChain
  <2> QED
    BY <2>1, <2>2
<1>7. Types'
  <2>1. CallType'
    BY <1>1, <1>3, <1>4, <1>6 DEF Types, CallType
  <2> QED
    BY <1>1, <1>3, <2>1 DEF Types, Basics, MemType
<1>8. NothingCleared' => EntryInv'
  <2> SUFFICES ASSUME NothingCleared' PROVE EntryInv'
    OBVIOUS
  <2>1. EntryInv
    BY <1>3
  <2>2. mem # Nil
    BY <1>1, <2>1 DEF EntryInv, HasEntry
  <2> QED
    BY <1>1, <1>3, <1>4, <1>6, <2>1, <2>2 DEF EntryInv, HasEntry
<1>9. Serialized => MutexInv' /\ LinkInv'
  <2> SUFFICES ASSUME Serialized PROVE MutexInv' /\ LinkInv'
    OBVIOUS
  <2>1. MutexInv'
    BY <1>1, <1>2, <1>3 DEF MutexInv
  <2>2. Linked(ToSave(w).chain)
    <3>1. CASE mem = Nil
      <4>1. Null \in NoChain /\ GoodFile(Null)
        BY DEF NoChain, GoodFile
      <4> QED
        BY <1>5, <3>1, <4>1, FileKinds
    <3>2. CASE mem # Nil
      <4>1. Memory = arrays[mem.array].cells /\ mem.array \in 1..Len(arrays)
        BY <3>2, SliceHeld DEF LinkInv, Types, MemType, Memory
      <4>2. Linked(Memory)
        BY <4>1 DEF LinkInv
      <4> QED
        BY <1>5, <3>2, <4>2 DEF File
    <3> QED
      BY <3>1, <3>2
  <2>3. LinkInv'
    BY <1>1, <1>3, <1>4, <2>2 DEF LinkInv
  <2> QED
    BY <2>1, <2>3
<1>10. Serialized /\ NothingCleared' => LoadInv' /\ AddInv'
  <2> SUFFICES ASSUME Serialized, NothingCleared' PROVE LoadInv' /\ AddInv'
    OBVIOUS
  <2>1. LoadInv /\ AddInv /\ EntryInv
    BY <1>3
  <2>2. Memory' = Memory
    BY <1>1 DEF Memory
  <2>3. buffer'[w] = File(Memory)
    BY <1>1, <1>4, <1>5, <2>1 DEF EntryInv, HasEntry
  <2>4. LoadInv'
    BY <1>1, <1>3, <1>4, <2>1, <2>2, <2>3 DEF LoadInv
  <2>5. Truncating' = Truncating
    BY <1>1, <1>3 DEF Truncating
  <2>6. Follows => Follows'
    BY <1>1, <1>3, <2>2, <2>5 DEF Follows
  <2>7. \A v \in Workers : pc'[v] \in {"truncate", "encode", "write"} =>
                             pc[v] \in {"truncate", "encode", "write"}
    BY <1>1, <1>3
  <2>8. AddInv'
    BY <1>1, <2>1, <2>2, <2>6, <2>7 DEF AddInv
  <2> QED
    BY <2>4, <2>8
<1> QED
  BY <1>7, <1>8, <1>9, <1>10

LEMMA WriteKeeps == ASSUME Inv, NEW w \in Workers, Write(w) PROVE Inv'
<1> USE DEF Inv
<1> DEFINE step == IF Job[w] # "clear" /\ slice[w] = Nil THEN "use" ELSE "done"
<1>1. /\ pc[w] = "write"
      /\ file' \in Overwritten(file, buffer[w])
      /\ buffer' = [buffer EXCEPT ![w] = Empty]
      /\ UNCHANGED <<loaded, mem, arrays, slice, lastBlock, failed, down>>
  BY DEF Write, At
<1>2. /\ Goto(w, step)
      /\ step = "use" => UNCHANGED <<holder, added>>
      /\ step = "done" =>
           /\ holder' = holder \ {w}
           /\ added' = IF Job[w] = "add" THEN added \cup {w} ELSE added
  BY DEF Write, Return
<1>3. step \in Steps(w) /\ step # "idle" /\ step \in {"use", "done"}
  BY StepsOf
<1>4. /\ pc' \in [Workers -> AllSteps]
      /\ pc'[w] = step /\ \A v \in Workers : v # w => pc'[v] = pc[v]
      /\ \A v \in Workers : pc'[v] \in Steps(v)
      /\ NothingCleared' => NothingCleared /\ Job[w] # "clear"
  BY <1>2, <1>3, Moved
<1>5. file' = buffer[w] \/ file' = Torn
  BY <1>1 DEF Overwritten
<1>6. /\ buffer' = [v \in Workers |-> buffer'[v]]
      /\ buffer'[w] = Empty /\ \A v \in Workers : v # w => buffer'[v] = buffer[v]
  BY <1>1 DEF Types, CallType
<1>7. /\ GoodFile(Empty) /\ Linked(Empty.chain) /\ Empty # Null
      /\ GoodFile(Torn) /\ Linked(Torn.chain) /\ Torn # Null
  <2>1. Empty \in NoChain /\ GoodFile(Empty) /\ Torn \in NoChain /\ GoodFile(Torn)
    BY DEF NoChain, GoodFile
  <2> QED
    BY <2>1, FileKinds DEF Empty, Null, Torn
<1>8. Types'
  <2>1. CallType'
    BY <1>1, <1>3, <1>4, <1>6, <1>7 DEF Types, CallType
  <2>2. GoodFile(file')
    BY <1>5, <1>7 DEF Types, CallType
  <2>3. MemType'
    BY <1>1, <2>2 DEF Types, MemType
  <2>4. holder' \subseteq Workers /\ added' \subseteq Workers
    BY <1>2, <1>3 DEF Types, Basics
  <2> QED
    BY <1>1, <1>4, <2>1, <2>3, <2>4 DEF Types, Basics
<1>9. NothingCleared' => EntryInv'
  BY <1>1, <1>3, <1>4, <1>5, <1>6, <1>7 DEF EntryInv, HasEntry
<1>10. Serialized => MutexInv' /\ LinkInv'
  <2> SUFFICES ASSUME Serialized PROVE MutexInv' /\ LinkInv'
    OBVIOUS
  <2>1. MutexInv'
    BY <1>1, <1>2, <1>3, <1>4 DEF MutexInv
  <2>2. Linked(file'.chain)
    BY <1>5, <1>7 DEF LinkInv
  <2>3. LinkInv'
    BY <1>1, <1>3, <1>4, <1>6, <1>7, <2>2 DEF LinkInv
  <2> QED
    BY <2>1, <2>3
<1>11. Serialized /\ NothingCleared' => LoadInv' /\ AddInv'
  <2> SUFFICES ASSUME Serialized, NothingCleared' PROVE LoadInv' /\ AddInv'
    OBVIOUS
  <2>1. LoadInv /\ AddInv /\ EntryInv /\ MutexInv
    BY <1>4
  <2>2. Memory' = Memory
    BY <1>1 DEF Memory
  <2>3. /\ Job[w] = "add" /\ file = Empty /\ buffer[w] = File(Memory)
        /\ loaded /\ mem # Nil
    BY <1>1, <2>1 DEF LoadInv, EntryInv, HasEntry
  <2>4. GoodChain(Memory)
    BY <2>3, SliceHeld DEF Types, MemType, Memory
  <2>5. file' = File(Memory)
    BY <1>1, <2>3 DEF Overwritten
  <2>6. file' # NoFile /\ file'.kind = "chain" /\ file'.chain = Memory
    BY <2>4, <2>5, ChainFile DEF NoChain
  <2>7. \A v \in Workers : v # w => pc[v] \notin {"truncate", "encode", "write"}
    BY <1>1, <2>1, <2>3, OneSaves
  <2>8. LoadInv'
    <3>1. /\ ~loaded' => file' \in {NoFile, Empty, Torn}
          /\ file' # NoFile
      BY <1>1, <2>3, <2>6
    <3>2. ASSUME NEW v \in Workers
          PROVE  /\ pc'[v] = "fetch" => ~loaded'
                 /\ pc'[v] = "install" => ~loaded' /\ file' = NoFile /\ buffer'[v] = NoFile
                 /\ pc'[v] \in {"truncate", "encode", "write"} => Job[v] = "add"
                 /\ pc'[v] \in {"idle", "load", "fetch", "install", "use"} => slice'[v] = Nil
                 /\ pc'[v] = "append" => slice'[v] = mem'
                 /\ pc'[v] \in {"encode", "write"} => file' = Empty
                 /\ pc'[v] = "write" => buffer'[v] = File(Memory)'
      <4>1. CASE v = w
        BY <1>1, <1>3, <1>4, <2>3, <4>1
      <4>2. CASE v # w
        BY <1>1, <1>4, <2>1, <2>3, <2>7, <4>2 DEF LoadInv
      <4> QED
        BY <4>1, <4>2
    <3> QED
      BY <3>1, <3>2 DEF LoadInv
  <2>9. Follows'
    BY <2>2, <2>4, <2>5, NotBehind DEF Follows
  <2>10. added' \subseteq Chats(Memory)
    <3>1. step = "done" => w \in Chats(Memory)
      BY <1>1, <2>1, <2>3 DEF AddInv
    <3> QED
      BY <1>2, <1>3, <2>1, <2>3, <3>1 DEF AddInv
  <2>11. \A v \in Workers : pc'[v] \in {"truncate", "encode", "write"} =>
                              pc[v] \in {"truncate", "encode", "write"}
    BY <1>1, <1>3, <1>4
  <2>12. AddInv'
    BY <1>1, <2>1, <2>2, <2>6, <2>9, <2>10, <2>11 DEF AddInv
  <2> QED
    BY <2>8, <2>12
<1> QED
  BY <1>8, <1>9, <1>10, <1>11

LEMMA SaveFailsKeeps == ASSUME Inv, NEW w \in Workers, SaveFails(w) PROVE Inv'
<1> USE DEF Inv
<1> DEFINE step == IF Job[w] = "read" THEN "use" ELSE "done"
<1>1. /\ \/ pc[w] = "truncate" /\ file' = file
         \/ pc[w] = "write" /\ file' \in {file, Torn}
      /\ buffer' = [buffer EXCEPT ![w] = Empty]
      /\ failed' = failed \cup {w} /\ added' = added
      /\ UNCHANGED <<loaded, mem, arrays, slice, lastBlock, down>>
  BY DEF SaveFails, At, AfterError
<1>2. /\ Goto(w, step)
      /\ step = "use" => holder' = holder
      /\ step = "done" => holder' = holder \ {w}
  BY DEF SaveFails, Return
<1>3. step \in Steps(w) /\ step # "idle" /\ step \in {"use", "done"}
  BY StepsOf
<1>4. /\ pc' \in [Workers -> AllSteps]
      /\ pc'[w] = step /\ \A v \in Workers : v # w => pc'[v] = pc[v]
      /\ \A v \in Workers : pc'[v] \in Steps(v)
      /\ NothingCleared' => NothingCleared /\ Job[w] # "clear"
  BY <1>2, <1>3, Moved
<1>5. /\ buffer' = [v \in Workers |-> buffer'[v]]
      /\ buffer'[w] = Empty /\ \A v \in Workers : v # w => buffer'[v] = buffer[v]
  BY <1>1 DEF Types, CallType
<1>6. /\ GoodFile(Empty) /\ Linked(Empty.chain) /\ Empty # Null
      /\ GoodFile(Torn) /\ Linked(Torn.chain) /\ Torn # Null /\ Torn.kind # "chain"
      /\ Empty.kind # "chain" /\ Torn # NoFile /\ Empty # NoFile
  <2>1. Empty \in NoChain /\ GoodFile(Empty) /\ Torn \in NoChain /\ GoodFile(Torn)
    BY DEF NoChain, GoodFile
  <2> QED
    BY <2>1, FileKinds DEF Empty, Null, Torn, NoFile
<1>7. file' = file \/ file' = Torn
  BY <1>1
<1>8. Types'
  <2>1. CallType'
    BY <1>1, <1>3, <1>4, <1>5, <1>6 DEF Types, CallType
  <2>2. GoodFile(file')
    BY <1>6, <1>7 DEF Types, MemType
  <2>3. MemType'
    BY <1>1, <2>2 DEF Types, MemType
  <2>4. holder' \subseteq Workers /\ failed' \subseteq Workers
    BY <1>1, <1>2, <1>3 DEF Types, Basics
  <2> QED
    BY <1>1, <1>4, <2>1, <2>3, <2>4 DEF Types, Basics
<1>9. NothingCleared' => EntryInv'
  <2> SUFFICES ASSUME NothingCleared' PROVE EntryInv'
    OBVIOUS
  <2>1. EntryInv
    BY <1>4
  <2>2. file' # Null
    BY <1>6, <1>7, <2>1 DEF EntryInv
  <2> QED
    BY <1>1, <1>3, <1>4, <1>5, <1>6, <2>1, <2>2 DEF EntryInv, HasEntry
<1>10. Serialized => MutexInv' /\ LinkInv'
  <2> SUFFICES ASSUME Serialized PROVE MutexInv' /\ LinkInv'
    OBVIOUS
  <2>1. MutexInv'
    BY <1>1, <1>2, <1>3, <1>4 DEF MutexInv
  <2>2. Linked(file'.chain)
    BY <1>6, <1>7 DEF LinkInv
  <2>3. LinkInv'
    BY <1>1, <1>3, <1>4, <1>5, <1>6, <2>2 DEF LinkInv
  <2> QED
    BY <2>1, <2>3
<1>11. Serialized /\ NothingCleared' => LoadInv' /\ AddInv'
  <2> SUFFICES ASSUME Serialized, NothingCleared' PROVE LoadInv' /\ AddInv'
    OBVIOUS
  <2>1. LoadInv /\ AddInv /\ EntryInv /\ MutexInv
    BY <1>4
  <2>2. Memory' = Memory
    BY <1>1 DEF Memory
  <2>3. Job[w] = "add" /\ loaded /\ mem # Nil /\ pc'[w] = "done"
    BY <1>1, <1>4, <2>1 DEF LoadInv, EntryInv, HasEntry
  <2>4. \A v \in Workers : v # w => pc[v] \notin {"truncate", "encode", "write"}
    BY <1>1, <2>1, <2>3, OneSaves
  <2>5. LoadInv'
    <3>1. file' = NoFile => file = NoFile
      BY <1>6, <1>7
    <3>2. loaded'
      BY <1>1, <2>3
    <3>3. file' = NoFile => /\ added' = {}
                            /\ \A v \in Workers :
                                 pc'[v] \notin {"idle", "done"} => Job[v] = "add"
      BY <1>1, <1>4, <2>1, <2>3, <3>1 DEF LoadInv
    <3>4. ASSUME NEW v \in Workers
          PROVE  /\ pc'[v] = "fetch" => ~loaded'
                 /\ pc'[v] = "install" => ~loaded' /\ file' = NoFile /\ buffer'[v] = NoFile
                 /\ pc'[v] \in {"truncate", "encode", "write"} => Job[v] = "add"
                 /\ pc'[v] \in {"idle", "load", "fetch", "install", "use"} => slice'[v] = Nil
                 /\ pc'[v] = "append" => slice'[v] = mem'
                 /\ pc'[v] \in {"encode", "write"} => file' = Empty
                 /\ pc'[v] = "write" => buffer'[v] = File(Memory)'
      <4>1. CASE v = w
        BY <2>3, <4>1
      <4>2. CASE v # w
        BY <1>1, <1>4, <2>1, <2>3, <2>4, <4>2 DEF LoadInv
      <4> QED
        BY <4>1, <4>2
    <3> QED
      BY <3>2, <3>3, <3>4 DEF LoadInv
  <2>6. Follows'
    <3>1. w \in failed' /\ failed' # {} /\ Follows
      BY <1>1, <2>1, <2>3 DEF AddInv
    <3>2. CASE pc[w] = "write"
      <4>1. file = Empty
        BY <2>1, <3>2 DEF LoadInv
      <4>2. file' \in {Empty, Torn}
        BY <1>7, <4>1
      <4> QED
        BY <3>1, <4>2 DEF Follows
    <3>3. CASE pc[w] = "truncate"
      <4>1. file' = file
        BY <1>1, <3>3
      <4>2. failed \cup Truncating \subseteq failed' \cup Truncating'
        BY <1>1, <1>4, <3>1 DEF Truncating
      <4>3. Behind(file, Memory, failed \cup Truncating) =>
              Behind(file, Memory, failed' \cup Truncating')
        BY <4>2, BehindMore
      <4> QED
        BY <2>2, <3>1, <4>1, <4>3 DEF Follows
    <3> QED
      BY <1>1, <3>2, <3>3
  <2>7. \A v \in Workers : pc'[v] \in {"truncate", "encode", "write"} =>
                             pc[v] \in {"truncate", "encode", "write"}
    BY <1>1, <1>3, <1>4
  <2>8. file'.kind = "chain" => file' = file
    BY <1>6, <1>7
  <2>9. AddInv'
    BY <1>1, <2>1, <2>2, <2>6, <2>7, <2>8 DEF AddInv
  <2> QED
    BY <2>5, <2>9
<1> QED
  BY <1>8, <1>9, <1>10, <1>11

LEMMA ScanKeeps == ASSUME Inv, NEW w \in Workers, Scan(w) PROVE Inv'
<1> USE DEF Inv
<1>1. /\ pc[w] = "scan" /\ ~down
      /\ UNCHANGED <<loaded, mem, arrays, file, slice, lastBlock, added, failed>>
  BY DEF Scan, At
<1>2. PICK step \in {"truncate", "done"} :
        /\ Goto(w, step)
        /\ step = "truncate" => /\ file.kind = "chain"
                                /\ buffer' = [buffer EXCEPT ![w] = File(Preserved(file.chain))]
                                /\ UNCHANGED <<holder, down>>
        /\ step = "done" => /\ down' = (file = Null) /\ holder' = holder \ {w}
                            /\ buffer' = buffer
  <2>1. CASE /\ file.kind = "chain"
             /\ buffer' = [buffer EXCEPT ![w] = File(Preserved(file.chain))]
             /\ Goto(w, "truncate") /\ UNCHANGED <<holder, down>>
    BY <2>1
  <2>2. CASE down' = (file = Null) /\ Return(w) /\ UNCHANGED buffer
    BY <2>2 DEF Return
  <2> QED
    BY <2>1, <2>2 DEF Scan
<1>3. Job[w] = "clear"
  BY <1>1, StepsOf DEF Types, CallType
<1>4. step \in Steps(w) /\ step # "idle"
  BY <1>2, <1>3, StepsOf
<1>5. /\ pc' \in [Workers -> AllSteps]
      /\ pc'[w] = step /\ \A v \in Workers : v # w => pc'[v] = pc[v]
      /\ \A v \in Workers : pc'[v] \in Steps(v)
      /\ ~NothingCleared'
  BY <1>2, <1>3, <1>4, Moved
<1> DEFINE kept == Preserved(file.chain)
<1>6. ASSUME step = "truncate"
      PROVE  GoodChain(kept) /\ (Linked(file.chain) => Linked(kept))
  <2>1. GoodChain(file.chain)
    BY <1>2, <1>6, FileKinds DEF Types, MemType
  <2>2. PICK k \in 1..Len(file.chain) : kept = Prefix(file.chain, k)
    BY <2>1, PreservedIsPrefix DEF GoodChain
  <2>3. k \in 0..Len(file.chain) /\ k # 0 /\ IsSeq(file.chain)
    BY <2>1, NotEmpty DEF GoodChain
  <2>4. IsSeq(kept) /\ Len(kept) = k /\ kept # << >>
    BY <2>2, <2>3, PrefixSeq, NotEmpty
  <2> QED
    BY <2>2, <2>3, <2>4, LinkedPrefix DEF GoodChain
<1>7. /\ buffer' = [v \in Workers |-> buffer'[v]]
      /\ step = "truncate" => buffer'[w] = File(kept)
      /\ step = "done" => buffer'[w] = buffer[w]
      /\ \A v \in Workers : v # w => buffer'[v] = buffer[v]
  BY <1>2 DEF Types, CallType
<1> HIDE DEF kept
<1>8. GoodFile(buffer'[w])
  BY <1>2, <1>6, <1>7, ChainFile DEF Types, CallType
<1>9. down' \in BOOLEAN
  <2>1. CASE step = "done"
    <3>1. down' = (file = Null)
      BY <1>2, <2>1
    <3> QED
      BY <3>1
  <2>2. CASE step = "truncate"
    BY <1>2, <2>2 DEF Types, Basics
  <2> QED
    BY <2>1, <2>2
<1>10. Types'
  <2>1. CallType'
    BY <1>1, <1>2, <1>5, <1>7, <1>8 DEF Types, CallType
  <2>2. holder' \subseteq Workers
    BY <1>2 DEF Types, Basics
  <2> QED
    BY <1>1, <1>5, <1>9, <2>1, <2>2 DEF Types, Basics, MemType
<1>11. Serialized => MutexInv' /\ LinkInv'
  <2> SUFFICES ASSUME Serialized PROVE MutexInv' /\ LinkInv'
    OBVIOUS
  <2>1. MutexInv'
    BY <1>1, <1>2, <1>3, <1>5 DEF MutexInv
  <2>2. Linked(buffer'[w].chain)
    BY <1>2, <1>6, <1>7, ChainFile DEF LinkInv
  <2>3. LinkInv'
    BY <1>1, <1>2, <1>5, <1>7, <2>2 DEF LinkInv
  <2> QED
    BY <2>1, <2>3
<1> QED
  BY <1>5, <1>10, <1>11

LEMMA InstallKeeps == ASSUME Inv, NEW w \in Workers, Install(w) PROVE Inv'
<1> USE DEF Inv
<1> DEFINE step == IF buffer[w] = NoFile THEN "truncate" ELSE "use"
           c == IF buffer[w] = NoFile THEN <<GenesisBlock>> ELSE buffer[w].chain
<1>1. /\ pc[w] = "install" /\ Goto(w, step)
      /\ loaded' = TRUE
      /\ UNCHANGED <<file, slice, lastBlock, buffer, holder, added, failed, down>>
  BY DEF Install, At
<1>2. step \in Steps(w) /\ step # "idle" /\ Job[w] # "clear"
  BY <1>1, StepsOf DEF Types, CallType
<1>3. /\ pc' \in [Workers -> AllSteps]
      /\ pc'[w] = step /\ \A v \in Workers : v # w => pc'[v] = pc[v]
      /\ \A v \in Workers : pc'[v] \in Steps(v)
      /\ NothingCleared' => NothingCleared
  BY <1>1, <1>2, Moved
<1>4. /\ buffer[w] # Null => GoodChain(c)
      /\ LinkInv => Linked(c)
  <2>1. GoodFile(buffer[w]) /\ buffer[w] \notin {Empty, Torn}
    BY <1>1 DEF Types, CallType
  <2>2. CASE buffer[w] = NoFile
    BY <2>2, GenesisLinked DEF GoodChain
  <2>3. CASE buffer[w] # NoFile
    BY <2>1, <2>3, FileKinds DEF NoChain, LinkInv
  <2> QED
    BY <2>2, <2>3
<1> HIDE DEF c
<1>5. /\ GoodArrays(arrays') /\ GoodSlice(arrays', mem')
      /\ buffer[w] # Null => mem' # Nil /\ Held(arrays', mem') = c
      /\ \A s : GoodSlice(arrays, s) => /\ GoodSlice(arrays', s)
                                        /\ Held(arrays', s) = Held(arrays, s)
                                        /\ Full(arrays, s) => Full(arrays', s)
      /\ LinkInv => /\ Full(arrays', mem')
                    /\ \A i \in 1..Len(arrays') : Linked(arrays'[i].cells)
  <2>1. CASE buffer[w] = Null
    <3>1. mem' = Nil /\ arrays' = arrays
      BY <2>1 DEF Install
    <3> QED
      BY <2>1, <3>1, NilHeld DEF Types, MemType, LinkInv
  <2>2. CASE buffer[w] # Null
    <3>1. PICK spare \in 0..Spare :
            arrays' = Append(arrays, [cells |-> c, cap |-> Len(c) + spare])
      BY <2>2 DEF Install, c
    <3>2. mem' = [array |-> Len(arrays) + 1, len |-> Len(c)]
      BY <2>2 DEF Install, c
    <3> DEFINE a == [cells |-> c, cap |-> Len(c) + spare]
    <3>3. GoodArray(a) /\ a.cells = c
      BY <1>4, <2>2, NewArray
    <3>4. Appended(arrays, a, arrays')
      BY <3>1 DEF Appended
    <3> HIDE DEF a
    <3>5. GoodArrays(arrays)
      BY DEF Types, MemType
    <3>6. /\ GoodArrays(arrays')
          /\ \A i \in 1..Len(arrays') :
               arrays'[i] = a \/ \E j \in 1..Len(arrays) : arrays'[i] = arrays[j]
          /\ \A s : GoodSlice(arrays, s) => /\ GoodSlice(arrays', s)
                                            /\ Held(arrays', s) = Held(arrays, s)
                                            /\ Full(arrays, s) => Full(arrays', s)
      BY <3>3, <3>4, <3>5, ArrayAdded
    <3>7. /\ mem' # Nil /\ GoodSlice(arrays', mem') /\ Full(arrays', mem')
          /\ Held(arrays', mem') = c
      BY <3>2, <3>3, <3>4, <3>5, ArrayAdded
    <3>8. LinkInv => \A i \in 1..Len(arrays') : Linked(arrays'[i].cells)
      BY <1>4, <3>3, <3>6 DEF LinkInv
    <3> QED
      BY <3>6, <3>7, <3>8
  <2> QED
    BY <2>1, <2>2
<1>6. Types'
  <2>1. CallType'
    BY <1>1, <1>3, <1>5 DEF Types, CallType
  <2> QED
    BY <1>1, <1>3, <1>5, <2>1 DEF Types, Basics, MemType
<1>7. NothingCleared' => EntryInv'
  BY <1>1, <1>3, <1>5 DEF EntryInv, HasEntry
<1>8. Serialized => MutexInv' /\ LinkInv'
  <2> SUFFICES ASSUME Serialized PROVE MutexInv' /\ LinkInv'
    OBVIOUS
  <2>1. MutexInv'
    BY <1>1, <1>3 DEF MutexInv
  <2>2. LinkInv'
    BY <1>1, <1>3, <1>5 DEF LinkInv, Types, CallType
  <2> QED
    BY <2>1, <2>2
<1>9. Serialized /\ NothingCleared' => LoadInv' /\ AddInv'
  <2> SUFFICES ASSUME Serialized, NothingCleared' PROVE LoadInv' /\ AddInv'
    OBVIOUS
  <2>1. LoadInv /\ AddInv /\ EntryInv /\ MutexInv
    BY <1>3
  <2>2. /\ ~loaded /\ file = NoFile /\ buffer[w] = NoFile /\ step = "truncate"
        /\ slice[w] = Nil /\ Job[w] = "add" /\ added = {}
    BY <1>1, <2>1 DEF LoadInv
  <2>3. \A v \in Workers : v # w => pc[v] \in {"idle", "done"}
    BY <1>1, <2>1, <2>2 DEF LoadInv, MutexInv
  <2>4. Memory' = <<GenesisBlock>>
    BY <1>5, <2>1, <2>2 DEF Memory, c, EntryInv
  <2>5. LoadInv'
    BY <1>1, <1>3, <2>1, <2>2, <2>3 DEF LoadInv
  <2>6. Behind(NoFile, <<GenesisBlock>>, (failed \cup Truncating)')
    <3> DEFINE g == <<GenesisBlock>>
    <3>1. /\ IsSeq(g) /\ Len(g) = 1 /\ g[1].data.kind = "GENESIS"
      BY GenesisLinked DEF Genesis
    <3>2. NoFile.chain = << >> /\ Len(NoFile.chain) = 0
      <4>1. NoFile \in NoChain /\ GoodFile(NoFile)
        BY DEF NoChain, GoodFile
      <4> QED
        BY <4>1, FileKinds
    <3> HIDE DEF g
    <3>3. Prefix(g, 0) = << >>
      <4>1. IsSeq(Prefix(g, 0)) /\ Len(Prefix(g, 0)) = 0
        BY <3>1, PrefixSeq
      <4> QED
        BY <4>1, NotEmpty
    <3>4. w \in Truncating'
      BY <1>3, <2>2 DEF Truncating
    <3>5. \A i \in 1..1 : i = 1
      OBVIOUS
    <3>6. Behind(NoFile, g, (failed \cup Truncating)')
      BY <3>1, <3>2, <3>3, <3>4, <3>5 DEF Behind
    <3> QED
      BY <3>6 DEF g
  <2>7. Follows'
    BY <1>1, <2>2, <2>4, <2>6 DEF Follows
  <2>8. NoFile.kind # "chain"
    BY DEF NoFile
  <2>9. \A v \in Workers : pc'[v] \in {"truncate", "encode", "write"} => slice'[v] = Nil
    BY <1>1, <1>3, <2>2, <2>3
  <2>10. AddInv'
    BY <1>1, <2>2, <2>7, <2>8, <2>9 DEF AddInv
  <2> QED
    BY <2>5, <2>10
<1> QED
  BY <1>6, <1>7, <1>8, <1>9

(* The chats of a longer chain, and a file behind it.                      *)
LEMMA ChatsAppended ==
  ASSUME NEW c, IsSeq(c), NEW b, b.data.kind = "CHAT_MSG"
  PROVE  Chats(c) \subseteq Chats(Append(c, b)) /\ b.data.about \in Chats(Append(c, b))
<1> DEFINE d == Append(c, b)
<1>1. /\ Len(c) \in Nat /\ Len(d) = Len(c) + 1
      /\ \A i \in 1..Len(c) : d[i] = c[i]
      /\ d[Len(c) + 1] = b
  BY AppendedSeq
<1> HIDE DEF d
<1>2. Len(c) + 1 \in 1..Len(d) /\ \A i \in 1..Len(c) : i \in 1..Len(d)
  BY <1>1, OneMore
<1>3. Chats(c) \subseteq Chats(d) /\ b.data.about \in Chats(d)
  BY <1>1, <1>2 DEF Chats
<1> QED
  BY <1>3 DEF d

LEMMA BehindAppended ==
  ASSUME NEW c, IsSeq(c), NEW f, GoodFile(f), NEW S, Behind(f, c, S),
         NEW b, NEW T, S \subseteq T, b.data.about \in T
  PROVE  Behind(f, Append(c, b), T)
<1> DEFINE d == Append(c, b)
           n == Len(f.chain)
<1>1. /\ Len(c) \in Nat /\ Len(d) = Len(c) + 1
      /\ \A i \in 1..Len(c) : d[i] = c[i]
      /\ d[Len(c) + 1] = b
  BY AppendedSeq
<1>2. n \in Nat /\ n <= Len(c) /\ Prefix(c, n) = f.chain
  BY FileKinds DEF Behind
<1>3. n \in 0..Len(c)
  BY <1>1, <1>2
<1>4. Prefix(d, n) = f.chain
  BY <1>2, <1>3, PrefixOfAppended
<1> HIDE DEF d, n
<1>5. n <= Len(d)
  BY <1>1, <1>2
<1>6. ASSUME NEW i \in (n + 1)..Len(d), d[i].data.kind = "CHAT_MSG"
      PROVE  d[i].data.about \in T
  <2>1. (i \in (n + 1)..Len(c) /\ i \in 1..Len(c)) \/ i = Len(c) + 1
    BY <1>1, <1>2
  <2>2. CASE i = Len(c) + 1
    BY <1>1, <2>2
  <2>3. CASE i \in (n + 1)..Len(c) /\ i \in 1..Len(c)
    <3>1. d[i] = c[i]
      BY <1>1, <2>3
    <3> QED
      BY <1>6, <2>3, <3>1 DEF Behind, n
  <2> QED
    BY <2>1, <2>2, <2>3
<1>7. f = NoFile => T # {}
  OBVIOUS
<1>8. Behind(f, d, T)
  BY <1>4, <1>5, <1>6, <1>7 DEF Behind, n
<1> QED
  BY <1>8 DEF d

(* What both forms of append do to the arrays.                             *)
LEMMA AppendDone ==
  ASSUME Types, NEW w \in Workers, AppendBlock(w), slice[w] # Nil,
         NEW b, b = GenerateBlock(lastBlock[w], Chat(w))
  PROVE  /\ GoodArrays(arrays') /\ GoodSlice(arrays', mem') /\ mem' # Nil
         /\ \A s : GoodSlice(arrays, s) => GoodSlice(arrays', s)
         /\ Full(arrays, slice[w]) =>
              /\ Full(arrays', mem')
              /\ Memory' = Append(Held(arrays, slice[w]), b)
              /\ \A i \in 1..Len(arrays') :
                   \/ arrays'[i].cells = Memory'
                   \/ \E j \in 1..Len(arrays) : arrays'[i] = arrays[j]
<1> DEFINE s == slice[w]
           h == Held(arrays, s)
<1>1. GoodArrays(arrays) /\ GoodSlice(arrays, s)
  BY DEF Types, MemType, CallType
<1>2. Memory' = Held(arrays', mem')
  BY DEF Memory
<1>3. GoodChain(h) /\ Len(h) = s.len /\ s.len \in Nat
  BY <1>1, SliceHeld
<1>4. CASE RoomFor(w)
  <2>1. CellFree(arrays, s)
    BY <1>4 DEF RoomFor, CellFree
  <2>2. AppendedInPlace(arrays, s, b, arrays')
    BY <1>4 DEF AppendBlock, AppendedInPlace, Written
  <2>3. mem' = Grown(s)
    BY <1>4 DEF AppendBlock, Grown
  <2> HIDE DEF s
  <2>4. /\ GoodArrays(arrays') /\ Len(arrays') = Len(arrays)
        /\ mem' # Nil /\ GoodSlice(arrays', mem')
        /\ \A t : GoodSlice(arrays, t) => GoodSlice(arrays', t)
        /\ Full(arrays, s) => Full(arrays', mem') /\ Memory' = Append(h, b)
        /\ \A i \in 1..Len(arrays) : i # s.array => arrays'[i] = arrays[i]
    BY <1>1, <1>2, <2>1, <2>2, <2>3, InPlace DEF s
  <2>5. Full(arrays, s) => arrays'[s.array].cells = Memory'
    <3>1. mem'.array = s.array
      BY <2>3 DEF Grown
    <3> QED
      BY <1>2, <2>4, <3>1, SliceHeld
  <2>6. Full(arrays, s) => \A i \in 1..Len(arrays') :
                             \/ arrays'[i].cells = Memory'
                             \/ \E j \in 1..Len(arrays) : arrays'[i] = arrays[j]
    BY <2>4, <2>5
  <2> QED
    BY <2>4, <2>6 DEF s
<1>5. CASE ~RoomFor(w)
  <2> DEFINE c == Append(h, b)
             n == s.len + 1
  <2>1. Content(s) = h
    BY DEF Content, Held, Prefix
  <2>2. PICK spare \in 0..Spare :
          arrays' = Append(arrays, [cells |-> Append(Content(s), b), cap |-> n + spare])
    BY <1>5 DEF AppendBlock
  <2>3. mem' = [array |-> Len(arrays) + 1, len |-> n]
    BY <1>5 DEF AppendBlock
  <2>4. GoodChain(c) /\ Len(c) = n
    <3>1. IsSeq(h)
      BY <1>3 DEF GoodChain
    <3> HIDE DEF h
    <3>2. IsSeq(c) /\ Len(c) = Len(h) + 1 /\ Len(h) \in Nat
      BY <3>1, AppendedSeq
    <3>3. Len(c) # 0
      BY <3>2
    <3> QED
      BY <1>3, <3>2, <3>3, NotEmpty DEF GoodChain
  <2> DEFINE a == [cells |-> c, cap |-> n + spare]
  <2>5. arrays' = Append(arrays, a)
    BY <2>1, <2>2
  <2> HIDE DEF c, n, h
  <2>6. GoodArray(a) /\ a.cells = c
    BY <2>4, NewArray
  <2> HIDE DEF a, s
  <2>7. Appended(arrays, a, arrays')
    BY <2>5 DEF Appended
  <2>8. /\ GoodArrays(arrays')
        /\ \A i \in 1..Len(arrays') :
             arrays'[i] = a \/ \E j \in 1..Len(arrays) : arrays'[i] = arrays[j]
        /\ \A t : GoodSlice(arrays, t) => GoodSlice(arrays', t)
    BY <1>1, <2>6, <2>7, ArrayAdded
  <2>9. mem' = [array |-> Len(arrays) + 1, len |-> Len(a.cells)]
    BY <2>3, <2>4, <2>6
  <2>10. /\ mem' # Nil /\ GoodSlice(arrays', mem') /\ Full(arrays', mem')
         /\ Memory' = c
    BY <1>1, <1>2, <2>6, <2>7, <2>9, ArrayAdded
  <2> QED
    BY <2>6, <2>8, <2>10 DEF c, h, s
<1> QED
  BY <1>4, <1>5

LEMMA AppendKeeps == ASSUME Inv, NEW w \in Workers, AppendBlock(w) PROVE Inv'
<1> USE DEF Inv
<1> DEFINE b == GenerateBlock(lastBlock[w], Chat(w))
           h == Held(arrays, slice[w])
<1>1. /\ pc[w] = "append" /\ ~down /\ Goto(w, "truncate") /\ loaded' = TRUE
      /\ UNCHANGED <<file, slice, lastBlock, buffer, holder, added, failed, down>>
  BY DEF AppendBlock, At
<1>2. /\ slice[w] # Nil /\ GoodSlice(arrays, slice[w])
      /\ Job[w] = "add" /\ "truncate" \in Steps(w)
  BY <1>1, StepsOf DEF Types, CallType
<1>3. /\ pc' \in [Workers -> AllSteps]
      /\ pc'[w] = "truncate" /\ \A v \in Workers : v # w => pc'[v] = pc[v]
      /\ \A v \in Workers : pc'[v] \in Steps(v)
      /\ NothingCleared' => NothingCleared
  BY <1>1, <1>2, Moved
<1>4. b.data.kind = "CHAT_MSG" /\ b.data.about = w
  BY DEF GenerateBlock, NewBlock, Chat
<1>5. GoodChain(h) /\ Len(h) = slice[w].len
      /\ (Full(arrays, slice[w]) => h = arrays[slice[w].array].cells)
      /\ slice[w].array \in 1..Len(arrays)
  BY <1>2, SliceHeld DEF Types, MemType
<1>6. /\ GoodArrays(arrays') /\ GoodSlice(arrays', mem') /\ mem' # Nil
      /\ \A s : GoodSlice(arrays, s) => GoodSlice(arrays', s)
      /\ Full(arrays, slice[w]) =>
           /\ Full(arrays', mem')
           /\ Memory' = Append(h, b)
           /\ \A i \in 1..Len(arrays') :
                \/ arrays'[i].cells = Memory'
                \/ \E j \in 1..Len(arrays) : arrays'[i] = arrays[j]
  BY <1>2, AppendDone
<1>7. Types'
  <2>1. CallType'
    BY <1>1, <1>3, <1>6 DEF Types, CallType
  <2> QED
    BY <1>1, <1>3, <1>6, <2>1 DEF Types, Basics, MemType
<1>8. NothingCleared' => EntryInv'
  BY <1>1, <1>3, <1>6 DEF EntryInv, HasEntry
<1>9. Serialized => MutexInv' /\ LinkInv'
  <2> SUFFICES ASSUME Serialized PROVE MutexInv' /\ LinkInv'
    OBVIOUS
  <2>1. MutexInv'
    BY <1>1, <1>2, <1>3 DEF MutexInv
  <2>2. Full(arrays, slice[w]) /\ lastBlock[w] = h[slice[w].len]
    BY <1>1, <1>2 DEF LinkInv
  <2>3. Linked(h)
    BY <1>5, <2>2 DEF LinkInv
  <2>4. Linked(Append(h, b))
    <3> HIDE DEF h
    <3>1. IsSeq(h) /\ h # << >> /\ b = GenerateBlock(h[Len(h)], Chat(w))
      BY <1>5, <2>2 DEF GoodChain
    <3> HIDE DEF b
    <3> QED
      BY <2>3, <3>1, LinkedAppended
  <2>5. \A v \in Workers : pc'[v] # "append"
    <3>1. \A v \in Workers : pc[v] = "append" => Job[v] = "add"
      BY StepsOf DEF Types, CallType
    <3>2. \A v \in Workers : pc[v] = "append" => v = w
      BY <1>1, <1>2, <3>1 DEF MutexInv
    <3> QED
      BY <1>3, <3>2
  <2>6. \A i \in 1..Len(arrays') : Linked(arrays'[i].cells)
    BY <1>6, <2>2, <2>4 DEF LinkInv
  <2>7. LinkInv'
    BY <1>1, <1>6, <2>2, <2>5, <2>6 DEF LinkInv
  <2> QED
    BY <2>1, <2>7
<1>10. Serialized /\ NothingCleared' => LoadInv' /\ AddInv'
  <2> SUFFICES ASSUME Serialized, NothingCleared' PROVE LoadInv' /\ AddInv'
    OBVIOUS
  <2>1. LoadInv /\ AddInv /\ EntryInv /\ MutexInv /\ LinkInv
    BY <1>3
  <2>2. loaded /\ slice[w] = mem /\ h = Memory
    BY <1>1, <2>1 DEF LoadInv, EntryInv, HasEntry, Memory
  <2>3. Memory' = Append(Memory, b) /\ IsSeq(Memory)
    BY <1>1, <1>2, <1>5, <1>6, <2>1, <2>2 DEF LinkInv, GoodChain
  <2>4. \A v \in Workers : v # w =>
          /\ pc[v] \notin {"append", "truncate", "encode", "write"}
          /\ Job[v] = "add" => pc[v] \in {"idle", "done"}
    <3>1. \A v \in Workers : pc[v] = "append" => Job[v] = "add"
      BY StepsOf DEF Types, CallType
    <3> QED
      BY <1>1, <1>2, <2>1, <3>1, OneSaves
  <2>5. LoadInv'
    BY <1>1, <1>2, <1>3, <2>1, <2>2, <2>4 DEF LoadInv
  <2> HIDE DEF b, h
  <2>6. Chats(Memory) \subseteq Chats(Memory') /\ w \in Chats(Memory')
    BY <1>4, <2>3, ChatsAppended
  <2>7. Follows'
    <3>1. Follows
      BY <2>1, <2>2 DEF AddInv
    <3>2. CASE Behind(file, Memory, failed \cup Truncating)
      <4>1. failed \cup Truncating \subseteq failed' \cup Truncating'
        BY <1>1, <1>3 DEF Truncating
      <4>2. w \in Truncating'
        BY <1>3 DEF Truncating
      <4>3. GoodFile(file)
        BY DEF Types, MemType
      <4>4. Behind(file, Memory', failed' \cup Truncating')
        BY <1>4, <2>3, <3>2, <4>1, <4>2, <4>3, BehindAppended
      <4> QED
        BY <1>1, <4>4 DEF Follows
    <3>3. CASE /\ file \in {Empty, Torn}
               /\ failed # {} \/ \E v \in Workers : pc[v] \in {"encode", "write"}
      BY <1>1, <2>4, <3>3 DEF Follows
    <3> QED
      BY <3>1, <3>2, <3>3 DEF Follows
  <2>8. \A v \in Workers : pc'[v] \in {"truncate", "encode", "write"} => v = w
    BY <1>3, <2>4
  <2>9. AddInv'
    BY <1>1, <2>1, <2>2, <2>6, <2>7, <2>8 DEF AddInv
  <2> QED
    BY <2>5, <2>9
<1> QED
  BY <1>7, <1>8, <1>9, <1>10

LEMMA CrashKeeps == ASSUME Inv, CrashAndRestart PROVE Inv'
<1> USE DEF Inv
<1>1. /\ ~down
      /\ pc' = [w \in Workers |-> IF pc[w] = "idle" THEN "idle" ELSE "done"]
      /\ slice' = [w \in Workers |-> Nil]
      /\ lastBlock' = [w \in Workers |-> GenesisBlock]
      /\ buffer' = [w \in Workers |-> NoFile]
      /\ holder' = {}
      /\ UNCHANGED <<file, added, failed, down>>
  BY DEF CrashAndRestart
<1>2. /\ \A w \in Workers : /\ pc'[w] \in {"idle", "done"}
                            /\ pc'[w] = "idle" <=> pc[w] = "idle"
                            /\ slice'[w] = Nil /\ buffer'[w] = NoFile
      /\ NothingCleared' => NothingCleared
  BY <1>1 DEF NothingCleared
<1>3. GoodFile(file)
  BY DEF Types, MemType
<1>4. /\ GoodFile(NoFile) /\ NoFile # Null /\ Linked(NoFile.chain)
  <2>1. NoFile \in NoChain /\ GoodFile(NoFile)
    BY DEF NoChain, GoodFile
  <2> QED
    BY <2>1, FileKinds DEF NoFile, Null
<1>5. /\ GoodArrays(arrays') /\ GoodSlice(arrays', mem') /\ Full(arrays', mem')
      /\ loaded' \in BOOLEAN
      /\ file.kind = "chain" => /\ loaded' /\ mem' # Nil /\ GoodChain(file.chain)
                                /\ Memory' = file.chain /\ file = File(file.chain)
      /\ file.kind # "chain" => (loaded' <=> file = Null)
      /\ Linked(file.chain) => \A i \in 1..Len(arrays') : Linked(arrays'[i].cells)
  <2>1. CASE file.kind = "chain"
    <3> DEFINE c == file.chain
    <3>1. GoodChain(c) /\ file = File(c)
      BY <1>3, <2>1, FileKinds
    <3>2. PICK spare \in 0..Spare : arrays' = <<[cells |-> c, cap |-> Len(c) + spare]>>
      BY <2>1 DEF CrashAndRestart
    <3>3. loaded' /\ mem' = [array |-> 1, len |-> Len(c)]
      BY <2>1 DEF CrashAndRestart
    <3> DEFINE a == [cells |-> c, cap |-> Len(c) + spare]
    <3>4. arrays' = <<a>>
      BY <3>2
    <3> HIDE DEF c
    <3>5. GoodArray(a) /\ a.cells = c
      BY <3>1, NewArray
    <3> HIDE DEF a
    <3>6. /\ GoodArrays(arrays') /\ Len(arrays') = 1 /\ arrays'[1] = a
          /\ mem' # Nil /\ GoodSlice(arrays', mem') /\ Full(arrays', mem')
          /\ Memory' = c
      BY <3>3, <3>4, <3>5, OneArray DEF Memory
    <3>7. \A i \in 1..Len(arrays') : i = 1
      BY <3>6
    <3> QED
      BY <2>1, <3>1, <3>3, <3>5, <3>6, <3>7 DEF c
  <2>2. CASE file.kind # "chain"
    <3>1. mem' = Nil /\ arrays' = << >>
      BY <2>2 DEF CrashAndRestart
    <3>2. (loaded' <=> file = Null) /\ loaded' \in BOOLEAN
      <4>1. loaded' = (file = Null)
        BY <2>2 DEF CrashAndRestart
      <4> QED
        BY <4>1, Zenon
    <3>3. Len(arrays') = 0 /\ IsSeq(arrays')
      BY <3>1, EmptySeq DEF IsSeq
    <3> QED
      BY <2>2, <3>1, <3>2, <3>3, NilHeld DEF GoodArrays
  <2> QED
    BY <2>1, <2>2
<1>6. Types'
  <2>1. \A w \in Workers : pc'[w] \in Steps(w)
    BY <1>2, StepsOf
  <2>2. CallType'
    BY <1>1, <1>2, <1>4, <2>1, NilHeld DEF CallType
  <2>3. pc' \in [Workers -> AllSteps]
    BY <1>1 DEF AllSteps
  <2> QED
    BY <1>1, <1>3, <1>5, <2>2, <2>3 DEF Types, Basics, MemType
<1>7. NothingCleared' => EntryInv'
  BY <1>1, <1>2, <1>4, <1>5 DEF EntryInv, HasEntry
<1>8. Serialized => MutexInv' /\ LinkInv'
  BY <1>1, <1>2, <1>4, <1>5 DEF MutexInv, LinkInv
<1>9. Serialized /\ NothingCleared' => LoadInv' /\ AddInv'
  <2> SUFFICES ASSUME Serialized, NothingCleared' PROVE LoadInv' /\ AddInv'
    OBVIOUS
  <2>1. LoadInv /\ AddInv /\ EntryInv
    BY <1>2
  <2>2. file # Null /\ (loaded' => file.kind = "chain")
    BY <1>5, <2>1 DEF EntryInv
  <2>3. ~loaded' => file \in {NoFile, Empty, Torn}
    BY <1>3, <1>5, <2>2, FileKinds DEF NoChain
  <2>4. LoadInv'
    BY <1>1, <1>2, <2>1, <2>3 DEF LoadInv
  <2>5. loaded' => Follows'
    BY <1>1, <1>5, <2>2, NotBehind DEF Follows
  <2>6. AddInv'
    BY <1>1, <1>2, <1>5, <2>1, <2>2, <2>5 DEF AddInv
  <2> QED
    BY <2>4, <2>6
<1> QED
  BY <1>6, <1>7, <1>8, <1>9

LEMMA StutterKeeps == ASSUME Inv, UNCHANGED vars PROVE Inv'
<1>1. UNCHANGED <<loaded, mem, arrays, file, pc, slice, lastBlock, buffer, holder,
                  added, failed, down>>
  BY DEF vars
<1>2. Types'
  BY <1>1 DEF Inv, Types, Basics, MemType, CallType
<1>3. NothingCleared' = NothingCleared /\ EntryInv' = EntryInv
  BY <1>1 DEF NothingCleared, EntryInv, HasEntry
<1>4. MutexInv' = MutexInv /\ LinkInv' = LinkInv
  BY <1>1 DEF MutexInv, LinkInv
<1>5. Memory' = Memory
  BY <1>1 DEF Memory
<1>6. LoadInv' = LoadInv
  BY <1>1, <1>5 DEF LoadInv
<1>7. Truncating' = Truncating
  BY <1>1 DEF Truncating
<1>8. Follows' = Follows
  BY <1>1, <1>5, <1>7 DEF Follows
<1>9. AddInv' = AddInv
  BY <1>1, <1>5, <1>8 DEF AddInv
<1> QED
  BY <1>2, <1>3, <1>4, <1>6, <1>9 DEF Inv

LEMMA NextInv == ASSUME Inv, [Next]_vars PROVE Inv'
<1>1. CASE UNCHANGED vars
  BY <1>1, StutterKeeps
<1>2. CASE CrashAndRestart
  BY <1>2, CrashKeeps
<1>3. ASSUME NEW w \in Workers,
             \/ SaveFails(w)
             \/ Start(w) \/ Load(w) \/ Fetch(w) \/ Install(w) \/ Use(w)
             \/ AppendBlock(w) \/ Truncate(w) \/ Encode(w) \/ Write(w)
             \/ Scan(w)
      PROVE  Inv'
  BY <1>3, SaveFailsKeeps, StartKeeps, LoadKeeps, FetchKeeps, InstallKeeps, UseKeeps,
     AppendKeeps, TruncateKeeps, EncodeKeeps, WriteKeeps, ScanKeeps
<1> QED
  BY <1>1, <1>2, <1>3 DEF Next
--------------------------------------------------------------------------------
(* The strengthened invariant holds of every behaviour: of the entry, the  *)
(* slices that share its backing array and the file, whatever goroutines   *)
(* load, append, save, clear, fail or are killed in between.               *)
THEOREM Invariance == Spec => []Inv
<1>1. Init => Inv
  BY InitInv
<1>2. Inv /\ [Next]_vars => Inv'
  BY NextInv
<1> QED
  BY <1>1, <1>2, PTL DEF Spec

(* The types of the state: every slice is of an array that exists, and no  *)
(* backing array holds more than its capacity, with and without the mutex. *)
THEOREM TypeCorrect == Spec => []TypeOK
<1>1. Inv => TypeOK
  BY TypesOK DEF Inv
<1> QED
  BY <1>1, Invariance, PTL

(* AddBlock does not take the last block of a nil chain, in ack mode and   *)
(* in direct mode, across crashes and failed saves: only a clear between   *)
(* LoadBlockchainFromFile and GetLastBlock can delete the entry.           *)
THEOREM NeverPanics == Spec => []NoPanic
<1>1. Inv => NoPanic
  BY DEF Inv, EntryInv, NoPanic
<1> QED
  BY <1>1, Invariance, PTL

LEMMA ContentIsMemory == Content(mem) = Memory
BY DEF Content, Memory, Held, Prefix

LEMMA MemoryGood == Types => IsSeq(Memory) /\ (mem # Nil => GoodChain(Memory))
<1> SUFFICES ASSUME Types PROVE IsSeq(Memory) /\ (mem # Nil => GoodChain(Memory))
  OBVIOUS
<1>1. CASE mem = Nil
  BY <1>1, NilHeld DEF Memory
<1>2. CASE mem # Nil
  BY <1>2, SliceHeld DEF Types, MemType, Memory, GoodChain
<1> QED
  BY <1>1, <1>2

(* With gossipMutex around AddBlock every block names the hash of the one  *)
(* before it, in memory and on file, although readers and clears take no   *)
(* lock and slices share backing arrays: an append is always at the end of *)
(* what its array holds, after the block it was generated from.            *)
THEOREM ChainStaysLinked == ASSUME Serialized PROVE Spec => []ChainLinked
<1>1. Inv => ChainLinked
  <2> SUFFICES ASSUME Inv PROVE ChainLinked
    OBVIOUS
  <2>1. LinkInv
    BY DEF Inv
  <2>2. Linked(Memory)
    <3>1. CASE mem = Nil
      <4>1. Memory = << >> /\ Len(<< >>) = 0
        BY <3>1, NilHeld DEF Memory
      <4> QED
        BY <4>1 DEF Linked
    <3>2. CASE mem # Nil
      <4>1. Memory = arrays[mem.array].cells /\ mem.array \in 1..Len(arrays)
        BY <2>1, <3>2, SliceHeld DEF LinkInv, Inv, Types, MemType, Memory
      <4> QED
        BY <2>1, <4>1 DEF LinkInv
    <3> QED
      BY <3>1, <3>2
  <2> QED
    BY <2>1, <2>2, ContentIsMemory DEF LinkInv, ChainLinked
<1> QED
  BY <1>1, Invariance, PTL

(* What an AddBlock that returned success has added stays in memory, as    *)
(* long as nothing is cleared: no reload replaces the entry by an older    *)
(* chain, and no later append is made to an older slice.                   *)
THEOREM AddedStaysInMemory == ASSUME Serialized PROVE Spec => []AddedIsInMemory
<1>1. Inv => AddedIsInMemory
  BY ContentIsMemory DEF Inv, AddInv, AddedIsInMemory
<1> QED
  BY <1>1, Invariance, PTL

(* And on file, across crashes and failed saves, as long as the file can   *)
(* be parsed: a save never writes a chain that lacks an added block.       *)
THEOREM AddedStaysOnFile == ASSUME Serialized PROVE Spec => []AddedIsOnFile
<1>1. Inv => AddedIsOnFile
  BY DEF Inv, AddInv, AddedIsOnFile
<1> QED
  BY <1>1, Invariance, PTL

(* The blocks behind the end of a file are those of goroutines in S.       *)
LEMMA BehindChats ==
  ASSUME NEW c, IsSeq(c), NEW f, GoodFile(f), NEW S, Behind(f, c, S)
  PROVE  Chats(SubSeq(c, Len(f.chain) + 1, Len(c))) \subseteq S
<1> DEFINE n == Len(f.chain)
           d == SubSeq(c, n + 1, Len(c))
           B == {c[i] : i \in 1..Len(c)}
<1>1. n \in Nat /\ Len(c) \in Nat /\ n <= Len(c)
  BY FileKinds, NotEmpty DEF Behind
<1>2. \A i \in (n + 1)..Len(c) : c[i].data.kind = "CHAT_MSG" => c[i].data.about \in S
  BY DEF Behind
<1>3. /\ Len(d) = IF n + 1 <= Len(c) THEN Len(c) - (n + 1) + 1 ELSE 0
      /\ \A i \in 1..(Len(c) - (n + 1) + 1) : d[i] = c[(n + 1) + i - 1]
  <2>1. n + 1 \in Int /\ Len(c) \in Int
    BY <1>1
  <2>2. \A i \in (n + 1)..Len(c) : c[i] \in B
    BY <1>1
  <2> HIDE DEF n, B
  <2> QED
    BY <2>1, <2>2, SubSeqProperties
<1> HIDE DEF n, d, B
<1>4. ASSUME NEW i \in 1..Len(d), d[i].data.kind = "CHAT_MSG"
      PROVE  d[i].data.about \in S
  <2>1. /\ i \in 1..(Len(c) - (n + 1) + 1)
        /\ (n + 1) + i - 1 \in (n + 1)..Len(c)
    BY <1>1, <1>3
  <2>2. d[i] = c[(n + 1) + i - 1]
    BY <1>3, <2>1
  <2> QED
    BY <1>2, <1>4, <2>1, <2>2
<1>5. Chats(d) \subseteq S
  BY <1>4 DEF Chats
<1> QED
  BY <1>5 DEF d, n

(* Whenever no save is under way the file holds the chain in memory, or    *)
(* lacks the end of it after a save that failed, and then only blocks      *)
(* whose AddBlock returned an error.                                       *)
THEOREM FileFollowsMemory == ASSUME Serialized PROVE Spec => []FileMatchesMemory
<1>1. Inv => FileMatchesMemory
  <2> SUFFICES ASSUME Inv, NothingCleared, loaded, ~Saving
               PROVE  \/ failed # {} /\ file.kind \in {"empty", "torn"}
                      \/ LET onFile == Len(file.chain)
                             n      == Len(Content(mem))
                         IN  /\ onFile <= n
                             /\ SubSeq(Content(mem), 1, onFile) = file.chain
                             /\ file.kind = "absent" => failed # {}
                             /\ Chats(SubSeq(Content(mem), onFile + 1, n)) \subseteq failed
    BY DEF FileMatchesMemory
  <2>1. Follows /\ GoodFile(file) /\ IsSeq(Memory)
    BY MemoryGood DEF Inv, AddInv, Types, MemType
  <2>2. /\ \A w \in Workers : pc[w] \notin {"truncate", "encode", "write"}
        /\ failed \cup Truncating = failed
    BY DEF Saving, Truncating
  <2>3. CASE file \in {Empty, Torn}
    <3>1. CASE failed # {}
      BY <2>1, <2>3, <3>1, FileKinds
    <3>2. CASE failed = {}
      <4>1. Behind(file, Memory, failed)
        BY <2>1, <2>2, <3>2 DEF Follows
      <4> QED
        BY <2>1, <2>3, <4>1, ContentIsMemory, FileKinds, BehindChats DEF Behind, Prefix
    <3> QED
      BY <3>1, <3>2
  <2>4. CASE file \notin {Empty, Torn}
    <3>1. Behind(file, Memory, failed)
      BY <2>1, <2>2, <2>4 DEF Follows
    <3>2. file.kind = "absent" => failed # {}
      BY <2>1, <3>1, FileKinds DEF Behind
    <3>3. /\ Len(file.chain) <= Len(Memory)
          /\ SubSeq(Memory, 1, Len(file.chain)) = file.chain
      BY <3>1 DEF Behind, Prefix
    <3>4. Chats(SubSeq(Memory, Len(file.chain) + 1, Len(Memory))) \subseteq failed
      BY <2>1, <3>1, BehindChats
    <3> QED
      BY <3>2, <3>3, <3>4, ContentIsMemory
  <2> QED
    BY <2>3, <2>4
<1> QED
  BY <1>1, Invariance, PTL
================================================================================
