-------------------------- MODULE AckConsensusProofs --------------------------
(***************************************************************************)
(* Proofs about AckConsensus, for every set of chats and peers, every      *)
(* threshold and every timer.                                              *)
(***************************************************************************)
EXTENDS AckConsensus, FiniteSetTheorems, TLAPS

-------------------------------------------------------------------------------
(* The inductive invariant.                                                *)

(* A chat handler at work has marked the chat and not queued it yet.       *)
HandlerInv ==
  \A m \in Msgs : /\ chatPc[m] # "idle" => m \in messageHistory
                  /\ chatPc[m] # "idle" => waiter[m] = "none"
                  /\ waiter[m] # "none" => m \in messageHistory

(* Until a chat is queued its counted acks are exactly the stored ones.    *)
NotQueuedYet ==
  \A m \in Msgs : waiter[m] = "none" => /\ m \notin msgsToProcess
                                        /\ processedAcks[m] = PendingPeers(m)

(* A chat in the chain is a decided one.                                   *)
Decided ==
  \A i \in 1..Len(saved) : /\ waiter[saved[i]] # "none"
                           /\ saved[i] \notin msgsToProcess

Inv == /\ TypeOK
       /\ HandlerInv
       /\ NotQueuedYet
       /\ Decided
       /\ AckCountExact
       /\ QuorumBacked
       /\ SavedOnce
-------------------------------------------------------------------------------
(* Members and all its subsets are finite.                                 *)
LEMMA MembersFinite ==
  \A S \in SUBSET Members : IsFiniteSet(S) /\ Cardinality(S) \in Nat
BY NodeAssumption, FS_Subset, FS_CardinalityType

(* A peer that was not counted adds one to the count.                      *)
LEMMA CountOneMore ==
  ASSUME NEW S \in SUBSET Members, NEW p, p \notin S
  PROVE  Cardinality(S \cup {p}) = Cardinality(S) + 1
BY MembersFinite, FS_AddElement

LEMMA OwnAckType == \A m \in Msgs : OwnAck(m) \in Acks
<1>1. (CHOOSE c \in Copies : TRUE) \in Copies
  BY NodeAssumption
<1>2. QED
  BY <1>1, NodeAssumption DEF OwnAck, Acks

(* What an ack or a tick does to the queue and the chain when the count    *)
(* has reached the threshold.                                              *)
LEMMA TrySaveType ==
  ASSUME TypeOK, NEW m \in Msgs, TrySave(m)
  PROVE  /\ msgsToProcess' \subseteq msgsToProcess
         /\ saved' \in Seq(Msgs)
         /\ refused' \subseteq Msgs
<1>1. Append(saved, m) \in Seq(Msgs)
  BY DEF TypeOK
<1>2. CASE SaveAndRemove(m) /\ UNCHANGED refused
  BY <1>1, <1>2 DEF TypeOK, SaveAndRemove
<1>3. CASE refused' = refused \cup {m} /\ UNCHANGED <<saved, msgsToProcess>>
  BY <1>3 DEF TypeOK
<1>4. QED BY <1>2, <1>3 DEF TrySave

LEMMA ApplyAckType ==
  ASSUME TypeOK, NEW a \in Acks, a.from \in Members, ApplyAck(a)
  PROVE  /\ msgsToProcess' \subseteq msgsToProcess
         /\ acksReceived' \in [Msgs -> Nat]
         /\ processedAcks' \in [Msgs -> SUBSET Members]
         /\ pendingAcks' \in [Msgs -> SUBSET MemberAcks]
         /\ saved' \in Seq(Msgs)
         /\ refused' \subseteq Msgs
<1>0. a.msg \in Msgs
  BY DEF Acks
<1>1. CASE RepeatedAck(a)
  BY <1>1 DEF RepeatedAck, TypeOK, queueVars
<1>2. ASSUME MarkAcker(a) PROVE processedAcks' \in [Msgs -> SUBSET Members]
  BY <1>0, <1>2 DEF MarkAcker, TypeOK
<1>3. CASE StoreAck(a)
  <2>1. pendingAcks' \in [Msgs -> SUBSET MemberAcks]
    <3>1. pendingAcks' = [pendingAcks EXCEPT ![a.msg] = @ \cup {a}]
      BY <1>3 DEF StoreAck
    <3>2. a \in MemberAcks
      BY DEF MemberAcks
    <3>3. QED
      BY <1>0, <3>1, <3>2 DEF TypeOK
  <2>2. QED
    BY <1>2, <1>3, <2>1 DEF StoreAck, TypeOK
<1>4. CASE CountAck(a)
  <2>1. acksReceived' \in [Msgs -> Nat]
    BY <1>0, <1>4 DEF CountAck, TypeOK
  <2>2. QED
    BY <1>0, <1>2, <1>4, <2>1, TrySaveType DEF CountAck, TypeOK
<1>5. QED BY <1>1, <1>3, <1>4 DEF ApplyAck

(* Stored acks come from members, so their peers are a finite set.         *)
LEMMA PendingPeersType ==
  ASSUME TypeOK, NEW m \in Msgs
  PROVE  PendingPeers(m) \in SUBSET Members
BY DEF TypeOK, PendingPeers, MemberAcks

LEMMA EnqueueType ==
  ASSUME TypeOK, NEW m \in Msgs, Enqueue(m)
  PROVE  /\ msgsToProcess' \subseteq Msgs
         /\ acksReceived' \in [Msgs -> Nat]
         /\ processedAcks' \in [Msgs -> SUBSET Members]
         /\ pendingAcks' \in [Msgs -> SUBSET MemberAcks]
         /\ waiter' \in [Msgs -> Waiter]
         /\ ticks' \in [Msgs -> 0..Ticks]
         /\ chainAtArrival' \in [Msgs -> Nat]
<1>1. CASE m \in msgsToProcess
  BY <1>1 DEF Enqueue, TypeOK, queueVars, waiterVars
<1>2. CASE m \notin msgsToProcess
  <2>1. PendingPeers(m) \in SUBSET Members
    BY PendingPeersType
  <2>2. acksReceived' \in [Msgs -> Nat]
    <3>1. Cardinality(PendingPeers(m)) \in Nat
      BY <2>1, MembersFinite
    <3>2. QED BY <1>2, <3>1 DEF Enqueue, TypeOK
  <2>3. processedAcks' \in [Msgs -> SUBSET Members]
    <3>1. CASE pendingAcks[m] = {}
      BY <1>2, <3>1 DEF Enqueue, TypeOK
    <3>2. CASE pendingAcks[m] # {}
      BY <1>2, <2>1, <3>2 DEF Enqueue, TypeOK
    <3>3. QED BY <3>1, <3>2
  <2>4. pendingAcks' \in [Msgs -> SUBSET MemberAcks]
    BY <1>2 DEF Enqueue, TypeOK
  <2>5. /\ waiter' \in [Msgs -> Waiter]
        /\ ticks' \in [Msgs -> 0..Ticks]
    <3>1. /\ waiter' = [waiter EXCEPT ![m] = "waiting"]
          /\ ticks' = [ticks EXCEPT ![m] = 0]
      BY <1>2 DEF Enqueue
    <3>2. 0 \in 0..Ticks
      BY NodeAssumption
    <3>3. QED BY <3>1, <3>2 DEF TypeOK, Waiter
  <2>6. chainAtArrival' \in [Msgs -> Nat]
    <3>1. Len(saved) \in Nat
      BY DEF TypeOK
    <3>2. chainAtArrival' = [chainAtArrival EXCEPT ![m] = Len(saved)]
      BY <1>2 DEF Enqueue
    <3>3. QED BY <3>1, <3>2 DEF TypeOK
  <2>7. QED
    BY <1>2, <2>2, <2>3, <2>4, <2>5, <2>6 DEF Enqueue, TypeOK
<1>3. QED BY <1>1, <1>2

(* The state stays well-formed: what is counted or stored as an ack comes  *)
(* from a member of the room, whatever keys the acks that arrive carry     *)
(* (the test isInRoom in HandleGossipMessage).                             *)
THEOREM TypeCorrect == Spec => []TypeOK
<1>1. Init => TypeOK
  BY NodeAssumption DEF Init, TypeOK, ChatPc, AckPc, Waiter
<1>2. TypeOK /\ [Next]_vars => TypeOK'
  <2> SUFFICES ASSUME TypeOK, [Next]_vars PROVE TypeOK'
    OBVIOUS
  <2> USE DEF ChatPc, AckPc, Waiter
  <2>1. CASE UNCHANGED vars
    BY <2>1 DEF vars, handlerVars, queueVars, waiterVars, historyVars, TypeOK
  <2>2. ASSUME NEW a \in Acks, SeeAck(a) PROVE TypeOK'
    BY <2>2 DEF SeeAck, queueVars, waiterVars, historyVars, TypeOK
  <2>3. ASSUME NEW a \in Acks, FirstPass(a) PROVE TypeOK'
    <3>1. CASE a.from \in Members
      BY <2>3, <3>1, ApplyAckType DEF FirstPass, waiterVars, TypeOK
    <3>2. CASE a.from \notin Members
      BY <2>3, <3>2 DEF FirstPass, queueVars, waiterVars, TypeOK
    <3>3. QED BY <3>1, <3>2
  <2>4. ASSUME NEW a \in Acks, SecondPass(a) PROVE TypeOK'
    <3>1. CASE a.from \in Members /\ ApplyAck(a)
      BY <2>4, <3>1, ApplyAckType DEF SecondPass, waiterVars, TypeOK
    <3>2. CASE UNCHANGED <<queueVars, saved, refused>>
      BY <2>4, <3>2 DEF SecondPass, queueVars, waiterVars, TypeOK
    <3>3. QED BY <2>4, <3>1, <3>2 DEF SecondPass
  <2>5. ASSUME NEW m \in Msgs, SeeChat(m) PROVE TypeOK'
    BY <2>5 DEF SeeChat, queueVars, waiterVars, historyVars, TypeOK
  <2>6. ASSUME NEW m \in Msgs, AuthChat(m) PROVE TypeOK'
    BY <2>6 DEF AuthChat, queueVars, waiterVars, historyVars, TypeOK
  <2>7. ASSUME NEW m \in Msgs, SendAck(m) PROVE TypeOK'
    BY <2>7, OwnAckType
    DEF SendAck, queueVars, waiterVars, historyVars, TypeOK
  <2>8. ASSUME NEW m \in Msgs, AckSent(m) PROVE TypeOK'
    BY <2>8 DEF AckSent, queueVars, waiterVars, historyVars, TypeOK
  <2>9. ASSUME NEW m \in Msgs, Enqueue(m) PROVE TypeOK'
    BY <2>9, EnqueueType DEF Enqueue, TypeOK
  <2>10. ASSUME NEW m \in Msgs, Tick(m) PROVE TypeOK'
    <3>1. ticks' \in [Msgs -> 0..Ticks]
      BY <2>10, NodeAssumption DEF Tick, TypeOK
    <3>2. waiter' \in [Msgs -> Waiter]
      BY <2>10 DEF Tick, TypeOK
    <3>3. /\ msgsToProcess' \subseteq msgsToProcess
          /\ saved' \in Seq(Msgs)
          /\ refused' \subseteq Msgs
      BY <2>10, TrySaveType DEF Tick, HasQuorum, TypeOK
    <3>4. QED
      BY <2>10, <3>1, <3>2, <3>3 DEF Tick, handlerVars, TypeOK
  <2>11. ASSUME NEW m \in Msgs, Timeout(m) PROVE TypeOK'
    BY <2>11 DEF Timeout, handlerVars, historyVars, TypeOK
  <2>12. QED
    BY <2>1, <2>2, <2>3, <2>4, <2>5, <2>6, <2>7, <2>8, <2>9, <2>10, <2>11
    DEF Next
<1>3. QED BY <1>1, <1>2, PTL DEF Spec
-------------------------------------------------------------------------------
(* A quorum is not lost while acks only accumulate.                        *)
LEMMA QuorumLasts ==
  ASSUME Inv,
         processedAcks' \in [Msgs -> SUBSET Members],
         \A x \in Msgs : processedAcks[x] \subseteq processedAcks'[x]
  PROVE  \A i \in 1..Len(saved) :
           Cardinality(processedAcks'[saved[i]]) >= Threshold
<1>1. TAKE i \in 1..Len(saved)
<1>2. saved[i] \in Msgs
  BY DEF Inv, TypeOK
<1>3. /\ IsFiniteSet(processedAcks'[saved[i]])
      /\ Cardinality(processedAcks[saved[i]]) \in Nat
      /\ Cardinality(processedAcks'[saved[i]]) \in Nat
  BY <1>2, MembersFinite DEF Inv, TypeOK
<1>4. Cardinality(processedAcks[saved[i]])
        <= Cardinality(processedAcks'[saved[i]])
  BY <1>2, <1>3, FS_Subset
<1>5. QED
  BY <1>3, <1>4, NodeAssumption DEF Inv, QuorumBacked

LEMMA QuorumBackedLasts ==
  ASSUME Inv,
         processedAcks' \in [Msgs -> SUBSET Members],
         \A x \in Msgs : processedAcks[x] \subseteq processedAcks'[x],
         saved' = saved
  PROVE  QuorumBacked'
<1>1. \A i \in 1..Len(saved) : saved[i] \in Msgs
  BY DEF Inv, TypeOK
<1>2. \A i \in 1..Len(saved) :
        Cardinality(processedAcks'[saved[i]]) >= Threshold
  BY QuorumLasts
<1>3. QED BY <1>1, <1>2 DEF QuorumBacked

(* The chain grows by a queued chat whose counted acks reach the           *)
(* threshold, while acks only accumulate.                                  *)
LEMMA TrySaveKeepsChain ==
  ASSUME Inv, NEW m \in msgsToProcess, TrySave(m),
         \A x \in Msgs : waiter[x] # "none" => waiter'[x] # "none",
         processedAcks' \in [Msgs -> SUBSET Members],
         \A x \in Msgs : processedAcks[x] \subseteq processedAcks'[x],
         Cardinality(processedAcks'[m]) >= Threshold
  PROVE  Decided' /\ QuorumBacked' /\ SavedOnce'
<1>1. m \in Msgs /\ waiter[m] # "none"
  BY DEF Inv, TypeOK, NotQueuedYet
<1>2. \A i \in 1..Len(saved) : saved[i] \in Msgs /\ saved[i] # m
  BY DEF Inv, TypeOK, Decided
<1>4. \A i \in 1..Len(saved) :
        Cardinality(processedAcks'[saved[i]]) >= Threshold
  BY QuorumLasts
<1>5. msgsToProcess' \subseteq msgsToProcess
  BY <1>1, TrySaveType DEF Inv
<1>6. CASE saved' = saved
  BY <1>2, <1>4, <1>5, <1>6 DEF Inv, Decided, QuorumBacked, SavedOnce
<1>7. CASE saved' = Append(saved, m) /\ msgsToProcess' = msgsToProcess \ {m}
  <2>1. saved \in Seq(Msgs)
    BY DEF Inv, TypeOK
  <2>2. /\ Len(saved') = Len(saved) + 1
        /\ saved'[Len(saved) + 1] = m
        /\ \A i \in 1..Len(saved) : saved'[i] = saved[i]
    BY <1>7, <2>1
  <2>3. \A i \in 1..Len(saved') : i \in 1..Len(saved) \/ i = Len(saved) + 1
    BY <2>1, <2>2
  <2>4. Decided'
    <3>1. ASSUME NEW i \in 1..Len(saved')
          PROVE  waiter'[saved'[i]] # "none" /\ saved'[i] \notin msgsToProcess'
      <4>1. CASE i \in 1..Len(saved)
        BY <1>2, <1>5, <2>2, <4>1 DEF Inv, Decided
      <4>2. CASE i = Len(saved) + 1
        BY <1>1, <1>7, <2>2, <4>2
      <4>3. QED BY <2>3, <4>1, <4>2
    <3>2. QED BY <3>1 DEF Decided
  <2>5. QuorumBacked'
    <3>1. ASSUME NEW i \in 1..Len(saved')
          PROVE  /\ processedAcks'[saved'[i]] \subseteq Members
                 /\ Cardinality(processedAcks'[saved'[i]]) >= Threshold
      <4>1. CASE i \in 1..Len(saved)
        BY <1>2, <1>4, <2>2, <4>1
      <4>2. CASE i = Len(saved) + 1
        BY <1>1, <2>2, <4>2
      <4>3. QED BY <2>3, <4>1, <4>2
    <3>2. QED BY <3>1 DEF QuorumBacked
  <2>6. SavedOnce'
    <3>1. ASSUME NEW i \in 1..Len(saved'), NEW j \in 1..Len(saved'),
                 saved'[i] = saved'[j]
          PROVE  i = j
      BY <1>2, <2>2, <2>3, <3>1 DEF Inv, SavedOnce
    <3>2. QED BY <3>1 DEF SavedOnce
  <2>7. QED BY <2>4, <2>5, <2>6
<1>8. QED BY <1>6, <1>7 DEF TrySave, SaveAndRemove

(* An ack of a member, whichever pass of its handler applies it.           *)
LEMMA ApplyAckKeepsInv ==
  ASSUME Inv, NEW a \in MemberAcks, ApplyAck(a), UNCHANGED waiter
  PROVE  /\ NotQueuedYet' /\ Decided' /\ AckCountExact'
         /\ QuorumBacked' /\ SavedOnce'
<1>1. a \in Acks /\ a.msg \in Msgs /\ a.from \in Members
  BY DEF MemberAcks, Acks
<1>2. CASE RepeatedAck(a)
  BY <1>2 DEF RepeatedAck, queueVars, Inv, NotQueuedYet, PendingPeers, Decided,
              AckCountExact, QuorumBacked, SavedOnce
<1>3. ASSUME MarkAcker(a)
      PROVE  /\ processedAcks' \in [Msgs -> SUBSET Members]
             /\ processedAcks'[a.msg] = processedAcks[a.msg] \cup {a.from}
             /\ \A x \in Msgs \ {a.msg} : processedAcks'[x] = processedAcks[x]
             /\ \A x \in Msgs : processedAcks[x] \subseteq processedAcks'[x]
  BY <1>1, <1>3 DEF MarkAcker, Inv, TypeOK
<1>4. CASE StoreAck(a)
  <2>1. MarkAcker(a) /\ a.msg \notin msgsToProcess
    BY <1>4 DEF StoreAck
  <2>2. NotQueuedYet'
    <3>1. /\ pendingAcks'[a.msg] = pendingAcks[a.msg] \cup {a}
          /\ \A x \in Msgs \ {a.msg} : pendingAcks'[x] = pendingAcks[x]
      BY <1>1, <1>4 DEF StoreAck, Inv, TypeOK
    <3>2. ASSUME NEW x \in Msgs, waiter[x] = "none"
          PROVE  processedAcks'[x] = {b.from : b \in pendingAcks'[x]}
      <4>1. processedAcks[x] = {b.from : b \in pendingAcks[x]}
        BY <3>2 DEF Inv, NotQueuedYet, PendingPeers
      <4>2. CASE x = a.msg
        BY <1>3, <2>1, <3>1, <4>1, <4>2
      <4>3. CASE x # a.msg
        BY <1>3, <2>1, <3>1, <4>1, <4>3
      <4>4. QED BY <4>2, <4>3
    <3>3. QED
      BY <1>4, <3>2 DEF StoreAck, Inv, NotQueuedYet, PendingPeers
  <2>3. AckCountExact'
    BY <1>3, <1>4, <2>1 DEF StoreAck, Inv, TypeOK, AckCountExact
  <2>4. Decided' /\ SavedOnce'
    BY <1>4 DEF StoreAck, Inv, Decided, SavedOnce
  <2>5. QuorumBacked'
    BY <1>3, <1>4, <2>1, QuorumBackedLasts DEF StoreAck
  <2>6. QED BY <2>2, <2>3, <2>4, <2>5
<1>5. CASE CountAck(a)
  <2>1. /\ MarkAcker(a)
        /\ a.msg \in msgsToProcess
        /\ acksReceived' = [acksReceived EXCEPT ![a.msg] = @ + 1]
        /\ pendingAcks' = pendingAcks
    BY <1>5 DEF CountAck
  <2>2. Cardinality(processedAcks'[a.msg]) = acksReceived[a.msg] + 1
    <3>1. a.from \notin processedAcks[a.msg]
      BY <2>1 DEF MarkAcker
    <3>2. processedAcks[a.msg] \in SUBSET Members
      BY <1>1 DEF Inv, TypeOK
    <3>3. QED
      BY <1>3, <2>1, <3>1, <3>2, CountOneMore DEF Inv, AckCountExact
  <2>3. msgsToProcess' \subseteq msgsToProcess
    BY <1>1, <1>5, TrySaveType DEF CountAck, Inv
  <2>4. NotQueuedYet'
    BY <1>3, <2>1, <2>3 DEF Inv, NotQueuedYet, PendingPeers
  <2>5. AckCountExact'
    <3>1. ASSUME NEW x \in msgsToProcess'
          PROVE  acksReceived'[x] = Cardinality(processedAcks'[x])
      <4>1. x \in Msgs /\ x \in msgsToProcess
        BY <2>3 DEF Inv, TypeOK
      <4>2. CASE x = a.msg
        BY <2>1, <2>2, <4>1, <4>2 DEF Inv, TypeOK
      <4>3. CASE x # a.msg
        BY <1>3, <2>1, <4>1, <4>3 DEF Inv, TypeOK, AckCountExact
      <4>4. QED BY <4>2, <4>3
    <3>2. QED BY <3>1 DEF AckCountExact
  <2>6. Decided' /\ QuorumBacked' /\ SavedOnce'
    <3>1. CASE acksReceived[a.msg] + 1 >= Threshold
      BY <1>3, <1>5, <2>1, <2>2, <3>1, TrySaveKeepsChain DEF CountAck
    <3>2. CASE ~(acksReceived[a.msg] + 1 >= Threshold)
      <4>1. UNCHANGED <<msgsToProcess, saved>>
        BY <1>5, <3>2 DEF CountAck
      <4>2. QuorumBacked'
        BY <1>3, <2>1, <4>1, QuorumBackedLasts
      <4>3. QED
        BY <4>1, <4>2 DEF Inv, Decided, SavedOnce
    <3>3. QED BY <3>1, <3>2
  <2>7. QED BY <2>4, <2>5, <2>6
<1>6. QED BY <1>2, <1>4, <1>5 DEF ApplyAck

(* Steps that leave queue, acks, waiters and chain alone.                  *)
LEMMA HandlerStepKeepsInv ==
  ASSUME Inv, UNCHANGED <<queueVars, waiter, saved>>
  PROVE  /\ NotQueuedYet' /\ Decided' /\ AckCountExact'
         /\ QuorumBacked' /\ SavedOnce'
BY DEF queueVars, Inv, NotQueuedYet, PendingPeers, Decided, AckCountExact,
       QuorumBacked, SavedOnce

LEMMA EnqueueKeepsInv ==
  ASSUME Inv, NEW m \in Msgs, Enqueue(m)
  PROVE  HandlerInv' /\ NotQueuedYet' /\ Decided' /\ AckCountExact'
                     /\ QuorumBacked' /\ SavedOnce'
<1>1. waiter[m] = "none" /\ m \notin msgsToProcess /\ m \in messageHistory
  BY DEF Enqueue, Inv, HandlerInv, NotQueuedYet
<1>2. processedAcks[m] = PendingPeers(m)
  BY <1>1 DEF Inv, NotQueuedYet
<1>3. /\ chatPc' = [chatPc EXCEPT ![m] = "idle"]
      /\ waiter' = [waiter EXCEPT ![m] = "waiting"]
      /\ msgsToProcess' = msgsToProcess \cup {m}
      /\ acksReceived' =
           [acksReceived EXCEPT ![m] = Cardinality(PendingPeers(m))]
      /\ pendingAcks' = [pendingAcks EXCEPT ![m] = {}]
      /\ UNCHANGED <<messageHistory, saved>>
  BY <1>1 DEF Enqueue
<1>4. processedAcks' = processedAcks
  BY <1>1, <1>2 DEF Enqueue, Inv, TypeOK
<1>5. HandlerInv'
  BY <1>1, <1>3 DEF Inv, TypeOK, HandlerInv
<1>6. NotQueuedYet'
  BY <1>3, <1>4 DEF Inv, TypeOK, NotQueuedYet, PendingPeers
<1>7. AckCountExact'
  BY <1>2, <1>3, <1>4 DEF Inv, TypeOK, AckCountExact
<1>8. Decided'
  <2>1. ASSUME NEW i \in 1..Len(saved)
        PROVE  saved[i] \in Msgs /\ saved[i] # m
    BY <1>1 DEF Inv, TypeOK, Decided
  <2>2. QED
    BY <1>3, <2>1 DEF Inv, TypeOK, Decided
<1>9. QuorumBacked' /\ SavedOnce'
  BY <1>3, <1>4 DEF Inv, QuorumBacked, SavedOnce
<1>10. QED BY <1>5, <1>6, <1>7, <1>8, <1>9

LEMMA TickKeepsInv ==
  ASSUME Inv, NEW m \in Msgs, Tick(m)
  PROVE  HandlerInv' /\ NotQueuedYet' /\ Decided' /\ AckCountExact'
                     /\ QuorumBacked' /\ SavedOnce'
<1>1. /\ UNCHANGED <<messageHistory, chatPc, acksReceived, processedAcks,
                     pendingAcks>>
      /\ \/ waiter' = waiter
         \/ waiter' = [waiter EXCEPT ![m] = "done"]
  BY DEF Tick, handlerVars
<1>2. waiter[m] = "waiting"
  BY DEF Tick
<1>3. \A x \in Msgs : waiter'[x] = "none" <=> waiter[x] = "none"
  BY <1>1, <1>2 DEF Inv, TypeOK
<1>4. HandlerInv'
  BY <1>1, <1>3 DEF Inv, HandlerInv
<1>5. msgsToProcess' \subseteq msgsToProcess
  BY TrySaveType DEF Tick, HasQuorum, Inv
<1>6. NotQueuedYet' /\ AckCountExact'
  BY <1>1, <1>3, <1>5 DEF Inv, NotQueuedYet, PendingPeers, AckCountExact
<1>7. Decided' /\ QuorumBacked' /\ SavedOnce'
  <2>1. CASE m \in msgsToProcess /\ acksReceived[m] >= Threshold
    <3>1. TrySave(m)
      BY <2>1 DEF Tick, HasQuorum
    <3>2. Cardinality(processedAcks'[m]) >= Threshold
      BY <1>1, <2>1 DEF Inv, AckCountExact
    <3>3. processedAcks' \in [Msgs -> SUBSET Members]
      BY <1>1 DEF Inv, TypeOK
    <3>4. QED
      BY <1>1, <1>3, <2>1, <3>1, <3>2, <3>3, TrySaveKeepsChain
  <2>2. CASE ~(m \in msgsToProcess /\ acksReceived[m] >= Threshold)
    <3>1. UNCHANGED <<msgsToProcess, saved>>
      BY <2>2 DEF Tick, HasQuorum
    <3>2. \A i \in 1..Len(saved) : saved[i] \in Msgs
      BY DEF Inv, TypeOK
    <3>3. QED
      BY <1>1, <1>3, <3>1, <3>2 DEF Inv, Decided, QuorumBacked, SavedOnce
  <2>3. QED BY <2>1, <2>2
<1>8. QED BY <1>4, <1>6, <1>7

LEMMA TimeoutKeepsInv ==
  ASSUME Inv, NEW m \in Msgs, Timeout(m)
  PROVE  HandlerInv' /\ NotQueuedYet' /\ Decided' /\ AckCountExact'
                     /\ QuorumBacked' /\ SavedOnce'
<1>1. /\ UNCHANGED <<messageHistory, chatPc, acksReceived, processedAcks,
                     pendingAcks, saved>>
      /\ waiter' = [waiter EXCEPT ![m] = "done"]
      /\ waiter[m] = "waiting"
      /\ msgsToProcess' \subseteq msgsToProcess
  BY DEF Timeout, handlerVars
<1>2. \A x \in Msgs : waiter'[x] = "none" <=> waiter[x] = "none"
  BY <1>1 DEF Inv, TypeOK
<1>3. \A i \in 1..Len(saved) : saved[i] \in Msgs
  BY DEF Inv, TypeOK
<1>4. QED
  BY <1>1, <1>2, <1>3 DEF Inv, HandlerInv, NotQueuedYet, PendingPeers, Decided,
                          AckCountExact, QuorumBacked, SavedOnce

(* The inductive invariant holds.                                          *)
THEOREM Invariance == Spec => []Inv
<1>1. Init => Inv
  <2> SUFFICES ASSUME Init PROVE Inv
    OBVIOUS
  <2>1. TypeOK
    BY NodeAssumption DEF Init, TypeOK, ChatPc, AckPc, Waiter
  <2>2. QED
    BY <2>1 DEF Init, Inv, HandlerInv, NotQueuedYet, PendingPeers, Decided,
                AckCountExact, QuorumBacked, SavedOnce
<1>2. Inv /\ TypeOK' /\ [Next]_vars => Inv'
  <2> SUFFICES ASSUME Inv, TypeOK', [Next]_vars PROVE Inv'
    OBVIOUS
  <2>1. CASE UNCHANGED vars
    BY <2>1, HandlerStepKeepsInv
    DEF vars, handlerVars, queueVars, waiterVars, Inv, HandlerInv
  <2>2. ASSUME NEW a \in Acks, SeeAck(a) PROVE Inv'
    BY <2>2, HandlerStepKeepsInv DEF SeeAck, waiterVars, Inv, HandlerInv
  <2>3. ASSUME NEW a \in Acks, FirstPass(a) PROVE Inv'
    <3>1. HandlerInv' /\ UNCHANGED waiter
      BY <2>3 DEF FirstPass, waiterVars, Inv, HandlerInv
    <3>2. CASE a.from \in Members
      BY <2>3, <3>1, <3>2, ApplyAckKeepsInv DEF FirstPass, MemberAcks, Inv
    <3>3. CASE a.from \notin Members
      BY <2>3, <3>1, <3>3, HandlerStepKeepsInv DEF FirstPass, Inv
    <3>4. QED BY <3>2, <3>3
  <2>4. ASSUME NEW a \in Acks, SecondPass(a) PROVE Inv'
    <3>1. HandlerInv' /\ UNCHANGED waiter
      BY <2>4 DEF SecondPass, waiterVars, Inv, HandlerInv
    <3>2. CASE a.from \in Members /\ ApplyAck(a)
      BY <2>4, <3>1, <3>2, ApplyAckKeepsInv DEF MemberAcks, Inv
    <3>3. CASE UNCHANGED <<queueVars, saved, refused>>
      BY <3>1, <3>3, HandlerStepKeepsInv DEF Inv
    <3>4. QED BY <2>4, <3>2, <3>3 DEF SecondPass
  <2>5. ASSUME NEW m \in Msgs, SeeChat(m) PROVE Inv'
    <3>1. HandlerInv'
      BY <2>5 DEF SeeChat, waiterVars, Inv, TypeOK, HandlerInv
    <3>2. QED
      BY <2>5, <3>1, HandlerStepKeepsInv DEF SeeChat, waiterVars, Inv
  <2>6. ASSUME NEW m \in Msgs, AuthChat(m) \/ SendAck(m) \/ AckSent(m)
        PROVE  Inv'
    <3>1. /\ \A x \in Msgs : chatPc'[x] # "idle" => chatPc[x] # "idle"
          /\ messageHistory \subseteq messageHistory'
          /\ UNCHANGED <<queueVars, waiter, saved>>
      BY <2>6 DEF AuthChat, SendAck, AckSent, waiterVars, Inv, TypeOK
    <3>2. HandlerInv'
      BY <3>1 DEF Inv, HandlerInv
    <3>3. QED
      BY <3>1, <3>2, HandlerStepKeepsInv DEF Inv
  <2>7. ASSUME NEW m \in Msgs, Enqueue(m) PROVE Inv'
    BY <2>7, EnqueueKeepsInv DEF Inv
  <2>8. ASSUME NEW m \in Msgs, Tick(m) PROVE Inv'
    BY <2>8, TickKeepsInv DEF Inv
  <2>9. ASSUME NEW m \in Msgs, Timeout(m) PROVE Inv'
    BY <2>9, TimeoutKeepsInv DEF Inv
  <2>10. QED
    BY <2>1, <2>2, <2>3, <2>4, <2>5, <2>6, <2>7, <2>8, <2>9 DEF Next
<1>3. QED BY <1>1, <1>2, TypeCorrect, PTL DEF Spec

(* The AcksReceived of a queued chat, counted partly when the chat is      *)
(* queued and partly ack by ack (processGossipMessage), is the number of   *)
(* distinct members whose ack was counted, in every reachable state.       *)
THEOREM AckCountIsExact == Spec => []AckCountExact
<1>1. Inv => AckCountExact
  BY DEF Inv
<1>2. QED BY <1>1, Invariance, PTL

(* AddBlock is called for no chat, by an ack's handler or by the waiter,   *)
(* that was not acknowledged by Threshold distinct members of the room.    *)
THEOREM ChainIsQuorumBacked == Spec => []QuorumBacked
<1>1. Inv => QuorumBacked
  BY DEF Inv
<1>2. QED BY <1>1, Invariance, PTL

(* No chat is added to the chain twice, although the ack handlers and the  *)
(* waiter decide independently that it has its quorum.                     *)
THEOREM NoChatSavedTwice == Spec => []SavedOnce
<1>1. Inv => SavedOnce
  BY DEF Inv
<1>2. QED BY <1>1, Invariance, PTL
-------------------------------------------------------------------------------
(* The order of the chain.                                                 *)

(* A queued chat has been overtaken only by chats decided before it came.  *)
OrderOfQueue ==
  \A m \in msgsToProcess, i \in 1..Len(saved) :
    Timestamp[m] < Timestamp[saved[i]] => chainAtArrival[m] >= i

OrderInv == OvertakenOnlyByEarlierDecision /\ OrderOfQueue

LEMMA TrySaveKeepsOrder ==
  ASSUME Inv, OrderInv, NEW m \in msgsToProcess, TrySave(m),
         UNCHANGED chainAtArrival
  PROVE  OrderInv'
<1>1. m \in Msgs /\ msgsToProcess' \subseteq msgsToProcess
  BY TrySaveType DEF Inv, TypeOK
<1>2. CASE saved' = saved
  BY <1>1, <1>2 DEF OrderInv, OrderOfQueue, OvertakenOnlyByEarlierDecision
<1>3. CASE saved' = Append(saved, m) /\ CanSave(m)
           /\ msgsToProcess' = msgsToProcess \ {m}
  <2>1. /\ Len(saved) \in Nat
        /\ Len(saved') = Len(saved) + 1
        /\ saved'[Len(saved) + 1] = m
        /\ \A i \in 1..Len(saved) : saved'[i] = saved[i]
    BY <1>1, <1>3 DEF Inv, TypeOK
  <2>2. \A i \in 1..Len(saved') : i \in 1..Len(saved) \/ i = Len(saved) + 1
    BY <2>1
  <2>3. OvertakenOnlyByEarlierDecision'
    <3>1. ASSUME NEW i \in 1..Len(saved'), NEW j \in 1..Len(saved'), i < j,
                 Timestamp[saved'[j]] < Timestamp[saved'[i]]
          PROVE  chainAtArrival'[saved'[j]] >= i
      <4>1. i \in 1..Len(saved)
        BY <2>1, <2>2, <3>1
      <4>2. CASE j \in 1..Len(saved)
        BY <2>1, <3>1, <4>1, <4>2
        DEF OrderInv, OvertakenOnlyByEarlierDecision
      <4>3. CASE j = Len(saved) + 1
        BY <2>1, <3>1, <4>1, <4>3 DEF OrderInv, OrderOfQueue
      <4>4. QED BY <2>2, <4>2, <4>3
    <3>2. QED BY <3>1 DEF OvertakenOnlyByEarlierDecision
  <2>4. OrderOfQueue'
    <3>1. ASSUME NEW x \in msgsToProcess', NEW i \in 1..Len(saved'),
                 Timestamp[x] < Timestamp[saved'[i]]
          PROVE  chainAtArrival'[x] >= i
      <4>1. x \in msgsToProcess \ {m}
        BY <1>3
      <4>2. i # Len(saved) + 1
        BY <1>3, <2>1, <3>1, <4>1 DEF CanSave
      <4>3. QED
        BY <2>1, <2>2, <3>1, <4>1, <4>2 DEF OrderInv, OrderOfQueue
    <3>2. QED BY <3>1 DEF OrderOfQueue
  <2>5. QED BY <2>3, <2>4 DEF OrderInv
<1>4. QED BY <1>2, <1>3 DEF TrySave, SaveAndRemove

LEMMA QueueShrinksKeepsOrder ==
  ASSUME OrderInv, msgsToProcess' \subseteq msgsToProcess,
         UNCHANGED <<saved, chainAtArrival>>
  PROVE  OrderInv'
BY DEF OrderInv, OrderOfQueue, OvertakenOnlyByEarlierDecision

LEMMA ApplyAckKeepsOrder ==
  ASSUME Inv, OrderInv, NEW a \in Acks, ApplyAck(a), UNCHANGED chainAtArrival
  PROVE  OrderInv'
<1>1. CASE RepeatedAck(a) \/ StoreAck(a)
  BY <1>1, QueueShrinksKeepsOrder DEF RepeatedAck, StoreAck, queueVars
<1>2. CASE CountAck(a)
  BY <1>2, QueueShrinksKeepsOrder, TrySaveKeepsOrder DEF CountAck
<1>3. QED BY <1>1, <1>2 DEF ApplyAck

LEMMA EnqueueKeepsOrder ==
  ASSUME Inv, OrderInv, NEW m \in Msgs, Enqueue(m)
  PROVE  OrderInv'
<1>1. waiter[m] = "none" /\ m \notin msgsToProcess
  BY DEF Enqueue, Inv, HandlerInv, NotQueuedYet
<1>2. /\ msgsToProcess' = msgsToProcess \cup {m}
      /\ chainAtArrival' = [chainAtArrival EXCEPT ![m] = Len(saved)]
      /\ saved' = saved
  BY <1>1 DEF Enqueue
<1>3. \A i \in 1..Len(saved) : saved[i] \in Msgs /\ saved[i] # m
  BY <1>1 DEF Inv, TypeOK, Decided
<1>4. Len(saved) \in Nat
  BY DEF Inv, TypeOK
<1>5. OvertakenOnlyByEarlierDecision'
  BY <1>2, <1>3 DEF Inv, TypeOK, OrderInv, OvertakenOnlyByEarlierDecision
<1>6. OrderOfQueue'
  BY <1>2, <1>4 DEF Inv, TypeOK, OrderInv, OrderOfQueue
<1>7. QED BY <1>5, <1>6 DEF OrderInv

(* The check for earlier messages in msgsToProcess, done wherever a chat   *)
(* is saved, orders the chain: a chat of an earlier timestamp stands       *)
(* behind a later one only if it was queued after that one was in the      *)
(* chain.                                                                  *)
THEOREM OrderOfChain == Spec => []OvertakenOnlyByEarlierDecision
<1>1. Init => OrderInv
  BY DEF Init, OrderInv, OrderOfQueue, OvertakenOnlyByEarlierDecision
<1>2. Inv /\ OrderInv /\ [Next]_vars => OrderInv'
  <2> SUFFICES ASSUME Inv, OrderInv, [Next]_vars PROVE OrderInv'
    OBVIOUS
  <2>1. CASE UNCHANGED vars
    BY <2>1, QueueShrinksKeepsOrder DEF vars, queueVars, historyVars
  <2>2. ASSUME NEW a \in Acks, SeeAck(a) PROVE OrderInv'
    BY <2>2, QueueShrinksKeepsOrder DEF SeeAck, queueVars, historyVars
  <2>3. ASSUME NEW a \in Acks, FirstPass(a) \/ SecondPass(a) PROVE OrderInv'
    <3>1. CASE ApplyAck(a)
      BY <2>3, <3>1, ApplyAckKeepsOrder DEF FirstPass, SecondPass
    <3>2. CASE UNCHANGED <<queueVars, saved, refused>>
      BY <2>3, <3>2, QueueShrinksKeepsOrder
      DEF FirstPass, SecondPass, queueVars
    <3>3. QED BY <2>3, <3>1, <3>2 DEF FirstPass, SecondPass
  <2>4. ASSUME NEW m \in Msgs,
               SeeChat(m) \/ AuthChat(m) \/ SendAck(m) \/ AckSent(m)
        PROVE  OrderInv'
    BY <2>4, QueueShrinksKeepsOrder
    DEF SeeChat, AuthChat, SendAck, AckSent, queueVars, historyVars
  <2>5. ASSUME NEW m \in Msgs, Enqueue(m) PROVE OrderInv'
    BY <2>5, EnqueueKeepsOrder
  <2>6. ASSUME NEW m \in Msgs, Tick(m) PROVE OrderInv'
    BY <2>6, QueueShrinksKeepsOrder, TrySaveKeepsOrder DEF Tick, HasQuorum
  <2>7. ASSUME NEW m \in Msgs, Timeout(m) PROVE OrderInv'
    BY <2>7, QueueShrinksKeepsOrder DEF Timeout, historyVars
  <2>8. QED BY <2>1, <2>2, <2>3, <2>4, <2>5, <2>6, <2>7 DEF Next
<1>3. OrderInv => OvertakenOnlyByEarlierDecision
  BY DEF OrderInv
<1>4. QED BY <1>1, <1>2, <1>3, Invariance, PTL DEF Spec
-------------------------------------------------------------------------------
(* The handlers implement QuorumLog.                                       *)

LEMMA StatusWaiting ==
  ASSUME Inv, NEW m \in msgsToProcess
  PROVE  m \in Msgs /\ StatusOf(m) = "waiting"
BY DEF Inv, TypeOK, NotQueuedYet, StatusOf

LEMMA SavedNotQueued ==
  ASSUME Inv, NEW m \in msgsToProcess
  PROVE  ~InChain(m)
BY DEF Inv, Decided, InChain

(* A step that saves or drops m, seen from QuorumLog.                      *)
LEMMA TrySaveImplements ==
  ASSUME Inv, NEW m \in msgsToProcess, TrySave(m),
         processedAcks' \in [Msgs -> SUBSET Members],
         Cardinality(processedAcks'[m]) >= Threshold,
         \A x \in Msgs : waiter'[x] = "none" <=> waiter[x] = "none"
  PROVE  \/ Promise!Save(m)
         \/ Promise!Drop(m)
         \/ UNCHANGED <<[x \in Msgs |-> StatusOf(x)], saved>>
<1>1. m \in Msgs /\ waiter[m] # "none" /\ StatusOf(m) = "waiting" /\ ~InChain(m)
  BY StatusWaiting, SavedNotQueued DEF Inv, NotQueuedYet
<1>2. saved \in Seq(Msgs)
  BY DEF Inv, TypeOK
<1>3. CASE ~CanSave(m)
  <2>1. UNCHANGED <<saved, msgsToProcess>>
    BY <1>3 DEF TrySave
  <2>2. \A x \in Msgs : StatusOf(x)' = StatusOf(x)
    BY <2>1 DEF StatusOf, InChain
  <2>3. QED BY <2>1, <2>2
<1>4. CASE CanSave(m) /\ msgsToProcess' = msgsToProcess \ {m} /\ saved' = saved
  <2>1. \A x \in Msgs : StatusOf(x)' = IF x = m THEN "dropped" ELSE StatusOf(x)
    BY <1>1, <1>4 DEF StatusOf, InChain
  <2>2. [x \in Msgs |-> StatusOf(x)]'
          = [[x \in Msgs |-> StatusOf(x)] EXCEPT ![m] = "dropped"]
    BY <1>1, <2>1
  <2>3. QED BY <1>1, <1>4, <2>2 DEF Promise!Drop
<1>5. CASE CanSave(m) /\ msgsToProcess' = msgsToProcess \ {m}
                      /\ saved' = Append(saved, m)
  <2>1. /\ Len(saved) \in Nat
        /\ Len(saved') = Len(saved) + 1
        /\ saved'[Len(saved) + 1] = m
        /\ \A i \in 1..Len(saved) : saved'[i] = saved[i]
    BY <1>1, <1>2, <1>5
  <2>2. \A x \in Msgs : InChain(x)' <=> InChain(x) \/ x = m
    <3>1. \A i \in 1..Len(saved') : i \in 1..Len(saved) \/ i = Len(saved) + 1
      BY <2>1
    <3>2. \A i \in 1..Len(saved) : i \in 1..Len(saved')
      BY <2>1
    <3>3. Len(saved) + 1 \in 1..Len(saved')
      BY <2>1
    <3>4. QED
      BY <2>1, <3>1, <3>2, <3>3 DEF InChain
  <2>3. \A x \in Msgs : StatusOf(x)' = IF x = m THEN "saved" ELSE StatusOf(x)
    BY <1>1, <1>5, <2>2 DEF StatusOf
  <2>4. [x \in Msgs |-> StatusOf(x)]'
          = [[x \in Msgs |-> StatusOf(x)] EXCEPT ![m] = "saved"]
    BY <1>1, <2>3
  <2>5. Promise!Oldest(m)
    <3>1. ASSUME NEW x \in Msgs, StatusOf(x) = "waiting"
          PROVE  Timestamp[x] >= Timestamp[m]
      <4>1. x \in msgsToProcess
        BY <3>1 DEF StatusOf
      <4>2. Timestamp[x] \in Nat /\ Timestamp[m] \in Nat
        BY <1>1, NodeAssumption
      <4>3. QED
        BY <1>5, <4>1, <4>2 DEF CanSave
    <3>2. QED
      BY <3>1 DEF Promise!Oldest, Promise!Waiting
  <2>6. [x \in Msgs |-> StatusOf(x)][m] = "waiting"
    BY <1>1
  <2>7. processedAcks'[m] \in Quorums
    BY <1>1 DEF Quorums
  <2>8. QED
    BY <1>1, <1>5, <2>4, <2>5, <2>6, <2>7 DEF Promise!Save
<1>6. QED BY <1>3, <1>4, <1>5 DEF TrySave, SaveAndRemove

LEMMA SameQueueSameStatus ==
  ASSUME UNCHANGED <<msgsToProcess, saved>>,
         \A x \in Msgs : waiter'[x] = "none" <=> waiter[x] = "none"
  PROVE  UNCHANGED <<[x \in Msgs |-> StatusOf(x)], saved>>
<1>1. \A x \in Msgs : StatusOf(x)' = StatusOf(x)
  BY DEF StatusOf, InChain
<1>2. QED BY <1>1

LEMMA ApplyAckImplements ==
  ASSUME Inv, NEW a \in MemberAcks, ApplyAck(a), UNCHANGED waiter
  PROVE  [Promise!Next]_(Promise!vars)
<1>1. a.msg \in Msgs /\ a.from \in Members
  BY DEF MemberAcks, Acks
<1>2. CASE RepeatedAck(a)
  BY <1>2, SameQueueSameStatus DEF RepeatedAck, queueVars, Promise!vars
<1>3. ASSUME MarkAcker(a)
      PROVE  /\ Promise!Acknowledge(a.msg, a.from)
             /\ processedAcks' \in [Msgs -> SUBSET Members]
             /\ processedAcks'[a.msg] = processedAcks[a.msg] \cup {a.from}
  BY <1>1, <1>3 DEF MarkAcker, Inv, TypeOK, Promise!Acknowledge
<1>4. CASE UNCHANGED <<msgsToProcess, saved>> /\ MarkAcker(a)
  BY <1>1, <1>3, <1>4, SameQueueSameStatus DEF Promise!Next
<1>5. CASE CountAck(a) /\ acksReceived[a.msg] + 1 >= Threshold
  <2>1. a.msg \in msgsToProcess /\ TrySave(a.msg) /\ MarkAcker(a)
    BY <1>5 DEF CountAck
  <2>2. Cardinality(processedAcks'[a.msg]) = acksReceived[a.msg] + 1
    <3>1. processedAcks[a.msg] \in SUBSET Members
      BY <1>1 DEF Inv, TypeOK
    <3>2. QED
      BY <1>3, <2>1, <3>1, CountOneMore DEF MarkAcker, Inv, AckCountExact
  <2>3. \/ Promise!Save(a.msg)
        \/ Promise!Drop(a.msg)
        \/ UNCHANGED <<[x \in Msgs |-> StatusOf(x)], saved>>
    BY <1>3, <1>5, <2>1, <2>2, TrySaveImplements
  <2>4. QED
    BY <1>1, <1>3, <2>1, <2>3 DEF Promise!Next
<1>6. QED
  BY <1>2, <1>4, <1>5 DEF ApplyAck, StoreAck, CountAck

LEMMA EnqueueImplements ==
  ASSUME Inv, NEW m \in Msgs, Enqueue(m)
  PROVE  Promise!Receive(m)
<1>1. waiter[m] = "none" /\ m \notin msgsToProcess
  BY DEF Enqueue, Inv, HandlerInv, NotQueuedYet
<1>2. processedAcks[m] = PendingPeers(m)
  BY <1>1 DEF Inv, NotQueuedYet
<1>3. /\ waiter' = [waiter EXCEPT ![m] = "waiting"]
      /\ msgsToProcess' = msgsToProcess \cup {m}
      /\ saved' = saved
  BY <1>1 DEF Enqueue
<1>4. processedAcks' = processedAcks
  BY <1>1, <1>2 DEF Enqueue, Inv, TypeOK
<1>5. \A x \in Msgs : StatusOf(x)' = IF x = m THEN "waiting" ELSE StatusOf(x)
  BY <1>3 DEF StatusOf, InChain, Inv, TypeOK
<1>6. [x \in Msgs |-> StatusOf(x)]'
        = [[x \in Msgs |-> StatusOf(x)] EXCEPT ![m] = "waiting"]
  BY <1>5
<1>7. StatusOf(m) = "new"
  BY <1>1 DEF StatusOf
<1>8. QED BY <1>3, <1>4, <1>6, <1>7 DEF Promise!Receive

LEMMA TickImplements ==
  ASSUME Inv, NEW m \in Msgs, Tick(m)
  PROVE  [Promise!Next]_(Promise!vars)
<1>1. processedAcks' = processedAcks
  BY DEF Tick
<1>2. \A x \in Msgs : waiter'[x] = "none" <=> waiter[x] = "none"
  <2>1. /\ waiter[m] = "waiting"
        /\ waiter' \in {waiter, [waiter EXCEPT ![m] = "done"]}
    BY DEF Tick
  <2>2. QED BY <2>1 DEF Inv, TypeOK
<1>3. CASE m \in msgsToProcess /\ acksReceived[m] >= Threshold
  <2>1. /\ TrySave(m)
        /\ Cardinality(processedAcks'[m]) >= Threshold
        /\ processedAcks' \in [Msgs -> SUBSET Members]
    BY <1>1, <1>3 DEF Tick, HasQuorum, Inv, TypeOK, AckCountExact
  <2>2. QED
    BY <1>1, <1>2, <1>3, <2>1, TrySaveImplements
    DEF Promise!Next, Promise!vars
<1>4. CASE ~(m \in msgsToProcess /\ acksReceived[m] >= Threshold)
  BY <1>1, <1>2, <1>4, SameQueueSameStatus DEF Tick, HasQuorum, Promise!vars
<1>5. QED BY <1>3, <1>4

LEMMA TimeoutImplements ==
  ASSUME Inv, NEW m \in Msgs, Timeout(m)
  PROVE  [Promise!Next]_(Promise!vars)
<1>1. /\ UNCHANGED <<processedAcks, saved>>
      /\ msgsToProcess' = msgsToProcess \ {m}
      /\ \A x \in Msgs : waiter'[x] = "none" <=> waiter[x] = "none"
  BY DEF Timeout, Inv, TypeOK
<1>2. CASE m \in msgsToProcess
  <2>1. StatusOf(m) = "waiting" /\ ~InChain(m) /\ waiter[m] # "none"
    BY <1>2, StatusWaiting, SavedNotQueued DEF Timeout
  <2>2. \A x \in Msgs : StatusOf(x)' = IF x = m THEN "dropped" ELSE StatusOf(x)
    BY <1>1, <2>1 DEF StatusOf, InChain
  <2>3. [x \in Msgs |-> StatusOf(x)]'
          = [[x \in Msgs |-> StatusOf(x)] EXCEPT ![m] = "dropped"]
    BY <2>2
  <2>4. QED
    BY <1>1, <2>1, <2>3 DEF Promise!Drop, Promise!Next
<1>3. CASE m \notin msgsToProcess
  BY <1>1, <1>3, SameQueueSameStatus DEF Promise!vars
<1>4. QED BY <1>2, <1>3

(* The handlers and waiters of one node implement QuorumLog: every step is *)
(* one of its steps or changes nothing there.                              *)
THEOREM Implements == Spec => ImplementsQuorumLog
<1>1. Init => Promise!Init
  <2>1. ASSUME Init, NEW m \in Msgs PROVE StatusOf(m) = "new"
    BY <2>1 DEF Init, StatusOf
  <2>2. QED
    BY <2>1 DEF Init, Promise!Init
<1>2. Inv /\ [Next]_vars => [Promise!Next]_(Promise!vars)
  <2> SUFFICES ASSUME Inv, [Next]_vars PROVE [Promise!Next]_(Promise!vars)
    OBVIOUS
  <2>1. ASSUME UNCHANGED <<queueVars, saved, waiter>>
        PROVE  UNCHANGED Promise!vars
    BY <2>1, SameQueueSameStatus DEF queueVars, Promise!vars
  <2>2. CASE UNCHANGED vars
    BY <2>1, <2>2 DEF vars, waiterVars
  <2>3. ASSUME NEW a \in Acks, SeeAck(a) PROVE UNCHANGED Promise!vars
    BY <2>1, <2>3 DEF SeeAck, waiterVars
  <2>4. ASSUME NEW a \in Acks, FirstPass(a) \/ SecondPass(a)
        PROVE  [Promise!Next]_(Promise!vars)
    <3>1. UNCHANGED waiter
      BY <2>4 DEF FirstPass, SecondPass, waiterVars
    <3>2. CASE a.from \in Members /\ ApplyAck(a)
      BY <3>1, <3>2, ApplyAckImplements DEF MemberAcks
    <3>3. CASE UNCHANGED <<queueVars, saved, refused>>
      BY <2>1, <3>1, <3>3
    <3>4. QED BY <2>4, <3>2, <3>3 DEF FirstPass, SecondPass
  <2>5. ASSUME NEW m \in Msgs,
               SeeChat(m) \/ AuthChat(m) \/ SendAck(m) \/ AckSent(m)
        PROVE  UNCHANGED Promise!vars
    BY <2>1, <2>5 DEF SeeChat, AuthChat, SendAck, AckSent, waiterVars
  <2>6. ASSUME NEW m \in Msgs, Enqueue(m) PROVE Promise!Next
    BY <2>6, EnqueueImplements DEF Promise!Next
  <2>7. ASSUME NEW m \in Msgs, Tick(m) PROVE [Promise!Next]_(Promise!vars)
    BY <2>7, TickImplements
  <2>8. ASSUME NEW m \in Msgs, Timeout(m) PROVE [Promise!Next]_(Promise!vars)
    BY <2>8, TimeoutImplements
  <2>9. QED BY <2>2, <2>3, <2>4, <2>5, <2>6, <2>7, <2>8 DEF Next
<1>3. QED
  BY <1>1, <1>2, Invariance, PTL DEF Spec, Promise!Spec, ImplementsQuorumLog
-------------------------------------------------------------------------------
(* The timer.                                                              *)

(* A queued chat that has its quorum and has seen a tick was held back.    *)
QuorumHeldBack ==
  \A m \in Msgs :
    m \in msgsToProcess /\ ticks[m] > 0 /\ acksReceived[m] >= Threshold
      => m \in refused

(* An ack that completes a quorum saves the chat or has it held back.      *)
LEMMA AckKeepsHeldBack ==
  ASSUME TypeOK, QuorumHeldBack, NEW a \in MemberAcks, ApplyAck(a),
         UNCHANGED ticks
  PROVE  QuorumHeldBack'
<1> DEFINE m == a.msg
<1>1. m \in Msgs
  BY DEF MemberAcks, Acks
<1>2. CASE RepeatedAck(a) \/ StoreAck(a)
  BY <1>2 DEF RepeatedAck, StoreAck, queueVars, QuorumHeldBack
<1>3. CASE CountAck(a)
  <2>1. acksReceived' = [acksReceived EXCEPT ![m] = @ + 1]
    BY <1>3 DEF CountAck
  <2>2. CASE acksReceived[m] + 1 >= Threshold
    <3>1. TrySave(m)
      BY <1>3, <2>2 DEF CountAck
    <3>2. /\ msgsToProcess' \subseteq msgsToProcess
          /\ refused \subseteq refused'
          /\ m \notin msgsToProcess' \/ m \in refused'
      BY <3>1 DEF TrySave, SaveAndRemove
    <3>3. QED
      BY <1>1, <2>1, <3>2 DEF TypeOK, QuorumHeldBack
  <2>3. CASE ~(acksReceived[m] + 1 >= Threshold)
    <3>1. UNCHANGED <<msgsToProcess, refused>>
      BY <1>3, <2>3 DEF CountAck
    <3>2. QED
      BY <1>1, <2>1, <2>3, <3>1 DEF TypeOK, QuorumHeldBack
  <2>4. QED BY <2>2, <2>3
<1>4. QED BY <1>2, <1>3 DEF ApplyAck

(* So does the waiter, whenever it looks.                                  *)
LEMMA TickKeepsHeldBack ==
  ASSUME TypeOK, QuorumHeldBack, NEW m \in Msgs, Tick(m)
  PROVE  QuorumHeldBack'
<1>1. /\ UNCHANGED acksReceived
      /\ ticks' = [ticks EXCEPT ![m] = @ + 1]
  BY DEF Tick
<1>2. CASE HasQuorum(m)
  <2>1. TrySave(m)
    BY <1>2 DEF Tick
  <2>2. /\ msgsToProcess' \subseteq msgsToProcess
        /\ refused \subseteq refused'
        /\ m \notin msgsToProcess' \/ m \in refused'
    BY <2>1 DEF TrySave, SaveAndRemove
  <2>3. QED
    BY <1>1, <2>2 DEF TypeOK, QuorumHeldBack
<1>3. CASE ~HasQuorum(m)
  <2>1. UNCHANGED <<msgsToProcess, refused>>
    BY <1>3 DEF Tick
  <2>2. QED
    BY <1>1, <1>3, <2>1 DEF HasQuorum, TypeOK, QuorumHeldBack
<1>4. QED BY <1>2, <1>3

LEMMA StepKeepsHeldBack ==
  ASSUME TypeOK, QuorumHeldBack, [Next]_vars
  PROVE  QuorumHeldBack'
<1>1. ASSUME UNCHANGED <<queueVars, ticks, refused>> PROVE QuorumHeldBack'
  BY <1>1 DEF queueVars, QuorumHeldBack
<1>2. CASE UNCHANGED vars
  BY <1>1, <1>2 DEF vars, waiterVars, historyVars
<1>3. ASSUME NEW a \in Acks, SeeAck(a) \/ FirstPass(a) \/ SecondPass(a)
      PROVE  QuorumHeldBack'
  <2>1. CASE SeeAck(a)
    BY <1>1, <2>1 DEF SeeAck, waiterVars, historyVars
  <2>2. CASE FirstPass(a) \/ SecondPass(a)
    <3>1. UNCHANGED ticks
      BY <2>2 DEF FirstPass, SecondPass, waiterVars
    <3>2. CASE a.from \in Members /\ ApplyAck(a)
      BY <3>1, <3>2, AckKeepsHeldBack DEF MemberAcks
    <3>3. CASE UNCHANGED <<queueVars, saved, refused>>
      BY <1>1, <3>1, <3>3
    <3>4. QED BY <2>2, <3>2, <3>3 DEF FirstPass, SecondPass
  <2>3. QED BY <1>3, <2>1, <2>2
<1>4. ASSUME NEW m \in Msgs,
             SeeChat(m) \/ AuthChat(m) \/ SendAck(m) \/ AckSent(m)
      PROVE  QuorumHeldBack'
  BY <1>1, <1>4 DEF SeeChat, AuthChat, SendAck, AckSent, waiterVars, historyVars
<1>5. ASSUME NEW m \in Msgs, Enqueue(m) PROVE QuorumHeldBack'
  <2>1. CASE m \in msgsToProcess
    BY <1>1, <1>5, <2>1 DEF Enqueue, waiterVars
  <2>2. CASE m \notin msgsToProcess
    <3>1. /\ msgsToProcess' = msgsToProcess \cup {m}
          /\ ticks' = [ticks EXCEPT ![m] = 0]
          /\ \A x \in Msgs \ {m} : acksReceived'[x] = acksReceived[x]
          /\ UNCHANGED refused
      BY <1>5, <2>2 DEF Enqueue, TypeOK
    <3>2. QED
      BY <3>1 DEF TypeOK, QuorumHeldBack
  <2>3. QED BY <2>1, <2>2
<1>6. ASSUME NEW m \in Msgs, Tick(m) PROVE QuorumHeldBack'
  BY <1>6, TickKeepsHeldBack
<1>7. ASSUME NEW m \in Msgs, Timeout(m) PROVE QuorumHeldBack'
  BY <1>7 DEF Timeout, historyVars, QuorumHeldBack
<1>8. QED BY <1>2, <1>3, <1>4, <1>5, <1>6, <1>7 DEF Next

(* The 30 second timer takes no chat out of msgsToProcess that has its     *)
(* quorum, unless an earlier chat held it back when its ack or a tick was  *)
(* to save it.                                                             *)
THEOREM TimerSparesQuorum == Spec => TimeoutSparesQuorum
<1>1. Init => QuorumHeldBack
  BY DEF Init, QuorumHeldBack
<1>2. TypeOK /\ QuorumHeldBack /\ [Next]_vars => QuorumHeldBack'
  BY StepKeepsHeldBack
<1>3. TypeOK /\ QuorumHeldBack
        => \A m \in Msgs :
             /\ ticks[m] > 0 /\ ticks'[m] = ticks[m]
             /\ m \in msgsToProcess /\ m \notin msgsToProcess' /\ saved' = saved
             /\ acksReceived[m] >= Threshold
             => m \in refused
  BY NodeAssumption DEF QuorumHeldBack
<1>4. QED
  BY <1>1, <1>2, <1>3, TypeCorrect, PTL DEF Spec, TimeoutSparesQuorum
===============================================================================
