----------------------------- MODULE AckConsensus -----------------------------
(***************************************************************************)
(* One node of the gossip network in "ack mode" (blockChainState set and   *)
(* noAckBlockchainSave clear): how it decides which chat messages become   *)
(* blocks.  Every received copy of a message runs HandleGossipMessage in a *)
(* goroutine of its own, and every queued chat message has a waiter        *)
(* goroutine; all of them interleave between the critical sections of      *)
(* gossipMutex.  One action is one such section, or one step between two   *)
(* of them that reads or changes shared state.                             *)
(*                                                                         *)
(* The other nodes are the environment: their chats and acknowledgements   *)
(* arrive in any order, any number of times or never.  What this node      *)
(* sends is the subject of GossipNet.                                      *)
(***************************************************************************)
EXTENDS Naturals, Sequences, FiniteSets

CONSTANTS Msgs,          \* chat messages, named by their gossip ID
          Peers,         \* identities (public keys) an ack may carry
          Members,       \* the peers in the room's peer list
          Self,          \* this node's identity
          Copies,        \* gossip IDs under which one peer's ack of one chat
                         \* may come (a peer that restarts acks anew)
          Timestamp,     \* Timestamp[m]: the sender's clock, in seconds
          Threshold,     \* thresholdAcks
          SendsAcks,     \* ~disableAckSending
          Ticks          \* most ticks a waiter sees in its 30 seconds

ASSUME NodeAssumption == /\ IsFiniteSet(Peers)
                         /\ Members \subseteq Peers
                         /\ Self \in Members
                         /\ Copies # {}
                         /\ Timestamp \in [Msgs -> Nat]
                         /\ Threshold \in Nat
                         /\ SendsAcks \in BOOLEAN
                         /\ Ticks \in Nat \ {0}

Acks == [msg : Msgs, from : Peers, copy : Copies]

MemberAcks == {a \in Acks : a.from \in Members}

VARIABLES
  messageHistory,  \* gossip IDs seen: chats and acks
  chatPc,          \* chatPc[m]: where the handler of chat m is
  ackPc,           \* ackPc[a]: where the handler of ack a is
  msgsToProcess,   \* chats that wait for acknowledgements
  acksReceived,    \* acksReceived[m]: the AcksReceived field of queued chat m
  processedAcks,   \* processedAcks[m]: peers whose ack of m was counted
  pendingAcks,     \* pendingAcks[m]: acks stored because m was not queued
  waiter,          \* waiter[m]: the goroutine that waits for m's acks
  ticks,           \* ticks[m]: ticks that waiter has seen
  saved,           \* chats whose AddBlock succeeded, oldest first
  refused,         \* history: chats once reported as "waiting for earlier
                   \* messages to be processed first"
  chainAtArrival   \* history: chainAtArrival[m] is Len(saved) when m was queued

handlerVars == <<messageHistory, chatPc, ackPc>>
queueVars   == <<msgsToProcess, acksReceived, processedAcks, pendingAcks>>
waiterVars  == <<waiter, ticks>>
historyVars == <<refused, chainAtArrival>>
vars == <<handlerVars, queueVars, waiterVars, saved, historyVars>>

ChatPc == {"idle", "auth", "sendAck", "nested", "enqueue"}
AckPc  == {"idle", "first", "auth"}
Waiter == {"none", "waiting", "done"}

TypeOK == /\ messageHistory \subseteq (Msgs \cup Acks)
          /\ chatPc \in [Msgs -> ChatPc]
          /\ ackPc \in [Acks -> AckPc]
          /\ msgsToProcess \subseteq Msgs
          /\ acksReceived \in [Msgs -> Nat]
          /\ processedAcks \in [Msgs -> SUBSET Members]
          /\ pendingAcks \in [Msgs -> SUBSET MemberAcks]
          /\ waiter \in [Msgs -> Waiter]
          /\ ticks \in [Msgs -> 0..Ticks]
          /\ saved \in Seq(Msgs)
          /\ refused \subseteq Msgs
          /\ chainAtArrival \in [Msgs -> Nat]

Init == /\ messageHistory = {}
        /\ chatPc = [m \in Msgs |-> "idle"]
        /\ ackPc = [a \in Acks |-> "idle"]
        /\ msgsToProcess = {}
        /\ acksReceived = [m \in Msgs |-> 0]
        /\ processedAcks = [m \in Msgs |-> {}]
        /\ pendingAcks = [m \in Msgs |-> {}]
        /\ waiter = [m \in Msgs |-> "none"]
        /\ ticks = [m \in Msgs |-> 0]
        /\ saved = << >>
        /\ refused = {}
        /\ chainAtArrival = [m \in Msgs |-> 0]
-------------------------------------------------------------------------------
(* Mutant: the timestamps are not looked at.                               *)
CanSaveAnytime(m) == TRUE

(* A chat may become a block when no other queued chat has an earlier      *)
(* timestamp; equal timestamps do not block each other.                    *)
CanSave(m) ==
  ~ \E other \in msgsToProcess \ {m} : Timestamp[other] < Timestamp[m]

(* Mutant: the chat stays in msgsToProcess after it was saved.             *)
SaveAndKeep(m) ==
  /\ saved' = saved \/ saved' = Append(saved, m)
  /\ UNCHANGED msgsToProcess

(* AddBlock, and the removal from msgsToProcess that follows whether or    *)
(* not it succeeded.                                                       *)
SaveAndRemove(m) ==
  /\ saved' = saved \/ saved' = Append(saved, m)
  /\ msgsToProcess' = msgsToProcess \ {m}

(* What an ack and a tick do once the count has reached the threshold.     *)
TrySave(m) ==
  \/ /\ CanSave(m)
     /\ SaveAndRemove(m)
     /\ UNCHANGED refused
  \/ /\ ~CanSave(m)
     /\ refused' = refused \cup {m}
     /\ UNCHANGED <<saved, msgsToProcess>>

(* The critical section of case "ack".  A peer counts once per chat.       *)
RepeatedAck(a) == /\ a.from \in processedAcks[a.msg]
                  /\ UNCHANGED <<queueVars, saved, refused>>

MarkAcker(a) ==
  /\ a.from \notin processedAcks[a.msg]
  /\ processedAcks' = [processedAcks EXCEPT ![a.msg] = @ \cup {a.from}]

(* Mutants: the ack is marked and forgotten; it replaces the stored ones.  *)
DropAck(a) ==
  /\ MarkAcker(a)
  /\ a.msg \notin msgsToProcess
  /\ UNCHANGED <<msgsToProcess, acksReceived, pendingAcks, saved, refused>>

StoreOnlyAck(a) ==
  /\ MarkAcker(a)
  /\ a.msg \notin msgsToProcess
  /\ pendingAcks' = [pendingAcks EXCEPT ![a.msg] = {a}]
  /\ UNCHANGED <<msgsToProcess, acksReceived, saved, refused>>

(* The chat is not queued: the ack is stored.                              *)
StoreAck(a) ==
  /\ MarkAcker(a)
  /\ a.msg \notin msgsToProcess
  /\ pendingAcks' = [pendingAcks EXCEPT ![a.msg] = @ \cup {a}]
  /\ UNCHANGED <<msgsToProcess, acksReceived, saved, refused>>

(* The chat is queued: it is saved if this ack reaches the threshold.      *)
CountAck(a) ==
  /\ MarkAcker(a)
  /\ a.msg \in msgsToProcess
  /\ acksReceived' = [acksReceived EXCEPT ![a.msg] = @ + 1]
  /\ UNCHANGED pendingAcks
  /\ IF acksReceived[a.msg] + 1 >= Threshold
     THEN TrySave(a.msg)
     ELSE UNCHANGED <<msgsToProcess, saved, refused>>

ApplyAck(a) == RepeatedAck(a) \/ StoreAck(a) \/ CountAck(a)
-------------------------------------------------------------------------------
(* A copy of ack a arrives that was not seen before.  This node's own ack  *)
(* never comes as a first copy from outside: SendAck marks it.             *)
SeeAck(a) ==
  /\ a.from # Self
  /\ a \notin messageHistory
  /\ messageHistory' = messageHistory \cup {a}
  /\ ackPc' = [ackPc EXCEPT ![a] = "first"]
  /\ UNCHANGED <<chatPc, queueVars, waiterVars, saved, historyVars>>

(* Acks are processed without their signature being verified, provided the *)
(* key they carry is in the room.                                          *)
FirstPass(a) ==
  /\ ackPc[a] = "first"
  /\ ackPc' = [ackPc EXCEPT ![a] = "auth"]
  /\ IF a.from \in Members
     THEN ApplyAck(a)
     ELSE UNCHANGED <<queueVars, saved, refused>>
  /\ UNCHANGED <<messageHistory, chatPc, waiterVars, chainAtArrival>>

(* The handler then goes on as for any message: unless the sender is       *)
(* unknown or not authenticated (never, for this node's own ack), the ack  *)
(* is processed a second time.                                             *)
SecondPass(a) ==
  /\ ackPc[a] = "auth"
  /\ ackPc' = [ackPc EXCEPT ![a] = "idle"]
  /\ \/ /\ a.from \in Members
        /\ ApplyAck(a)
     \/ /\ a.from # Self
        /\ UNCHANGED <<queueVars, saved, refused>>
  /\ UNCHANGED <<messageHistory, chatPc, waiterVars, chainAtArrival>>
-------------------------------------------------------------------------------
(* A copy of chat m arrives, or is gossiped by this node, for the first    *)
(* time; the ID is marked before anything is known about the sender.       *)
SeeChat(m) ==
  /\ m \notin messageHistory
  /\ messageHistory' = messageHistory \cup {m}
  /\ chatPc' = [chatPc EXCEPT ![m] = "auth"]
  /\ UNCHANGED <<ackPc, queueVars, waiterVars, saved, historyVars>>

(* The sender is looked up and authenticated; otherwise the handler ends.  *)
AuthChat(m) ==
  /\ chatPc[m] = "auth"
  /\ \E next \in {"idle", IF SendsAcks THEN "sendAck" ELSE "enqueue"} :
       chatPc' = [chatPc EXCEPT ![m] = next]
  /\ UNCHANGED <<messageHistory, ackPc, queueVars, waiterVars, saved,
                 historyVars>>

OwnAck(m) == [msg |-> m, from |-> Self, copy |-> CHOOSE c \in Copies : TRUE]

(* The node gossips its own ack before it queues the chat: the ack's       *)
(* handler runs inside the chat's.                                         *)
SendAck(m) ==
  /\ chatPc[m] = "sendAck"
  /\ messageHistory' = messageHistory \cup {OwnAck(m)}
  /\ ackPc' = [ackPc EXCEPT ![OwnAck(m)] = "first"]
  /\ chatPc' = [chatPc EXCEPT ![m] = "nested"]
  /\ UNCHANGED <<queueVars, waiterVars, saved, historyVars>>

AckSent(m) ==
  /\ chatPc[m] = "nested"
  /\ ackPc[OwnAck(m)] = "idle"
  /\ chatPc' = [chatPc EXCEPT ![m] = "enqueue"]
  /\ UNCHANGED <<messageHistory, ackPc, queueVars, waiterVars, saved,
                 historyVars>>

(* Mutant: the stored acks are taken for peers.                            *)
PendingAcks(m) == {a : a \in pendingAcks[m]}

(* The peers among the stored acks of m.                                   *)
PendingPeers(m) == {a.from : a \in pendingAcks[m]}

(* The chat joins msgsToProcess with the stored acks counted afresh, and   *)
(* its waiter starts.  A chat that is queued already is left alone.        *)
Enqueue(m) ==
  /\ chatPc[m] = "enqueue"
  /\ chatPc' = [chatPc EXCEPT ![m] = "idle"]
  /\ \/ /\ m \in msgsToProcess
        /\ UNCHANGED <<queueVars, waiterVars, chainAtArrival>>
     \/ /\ m \notin msgsToProcess
        /\ msgsToProcess' = msgsToProcess \cup {m}
        /\ acksReceived' =
             [acksReceived EXCEPT ![m] = Cardinality(PendingPeers(m))]
        /\ processedAcks' = IF pendingAcks[m] = {} THEN processedAcks
                            ELSE [processedAcks EXCEPT ![m] = PendingPeers(m)]
        /\ pendingAcks' = [pendingAcks EXCEPT ![m] = {}]
        /\ waiter' = [waiter EXCEPT ![m] = "waiting"]
        /\ ticks' = [ticks EXCEPT ![m] = 0]
        /\ chainAtArrival' = [chainAtArrival EXCEPT ![m] = Len(saved)]
  /\ UNCHANGED <<messageHistory, ackPc, saved, refused>>
-------------------------------------------------------------------------------
(* Mutants: one ack less than the threshold is enough; one more is wanted. *)
LessThanQuorum(m) == m \in msgsToProcess /\ acksReceived[m] + 1 >= Threshold

MoreThanQuorum(m) == m \in msgsToProcess /\ acksReceived[m] > Threshold

HasQuorum(m) == m \in msgsToProcess /\ acksReceived[m] >= Threshold

(* The waiter looks every second.  If it saves the chat it ends; if the    *)
(* chat is gone it keeps ticking until its timer fires.                    *)
Tick(m) ==
  /\ waiter[m] = "waiting"
  /\ ticks[m] < Ticks
  /\ ticks' = [ticks EXCEPT ![m] = @ + 1]
  /\ IF HasQuorum(m)
     THEN TrySave(m)
     ELSE UNCHANGED <<msgsToProcess, saved, refused>>
  /\ waiter' = IF m \in msgsToProcess /\ m \notin msgsToProcess'
               THEN [waiter EXCEPT ![m] = "done"] ELSE waiter
  /\ UNCHANGED <<handlerVars, acksReceived, processedAcks, pendingAcks,
                 chainAtArrival>>

(* Mutant: the waiter ends, the chat stays.                                *)
TimeoutKeeps(m) ==
  /\ waiter[m] = "waiting"
  /\ ticks[m] > 0
  /\ waiter' = [waiter EXCEPT ![m] = "done"]
  /\ UNCHANGED <<handlerVars, queueVars, ticks, saved, historyVars>>

(* 30 seconds have passed: the chat is given up if it is still queued.     *)
(* Ticks are lost while the waiter waits for gossipMutex, which AddBlock's *)
(* callers hold while they dial the collector, but not the first one.      *)
Timeout(m) ==
  /\ waiter[m] = "waiting"
  /\ ticks[m] > 0
  /\ waiter' = [waiter EXCEPT ![m] = "done"]
  /\ msgsToProcess' = msgsToProcess \ {m}
  /\ UNCHANGED <<handlerVars, acksReceived, processedAcks, pendingAcks, ticks,
                 saved, historyVars>>
-------------------------------------------------------------------------------
Next == \/ \E a \in Acks : SeeAck(a) \/ FirstPass(a) \/ SecondPass(a)
        \/ \E m \in Msgs : \/ SeeChat(m) \/ AuthChat(m) \/ SendAck(m)
                           \/ AckSent(m) \/ Enqueue(m)
                           \/ Tick(m) \/ Timeout(m)

Spec == Init /\ [][Next]_vars

(* A goroutine that can run is scheduled in the end, gossipMutex is handed *)
(* to whoever waits for it, and timers fire.  Nothing makes a message      *)
(* arrive: SeeAck and SeeChat have no fairness.                            *)
Fairness == /\ \A a \in Acks : WF_vars(FirstPass(a)) /\ WF_vars(SecondPass(a))
            /\ \A m \in Msgs :
                 /\ WF_vars(AuthChat(m)) /\ WF_vars(SendAck(m))
                 /\ WF_vars(AckSent(m)) /\ WF_vars(Enqueue(m))
                 /\ WF_vars(Tick(m)) /\ WF_vars(Timeout(m))

FairSpec == Spec /\ Fairness
-------------------------------------------------------------------------------
InChain(m) == \E i \in 1..Len(saved) : saved[i] = m

(* The counter the threshold is compared with is the number of distinct    *)
(* peers whose ack was counted, although acks come before and after their  *)
(* chat, each is processed twice, and processedAcks is cleared and         *)
(* recounted when the chat is queued (processGossipMessage, both cases).   *)
AckCountExact ==
  \A m \in msgsToProcess : acksReceived[m] = Cardinality(processedAcks[m])

(* Whatever is in the chain was acknowledged by at least Threshold         *)
(* distinct members of the room.                                           *)
QuorumBacked ==
  \A i \in 1..Len(saved) :
    /\ processedAcks[saved[i]] \subseteq Members
    /\ Cardinality(processedAcks[saved[i]]) >= Threshold

(* No chat becomes two blocks, although an ack handler and the chat's      *)
(* waiter may both find the threshold reached.                             *)
SavedOnce ==
  \A i, j \in 1..Len(saved) : saved[i] = saved[j] => i = j

(* A chat stands in the chain behind a chat of a later timestamp only if   *)
(* that one was in the chain already when the former was queued.           *)
OvertakenOnlyByEarlierDecision ==
  \A i, j \in 1..Len(saved) :
    i < j /\ Timestamp[saved[j]] < Timestamp[saved[i]]
      => chainAtArrival[saved[j]] >= i

(* The timer gives up a chat that has its quorum only if that chat was     *)
(* held back by an earlier one at least once.                              *)
TimeoutSparesQuorum ==
  [][\A m \in Msgs :
       /\ ticks[m] > 0 /\ ticks'[m] = ticks[m]
       /\ m \in msgsToProcess /\ m \notin msgsToProcess' /\ saved' = saved
       /\ acksReceived[m] >= Threshold
       => m \in refused]_vars

(* Every queued chat leaves the queue: the waiter's timer sees to it even  *)
(* when the acknowledgements never come.                                   *)
QueueDrains == \A m \in Msgs : m \in msgsToProcess ~> m \notin msgsToProcess

-------------------------------------------------------------------------------
(* What this node promises, in the terms of QuorumLog.                     *)
StatusOf(m) == IF waiter[m] = "none" THEN "new"
               ELSE IF m \in msgsToProcess THEN "waiting"
               ELSE IF InChain(m) THEN "saved" ELSE "dropped"

Quorums == {S \in SUBSET Members : Cardinality(S) >= Threshold}

Promise == INSTANCE QuorumLog WITH ackers <- processedAcks,
                                   status <- [m \in Msgs |-> StatusOf(m)],
                                   log <- saved

(* The handlers and waiters together implement the promise: one decision   *)
(* per chat, never after it was given up, by quorum and in order.          *)
ImplementsQuorumLog == Promise!Spec
===============================================================================
