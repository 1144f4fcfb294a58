---------------------------- MODULE GossipTestProofs ----------------------------
(***************************************************************************)
(* Proofs about GossipTest, and with it GossipCollector, for any nodes,    *)
(* peer lists, numbers of runs and expected receipts, in both modes.       *)
(***************************************************************************)
EXTENDS GossipTest, FiniteSetTheorems, TLAPS

--------------------------------------------------------------------------------
(* The inductive invariant.                                                *)

Records == [run : Nat, completed : BOOLEAN, reached : Nat,
            receipts : SUBSET Receipts]

(* The loop is only left when the last run has been started.               *)
RunsLeft == main # "exit" => currentRun < TotalRuns[gossipMode]

(* What is counted can be counted, and what is recorded are records.       *)
ResultsType == IsFiniteSet(nodeMessageReceipts) /\ results \in Seq(Records)

(* Between the decision that a run was completed and its record only more  *)
(* receipts can come in.                                                   *)
CompletedStays ==
  main \in {"late", "record"} /\ runCompleted => isRunComplete

(* The identifiers counted are those of the nodes whose receipts were.     *)
CountedByNode ==
  gossipMode = "attack" => nodeMessageReceipts = {r.node : r \in counted}

Inv == /\ TypeOK
       /\ RunsLeft
       /\ ResultsType
       /\ CompletedStays
       /\ CountedByNode
       /\ CompletedMeansReached
       /\ EveryReceiptCounts
--------------------------------------------------------------------------------
LEMMA ModeTypes ==
  ASSUME TypeOK
  PROVE  /\ expectedReachability[gossipMode] \in Nat
         /\ TotalRuns[gossipMode] \in Nat \ {0}
         /\ Messages \subseteq Nat
BY CollectorAssumption DEF TypeOK, CollectorTypeOK, Messages, Runs

(* AfterStart is "loop" or "exit", and "exit" after the last run.          *)
LEMMA AfterStartType ==
  ASSUME NEW mode, NEW r
  PROVE  /\ AfterStart(mode, r) \in {"loop", "exit"}
         /\ AfterStart(mode, r) # "exit" => r < TotalRuns[mode]
BY DEF AfterStart

LEMMA InitInv == Init => Inv
<1> SUFFICES ASSUME Init PROVE Inv
  OBVIOUS
<1> USE DEF Init, CollectorInit
<1>1. gossipMode \in Modes /\ TotalRuns[gossipMode] \in Nat \ {0}
  BY CollectorAssumption
<1>2. 1 \in 1..TotalRuns[gossipMode]
  BY <1>1
<1>3. CollectorTypeOK
  BY <1>1, <1>2, AfterStartType DEF CollectorTypeOK
<1>4. TypeOK
  BY <1>3, TestAssumption DEF TypeOK
<1>5. RunsLeft
  BY AfterStartType DEF RunsLeft
<1>6. ResultsType
  BY FS_EmptySet DEF ResultsType
<1>7. CompletedStays /\ CountedByNode
  BY DEF CompletedStays, CountedByNode
<1>8. CompletedMeansReached /\ EveryReceiptCounts
  BY DEF CompletedMeansReached, EveryReceiptCounts
<1> QED
  BY <1>4, <1>5, <1>6, <1>7, <1>8 DEF Inv
--------------------------------------------------------------------------------
(* A step that changes neither the records nor what is counted, and comes  *)
(* to no decision, preserves all of Inv but its types.                     *)
LEMMA NothingCounted ==
  ASSUME Inv,
         UNCHANGED <<gossipMode, results, nodeMessageReceipts, counted>>,
         main' \in {"late", "record"} /\ runCompleted' => isRunComplete
  PROVE  /\ ResultsType'
         /\ CompletedStays'
         /\ CountedByNode'
         /\ CompletedMeansReached'
         /\ EveryReceiptCounts'
<1>1. ResultsType'
  BY DEF Inv, ResultsType
<1>2. CompletedStays'
  BY DEF CompletedStays, isRunComplete
<1>3. CountedByNode'
  BY DEF Inv, CountedByNode
<1>4. CompletedMeansReached'
  BY DEF Inv, CompletedMeansReached
<1>5. EveryReceiptCounts'
  BY DEF Inv, EveryReceiptCounts
<1> QED
  BY <1>1, <1>2, <1>3, <1>4, <1>5

(* The same of a step of the nodes, which leaves the main loop alone too.  *)
LEMMA LoopUntouched ==
  ASSUME Inv,
         UNCHANGED <<gossipMode, results, nodeMessageReceipts, counted, main,
                     runCompleted, currentRun>>,
         TypeOK'
  PROVE  Inv'
<1>1. main' \in {"late", "record"} /\ runCompleted' => isRunComplete
  BY DEF Inv, CompletedStays
<1>2. RunsLeft'
  BY DEF Inv, RunsLeft
<1> QED
  BY <1>1, <1>2, NothingCounted DEF Inv
--------------------------------------------------------------------------------
(* The steps of the main loop.                                             *)

LEMMA TimeoutInv == ASSUME Inv, Timeout, UNCHANGED nodeVars PROVE Inv'
<1>1. TypeOK'
  BY DEF Inv, TypeOK, CollectorTypeOK, Timeout, receiptVars, nodeVars,
         Messages, Runs
<1>2. UNCHANGED <<gossipMode, results, nodeMessageReceipts, counted, main,
                  runCompleted, currentRun>>
  BY DEF Timeout, receiptVars
<1> QED
  BY <1>1, <1>2, LoopUntouched

LEMMA LeaveLoopInv == ASSUME Inv, LeaveLoop, UNCHANGED nodeVars PROVE Inv'
<1>1. TypeOK'
  BY DEF Inv, TypeOK, CollectorTypeOK, LeaveLoop, Completed, isRunComplete,
         receiptVars, nodeVars, Messages, Runs
<1>2. runCompleted' => isRunComplete
  BY DEF LeaveLoop, Completed
<1>3. RunsLeft'
  BY DEF Inv, RunsLeft, LeaveLoop, receiptVars
<1> QED
  BY <1>1, <1>2, <1>3, NothingCounted DEF LeaveLoop, receiptVars, Inv

LEMMA LookAgainInv == ASSUME Inv, LookAgain, UNCHANGED nodeVars PROVE Inv'
<1>1. TypeOK'
  BY DEF Inv, TypeOK, CollectorTypeOK, LookAgain, Completed, isRunComplete,
         receiptVars, nodeVars, Messages, Runs
<1>2. runCompleted' => isRunComplete
  BY DEF LookAgain, Completed, Inv, CompletedStays
<1>3. RunsLeft'
  BY DEF Inv, RunsLeft, LookAgain, receiptVars
<1> QED
  BY <1>1, <1>2, <1>3, NothingCounted DEF LookAgain, receiptVars, Inv

(* The record is appended: what it says of its run follows from what is    *)
(* known of that run.                                                      *)
LEMMA RecordInv == ASSUME Inv, recordRunMetrics, UNCHANGED nodeVars PROVE Inv'
<1> DEFINE new == [run       |-> currentRun,
                   completed |-> runCompleted,
                   reached   |-> Cardinality(nodeMessageReceipts),
                   receipts  |-> counted]
<1> USE DEF recordRunMetrics, receiptVars
<1>1. TypeOK'
  BY DEF Inv, TypeOK, CollectorTypeOK, nodeVars, Messages, Runs
<1>2. RunsLeft' /\ CompletedStays' /\ CountedByNode'
  BY DEF Inv, RunsLeft, CompletedStays, CountedByNode
<1>3. new \in Records
  <2>1. Cardinality(nodeMessageReceipts) \in Nat
    BY FS_CardinalityType DEF Inv, ResultsType
  <2>2. currentRun \in Nat /\ runCompleted \in BOOLEAN /\ counted \subseteq Receipts
    BY ModeTypes DEF Inv, TypeOK, CollectorTypeOK
  <2> QED
    BY <2>1, <2>2 DEF Records
<1>4. /\ results' = Append(results, new)
      /\ results \in Seq(Records)
  BY DEF Inv, ResultsType
<1>5. ResultsType'
  BY <1>3, <1>4 DEF Inv, ResultsType
<1>6. \A i \in 1..Len(results') :
        results'[i] = new \/ (i \in 1..Len(results) /\ results'[i] = results[i])
  BY <1>3, <1>4
<1>7. CompletedMeansReached'
  <2>1. new.completed => new.reached >= expectedReachability[gossipMode]
    BY DEF Inv, CompletedStays, isRunComplete
  <2> QED
    BY <1>6, <2>1 DEF Inv, CompletedMeansReached
<1>8. EveryReceiptCounts'
  <2>1. gossipMode = "attack" =>
          new.reached = Cardinality({r.node : r \in new.receipts})
    BY DEF Inv, CountedByNode
  <2> QED
    BY <1>6, <2>1 DEF Inv, EveryReceiptCounts
<1> QED
  BY <1>1, <1>2, <1>5, <1>7, <1>8 DEF Inv

LEMMA StartInv == ASSUME Inv, startNewRun, UNCHANGED nodeVars PROVE Inv'
<1> USE DEF startNewRun, receiptVars
<1>1. /\ currentRun \in 1..TotalRuns[gossipMode]
      /\ currentRun < TotalRuns[gossipMode]
      /\ TotalRuns[gossipMode] \in Nat
  BY ModeTypes DEF Inv, TypeOK, CollectorTypeOK, RunsLeft
<1>2. currentRun + 1 \in 1..TotalRuns[gossipMode]
  BY <1>1
<1>3. TypeOK'
  BY <1>2, AfterStartType
     DEF Inv, TypeOK, CollectorTypeOK, NoReceipts, nodeVars, Messages, Runs
<1>4. RunsLeft'
  BY AfterStartType DEF RunsLeft
<1>5. ResultsType'
  BY FS_EmptySet DEF Inv, ResultsType, NoReceipts
<1>6. CompletedStays' /\ CountedByNode'
  BY DEF CompletedStays, CountedByNode, NoReceipts
<1>7. CompletedMeansReached' /\ EveryReceiptCounts'
  BY DEF Inv, CompletedMeansReached, EveryReceiptCounts
<1> QED
  BY <1>3, <1>4, <1>5, <1>6, <1>7 DEF Inv
--------------------------------------------------------------------------------
(* The handlers of receipts.                                               *)

(* An identifier more: a run that is complete stays so.                    *)
LEMMA ProcessInv ==
  ASSUME Inv, NEW receipt, processMessageForGossip(receipt), UNCHANGED nodeVars
  PROVE  Inv'
<1> USE DEF processMessageForGossip, runVars
<1>1. /\ receipt \in arriving
      /\ receipt \in sent
      /\ receipt \in Receipts
  BY DEF Inv, TypeOK, CollectorTypeOK
<1>2. PICK id \in Identifier(receipt) :
        nodeMessageReceipts' = nodeMessageReceipts \cup {id}
  OBVIOUS
<1>3. id \in Nodes \cup FallbackIDs
  BY <1>1 DEF Identifier, Receipts
<1>4. TypeOK'
  <2>1. /\ nodeMessageReceipts' \subseteq Nodes \cup FallbackIDs
        /\ counted' \subseteq sent'
        /\ arriving' \subseteq sent'
    BY <1>1, <1>2, <1>3 DEF Inv, TypeOK, CollectorTypeOK
  <2>2. /\ gossipMutex' \in {"free", "ending", "held"}
        /\ holder' \subseteq sent'
        /\ holder' = {} <=> gossipMutex' = "free"
    BY <1>1 DEF Inv, TypeOK, CollectorTypeOK
  <2> QED
    BY <2>1, <2>2 DEF Inv, TypeOK, CollectorTypeOK, nodeVars, Messages, Runs
<1>5. RunsLeft'
  BY DEF Inv, RunsLeft
<1>6. /\ IsFiniteSet(nodeMessageReceipts')
      /\ Cardinality(nodeMessageReceipts) \in Nat
      /\ Cardinality(nodeMessageReceipts') \in Nat
      /\ Cardinality(nodeMessageReceipts') >= Cardinality(nodeMessageReceipts)
  <2>1. IsFiniteSet(nodeMessageReceipts)
    BY DEF Inv, ResultsType
  <2>2. Cardinality(nodeMessageReceipts) \in Nat
    BY <2>1, FS_CardinalityType
  <2>3. /\ IsFiniteSet(nodeMessageReceipts \cup {id})
        /\ Cardinality(nodeMessageReceipts \cup {id}) =
             IF id \in nodeMessageReceipts THEN Cardinality(nodeMessageReceipts)
             ELSE Cardinality(nodeMessageReceipts) + 1
    BY <2>1, FS_AddElement
  <2>4. /\ Cardinality(nodeMessageReceipts \cup {id}) \in Nat
        /\ Cardinality(nodeMessageReceipts \cup {id})
             >= Cardinality(nodeMessageReceipts)
    BY <2>2, <2>3
  <2> HIDE DEF processMessageForGossip
  <2> QED
    BY <1>2, <2>2, <2>3, <2>4
<1>7. ResultsType'
  BY <1>6 DEF Inv, ResultsType
<1>8. CompletedStays'
  BY <1>6, ModeTypes DEF Inv, CompletedStays, isRunComplete
<1>9. CountedByNode'
  <2>1. gossipMode = "attack" => id = receipt.node
    BY <1>2 DEF Identifier
  <2>2. counted' = counted \cup {receipt}
    OBVIOUS
  <2> QED
    BY <1>2, <2>1, <2>2 DEF Inv, CountedByNode
<1>10. CompletedMeansReached' /\ EveryReceiptCounts'
  BY DEF Inv, CompletedMeansReached, EveryReceiptCounts
<1> QED
  BY <1>4, <1>5, <1>7, <1>8, <1>9, <1>10 DEF Inv

LEMMA EndInv == ASSUME Inv, EndRun \/ Unlock, UNCHANGED nodeVars PROVE Inv'
<1>1. TypeOK'
  BY DEF Inv, TypeOK, CollectorTypeOK, EndRun, Unlock, runVars, nodeVars,
         Messages, Runs
<1>2. UNCHANGED <<gossipMode, results, nodeMessageReceipts, counted, main,
                  runCompleted, currentRun>>
  BY DEF EndRun, Unlock, runVars
<1> QED
  BY <1>1, <1>2, LoopUntouched
--------------------------------------------------------------------------------
(* The nodes.                                                              *)

LEMMA SendReceiptInv ==
  ASSUME Inv, NEW receipt \in Receipts, SendReceipt(receipt), UNCHANGED nodeVars
  PROVE  Inv'
<1>1. TypeOK'
  BY DEF Inv, TypeOK, CollectorTypeOK, SendReceipt, runVars, nodeVars,
         Messages, Runs
<1>2. UNCHANGED <<gossipMode, results, nodeMessageReceipts, counted, main,
                  runCompleted, currentRun>>
  BY DEF SendReceipt, runVars
<1> QED
  BY <1>1, <1>2, LoopUntouched

LEMMA LookForPeersInv ==
  ASSUME Inv, NEW n \in Others, LookForPeers(n)
  PROVE  Inv'
<1> USE DEF LookForPeers, collectorVars
<1>1. /\ attempts' \in [Others -> 0..Attempts]
      /\ listening' \subseteq Others
  <2>1. PICK online \in SUBSET (Nodes \ {n}) :
          IF StopsLooking(n, Cardinality(online) * Listed[n] >= Enough)
          THEN listening' = listening \cup {n} /\ UNCHANGED attempts
          ELSE attempts' = [attempts EXCEPT ![n] = @ + 1] /\ UNCHANGED listening
    OBVIOUS
  <2>2. attempts[n] + 1 \in 0..Attempts
    BY TestAssumption DEF Inv, TypeOK
  <2> QED
    BY <2>1, <2>2 DEF Inv, TypeOK
<1>2. TypeOK'
  BY <1>1 DEF Inv, TypeOK, CollectorTypeOK, Messages, Runs
<1> QED
  BY <1>2, LoopUntouched

LEMMA SendInv ==
  ASSUME Inv, NEW m \in Messages, NEW T \in SUBSET Entries, Send(m, T)
  PROVE  Inv'
<1>1. TypeOK'
  BY DEF Inv, TypeOK, CollectorTypeOK, Send, collectorVars, Messages, Runs
<1>2. UNCHANGED <<gossipMode, results, nodeMessageReceipts, counted, main,
                  runCompleted, currentRun>>
  BY DEF Send, collectorVars
<1> QED
  BY <1>1, <1>2, LoopUntouched

LEMMA SelectedType == ASSUME NEW S, NEW T \in Selected(S) PROVE T \in SUBSET S
BY DEF Selected, selectRandomPeers

LEMMA ReportType ==
  ASSUME Inv, NEW m \in Messages, NEW e \in sentTo[m], NEW k \in Reports(e[1])
  PROVE  Report(m, e, k) \in Receipts
<1>1. e \in Others \X (1..Listed[VM1])
  BY DEF Inv, TypeOK, Entries
<1>2. e[1] \in Nodes /\ e[2] \in Nat
  BY <1>1, TestAssumption DEF Others
<1>3. k \in Nat
  BY <1>2, TestAssumption DEF Reports
<1>4. m \in Nat
  BY ModeTypes DEF Inv
<1> QED
  BY <1>2, <1>3, <1>4 DEF Report, Receipts
--------------------------------------------------------------------------------
LEMMA NextInv == ASSUME Inv, [Next]_vars PROVE Inv'
<1>1. CASE Main /\ UNCHANGED nodeVars
  BY <1>1, TimeoutInv, LeaveLoopInv, LookAgainInv, RecordInv, StartInv DEF Main
<1>2. CASE Handlers /\ UNCHANGED nodeVars
  BY <1>2, ProcessInv, EndInv DEF Handlers
<1>3. ASSUME NEW n \in Others, LookForPeers(n) PROVE Inv'
  BY <1>3, LookForPeersInv
<1>4. ASSUME NEW n \in Others, NEW r \in Runs, ReceiveGossip(n, r) PROVE Inv'
  <2>1. r \in Nat /\ n \in Nodes
    BY ModeTypes DEF Inv, Messages, Others
  <2>2. [node |-> n, message |-> r, copy |-> <<1, 1>>] \in Receipts
    BY <2>1 DEF Receipts
  <2> QED
    BY <1>4, <2>2, SendReceiptInv DEF ReceiveGossip
<1>5. CASE SendMessage
  BY <1>5, SendInv DEF SendMessage, Messages
<1>6. ASSUME NEW r \in Runs, SendMessageToLimitedNodes(r) PROVE Inv'
  <2>1. PICK T \in Selected(Entries) : Send(r, T)
    BY <1>6 DEF SendMessageToLimitedNodes
  <2> QED
    BY <2>1, SelectedType, SendInv DEF Messages
<1>7. ASSUME NEW m \in Messages, NEW e \in sentTo[m], NEW k \in Reports(e[1]),
             SendMessageToStatCollector(m, e, k)
      PROVE  Inv'
  BY <1>7, ReportType, SendReceiptInv DEF SendMessageToStatCollector
<1>8. CASE UNCHANGED vars
  <2>1. TypeOK'
    BY <1>8 DEF Inv, TypeOK, CollectorTypeOK, vars, collectorVars, nodeVars,
                Messages, Runs
  <2> QED
    BY <1>8, <2>1, LoopUntouched DEF vars, collectorVars
<1> QED
  BY <1>1, <1>2, <1>3, <1>4, <1>5, <1>6, <1>7, <1>8 DEF Next

(* The inductive invariant of the gossip test: the collector's main loop,  *)
(* its handlers and the nodes that report to it preserve it in any order.  *)
THEOREM Invariance == Spec => []Inv
<1>1. Init => Inv
  BY InitInv
<1>2. Inv /\ [Next]_vars => Inv'
  BY NextInv
<1> QED
  BY <1>1, <1>2, PTL DEF Spec

(* Type correctness of collector and nodes (the variables of               *)
(* gossip_test_StatCollector.go and what network.go keeps).                *)
THEOREM TypeCorrect == Spec => []TypeOK
<1>1. Inv => TypeOK
  BY DEF Inv
<1> QED
  BY <1>1, Invariance, PTL

(* Whatever receipts come while the run is ended, looked at and recorded,  *)
(* a run recorded as completed has all receipts it expects.                *)
THEOREM CompletedRunsReached == Spec => []CompletedMeansReached
<1>1. Inv => CompletedMeansReached
  BY DEF Inv
<1> QED
  BY <1>1, Invariance, PTL

(* Over the gossip network, the number recorded is that of the different   *)
(* nodes whose receipts the run counted.                                   *)
THEOREM ReceiptsCount == Spec => []EveryReceiptCounts
<1>1. Inv => EveryReceiptCounts
  BY DEF Inv
<1> QED
  BY <1>1, Invariance, PTL
--------------------------------------------------------------------------------
(* What NotOverstated rests on: where the receipts come from.              *)

(* Each identifier counted came with a receipt of its own, as no receipt   *)
(* is counted twice.                                                       *)
Backing == /\ IsFiniteSet(sent)
           /\ counted \cap arriving = {}
           /\ Cardinality(nodeMessageReceipts) <= Cardinality(counted)

(* So it was when a run was recorded.                                      *)
Recorded ==
  \A i \in 1..Len(results) :
    /\ results[i].run \in Runs
    /\ results[i].receipts \subseteq sent
    /\ results[i].reached <= Cardinality(results[i].receipts)

(* A receipt was sent by a node that the message reached, or was sent to.  *)
Origin ==
  \A r \in sent :
    IF gossipMode = "attack" THEN r.node \in Others
    ELSE /\ r.message \in Messages
         /\ \E e \in sentTo[r.message] : \E k \in Reports(e[1]) :
              r = Report(r.message, e, k)

ReceiptInv == Inv /\ Backing /\ Recorded /\ Origin

LEMMA InitReceipts == Init => ReceiptInv
<1> SUFFICES ASSUME Init PROVE ReceiptInv
  OBVIOUS
<1> USE DEF Init, CollectorInit
<1>1. Backing
  BY FS_EmptySet DEF Backing
<1>2. Recorded /\ Origin
  BY DEF Recorded, Origin
<1> QED
  BY <1>1, <1>2, InitInv DEF ReceiptInv

(* The steps that a receipt takes; all others leave it alone.              *)
LEMMA ReceiptSteps ==
  ASSUME [Next]_vars
  PROVE  \/ UNCHANGED <<gossipMode, sent, arriving, counted,
                        nodeMessageReceipts, results>>
         \/ recordRunMetrics
         \/ startNewRun
         \/ \E receipt \in arriving : processMessageForGossip(receipt)
         \/ \E n \in Others, r \in Runs : ReceiveGossip(n, r)
         \/ \E m \in Messages : \E e \in sentTo[m] : \E k \in Reports(e[1]) :
              SendMessageToStatCollector(m, e, k)
<1>1. CASE Main
  BY <1>1 DEF Main, Timeout, LeaveLoop, LookAgain, receiptVars
<1>2. CASE Handlers
  BY <1>2 DEF Handlers, EndRun, Unlock, runVars
<1>3. CASE \E n \in Others : LookForPeers(n)
  BY <1>3 DEF LookForPeers, collectorVars
<1>4. CASE SendMessage \/ \E r \in Runs : SendMessageToLimitedNodes(r)
  BY <1>4 DEF SendMessage, SendMessageToLimitedNodes, Send, collectorVars
<1>5. CASE UNCHANGED vars
  BY <1>5 DEF vars, collectorVars
<1> QED
  BY <1>1, <1>2, <1>3, <1>4, <1>5 DEF Next

(* The mode is chosen once, and no message is sent twice.                  *)
LEMMA SentOnce ==
  ASSUME Inv, [Next]_vars
  PROVE  /\ gossipMode' = gossipMode
         /\ \A m \in Messages : sentTo[m] # {} => sentTo'[m] = sentTo[m]
<1>1. CASE UNCHANGED nodeVars
  <2>1. sentTo' = sentTo
    BY <1>1 DEF nodeVars
  <2>2. gossipMode' = gossipMode
    <3>1. CASE Main
      BY <3>1 DEF Main, Timeout, LeaveLoop, LookAgain, recordRunMetrics,
                  startNewRun, receiptVars
    <3>2. CASE Handlers
      BY <3>2 DEF Handlers, processMessageForGossip, EndRun, Unlock, runVars
    <3>3. CASE \E receipt : SendReceipt(receipt)
      BY <3>3 DEF SendReceipt, runVars
    <3>4. CASE \E n \in Others : LookForPeers(n)
      BY <3>4 DEF LookForPeers, collectorVars
    <3>5. CASE SendMessage \/ \E r \in Runs : SendMessageToLimitedNodes(r)
      BY <3>5 DEF SendMessage, SendMessageToLimitedNodes, Send, collectorVars
    <3>6. CASE UNCHANGED vars
      BY <3>6 DEF vars, collectorVars
    <3> QED
      BY <3>1, <3>2, <3>3, <3>4, <3>5, <3>6
         DEF Next, ReceiveGossip, SendMessageToStatCollector
  <2> QED
    BY <2>1, <2>2
<1>2. ASSUME NEW n \in Others, LookForPeers(n)
      PROVE  UNCHANGED <<gossipMode, sentTo>>
  BY <1>2 DEF LookForPeers, collectorVars
<1>3. ASSUME NEW m \in Messages, NEW T, Send(m, T)
      PROVE  /\ gossipMode' = gossipMode
             /\ \A x \in Messages : sentTo[x] # {} => sentTo'[x] = sentTo[x]
  BY <1>3 DEF Send, collectorVars, Inv, TypeOK
<1>4. CASE SendMessage \/ \E r \in Runs : SendMessageToLimitedNodes(r)
  BY <1>3, <1>4 DEF SendMessage, SendMessageToLimitedNodes, Messages
<1>5. CASE UNCHANGED vars
  BY <1>1, <1>5 DEF vars
<1> QED
  BY <1>1, <1>2, <1>4, <1>5
     DEF Next, ReceiveGossip, SendMessageToStatCollector
--------------------------------------------------------------------------------
(* A receipt that is sent was not sent, and so not counted, before.        *)
LEMMA SendBacking ==
  ASSUME Inv, Backing, NEW receipt, SendReceipt(receipt)
  PROVE  Backing'
<1> USE DEF SendReceipt, runVars
<1>1. IsFiniteSet(sent \cup {receipt})
  BY FS_AddElement DEF Backing
<1>2. receipt \notin counted
  BY DEF Inv, TypeOK, CollectorTypeOK
<1>3. counted' \cap arriving' = {}
  BY <1>2 DEF Backing
<1> QED
  BY <1>1, <1>3 DEF Backing

LEMMA ProcessBacking ==
  ASSUME Inv, Backing, NEW receipt \in arriving,
         processMessageForGossip(receipt)
  PROVE  Backing'
<1>1. PICK id : nodeMessageReceipts' = nodeMessageReceipts \cup {id}
  BY DEF processMessageForGossip
<1>2. /\ counted' = counted \cup {receipt}
      /\ arriving' = arriving \ {receipt}
      /\ sent' = sent
  BY DEF processMessageForGossip, runVars
<1>3. receipt \notin counted
  BY DEF Backing
<1>4. IsFiniteSet(counted) /\ IsFiniteSet(nodeMessageReceipts)
  BY FS_Subset DEF Backing, Inv, ResultsType, TypeOK, CollectorTypeOK
<1>5. /\ Cardinality(counted) \in Nat
      /\ Cardinality(nodeMessageReceipts) \in Nat
  BY <1>4, FS_CardinalityType
<1>6. Cardinality(counted \cup {receipt}) = Cardinality(counted) + 1
  BY <1>3, <1>4, FS_AddElement
<1>7. \/ Cardinality(nodeMessageReceipts \cup {id})
            = Cardinality(nodeMessageReceipts)
      \/ Cardinality(nodeMessageReceipts \cup {id})
            = Cardinality(nodeMessageReceipts) + 1
  BY <1>4, FS_AddElement
<1>8. Cardinality(nodeMessageReceipts \cup {id})
        <= Cardinality(counted \cup {receipt})
  BY <1>5, <1>6, <1>7 DEF Backing
<1> QED
  BY <1>1, <1>2, <1>8 DEF Backing

LEMMA NextBacking == ASSUME ReceiptInv, [Next]_vars PROVE Backing'
<1> USE DEF ReceiptInv
<1>1. CASE UNCHANGED <<gossipMode, sent, arriving, counted,
                       nodeMessageReceipts, results>>
  BY <1>1 DEF Backing
<1>2. CASE recordRunMetrics
  BY <1>2 DEF recordRunMetrics, receiptVars, Backing
<1>3. CASE startNewRun
  <2>1. /\ nodeMessageReceipts' = {} /\ counted' = {}
        /\ UNCHANGED <<sent, arriving>>
    BY <1>3 DEF startNewRun, NoReceipts, receiptVars
  <2> QED
    BY <2>1, FS_EmptySet DEF Backing
<1>4. CASE \E receipt \in arriving : processMessageForGossip(receipt)
  BY <1>4, ProcessBacking
<1>5. CASE \E receipt : SendReceipt(receipt)
  BY <1>5, SendBacking
<1> QED
  BY <1>1, <1>2, <1>3, <1>4, <1>5, ReceiptSteps
     DEF ReceiveGossip, SendMessageToStatCollector

LEMMA NextRecorded == ASSUME ReceiptInv, [Next]_vars PROVE Recorded'
<1> USE DEF ReceiptInv
<1>1. ASSUME sent \subseteq sent', results' = results PROVE Recorded'
  BY <1>1, SentOnce DEF Recorded, Runs
<1>2. CASE recordRunMetrics
  <2> DEFINE new == [run       |-> currentRun,
                     completed |-> runCompleted,
                     reached   |-> Cardinality(nodeMessageReceipts),
                     receipts  |-> counted]
  <2>1. results' = Append(results, new) /\ results \in Seq(Records)
    BY <1>2 DEF recordRunMetrics, Inv, ResultsType
  <2>2. \A i \in 1..Len(results') :
          \/ results'[i] = new
          \/ i \in 1..Len(results) /\ results'[i] = results[i]
    BY <2>1
  <2>3. /\ new.run \in Runs
        /\ new.receipts \subseteq sent
        /\ new.reached <= Cardinality(new.receipts)
    BY DEF Inv, TypeOK, CollectorTypeOK, Backing, Runs
  <2>4. UNCHANGED <<sent, gossipMode>>
    BY <1>2 DEF recordRunMetrics, receiptVars
  <2> QED
    BY <2>2, <2>3, <2>4 DEF Recorded, Runs
<1>3. CASE startNewRun
  BY <1>1, <1>3 DEF startNewRun, receiptVars
<1>4. CASE \E receipt \in arriving : processMessageForGossip(receipt)
  BY <1>1, <1>4 DEF processMessageForGossip, runVars
<1>5. CASE \E receipt : SendReceipt(receipt)
  BY <1>1, <1>5 DEF SendReceipt, runVars
<1> QED
  BY <1>1, <1>2, <1>3, <1>4, <1>5, ReceiptSteps
     DEF ReceiveGossip, SendMessageToStatCollector

LEMMA NextOrigin == ASSUME ReceiptInv, [Next]_vars PROVE Origin'
<1> USE DEF ReceiptInv
<1>1. /\ gossipMode' = gossipMode
      /\ Messages' = Messages
      /\ \A m \in Messages : sentTo[m] # {} => sentTo'[m] = sentTo[m]
  BY SentOnce DEF Messages, Runs
<1>2. ASSUME sent' = sent PROVE Origin'
  BY <1>1, <1>2 DEF Origin, Reports, Report
<1>3. ASSUME NEW n \in Others, NEW r \in Runs, ReceiveGossip(n, r) PROVE Origin'
  BY <1>1, <1>3 DEF ReceiveGossip, SendReceipt, Origin
<1>4. ASSUME NEW m \in Messages, NEW e \in sentTo[m], NEW k \in Reports(e[1]),
             SendMessageToStatCollector(m, e, k)
      PROVE  Origin'
  <2>1. CASE gossipMode = "attack"
    <3>1. e[1] \in Others
      BY DEF Inv, TypeOK, Entries
    <3> QED
      BY <1>1, <1>4, <2>1, <3>1
         DEF SendMessageToStatCollector, SendReceipt, Origin, Report
  <2>2. CASE gossipMode # "attack"
    <3>1. sent' = sent \cup {Report(m, e, k)} /\ sentTo' = sentTo
      BY <1>4 DEF SendMessageToStatCollector, SendReceipt, nodeVars
    <3>2. Report(m, e, k).message = m
      BY DEF Report
    <3> QED
      BY <1>1, <2>2, <3>1, <3>2 DEF Origin, Reports, Report
  <2> QED
    BY <2>1, <2>2
<1> QED
  BY <1>2, <1>3, <1>4, ReceiptSteps
     DEF recordRunMetrics, startNewRun, processMessageForGossip, receiptVars
--------------------------------------------------------------------------------
(* One for each entry message m is sent to, and entry of the collector in  *)
(* the list of the node it is of.                                          *)
DueTo(m) == UNION {{e} \X (1..Listed[e[1]]) : e \in sentTo[m]}

LEMMA DueToFinite ==
  ASSUME TypeOK, NEW m \in Messages
  PROVE  IsFiniteSet(DueTo(m))
<1> DEFINE due == [e \in sentTo[m] |-> {e} \X (1..Listed[e[1]])]
           T   == {{e} \X (1..Listed[e[1]]) : e \in sentTo[m]}
<1>1. IsFiniteSet(Others) /\ IsFiniteSet(1..Listed[VM1])
  BY CollectorAssumption, TestAssumption, FS_Subset, FS_Interval DEF Others
<1>2. IsFiniteSet(Entries)
  BY <1>1, FS_Product DEF Entries
<1>3. IsFiniteSet(sentTo[m])
  BY <1>2, FS_Subset DEF TypeOK
<1>4. due \in Surjection(sentTo[m], T)
  BY DEF Surjection
<1>5. IsFiniteSet(T)
  BY <1>3, <1>4, FS_Surjection
<1>6. ASSUME NEW e \in sentTo[m] PROVE IsFiniteSet({e} \X (1..Listed[e[1]]))
  <2>1. e[1] \in Nodes
    BY DEF TypeOK, Entries, Others
  <2>2. IsFiniteSet(1..Listed[e[1]])
    BY <2>1, TestAssumption, FS_Interval
  <2> QED
    BY <2>2, FS_Singleton, FS_Product
<1>7. IsFiniteSet(UNION T)
  BY <1>5, <1>6, FS_UNION
<1> QED
  BY <1>7 DEF DueTo

(* Over the direct network a receipt of message m is told apart from the   *)
(* others by the entry and the report it stands for.                       *)
LEMMA ReceiptsDue ==
  ASSUME ReceiptInv, gossipMode # "attack", NEW m \in Messages,
         NEW R \in SUBSET sent, \A r \in R : r.message = m
  PROVE  Cardinality(R) <= Cardinality(DueTo(m))
<1> DEFINE f == [r \in R |-> <<<<r.node, r.copy[1]>>, r.copy[2]>>]
<1>1. ASSUME NEW r \in R PROVE f[r] \in DueTo(m)
  <2>a. PICK e \in sentTo[m] : \E k \in Reports(e[1]) : r = Report(m, e, k)
    BY DEF ReceiptInv, Origin
  <2>1. PICK k \in Reports(e[1]) : r = Report(m, e, k)
    BY <2>a
  <2>2. r.node = e[1] /\ r.copy[1] = e[2] /\ r.copy[2] = k
    BY <2>1 DEF Report
  <2>3. e = <<e[1], e[2]>>
    BY DEF ReceiptInv, Inv, TypeOK, Entries
  <2>4. f[r] = <<e, k>>
    BY <2>2, <2>3
  <2>5. <<e, k>> \in {e} \X (1..Listed[e[1]])
    BY DEF Reports
  <2> QED
    BY <2>4, <2>5 DEF DueTo
<1>2. ASSUME NEW r \in R, NEW s \in R, f[r] = f[s] PROVE r = s
  <2>1. r \in Receipts /\ s \in Receipts
    BY DEF ReceiptInv, Inv, TypeOK, CollectorTypeOK
  <2>2. /\ r.node = s.node
        /\ r.copy[1] = s.copy[1]
        /\ r.copy[2] = s.copy[2]
    BY <1>2
  <2>3. r.copy = s.copy /\ r.message = s.message
    BY <2>1, <2>2 DEF Receipts
  <2> QED
    BY <2>1, <2>2, <2>3 DEF Receipts
<1>3. f \in Injection(R, DueTo(m))
  BY <1>1, <1>2 DEF Injection, IsInjective
<1>4. IsFiniteSet(DueTo(m))
  BY DueToFinite DEF ReceiptInv, Inv
<1> QED
  BY <1>3, <1>4, FS_Injection

LEMMA ReceiptInvImplies == ReceiptInv => NotOverstated
<1> SUFFICES ASSUME ReceiptInv, NEW i \in 1..Len(results),
                    \A r \in results[i].receipts : r.message = results[i].run
             PROVE  results[i].reached <= Due(results[i].run)
  BY DEF NotOverstated
<1> DEFINE m == results[i].run
           R == results[i].receipts
<1>1. m \in Messages /\ R \in SUBSET sent
  BY DEF ReceiptInv, Recorded, Messages
<1>2. CASE gossipMode = "attack"
  <2> DEFINE N == {n \in Others : \E r \in sent : r.node = n /\ r.message = m}
  <2>1. IsFiniteSet(N)
    BY CollectorAssumption, FS_Subset DEF Others
  <2>2. {r.node : r \in R} \in SUBSET N
    BY <1>1, <1>2 DEF ReceiptInv, Origin
  <2>3. results[i].reached = Cardinality({r.node : r \in R})
    BY <1>2 DEF ReceiptInv, Inv, EveryReceiptCounts
  <2>4. Cardinality({r.node : r \in R}) <= Cardinality(N)
    BY <2>1, <2>2, FS_Subset
  <2> QED
    BY <1>2, <2>3, <2>4 DEF Due
<1>3. CASE gossipMode # "attack"
  <2>1. Cardinality(R) <= Cardinality(DueTo(m))
    BY <1>1, <1>3, ReceiptsDue
  <2>2. results[i].reached <= Cardinality(R)
    BY DEF ReceiptInv, Recorded
  <2>3. results[i].reached \in Nat
    <3>1. results \in Seq(Records)
      BY DEF ReceiptInv, Inv, ResultsType
    <3>2. results[i] \in Records
      BY <3>1
    <3> QED
      BY <3>2 DEF Records
  <2>4. Cardinality(R) \in Nat /\ Cardinality(DueTo(m)) \in Nat
    BY <1>1, DueToFinite, FS_Subset, FS_CardinalityType
       DEF ReceiptInv, Backing, Inv
  <2>5. Due(m) = Cardinality(DueTo(m))
    BY <1>3 DEF Due, DueTo
  <2> HIDE DEF m, R
  <2> QED
    BY <2>1, <2>2, <2>3, <2>4, <2>5 DEF m, R
<1> QED
  BY <1>2, <1>3

(* No run that counted only receipts of its own message is credited with   *)
(* more than that message brought in, in either network.                   *)
THEOREM RunsNotOverstated == Spec => []NotOverstated
<1>1. ReceiptInv /\ [Next]_vars => ReceiptInv'
  BY NextInv, NextBacking, NextRecorded, NextOrigin DEF ReceiptInv
<1> QED
  BY <1>1, InitReceipts, ReceiptInvImplies, PTL DEF Spec
================================================================================
