---------------------------- MODULE GossipCollector ----------------------------
(***************************************************************************)
(* The statistics collector of the gossip tests.  In each run VM1 sends    *)
(* one message, every node that gets it sends a receipt, and after all     *)
(* expected receipts or three seconds the reachability of the run is       *)
(* recorded.  The main loop and a goroutine per receipt run side by side.  *)
(* GossipTest adds the nodes.                                              *)
(***************************************************************************)
EXTENDS Naturals, Sequences, FiniteSets

CONSTANTS Nodes,                 \* the nodes that may receive the message
          Modes,                 \* the values of gossipMode looked at
          expectedReachability,  \* by mode: 3 for "attack", 4 for "control"
          TotalRuns,             \* totalRuns, one bound for each mode
          FallbackIDs            \* what stands for a missing key: the clock's
                                 \* nanoseconds modulo 1000

ASSUME CollectorAssumption == /\ IsFiniteSet(Nodes)
                              /\ Modes \subseteq {"attack", "control"}
                              /\ expectedReachability \in [Modes -> Nat \ {0}]
                              /\ TotalRuns \in [Modes -> Nat \ {0}]

(* Message 0 is the one that VM1 sends in control mode when it starts.     *)
Receipts == [node : Nodes, message : Nat, copy : Nat \X Nat]

VARIABLES
  gossipMode,
  currentRun,
  isTestRunning,
  nodeMessageReceipts,  \* the identifiers receipts were counted for
  counted,              \* history: the receipts counted in this run
  results,              \* what recordRunMetrics has recorded
  main,                 \* where the main goroutine is
  runCompleted,
  gossipMutex,          \* held by a handler that is to end the run or has
  holder,               \* the receipt that handler was started for
  sent,                 \* receipts sent, ever
  arriving              \* of these, those not yet processed

collectorVars == <<gossipMode, currentRun, isTestRunning, nodeMessageReceipts,
                   counted, results, main, runCompleted, gossipMutex, holder,
                   sent, arriving>>

CollectorTypeOK ==
          /\ gossipMode \in Modes
          /\ currentRun \in 1..TotalRuns[gossipMode]
          /\ isTestRunning \in BOOLEAN
          /\ nodeMessageReceipts \subseteq Nodes \cup FallbackIDs
          /\ counted \subseteq sent
          /\ main \in {"loop", "late", "record", "cleanup", "exit"}
          /\ runCompleted \in BOOLEAN
          /\ gossipMutex \in {"free", "ending", "held"}
          /\ holder \subseteq sent
          /\ holder = {} <=> gossipMutex = "free"
          /\ sent \subseteq Receipts
          /\ arriving \subseteq sent

(* Mutant: the loop is entered once more.                                  *)
LoopAgain(mode, r) == "loop"

(* waitForTestCompletion ends when the last run has been started.          *)
AfterStart(mode, r) == IF r < TotalRuns[mode] THEN "loop" ELSE "exit"

(* main has started the first run.                                         *)
CollectorInit ==
        /\ gossipMode \in Modes
        /\ currentRun = 1
        /\ isTestRunning = TRUE
        /\ nodeMessageReceipts = {}
        /\ counted = {}
        /\ results = << >>
        /\ main = AfterStart(gossipMode, 1)
        /\ runCompleted = FALSE
        /\ gossipMutex = "free"
        /\ holder = {}
        /\ sent = {}
        /\ arriving = {}

isRunComplete ==
  Cardinality(nodeMessageReceipts) >= expectedReachability[gossipMode]

(* Mutant: a run that has ended was completed.                             *)
Ended == ~isTestRunning

Completed == ~isTestRunning /\ isRunComplete
--------------------------------------------------------------------------------
(* What only the handlers of receipts write, and what only main does.      *)
receiptVars == <<gossipMode, gossipMutex, holder, sent, arriving>>
runVars     == <<gossipMode, currentRun, results, main, runCompleted>>

(* Mutant: the timer never fires.                                          *)
NoTimeout == FALSE

(* The main goroutine, round its loop.  A turn that finds the run neither  *)
(* ended nor complete sleeps, or finds that three seconds have passed.     *)
Timeout == /\ main = "loop" /\ isTestRunning /\ ~isRunComplete
           /\ isTestRunning' = FALSE
           /\ UNCHANGED <<currentRun, nodeMessageReceipts, counted, results,
                          main, runCompleted, receiptVars>>

LeaveLoop == /\ main = "loop" /\ (~isTestRunning \/ isRunComplete)
             /\ runCompleted' = Completed
             /\ main' = "late"
             /\ UNCHANGED <<currentRun, isTestRunning, nodeMessageReceipts,
                            counted, results, receiptVars>>

(* One second for late receipts; then it is looked once more.              *)
LookAgain == /\ main = "late"
             /\ runCompleted' = (runCompleted \/ Completed)
             /\ main' = "record"
             /\ UNCHANGED <<currentRun, isTestRunning, nodeMessageReceipts,
                            counted, results, receiptVars>>

recordRunMetrics ==
  /\ main = "record"
  /\ results' = Append(results, [run       |-> currentRun,
                                 completed |-> runCompleted,
                                 reached   |-> Cardinality(nodeMessageReceipts),
                                 receipts  |-> counted])
  /\ main' = "cleanup"
  /\ UNCHANGED <<currentRun, isTestRunning, nodeMessageReceipts, counted,
                 runCompleted, receiptVars>>

(* Mutant: the receipts of the run before stay.                            *)
KeptReceipts == nodeMessageReceipts

NoReceipts == {}

(* Ten seconds later.  (The command CLEAR_MESSAGES, sent meanwhile, is not *)
(* a message that the nodes understand: it changes nothing.)               *)
startNewRun == /\ main = "cleanup"
               /\ currentRun' = currentRun + 1
               /\ isTestRunning' = TRUE
               /\ nodeMessageReceipts' = NoReceipts
               /\ counted' = {}
               /\ main' = AfterStart(gossipMode, currentRun + 1)
               /\ runCompleted' = FALSE
               /\ UNCHANGED <<results, receiptVars>>

Main == \/ Timeout \/ LeaveLoop \/ LookAgain \/ recordRunMetrics \/ startNewRun
--------------------------------------------------------------------------------
(* Mutant: the key in the receipt is not used.                             *)
AnyIdentifier(receipt) == FallbackIDs

(* The receipts of network_gossip carry the node's public key, those of    *)
(* network do not.                                                         *)
Identifier(receipt) ==
  IF gossipMode = "attack" THEN {receipt.node} ELSE FallbackIDs

(* The handler of a receipt counts it whether a test is running or not.    *)
processMessageForGossip(receipt) ==
  /\ main # "exit" /\ gossipMutex = "free" /\ receipt \in arriving
  /\ arriving' = arriving \ {receipt}
  /\ counted' = counted \cup {receipt}
  /\ \E id \in Identifier(receipt) :
       nodeMessageReceipts' = nodeMessageReceipts \cup {id}
  /\ UNCHANGED <<isTestRunning, sent, runVars>>
  /\ IF isRunComplete' THEN gossipMutex' = "ending" /\ holder' = {receipt}
     ELSE UNCHANGED <<gossipMutex, holder>>

(* If that made enough, it ends the run, and keeps the mutex for three     *)
(* seconds more.                                                           *)
EndRun == /\ main # "exit" /\ gossipMutex = "ending"
          /\ isTestRunning' = FALSE
          /\ gossipMutex' = "held"
          /\ UNCHANGED <<nodeMessageReceipts, counted, holder, sent, arriving,
                         runVars>>

Unlock == /\ main # "exit" /\ gossipMutex = "held"
          /\ gossipMutex' = "free"
          /\ holder' = {}
          /\ UNCHANGED <<isTestRunning, nodeMessageReceipts, counted, sent,
                         arriving, runVars>>

Handlers == \/ EndRun \/ Unlock
            \/ \E receipt \in arriving : processMessageForGossip(receipt)

(* VM1 has been told to send the message of run r.                         *)
Commanded(r) == r <= currentRun

(* A receipt is sent, maybe when the collector is in a later run.          *)
SendReceipt(receipt) ==
  /\ receipt \notin sent
  /\ sent' = sent \cup {receipt}
  /\ arriving' = arriving \cup {receipt}
  /\ UNCHANGED <<isTestRunning, nodeMessageReceipts, counted, gossipMutex,
                 holder, runVars>>

(* The answer to a receipt, sent when its handler returns, can be read.    *)
Answered(receipt) == receipt \in sent \ (arriving \cup holder)

(* The collector's goroutines go on and its timer fires; no node has to    *)
(* receive anything.                                                       *)
CollectorFairness == WF_collectorVars(Main) /\ WF_collectorVars(Handlers)
--------------------------------------------------------------------------------
(* A run recorded as completed was completed: all expected receipts were   *)
(* counted, although "completed" is decided before the count is taken.     *)
CompletedMeansReached ==
  \A i \in 1..Len(results) :
    results[i].completed =>
      results[i].reached >= expectedReachability[gossipMode]

(* "calculateReachability calculates the percentage of nodes that received *)
(* the message" (gossip_test_StatCollector.go:423): every node whose       *)
(* receipt was counted is in the count, and once.  The receipts of         *)
(* network.go name no node; for them it is not so.                         *)
EveryReceiptCounts ==
  gossipMode = "attack" =>
    \A i \in 1..Len(results) :
      results[i].reached = Cardinality({r.node : r \in results[i].receipts})

(* Every run before the last is recorded, also when no receipt comes: the  *)
(* test cannot hang.                                                       *)
EveryRunRecorded == <>(Len(results) = TotalRuns[gossipMode] - 1 /\ main = "exit")
================================================================================
