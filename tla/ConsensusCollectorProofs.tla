------------------------ MODULE ConsensusCollectorProofs ------------------------
(***************************************************************************)
(* Proofs about ConsensusCollector for any number of nodes, attackers      *)
(* among them, chats per run and runs.                                     *)
(***************************************************************************)
EXTENDS ConsensusCollector, FiniteSetTheorems, SequenceTheorems, TLAPS

--------------------------------------------------------------------------------
(* The chains of a run are told apart by their node and the number of the  *)
(* chat they were sent for.                                                *)
Key(s) == <<s.node, s.chat[2]>>

Keys(S) == {Key(s) : s \in S}

AllKeys == Nodes \X (1..ChatsPerRun)

StoredKeys ==
  {k \in AllKeys : \E i \in 1..Len(nodeBlockchains[k[1]]) :
                     nodeBlockchains[k[1]][i].chat[2] = k[2]}

(* Types the module's own invariant leaves open.                           *)
Result == [run : Runs, chains : [Nodes -> Seq(Report)], total : Nat, agree : Nat]

Types == /\ TypeOK
         /\ nodeBlockchains \in [Nodes -> Seq(Report)]
         /\ results \in Seq(Result)

(* Whatever times out: main and the count.  A handler may end a run while  *)
(* main begins the next, which then goes on with a count that is complete. *)
RunsInv ==
  /\ main \notin {"answer", "exit"} => currentRun < TotalRuns \/ main = "begin"
  /\ consensusMutex \in {"count", "compare", "end"} => isTestRunning
  /\ isTestRunning /\ consensusMutex \notin {"compare", "end"} =>
       IF main = "begin" THEN messagesThisRun < expectedBlockchains
                         ELSE messagesThisRun <= expectedBlockchains
  /\ main = "begin" => messagesThisRun <= expectedBlockchains

OfThisRun(s) == /\ s.chat[1] = currentRun
                /\ s.chat[2] <= progress[s.node][currentRun]

Once(S) == \A s, t \in S : Key(s) = Key(t) => s = t

InHand == IF consensusMutex = "count" THEN 1 ELSE 0

(* The rest holds as long as no run has timed out.  Earlier runs are over, *)
(* and of this one every chain is on its way, stored and not yet counted,  *)
(* in the hand of the handler that counts it, or counted, if not lost.     *)
ChainsInv ==
  /\ \A n \in Nodes, r \in Runs : r < currentRun => progress[n][r] = ChatsPerRun
  /\ \A s \in arriving \cup storing : OfThisRun(s)
  /\ Once(arriving) /\ Once(storing)
  /\ \A n \in Nodes : \A i \in 1..Len(nodeBlockchains[n]) :
       /\ nodeBlockchains[n][i].chat[1] = currentRun
       /\ nodeBlockchains[n][i].chat[2] <= progress[n][currentRun]
  /\ \A n \in Nodes : \A i, j \in 1..Len(nodeBlockchains[n]) :
       nodeBlockchains[n][i].chat[2] = nodeBlockchains[n][j].chat[2] => i = j
  /\ Keys(storing) \subseteq StoredKeys
  /\ Keys(arriving) \cap StoredKeys = {}
  /\ messagesThisRun + InHand <= Cardinality(StoredKeys \ Keys(storing))

(* main leaves a run only when it is complete and ended, and begins the    *)
(* next only when the handler that ended it has assessed it.               *)
PhaseInv ==
  /\ ~isTestRunning => main = "begin" \/ MessagesReached
  /\ MessagesReached /\ isTestRunning => consensusMutex \in {"compare", "end"}
  /\ consensusMutex = "end" => MessagesReached
  /\ consensusMutex = "assess" => ~isTestRunning
  /\ main \in {"over", "pause"} => ~isTestRunning
  /\ main = "pause" => consensusMutex # "assess"
  /\ main = "begin" => /\ ~isTestRunning /\ consensusMutex # "assess"
                       /\ messagesThisRun = 0
                       /\ arriving = {} /\ storing = {}

(* There is one result for each run that is over, the i-th of run i.       *)
ResultsInv ==
  /\ Len(results) = IF isTestRunning \/ consensusMutex = "assess" \/ main = "begin"
                    THEN currentRun - 1 ELSE currentRun
  /\ \A i \in 1..Len(results) :
       /\ results[i].run = i
       /\ \A n \in Nodes : Len(results[i].chains[n]) = ChatsPerRun

Orderly == ChainsInv /\ PhaseInv /\ ResultsInv

Inv == Types /\ RunsInv /\ (~timedOut => Orderly)
--------------------------------------------------------------------------------
LEMMA IntervalSize ==
  ASSUME NEW k \in Nat PROVE IsFiniteSet(1..k) /\ Cardinality(1..k) = k
<1>1. 1 \in Int /\ k \in Int /\ k - 1 + 1 = k
  OBVIOUS
<1>2. IsFiniteSet(1..k) /\ Cardinality(1..k) = IF 1 > k THEN 0 ELSE k - 1 + 1
  BY <1>1, FS_Interval
<1> QED
  BY <1>1, <1>2

LEMMA Expected ==
  /\ expectedBlockchains \in Nat
  /\ expectedBlockchains > 0 /\ expectedBlockchains' = expectedBlockchains
  /\ IsFiniteSet(AllKeys) /\ Cardinality(AllKeys) = expectedBlockchains
<1>1. /\ Cardinality(Nodes) \in Nat
      /\ Cardinality(Nodes) = 0 <=> Nodes = {}
      /\ ChatsPerRun \in Nat /\ ChatsPerRun > 0
  BY CollectorAssumption, FS_CardinalityType, FS_EmptySet
<1>2. \A a, b \in Nat : a * b \in Nat /\ (a # 0 /\ b # 0 => a * b > 0)
  OBVIOUS
<1>3. IsFiniteSet(1..ChatsPerRun) /\ Cardinality(1..ChatsPerRun) = ChatsPerRun
  BY <1>1, FS_Interval
<1>4. IsFiniteSet(AllKeys) /\ Cardinality(AllKeys) = expectedBlockchains
  BY <1>3, CollectorAssumption, FS_Product DEF AllKeys, expectedBlockchains
<1>5. expectedBlockchains > 0 /\ expectedBlockchains \in Nat
  BY <1>1, <1>2, CollectorAssumption DEF expectedBlockchains
<1>6. expectedBlockchains' = expectedBlockchains
  BY DEF expectedBlockchains
<1> QED
  BY <1>4, <1>5, <1>6

LEMMA ReportKey ==
  ASSUME NEW s \in Report
  PROVE  /\ Key(s) \in AllKeys /\ Key(s)[1] = s.node /\ Key(s)[2] = s.chat[2]
         /\ s.node \in Nodes /\ s.chat[1] \in Runs /\ s.chat[2] \in 1..ChatsPerRun
BY DEF Report, Chats, Key, AllKeys

LEMMA AllStored ==
  ASSUME Types, ChainsInv, AllKeys \subseteq StoredKeys, NEW n \in Nodes
  PROVE  /\ progress[n][currentRun] = ChatsPerRun
         /\ Len(nodeBlockchains[n]) = ChatsPerRun
<1> DEFINE c == nodeBlockchains[n]
<1>1. c \in Seq(Report) /\ Len(c) \in Nat
  BY DEF Types
<1>2. \A i \in 1..Len(c) : c[i].chat[2] \in 1..ChatsPerRun
  BY <1>1, ReportKey
<1>3. \A k \in 1..ChatsPerRun : \E i \in 1..Len(c) : c[i].chat[2] = k
  <2> TAKE k \in 1..ChatsPerRun
  <2>1. <<n, k>> \in StoredKeys
    BY DEF AllKeys
  <2> QED
    BY <2>1 DEF StoredKeys
<1>4. \A i, j \in 1..Len(c) : c[i].chat[2] = c[j].chat[2] => i = j
  BY DEF ChainsInv
<1>5. \A i \in 1..Len(c) : c[i].chat[2] <= progress[n][currentRun]
  BY DEF ChainsInv
<1> HIDE DEF c
<1>6. progress[n][currentRun] = ChatsPerRun
  <2>1. ChatsPerRun \in 1..ChatsPerRun /\ currentRun \in Runs
    BY CollectorAssumption DEF Types, TypeOK
  <2>2. progress[n][currentRun] \in 0..ChatsPerRun
    BY <2>1 DEF Types, TypeOK
  <2>3. PICK i \in 1..Len(c) : c[i].chat[2] = ChatsPerRun
    BY <1>3, <2>1
  <2>4. ChatsPerRun <= progress[n][currentRun]
    BY <1>5, <2>3
  <2> QED
    BY <2>2, <2>4, CollectorAssumption
<1>7. Len(c) = ChatsPerRun
  <2> DEFINE f == [i \in 1..Len(c) |-> c[i].chat[2]]
  <2>1. f \in Bijection(1..Len(c), 1..ChatsPerRun)
    BY <1>2, <1>3, <1>4 DEF Bijection, Injection, Surjection, IsInjective
  <2>2. ExistsBijection(1..Len(c), 1..ChatsPerRun)
    BY <2>1 DEF ExistsBijection
  <2>3. /\ IsFiniteSet(1..Len(c)) /\ Cardinality(1..Len(c)) = Len(c)
        /\ Cardinality(1..ChatsPerRun) = ChatsPerRun
    BY <1>1, IntervalSize, CollectorAssumption
  <2> QED
    BY <2>2, <2>3, FS_Bijection
<1> QED
  BY <1>6, <1>7 DEF c

(* To count all chains is to have stored all, and to have none under way.  *)
LEMMA AllCounted ==
  ASSUME Types, ChainsInv, MessagesReached
  PROVE  /\ arriving = {} /\ storing = {}
         /\ \A n \in Nodes : /\ progress[n][currentRun] = ChatsPerRun
                             /\ Len(nodeBlockchains[n]) = ChatsPerRun
<1> DEFINE D == StoredKeys \ Keys(storing)
<1>1. D \in SUBSET AllKeys /\ IsFiniteSet(AllKeys)
  BY Expected DEF StoredKeys
<1>2. IsFiniteSet(D) /\ Cardinality(D) <= Cardinality(AllKeys)
  BY <1>1, FS_Subset
<1>3. Cardinality(D) \in Nat /\ Cardinality(AllKeys) \in Nat /\ messagesThisRun \in Nat
  BY <1>1, <1>2, FS_CardinalityType, Expected DEF Types, TypeOK
<1>4. Cardinality(D) >= messagesThisRun /\ messagesThisRun >= expectedBlockchains
  BY <1>3 DEF ChainsInv, MessagesReached, InHand
<1>5. Cardinality(AllKeys) = Cardinality(D)
  BY <1>2, <1>3, <1>4, Expected
<1>6. AllKeys = D
  BY <1>1, <1>5, FS_Subset
<1>7. storing = {}
  <2> SUFFICES ASSUME NEW s \in storing PROVE FALSE
    OBVIOUS
  <2>1. Key(s) \in AllKeys /\ Key(s) \in Keys(storing)
    BY ReportKey DEF Types, TypeOK, Keys
  <2> QED
    BY <1>6, <2>1
<1>8. arriving = {}
  <2> SUFFICES ASSUME NEW s \in arriving PROVE FALSE
    OBVIOUS
  <2>1. Key(s) \in AllKeys /\ Key(s) \in Keys(arriving)
    BY ReportKey DEF Types, TypeOK, Keys
  <2> QED
    BY <1>6, <2>1 DEF ChainsInv
<1>9. ASSUME NEW n \in Nodes
      PROVE  /\ progress[n][currentRun] = ChatsPerRun
             /\ Len(nodeBlockchains[n]) = ChatsPerRun
  BY <1>6, AllStored
<1> QED
  BY <1>7, <1>8, <1>9

LEMMA ResultsType ==
  ASSUME Types
  PROVE  /\ results \in Seq(Result) /\ Len(results) \in Nat
         /\ \A i \in 1..Len(results) :
              results[i] \in Result /\ results[i].run \in Nat
<1>1. results \in Seq(Result) /\ Len(results) \in Nat
  BY DEF Types
<1>2. \A i \in 1..Len(results) : results[i] \in Result
  BY <1>1
<1>3. \A x \in Result : x.run \in Nat
  BY CollectorAssumption DEF Result, Runs
<1> QED
  BY <1>1, <1>2, <1>3

LEMMA ReachedIs ==
  /\ MessagesReached <=> messagesThisRun >= expectedBlockchains
  /\ MessagesReached' <=> messagesThisRun' >= expectedBlockchains
BY DEF MessagesReached, expectedBlockchains

LEMMA CountTypes ==
  ASSUME Types
  PROVE  /\ messagesThisRun \in Nat /\ messagesThisRun <= expectedBlockchains + 1
         /\ currentRun \in Runs /\ currentRun \in Nat /\ currentRun <= TotalRuns
         /\ TotalRuns \in Nat /\ expectedBlockchains \in Nat
         /\ expectedBlockchains > 0 /\ expectedBlockchains' = expectedBlockchains
         /\ isTestRunning \in BOOLEAN
BY Expected, CollectorAssumption DEF Types, TypeOK, Runs

(* What only main and the handler that holds consensusMutex change.        *)
LEMMA ChainsStay ==
  ASSUME Types, ChainsInv,
         UNCHANGED <<currentRun, nodeBlockchains, arriving, storing, progress>>,
         messagesThisRun' \in Nat,
         messagesThisRun' + InHand' <= messagesThisRun + InHand
  PROVE  ChainsInv'
<1>1. StoredKeys' = StoredKeys /\ Keys(storing)' = Keys(storing)
      /\ Keys(arriving)' = Keys(arriving)
  BY DEF StoredKeys, Keys
<1>2. \A s : OfThisRun(s)' = OfThisRun(s)
  BY DEF OfThisRun
<1>3. Cardinality(StoredKeys \ Keys(storing)) \in Nat
  <2>1. StoredKeys \ Keys(storing) \subseteq AllKeys
    BY DEF StoredKeys
  <2> QED
    BY <2>1, Expected, FS_Subset, FS_CardinalityType
<1>4. messagesThisRun' + InHand' <= Cardinality(StoredKeys' \ Keys(storing)')
  <2>1. messagesThisRun \in Nat /\ InHand \in Nat /\ InHand' \in Nat
    BY CountTypes DEF InHand
  <2>2. messagesThisRun + InHand <= Cardinality(StoredKeys \ Keys(storing))
    BY DEF ChainsInv
  <2>3. Cardinality(StoredKeys' \ Keys(storing)') = Cardinality(StoredKeys \ Keys(storing))
    BY <1>1
  <2>4. \A a, b, c, d, e \in Nat : a + b <= c + d /\ c + d <= e => a + b <= e
    OBVIOUS
  <2>5. messagesThisRun' + InHand' <= Cardinality(StoredKeys \ Keys(storing))
    BY <1>3, <2>1, <2>2, <2>4
  <2> QED
    BY <2>3, <2>5
<1>5. /\ \A s \in arriving' \cup storing' : OfThisRun(s)'
      /\ Once(arriving') /\ Once(storing')
      /\ Keys(storing)' \subseteq StoredKeys' /\ Keys(arriving)' \cap StoredKeys' = {}
  BY <1>1, <1>2 DEF ChainsInv, Once
<1> QED
  BY <1>4, <1>5 DEF ChainsInv

(* Without a timeout a run that counts every chain has no chain under way, *)
(* so that one that is under way finds the run under way too.              *)
LEMMA UnderWay ==
  ASSUME Inv, ~timedOut, arriving \cup storing # {}
  PROVE  /\ ChainsInv /\ PhaseInv /\ ResultsInv /\ isTestRunning
         /\ ~MessagesReached /\ main \notin {"over", "pause", "begin"}
<1>1. Types /\ ChainsInv /\ PhaseInv /\ ResultsInv
  BY DEF Inv, Orderly
<1>2. ~MessagesReached
  BY <1>1, AllCounted
<1> QED
  BY <1>1, <1>2 DEF PhaseInv

LEMMA InitInv == Init => Inv
<1> SUFFICES ASSUME Init PROVE Inv
  OBVIOUS
<1> USE DEF Init
<1>1. /\ 0 \in 0..(expectedBlockchains + 1) /\ expectedBlockchains > 0
      /\ expectedBlockchains \in Nat
      /\ TotalRuns \in Nat \ {0} /\ ChatsPerRun \in Nat
  BY Expected, CollectorAssumption
<1>2. Types
  <2>1. /\ nodeBlockchains \in [Nodes -> Seq(Report)] /\ results \in Seq(Result)
        /\ chain \in [Nodes -> Chain] /\ Len(<< >>) = 0
    BY DEF Chain
  <2>2. \A n \in Nodes : \A i \in 1..Len(nodeBlockchains[n]) :
          nodeBlockchains[n][i] \in Report
    BY <2>1
  <2>3. /\ currentRun \in Runs
        /\ progress \in [Nodes -> [Runs -> 0..ChatsPerRun]]
        /\ clears \in Nat /\ cleared \in [Nodes -> 0..clears]
    BY <1>1 DEF Runs
  <2>4. /\ isTestRunning \in BOOLEAN /\ timedOut \in BOOLEAN
        /\ \A s \in arriving \cup storing : s \in Report
    OBVIOUS
  <2> QED
    BY <1>1, <2>1, <2>2, <2>3, <2>4 DEF Types, TypeOK
<1>3. RunsInv
  BY <1>1 DEF RunsInv
<1>4. ChainsInv
  <2>1. StoredKeys = {} /\ Keys(storing) = {} /\ Keys(arriving) = {}
    BY DEF StoredKeys, AllKeys, Keys
  <2>2. Cardinality({} \ {}) = 0 /\ InHand = 0
    BY FS_EmptySet DEF InHand
  <2> QED
    BY <1>1, <2>1, <2>2 DEF ChainsInv, Once, Runs
<1>5. PhaseInv
  BY <1>1, ReachedIs DEF PhaseInv
<1>6. ResultsInv
  BY DEF ResultsInv
<1> QED
  BY <1>2, <1>3, <1>4, <1>5, <1>6 DEF Inv, Orderly
--------------------------------------------------------------------------------
(* One lemma per step.                                                     *)

LEMMA CheckInv == ASSUME Inv, Check PROVE Inv'
<1> USE DEF Inv
<1>1. /\ main = "wait" /\ main' \in {"poll", "over"}
      /\ main' = "over" => ~isTestRunning
      /\ UNCHANGED <<currentRun, isTestRunning, messagesThisRun,
                     nodeBlockchains, results, consensusMutex, arriving,
                     storing, progress, chain, clears, cleared, timedOut>>
  BY DEF Check, network
<1>2. Types'
  BY <1>1 DEF Types, TypeOK
<1>3. RunsInv'
  BY <1>1, CountTypes DEF RunsInv
<1>4. ~timedOut' => Orderly'
  <2> SUFFICES ASSUME ~timedOut' PROVE Orderly'
    OBVIOUS
  <2>1. ChainsInv /\ PhaseInv /\ ResultsInv
    BY <1>1 DEF Orderly
  <2>2. ChainsInv'
    BY <1>1, <2>1, ChainsStay, CountTypes DEF InHand
  <2>3. PhaseInv'
    BY <1>1, <2>1, ReachedIs DEF PhaseInv
  <2>4. ResultsInv'
    BY <1>1, <2>1 DEF ResultsInv
  <2> QED
    BY <2>2, <2>3, <2>4 DEF Orderly
<1> QED
  BY <1>2, <1>3, <1>4

LEMMA PollInv ==
  ASSUME Inv, NEW timeoutReached \in BOOLEAN, Poll(timeoutReached) PROVE Inv'
<1> USE DEF Inv
<1>1. /\ main = "poll" /\ main' \in {"pause", "wait"} /\ consensusMutex = "free"
      /\ main' = "pause" => timeoutReached \/ MessagesReached
      /\ UNCHANGED <<currentRun, isTestRunning, messagesThisRun, nodeBlockchains,
                     results, consensusMutex, arriving, storing, progress, chain,
                     clears, cleared>>
  BY DEF Poll, isRunComplete, network
<1>2. /\ timedOut' \in BOOLEAN
      /\ ~timedOut' => ~timedOut /\ ~timeoutReached
  BY DEF Poll
<1>3. Types'
  BY <1>1, <1>2 DEF Types, TypeOK
<1>4. RunsInv'
  BY <1>1, CountTypes DEF RunsInv
<1>5. ~timedOut' => Orderly'
  <2> SUFFICES ASSUME ~timedOut' PROVE Orderly'
    OBVIOUS
  <2>1. ChainsInv /\ PhaseInv /\ ResultsInv /\ ~timeoutReached
    BY <1>2 DEF Orderly
  <2>2. ChainsInv'
    BY <1>1, <2>1, ChainsStay, CountTypes DEF InHand
  <2>3. PhaseInv'
    BY <1>1, <2>1, ReachedIs DEF PhaseInv
  <2>4. ResultsInv'
    BY <1>1, <2>1 DEF ResultsInv
  <2> QED
    BY <2>2, <2>3, <2>4 DEF Orderly
<1> QED
  BY <1>3, <1>4, <1>5

LEMMA startNewRunInv == ASSUME Inv, startNewRun PROVE Inv'
<1> USE DEF Inv
<1>1. /\ main \in {"over", "pause"}
      /\ main = "over" => consensusMutex # "assess"
      /\ currentRun' = currentRun + 1
      /\ messagesThisRun' = 0
      /\ nodeBlockchains' = NoChains
      /\ main' = "begin"
      /\ UNCHANGED <<isTestRunning, results, consensusMutex, arriving, storing,
                     progress, chain, clears, cleared, timedOut>>
  BY DEF startNewRun, Paused, network
<1>2. /\ currentRun \in Nat /\ currentRun < TotalRuns /\ TotalRuns \in Nat
      /\ currentRun' \in Runs
  BY <1>1, CountTypes DEF RunsInv, Runs
<1>3. /\ NoChains \in [Nodes -> Seq(Report)]
      /\ \A n \in Nodes : Len(NoChains[n]) = 0
  BY DEF NoChains
<1>4. Types'
  <2>1. /\ 0 \in 0..(expectedBlockchains + 1)
        /\ \A n \in Nodes : \A i \in 1..Len(nodeBlockchains'[n]) :
             nodeBlockchains'[n][i] \in Report
    BY <1>1, <1>3, CountTypes
  <2>2. messagesThisRun' \in 0..(expectedBlockchains' + 1)
    BY <1>1, <2>1, CountTypes
  <2> QED
    BY <1>1, <1>2, <1>3, <2>1, <2>2 DEF Types, TypeOK
<1>5. RunsInv'
  BY <1>1, <1>2, CountTypes DEF RunsInv
<1>6. ~timedOut' => Orderly'
  <2> SUFFICES ASSUME ~timedOut' PROVE Orderly'
    OBVIOUS
  <2>1. /\ ChainsInv /\ PhaseInv /\ ResultsInv
        /\ MessagesReached /\ ~isTestRunning /\ consensusMutex # "assess"
        /\ consensusMutex # "count"
    BY <1>1 DEF Orderly, PhaseInv, RunsInv
  <2>2. /\ arriving = {} /\ storing = {}
        /\ \A n \in Nodes : progress[n][currentRun] = ChatsPerRun
    BY <2>1, AllCounted
  <2>3. \A n \in Nodes, r \in Runs : r < currentRun' => progress'[n][r] = ChatsPerRun
    BY <1>1, <1>2, <2>1, <2>2 DEF ChainsInv, Runs
  <2>4. /\ Keys(storing)' = {} /\ Keys(arriving)' = {} /\ StoredKeys' = {}
        /\ Cardinality({} \ {}) = 0 /\ InHand' = 0
    BY <1>1, <1>3, <2>1, <2>2, FS_EmptySet DEF Keys, StoredKeys, AllKeys, InHand
  <2>5. ChainsInv'
    <3>1. messagesThisRun' + InHand' <= Cardinality(StoredKeys' \ Keys(storing)')
      BY <1>1, <2>4
    <3>2. arriving' = {} /\ storing' = {}
      BY <1>1, <2>2
    <3>3. \A n \in Nodes : 1..Len(nodeBlockchains'[n]) = {}
      BY <1>1, <1>3
    <3> QED
      BY <2>3, <2>4, <3>1, <3>2, <3>3 DEF ChainsInv, Once
  <2>6. PhaseInv'
    <3>1. ~MessagesReached'
      BY <1>1, CountTypes, ReachedIs
    <3>2. ~isTestRunning' /\ consensusMutex' \notin {"assess", "end"}
      BY <1>1, <2>1 DEF RunsInv
    <3> QED
      BY <1>1, <2>2, <3>1, <3>2 DEF PhaseInv
  <2>7. ResultsInv'
    <3>1. Len(results') = currentRun' - 1
      BY <1>1, <1>2, <2>1 DEF ResultsInv
    <3> QED
      BY <1>1, <2>1, <3>1 DEF ResultsInv
  <2> QED
    BY <2>5, <2>6, <2>7 DEF Orderly
<1> QED
  BY <1>4, <1>5, <1>6

LEMMA BeginRunInv == ASSUME Inv, BeginRun PROVE Inv'
<1> USE DEF Inv
<1>1. /\ main = "begin" /\ main' = "answer" /\ isTestRunning' = TRUE
      /\ UNCHANGED <<currentRun, messagesThisRun, nodeBlockchains, results,
                     consensusMutex, arriving, storing, progress, chain, clears,
                     cleared, timedOut>>
  BY DEF BeginRun, network
<1>2. Types'
  BY <1>1 DEF Types, TypeOK
<1>3. RunsInv'
  BY <1>1, CountTypes DEF RunsInv
<1>4. ~timedOut' => Orderly'
  <2> SUFFICES ASSUME ~timedOut' PROVE Orderly'
    OBVIOUS
  <2>1. /\ ChainsInv /\ PhaseInv /\ ResultsInv
        /\ messagesThisRun = 0 /\ consensusMutex # "assess" /\ ~isTestRunning
    BY <1>1 DEF Orderly, PhaseInv
  <2>2. ChainsInv'
    BY <1>1, <2>1, ChainsStay, CountTypes DEF InHand
  <2>3. PhaseInv'
    BY <1>1, <2>1, CountTypes, ReachedIs DEF PhaseInv, RunsInv
  <2>4. ResultsInv'
    BY <1>1, <2>1 DEF ResultsInv
  <2> QED
    BY <2>2, <2>3, <2>4 DEF Orderly
<1> QED
  BY <1>2, <1>3, <1>4

LEMMA StartAnsweredInv == ASSUME Inv, StartAnswered PROVE Inv'
<1> USE DEF Inv
<1>1. /\ main = "answer" /\ main' \in {"wait", "exit"}
      /\ main' = "wait" => currentRun < TotalRuns
      /\ UNCHANGED <<currentRun, isTestRunning, messagesThisRun,
                     nodeBlockchains, results, consensusMutex, arriving,
                     storing, progress, chain, clears, cleared, timedOut>>
  BY DEF StartAnswered, AfterStart, network
<1>2. Types'
  BY <1>1 DEF Types, TypeOK
<1>3. RunsInv'
  BY <1>1, CountTypes DEF RunsInv
<1>4. ~timedOut' => Orderly'
  <2> SUFFICES ASSUME ~timedOut' PROVE Orderly'
    OBVIOUS
  <2>1. ChainsInv /\ PhaseInv /\ ResultsInv
    BY <1>1 DEF Orderly
  <2>2. ChainsInv'
    BY <1>1, <2>1, ChainsStay, CountTypes DEF InHand
  <2>3. PhaseInv'
    BY <1>1, <2>1, ReachedIs DEF PhaseInv
  <2>4. ResultsInv'
    BY <1>1, <2>1 DEF ResultsInv
  <2> QED
    BY <2>2, <2>3, <2>4 DEF Orderly
<1> QED
  BY <1>2, <1>3, <1>4

LEMMA LoseInv == ASSUME Inv, NEW s \in arriving, Lose(s) PROVE Inv'
<1> USE DEF Inv
<1>1. /\ arriving' = arriving \ {s}
      /\ UNCHANGED <<currentRun, isTestRunning, messagesThisRun, nodeBlockchains,
                     results, main, consensusMutex, storing, progress, chain,
                     clears, cleared, timedOut>>
  BY DEF Lose, collector, network
<1>2. Types'
  BY <1>1 DEF Types, TypeOK
<1>3. RunsInv'
  BY <1>1, CountTypes DEF RunsInv
<1>4. ~timedOut' => Orderly'
  <2> SUFFICES ASSUME ~timedOut' PROVE Orderly'
    OBVIOUS
  <2>1. /\ ChainsInv /\ PhaseInv /\ ResultsInv /\ ~MessagesReached
        /\ isTestRunning /\ main \notin {"over", "pause", "begin"}
    BY <1>1, UnderWay
  <2>2. /\ StoredKeys' = StoredKeys /\ Keys(storing)' = Keys(storing)
        /\ Keys(arriving)' \subseteq Keys(arriving)
        /\ InHand' = InHand
    BY <1>1 DEF StoredKeys, Keys, InHand
  <2>3. MessagesReached' = MessagesReached /\ \A x : OfThisRun(x)' = OfThisRun(x)
    BY <1>1 DEF MessagesReached, OfThisRun, expectedBlockchains
  <2>4. ChainsInv'
    BY <1>1, <2>1, <2>2, <2>3 DEF ChainsInv, Once
  <2>5. PhaseInv'
    BY <1>1, <2>1, <2>3 DEF PhaseInv
  <2>6. ResultsInv'
    BY <1>1, <2>1 DEF ResultsInv
  <2> QED
    BY <2>4, <2>5, <2>6 DEF Orderly
<1> QED
  BY <1>2, <1>3, <1>4

LEMMA storeInv ==
  ASSUME Inv, NEW s \in arriving, storeBlockchainForConsensus(s) PROVE Inv'
<1> USE DEF Inv
<1>1. /\ nodeBlockchains' = Stored(s)
      /\ arriving' = arriving \ {s}
      /\ storing' = storing \cup {s}
      /\ UNCHANGED <<currentRun, isTestRunning, messagesThisRun, results, main,
                     consensusMutex, progress, chain, clears, cleared, timedOut>>
  BY DEF storeBlockchainForConsensus, network
<1>2. s \in Report /\ s.node \in Nodes /\ Key(s) \in AllKeys /\ Key(s)[1] = s.node
      /\ Key(s)[2] = s.chat[2]
  BY ReportKey DEF Types, TypeOK
<1>3. nodeBlockchains' \in [Nodes -> Seq(Report)]
  BY <1>1, <1>2 DEF Stored, Types
<1>4. Types'
  <2>1. \A n \in Nodes : \A i \in 1..Len(nodeBlockchains'[n]) :
          nodeBlockchains'[n][i] \in Report
    BY <1>3
  <2> QED
    BY <1>1, <1>2, <1>3, <2>1 DEF Types, TypeOK
<1>5. RunsInv'
  BY <1>1, CountTypes DEF RunsInv
<1>6. ~timedOut' => Orderly'
  <2> SUFFICES ASSUME ~timedOut' PROVE Orderly'
    OBVIOUS
  <2>1. ChainsInv /\ PhaseInv /\ ResultsInv
    BY <1>1, UnderWay
  <2>2. /\ isTestRunning /\ ~MessagesReached
        /\ main \notin {"over", "pause", "begin"}
    BY <1>1, UnderWay
  <2> DEFINE c == nodeBlockchains[s.node]
  <2>3. /\ c \in Seq(Report) /\ Len(c) \in Nat
        /\ nodeBlockchains' = [nodeBlockchains EXCEPT ![s.node] = Append(c, s)]
    BY <1>1, <1>2, <2>2 DEF Types, Stored
  <2>4. \A n \in Nodes : nodeBlockchains'[n] = IF n = s.node THEN Append(c, s)
                                               ELSE nodeBlockchains[n]
    BY <2>3 DEF Types
  <2>5. /\ Len(Append(c, s)) = Len(c) + 1 /\ Append(c, s)[Len(c) + 1] = s
        /\ \A i \in 1..Len(c) : Append(c, s)[i] = c[i]
    BY <1>2, <2>3
  <2>6. Key(s) \notin StoredKeys
    BY <2>1 DEF ChainsInv, Keys
  <2>7. /\ Keys(storing)' = Keys(storing) \cup {Key(s)}
        /\ Keys(arriving)' = Keys(arriving) \ {Key(s)}
    BY <1>1, <2>1 DEF Keys, ChainsInv, Once
  <2>8. StoredKeys' = StoredKeys \cup {Key(s)}
    <3> SUFFICES ASSUME NEW k \in AllKeys
                 PROVE  k \in StoredKeys' <=> k \in StoredKeys \/ k = Key(s)
      BY <1>2 DEF StoredKeys
    <3>1. k = <<k[1], k[2]>> /\ k[1] \in Nodes
      BY DEF AllKeys
    <3>2. k = Key(s) <=> k[1] = s.node /\ k[2] = s.chat[2]
      BY <3>1 DEF Key
    <3>3. CASE k[1] = s.node
      <4>1. nodeBlockchains'[k[1]] = Append(c, s) /\ nodeBlockchains[k[1]] = c
        BY <2>4, <3>1, <3>3
      <4>2. (\E i \in 1..Len(Append(c, s)) : Append(c, s)[i].chat[2] = k[2])
              <=> \/ \E i \in 1..Len(c) : c[i].chat[2] = k[2]
                  \/ s.chat[2] = k[2]
        <5>1. \A l \in Nat : \A i : /\ i \in 1..(l + 1) <=> i \in 1..l \/ i = l + 1
          OBVIOUS
        <5>2. \A i : i \in 1..Len(Append(c, s)) <=> i \in 1..Len(c) \/ i = Len(c) + 1
          BY <2>3, <2>5, <5>1
        <5> HIDE DEF c
        <5> QED
          BY <2>5, <5>2, Zenon
      <4> HIDE DEF c
      <4> QED
        BY <3>2, <3>3, <4>1, <4>2 DEF StoredKeys
    <3>4. CASE k[1] # s.node
      <4>1. nodeBlockchains'[k[1]] = nodeBlockchains[k[1]]
        BY <2>4, <3>1, <3>4
      <4> QED
        BY <3>2, <3>4, <4>1 DEF StoredKeys
    <3> QED
      BY <3>3, <3>4
  <2>9. /\ StoredKeys' \ Keys(storing)' = StoredKeys \ Keys(storing)
        /\ Keys(storing)' \subseteq StoredKeys'
        /\ Keys(arriving)' \cap StoredKeys' = {}
    BY <2>1, <2>6, <2>7, <2>8 DEF ChainsInv
  <2>10. \A x : OfThisRun(x)' = OfThisRun(x)
    BY <1>1 DEF OfThisRun
  <2>11. OfThisRun(s)
    BY <2>1 DEF ChainsInv
  <2>12. Once(arriving') /\ Once(storing')
    <3>1. ASSUME NEW x \in storing PROVE Key(x) # Key(s)
      BY <2>1, <2>6, <3>1 DEF ChainsInv, Keys
    <3> QED
      BY <1>1, <2>1, <3>1 DEF ChainsInv, Once
  <2>13. ASSUME NEW n \in Nodes, NEW i \in 1..Len(nodeBlockchains'[n])
         PROVE  /\ nodeBlockchains'[n][i].chat[1] = currentRun
                /\ nodeBlockchains'[n][i].chat[2] <= progress[n][currentRun]
    <3>1. CASE n = s.node /\ i = Len(c) + 1
      BY <2>4, <2>5, <2>11, <3>1 DEF OfThisRun
    <3>2. CASE n = s.node /\ i \in 1..Len(c)
      <4>1. nodeBlockchains'[n][i] = nodeBlockchains[n][i]
        BY <2>4, <2>5, <3>2
      <4> QED
        BY <2>1, <3>2, <4>1 DEF ChainsInv
    <3>3. CASE n # s.node
      BY <2>1, <2>4, <3>3 DEF ChainsInv
    <3>4. n = s.node => i \in 1..Len(c) \/ i = Len(c) + 1
      <4>1. n = s.node => i \in 1..Len(Append(c, s))
        BY <2>4
      <4> HIDE DEF c
      <4> QED
        BY <2>3, <2>5, <4>1
    <3> QED
      BY <3>1, <3>2, <3>3, <3>4
  <2>14. ASSUME NEW n \in Nodes, NEW i \in 1..Len(nodeBlockchains'[n]),
                NEW j \in 1..Len(nodeBlockchains'[n]),
                nodeBlockchains'[n][i].chat[2] = nodeBlockchains'[n][j].chat[2]
         PROVE  i = j
    <3>1. \A x \in 1..Len(c) : c[x].chat[2] # s.chat[2]
      <4> SUFFICES ASSUME NEW x \in 1..Len(c), c[x].chat[2] = s.chat[2] PROVE FALSE
        OBVIOUS
      <4> QED
        BY <1>2, <2>6 DEF StoredKeys
    <3>2. \A x, y \in 1..Len(c) : c[x].chat[2] = c[y].chat[2] => x = y
      BY <1>2, <2>1 DEF ChainsInv
    <3>3. CASE n = s.node
      <4>1. /\ i \in 1..(Len(c) + 1) /\ j \in 1..(Len(c) + 1)
            /\ Append(c, s)[i].chat[2] = Append(c, s)[j].chat[2]
        <5>1. nodeBlockchains'[n] = Append(c, s)
          BY <2>4, <3>3
        <5>2. /\ i \in 1..Len(Append(c, s)) /\ j \in 1..Len(Append(c, s))
              /\ Append(c, s)[i].chat[2] = Append(c, s)[j].chat[2]
          BY <2>14, <5>1
        <5> QED
          BY <2>5, <5>2
      <4>2. /\ i \in 1..Len(c) \/ i = Len(c) + 1
            /\ j \in 1..Len(c) \/ j = Len(c) + 1
        <5>1. Len(c) \in Nat
          BY <2>3
        <5> HIDE DEF c
        <5> QED
          BY <4>1, <5>1
      <4> HIDE DEF c
      <4> QED
        BY <2>5, <3>1, <3>2, <4>1, <4>2, Zenon
    <3>4. CASE n # s.node
      BY <2>1, <2>4, <2>14, <3>4 DEF ChainsInv
    <3> QED
      BY <3>3, <3>4
  <2>15. MessagesReached' = MessagesReached
    BY <1>1 DEF MessagesReached, expectedBlockchains
  <2>16. \A x \in arriving' \cup storing' : OfThisRun(x)'
    BY <1>1, <2>1, <2>10, <2>11 DEF ChainsInv
  <2>17. ChainsInv'
    <3>1. messagesThisRun' + InHand' <= Cardinality(StoredKeys' \ Keys(storing)')
      BY <1>1, <2>1, <2>9 DEF ChainsInv, InHand
    <3> QED
      BY <1>1, <2>1, <2>9, <2>12, <2>13, <2>14, <2>16, <3>1 DEF ChainsInv
  <2>18. PhaseInv'
    BY <1>1, <2>1, <2>2, <2>15 DEF PhaseInv
  <2>19. ResultsInv'
    BY <1>1, <2>1 DEF ResultsInv
  <2> QED
    BY <2>17, <2>18, <2>19 DEF Orderly
<1> QED
  BY <1>4, <1>5, <1>6

LEMMA AssessType ==
  ASSUME Types
  PROVE  /\ assessConsensusIntegrity \in Result
         /\ assessConsensusIntegrity.run = currentRun
         /\ assessConsensusIntegrity.chains = nodeBlockchains
<1>1. \A S \in SUBSET Nodes : Cardinality(S) \in Nat
  BY CollectorAssumption, FS_Subset, FS_CardinalityType
<1>2. Assessed \in SUBSET Nodes /\ \A n : Alike(n) \in SUBSET Nodes
  BY DEF Assessed, Alike
<1>3. Cardinality(Assessed) \in Nat /\ \A n : Cardinality(Alike(n)) \in Nat
  BY <1>1, <1>2
<1>4. currentRun \in Runs /\ nodeBlockchains \in [Nodes -> Seq(Report)]
  BY DEF Types, TypeOK
<1> HIDE DEF Assessed, Alike
<1> DEFINE Mode == CHOOSE n \in Assessed :
                     \A x \in Assessed :
                       Cardinality(Alike(n)) >= Cardinality(Alike(x))
<1>5. assessConsensusIntegrity =
        [run    |-> currentRun,
         chains |-> nodeBlockchains,
         total  |-> Cardinality(Assessed),
         agree  |-> IF Assessed = {} THEN 0 ELSE Cardinality(Alike(Mode))]
  BY DEF assessConsensusIntegrity
<1>6. (IF Assessed = {} THEN 0 ELSE Cardinality(Alike(Mode))) \in Nat
  <2>1. Cardinality(Alike(Mode)) \in Nat
    BY <1>3
  <2> QED
    BY <2>1
<1> HIDE DEF Mode
<1> QED
  BY <1>3, <1>4, <1>5, <1>6 DEF Result

LEMMA processInv ==
  ASSUME Inv, NEW s \in storing, processMessageForConsensus(s) PROVE Inv'
<1> USE DEF Inv
<1>1. /\ main # "exit" /\ consensusMutex = "free"
      /\ storing' = storing \ {s}
      /\ consensusMutex' = IF isTestRunning THEN "count" ELSE "free"
      /\ UNCHANGED <<currentRun, isTestRunning, messagesThisRun, nodeBlockchains,
                     results, main, arriving, progress, chain, clears, cleared,
                     timedOut>>
  BY DEF processMessageForConsensus, network
<1>2. s \in Report /\ s.node \in Nodes /\ Key(s) \in AllKeys
  BY ReportKey DEF Types, TypeOK
<1>3. Types'
  BY <1>1 DEF Types, TypeOK
<1>4. RunsInv'
  BY <1>1, CountTypes DEF RunsInv
<1>5. ~timedOut' => Orderly'
  <2> SUFFICES ASSUME ~timedOut' PROVE Orderly'
    OBVIOUS
  <2>1. ChainsInv /\ PhaseInv /\ ResultsInv
    BY <1>1, UnderWay
  <2>2. /\ isTestRunning /\ ~MessagesReached /\ consensusMutex' = "count"
        /\ main \notin {"over", "pause", "begin"}
    BY <1>1, UnderWay
  <2> DEFINE D == StoredKeys \ Keys(storing)
  <2>3. Key(s) \in StoredKeys /\ Key(s) \in Keys(storing)
    BY <2>1 DEF ChainsInv, Keys
  <2>4. /\ StoredKeys' = StoredKeys /\ Keys(arriving)' = Keys(arriving)
        /\ Keys(storing)' = Keys(storing) \ {Key(s)}
    BY <1>1, <2>1 DEF StoredKeys, Keys, ChainsInv, Once
  <2>5. StoredKeys' \ Keys(storing)' = D \cup {Key(s)}
    BY <2>3, <2>4
  <2>6. IsFiniteSet(D) /\ Cardinality(D) \in Nat
    <3>1. D \subseteq AllKeys
      BY DEF StoredKeys
    <3> QED
      BY <3>1, Expected, FS_Subset, FS_CardinalityType
  <2>7. Cardinality(D \cup {Key(s)}) = Cardinality(D) + 1
    BY <2>3, <2>6, FS_AddElement
  <2>8. messagesThisRun' + InHand' <= Cardinality(StoredKeys' \ Keys(storing)')
    <3>1. messagesThisRun <= Cardinality(D) /\ messagesThisRun \in Nat
      BY <1>1, <2>1, CountTypes DEF ChainsInv, InHand
    <3>2. Cardinality(StoredKeys' \ Keys(storing)') = Cardinality(D) + 1
      BY <2>5, <2>7
    <3>3. messagesThisRun' = messagesThisRun /\ InHand' = 1
      BY <1>1, <2>2 DEF InHand
    <3> HIDE DEF D, InHand
    <3> QED
      BY <2>6, <3>1, <3>2, <3>3
  <2>9. \A x : OfThisRun(x)' = OfThisRun(x)
    BY <1>1 DEF OfThisRun
  <2>10. /\ Once(arriving') /\ Once(storing')
         /\ \A x \in arriving' \cup storing' : OfThisRun(x)'
    BY <1>1, <2>1, <2>9 DEF ChainsInv, Once
  <2>11. /\ Keys(storing)' \subseteq StoredKeys'
         /\ Keys(arriving)' \cap StoredKeys' = {}
    BY <2>1, <2>4 DEF ChainsInv
  <2>12. ChainsInv'
    BY <1>1, <2>1, <2>8, <2>10, <2>11 DEF ChainsInv
  <2>13. PhaseInv'
    <3>1. MessagesReached' = MessagesReached
      BY <1>1 DEF MessagesReached, expectedBlockchains
    <3> QED
      BY <1>1, <2>2, <3>1 DEF PhaseInv
  <2>14. ResultsInv'
    BY <1>1, <2>1, <2>2 DEF ResultsInv
  <2> QED
    BY <2>12, <2>13, <2>14 DEF Orderly
<1> QED
  BY <1>3, <1>4, <1>5

LEMMA CountInv == ASSUME Inv, Count PROVE Inv'
<1> USE DEF Inv
<1>1. /\ main # "exit" /\ consensusMutex = "count" /\ consensusMutex' = "compare"
      /\ messagesThisRun' = messagesThisRun + 1
      /\ UNCHANGED <<currentRun, isTestRunning, nodeBlockchains, results,
                     main, arriving, storing, progress, chain, clears,
                     cleared, timedOut>>
  BY DEF Count, HandlerStep
<1>2. Types'
  <2>1. messagesThisRun \in Nat /\ messagesThisRun <= expectedBlockchains
    BY <1>1, CountTypes DEF RunsInv
  <2>2. messagesThisRun' \in 0..(expectedBlockchains' + 1)
    BY <1>1, <2>1, CountTypes
  <2> QED
    BY <1>1, <2>2 DEF Types, TypeOK
<1>3. RunsInv'
  BY <1>1, CountTypes DEF RunsInv
<1>4. ~timedOut' => Orderly'
  <2> SUFFICES ASSUME ~timedOut' PROVE Orderly'
    OBVIOUS
  <2>1. ChainsInv /\ PhaseInv /\ ResultsInv
    BY <1>1 DEF Orderly
  <2>2. isTestRunning /\ main \notin {"over", "pause", "begin"}
    BY <1>1, <2>1 DEF RunsInv, PhaseInv
  <2>3. ChainsInv'
    BY <1>1, <2>1, ChainsStay, CountTypes DEF InHand
  <2>4. PhaseInv'
    BY <1>1, <2>2 DEF PhaseInv
  <2>5. ResultsInv'
    BY <1>1, <2>1, <2>2 DEF ResultsInv
  <2> QED
    BY <2>3, <2>4, <2>5 DEF Orderly
<1> QED
  BY <1>2, <1>3, <1>4

LEMMA CompareInv == ASSUME Inv, Compare PROVE Inv'
<1> USE DEF Inv
<1>1. /\ main # "exit" /\ consensusMutex = "compare"
      /\ consensusMutex' = IF MessagesReached THEN "end" ELSE "free"
      /\ UNCHANGED <<currentRun, isTestRunning, messagesThisRun,
                     nodeBlockchains, results, main, arriving, storing,
                     progress, chain, clears, cleared, timedOut>>
  BY DEF Compare, HandlerStep
<1>2. Types'
  BY <1>1 DEF Types, TypeOK
<1>3. RunsInv'
  BY <1>1, CountTypes, ReachedIs DEF RunsInv
<1>4. ~timedOut' => Orderly'
  <2> SUFFICES ASSUME ~timedOut' PROVE Orderly'
    OBVIOUS
  <2>1. ChainsInv /\ PhaseInv /\ ResultsInv
    BY <1>1 DEF Orderly
  <2>2. isTestRunning /\ main \notin {"over", "pause", "begin"}
    BY <1>1, <2>1 DEF RunsInv, PhaseInv
  <2>3. ChainsInv'
    BY <1>1, <2>1, ChainsStay, CountTypes DEF InHand
  <2>4. PhaseInv'
    BY <1>1, <2>1, <2>2, ReachedIs, CountTypes DEF PhaseInv
  <2>5. ResultsInv'
    BY <1>1, <2>1, <2>2 DEF ResultsInv
  <2> QED
    BY <2>3, <2>4, <2>5 DEF Orderly
<1> QED
  BY <1>2, <1>3, <1>4

LEMMA EndRunInv == ASSUME Inv, EndRun PROVE Inv'
<1> USE DEF Inv
<1>1. /\ main # "exit" /\ consensusMutex = "end" /\ consensusMutex' = "assess"
      /\ isTestRunning' = FALSE
      /\ UNCHANGED <<currentRun, messagesThisRun, nodeBlockchains, results,
                     main, arriving, storing, progress, chain, clears,
                     cleared, timedOut>>
  BY DEF EndRun, HandlerStep
<1>2. Types'
  BY <1>1 DEF Types, TypeOK
<1>3. RunsInv'
  BY <1>1, CountTypes DEF RunsInv
<1>4. ~timedOut' => Orderly'
  <2> SUFFICES ASSUME ~timedOut' PROVE Orderly'
    OBVIOUS
  <2>1. ChainsInv /\ PhaseInv /\ ResultsInv
    BY <1>1 DEF Orderly
  <2>2. /\ isTestRunning /\ MessagesReached
        /\ main \notin {"over", "pause", "begin"}
    BY <1>1, <2>1 DEF RunsInv, PhaseInv
  <2>3. ChainsInv'
    BY <1>1, <2>1, ChainsStay, CountTypes DEF InHand
  <2>4. PhaseInv'
    <3>1. MessagesReached'
      BY <1>1, <2>2 DEF MessagesReached, expectedBlockchains
    <3> QED
      BY <1>1, <2>2, <3>1 DEF PhaseInv
  <2>5. ResultsInv'
    BY <1>1, <2>1, <2>2 DEF ResultsInv
  <2> QED
    BY <2>3, <2>4, <2>5 DEF Orderly
<1> QED
  BY <1>2, <1>3, <1>4

LEMMA AssessRunInv == ASSUME Inv, AssessRun PROVE Inv'
<1> USE DEF Inv
<1> DEFINE new == assessConsensusIntegrity
<1>1. /\ main \notin {"exit", "begin", "answer"}
      /\ consensusMutex = "assess" /\ consensusMutex' = "settle"
      /\ results' = Append(results, new)
      /\ UNCHANGED <<currentRun, isTestRunning, messagesThisRun,
                     nodeBlockchains, main, arriving, storing, progress,
                     chain, clears, cleared, timedOut>>
  BY DEF AssessRun, HandlerStep, nodeBlockchainsMutexFree
<1>2. new \in Result /\ new.run = currentRun /\ new.chains = nodeBlockchains
  BY AssessType
<1> HIDE DEF new
<1>3. results \in Seq(Result) /\ Len(results) \in Nat
  BY ResultsType
<1>4. /\ results' \in Seq(Result) /\ Len(results') = Len(results) + 1
      /\ results'[Len(results) + 1] = new
      /\ \A i \in 1..Len(results) : results'[i] = results[i]
      /\ \A i \in 1..Len(results') : i \in 1..Len(results) \/ i = Len(results) + 1
  <2>1. /\ Append(results, new) \in Seq(Result)
        /\ Len(Append(results, new)) = Len(results) + 1
        /\ Append(results, new)[Len(results) + 1] = new
        /\ \A i \in 1..Len(results) : Append(results, new)[i] = results[i]
    BY <1>2, <1>3
  <2>2. \A k \in Nat : \A i \in 1..(k + 1) : i \in 1..k \/ i = k + 1
    OBVIOUS
  <2> QED
    BY <1>1, <1>3, <2>1, <2>2
<1>5. Types'
  BY <1>1, <1>4 DEF Types, TypeOK
<1>6. RunsInv'
  BY <1>1, CountTypes DEF RunsInv
<1>7. ~timedOut' => Orderly'
  <2> SUFFICES ASSUME ~timedOut' PROVE Orderly'
    OBVIOUS
  <2>1. ChainsInv /\ PhaseInv /\ ResultsInv
    BY <1>1 DEF Orderly
  <2>2. ~isTestRunning /\ MessagesReached /\ Len(results) = currentRun - 1
    BY <1>1, <2>1 DEF PhaseInv, ResultsInv
  <2>3. ChainsInv'
    BY <1>1, <2>1, ChainsStay, CountTypes DEF InHand
  <2>4. PhaseInv'
    BY <1>1, <2>1, ReachedIs DEF PhaseInv
  <2>5. ResultsInv'
    <3>1. Len(results) + 1 = currentRun
      BY <2>2, CountTypes
    <3>2. \A n \in Nodes : Len(new.chains[n]) = ChatsPerRun
      BY <1>2, <2>1, <2>2, AllCounted
    <3>3. \A i \in 1..Len(results') :
            results'[i].run = i /\ \A n \in Nodes : Len(results'[i].chains[n]) = ChatsPerRun
      <4> SUFFICES ASSUME NEW i \in 1..Len(results')
                   PROVE  /\ results'[i].run = i
                          /\ \A n \in Nodes : Len(results'[i].chains[n]) = ChatsPerRun
        OBVIOUS
      <4>1. CASE i \in 1..Len(results)
        BY <1>4, <2>1, <4>1 DEF ResultsInv
      <4>2. CASE i = Len(results) + 1
        BY <1>2, <1>4, <3>1, <3>2, <4>2
      <4> QED
        BY <1>4, <4>1, <4>2
    <3> QED
      BY <1>1, <1>4, <2>2, <3>1, <3>3 DEF ResultsInv
  <2> QED
    BY <2>3, <2>4, <2>5 DEF Orderly
<1> QED
  BY <1>5, <1>6, <1>7

LEMMA clearInv == ASSUME Inv, clearBlockchainsOnAllVMs PROVE Inv'
<1> USE DEF Inv
<1>1. /\ main # "exit" /\ consensusMutex = "settle" /\ consensusMutex' = "clearing"
      /\ clears' = clears + 1
      /\ UNCHANGED <<currentRun, isTestRunning, messagesThisRun,
                     nodeBlockchains, results, main, arriving, storing,
                     progress, chain, cleared, timedOut>>
  BY DEF clearBlockchainsOnAllVMs, HandlerStep
<1>2. Types'
  <2>1. clears' \in Nat
    BY <1>1 DEF Types, TypeOK
  <2>2. \A x \in 0..clears : x \in 0..(clears + 1)
    BY DEF Types, TypeOK
  <2>3. cleared' \in [Nodes -> 0..clears']
    BY <1>1, <2>2 DEF Types, TypeOK
  <2> QED
    BY <1>1, <2>1, <2>3 DEF Types, TypeOK
<1>3. RunsInv'
  BY <1>1, CountTypes DEF RunsInv
<1>4. ~timedOut' => Orderly'
  <2> SUFFICES ASSUME ~timedOut' PROVE Orderly'
    OBVIOUS
  <2>1. ChainsInv /\ PhaseInv /\ ResultsInv
    BY <1>1 DEF Orderly
  <2>3. ChainsInv'
    BY <1>1, <2>1, ChainsStay, CountTypes DEF InHand
  <2>4. PhaseInv'
    BY <1>1, <2>1, ReachedIs DEF PhaseInv
  <2>5. ResultsInv'
    BY <1>1, <2>1 DEF ResultsInv
  <2> QED
    BY <2>3, <2>4, <2>5 DEF Orderly
<1> QED
  BY <1>2, <1>3, <1>4

LEMMA ClearAnsweredInv == ASSUME Inv, ClearAnswered PROVE Inv'
<1> USE DEF Inv
<1>1. /\ main # "exit" /\ consensusMutex = "clearing" /\ consensusMutex' = "cleanup"
      /\ UNCHANGED <<currentRun, isTestRunning, messagesThisRun,
                     nodeBlockchains, results, main, arriving, storing,
                     progress, chain, clears, cleared, timedOut>>
  BY DEF ClearAnswered, HandlerStep
<1>2. Types'
  BY <1>1 DEF Types, TypeOK
<1>3. RunsInv'
  BY <1>1, CountTypes DEF RunsInv
<1>4. ~timedOut' => Orderly'
  <2> SUFFICES ASSUME ~timedOut' PROVE Orderly'
    OBVIOUS
  <2>1. ChainsInv /\ PhaseInv /\ ResultsInv
    BY <1>1 DEF Orderly
  <2>3. ChainsInv'
    BY <1>1, <2>1, ChainsStay, CountTypes DEF InHand
  <2>4. PhaseInv'
    BY <1>1, <2>1, ReachedIs DEF PhaseInv
  <2>5. ResultsInv'
    BY <1>1, <2>1 DEF ResultsInv
  <2> QED
    BY <2>3, <2>4, <2>5 DEF Orderly
<1> QED
  BY <1>2, <1>3, <1>4

LEMMA UnlockInv == ASSUME Inv, Unlock PROVE Inv'
<1> USE DEF Inv
<1>1. /\ main # "exit" /\ consensusMutex = "cleanup" /\ consensusMutex' = "free"
      /\ UNCHANGED <<currentRun, isTestRunning, messagesThisRun,
                     nodeBlockchains, results, main, arriving, storing,
                     progress, chain, clears, cleared, timedOut>>
  BY DEF Unlock, HandlerStep
<1>2. Types'
  BY <1>1 DEF Types, TypeOK
<1>3. RunsInv'
  BY <1>1, CountTypes DEF RunsInv
<1>4. ~timedOut' => Orderly'
  <2> SUFFICES ASSUME ~timedOut' PROVE Orderly'
    OBVIOUS
  <2>1. ChainsInv /\ PhaseInv /\ ResultsInv
    BY <1>1 DEF Orderly
  <2>3. ChainsInv'
    BY <1>1, <2>1, ChainsStay, CountTypes DEF InHand
  <2>4. PhaseInv'
    BY <1>1, <2>1, ReachedIs DEF PhaseInv
  <2>5. ResultsInv'
    BY <1>1, <2>1 DEF ResultsInv
  <2> QED
    BY <2>3, <2>4, <2>5 DEF Orderly
<1> QED
  BY <1>2, <1>3, <1>4

LEMMA ClearInv == ASSUME Inv, NEW n \in Nodes, Clear(n) PROVE Inv'
<1> USE DEF Inv
<1>1. /\ cleared[n] < clears
      /\ cleared' = [cleared EXCEPT ![n] = cleared[n] + 1]
      /\ chain' = [chain EXCEPT ![n] = << >>]
      /\ UNCHANGED <<currentRun, isTestRunning, messagesThisRun, nodeBlockchains,
                     results, main, consensusMutex, arriving, storing, progress,
                     clears, timedOut>>
  BY DEF Clear, collector
<1>2. Types'
  <2>1. /\ cleared \in [Nodes -> 0..clears] /\ chain \in [Nodes -> Chain]
        /\ clears \in Nat
    BY CollectorAssumption DEF Types, TypeOK
  <2>2. cleared[n] + 1 \in 0..clears
    <3>1. cleared[n] \in 0..clears
      BY <2>1
    <3> QED
      BY <1>1, <2>1, <3>1
  <2>3. cleared' \in [Nodes -> 0..clears'] /\ chain' \in [Nodes -> Chain]
    BY <1>1, <2>1, <2>2 DEF Chain
  <2> QED
    BY <1>1, <2>3 DEF Types, TypeOK
<1>3. RunsInv'
  BY <1>1, CountTypes DEF RunsInv
<1>4. ~timedOut' => Orderly'
  <2> SUFFICES ASSUME ~timedOut' PROVE Orderly'
    OBVIOUS
  <2>1. ChainsInv /\ PhaseInv /\ ResultsInv
    BY <1>1 DEF Orderly
  <2>2. ChainsInv'
    BY <1>1, <2>1, ChainsStay, CountTypes DEF InHand
  <2>3. PhaseInv'
    BY <1>1, <2>1, ReachedIs DEF PhaseInv
  <2>4. ResultsInv'
    BY <1>1, <2>1 DEF ResultsInv
  <2> QED
    BY <2>2, <2>3, <2>4 DEF Orderly
<1> QED
  BY <1>2, <1>3, <1>4

LEMMA SaveChatInv ==
  ASSUME Inv, NEW n \in Nodes, NEW r \in Runs, SaveChat(n, r) PROVE Inv'
<1> USE DEF Inv
<1> DEFINE p == progress[n][r]
           chat == <<r, p + 1>>
           c == Append(chain[n], chat)
           new == SendBlockchainToStatCollector(n, chat, c)
<1>1. /\ progress \in [Nodes -> [Runs -> 0..ChatsPerRun]]
      /\ chain \in [Nodes -> Seq(Chats)]
      /\ p \in 0..ChatsPerRun /\ ChatsPerRun \in Nat
      /\ currentRun \in Runs /\ currentRun \in Nat /\ r \in Nat
  <2>1. /\ progress \in [Nodes -> [Runs -> 0..ChatsPerRun]]
        /\ chain \in [Nodes -> Seq(Chats)]
    BY DEF Types, TypeOK, Chain
  <2>2. p \in 0..ChatsPerRun /\ ChatsPerRun \in Nat
    BY <2>1, CollectorAssumption
  <2>3. currentRun \in Runs /\ currentRun \in Nat /\ r \in Nat
    BY CountTypes DEF Runs
  <2> QED
    BY <2>1, <2>2, <2>3
<1>2. /\ r <= currentRun /\ (r = currentRun => main # "begin") /\ p < ChatsPerRun
      /\ progress' = [progress EXCEPT ![n][r] = p + 1]
      /\ chain' = [chain EXCEPT ![n] = c]
      /\ arriving' = arriving \cup {SendBlockchainToStatCollector(n, chat, chain'[n])}
      /\ UNCHANGED <<currentRun, isTestRunning, messagesThisRun, nodeBlockchains,
                     results, main, consensusMutex, storing, clears, cleared,
                     timedOut>>
  BY <1>1 DEF SaveChat, Commanded, collector
<1>3. p + 1 \in 1..ChatsPerRun /\ chat \in Chats /\ chat[1] = r /\ chat[2] = p + 1
  <2>1. p + 1 \in 1..ChatsPerRun
    BY <1>1, <1>2
  <2> HIDE DEF p
  <2> QED
    BY <2>1 DEF Chats
<1>4. c \in Seq(Chats) /\ arriving' = arriving \cup {new}
  <2>1. chain[n] \in Seq(Chats)
    BY <1>1
  <2>2. c \in Seq(Chats)
    BY <1>3, <2>1
  <2>3. chain'[n] = c
    BY <1>1, <1>2
  <2> QED
    BY <1>2, <2>2, <2>3
<1>5. new \in Report /\ new.node = n /\ new.chat = chat
  <2> HIDE DEF c, chat
  <2>1. c \in Seq(Chats \cup {Spam}) /\ Append(c, Spam) \in Seq(Chats \cup {Spam})
    BY <1>4
  <2>2. new = [node |-> n, chat |-> chat,
               chain |-> IF n \in Attackers THEN Append(c, Spam) ELSE c]
    BY DEF SendBlockchainToStatCollector
  <2> HIDE DEF new
  <2> QED
    BY <1>3, <2>1, <2>2 DEF Report
<1> HIDE DEF new, c, chat
<1>6. \A m \in Nodes, q \in Runs :
        progress'[m][q] = IF m = n /\ q = r THEN p + 1 ELSE progress[m][q]
  BY <1>1, <1>2
<1>7. Types'
  <2>1. progress' \in [Nodes -> [Runs -> 0..ChatsPerRun]]
    <3>1. p + 1 \in 0..ChatsPerRun
      BY <1>3
    <3> HIDE DEF p
    <3> QED
      BY <1>1, <1>2, <3>1
  <2>2. chain' \in [Nodes -> Chain]
    BY <1>1, <1>2, <1>4 DEF Chain
  <2>3. \A s \in arriving' \cup storing' : s \in Report
    BY <1>2, <1>4, <1>5 DEF Types, TypeOK
  <2> QED
    BY <1>2, <2>1, <2>2, <2>3 DEF Types, TypeOK
<1>8. RunsInv'
  BY <1>2, CountTypes DEF RunsInv
<1>9. ~timedOut' => Orderly'
  <2> SUFFICES ASSUME ~timedOut' PROVE Orderly'
    OBVIOUS
  <2>1. ChainsInv /\ PhaseInv /\ ResultsInv
    BY <1>2 DEF Orderly
  <2>2. r = currentRun
    <3>1. ~(r < currentRun)
      BY <1>1, <1>2, <2>1 DEF ChainsInv
    <3> QED
      BY <1>1, <1>2, <3>1
  <2>3. Key(new) = <<n, p + 1>> /\ Key(new)[1] = n /\ Key(new)[2] = p + 1
    BY <1>3, <1>5 DEF Key
  <2>4. ASSUME NEW s \in arriving \cup storing PROVE Key(s) # Key(new)
    <3>1. s \in Report
      BY DEF Types, TypeOK
    <3>2. OfThisRun(s)
      BY <2>1 DEF ChainsInv
    <3>3. s.node = n => s.chat[2] <= p
      BY <2>2, <3>2 DEF OfThisRun
    <3>4. s.chat[2] \in Nat /\ Key(s)[1] = s.node /\ Key(s)[2] = s.chat[2]
      BY <1>1, <3>1, ReportKey
    <3> HIDE DEF p
    <3> QED
      BY <1>1, <2>3, <3>3, <3>4
  <2>5. Key(new) \notin StoredKeys
    <3> SUFFICES ASSUME NEW i \in 1..Len(nodeBlockchains[n]),
                        nodeBlockchains[n][i].chat[2] = p + 1
                 PROVE  FALSE
      BY <2>3 DEF StoredKeys
    <3>1. nodeBlockchains[n][i].chat[2] <= p
      BY <2>1, <2>2 DEF ChainsInv
    <3> HIDE DEF p
    <3> QED
      BY <1>1, <3>1
  <2>6. /\ StoredKeys' = StoredKeys /\ Keys(storing)' = Keys(storing)
        /\ Keys(arriving)' = Keys(arriving) \cup {Key(new)}
    BY <1>2, <1>4 DEF StoredKeys, Keys
  <2>7. \A m \in Nodes, q \in Runs : progress'[m][q] >= progress[m][q]
    <3> TAKE m \in Nodes, q \in Runs
    <3>1. progress[m][q] \in 0..ChatsPerRun
      BY <1>1
    <3>2. m = n /\ q = r => progress'[m][q] = progress[m][q] + 1
      BY <1>6
    <3>3. ~(m = n /\ q = r) => progress'[m][q] = progress[m][q]
      BY <1>6
    <3> QED
      BY <1>1, <3>1, <3>2, <3>3
  <2>8. \A m \in Nodes, q \in Runs :
          progress[m][q] \in Nat /\ progress'[m][q] \in Nat
    <3>1. \A m \in Nodes, q \in Runs : progress[m][q] \in 0..ChatsPerRun
      BY <1>1
    <3>2. \A m \in Nodes, q \in Runs : progress'[m][q] \in 0..ChatsPerRun
      BY <1>7 DEF Types, TypeOK
    <3> QED
      BY <1>1, <3>1, <3>2
  <2>9. \A s \in arriving' \cup storing' : OfThisRun(s)'
    <3> SUFFICES ASSUME NEW s \in arriving' \cup storing' PROVE OfThisRun(s)'
      OBVIOUS
    <3>1. CASE s = new
      BY <1>1, <1>2, <1>3, <1>5, <1>6, <2>2, <2>8, <3>1 DEF OfThisRun
    <3>2. CASE s \in arriving \cup storing
      <4>1. OfThisRun(s) /\ s.node \in Nodes /\ s.chat[2] \in Nat
        BY <1>1, <2>1, <3>2, ReportKey DEF ChainsInv, Types, TypeOK
      <4> QED
        BY <1>1, <1>2, <2>7, <2>8, <4>1 DEF OfThisRun
    <3> QED
      BY <1>2, <1>4, <3>1, <3>2
  <2>10. \A m \in Nodes, q \in Runs : q < currentRun' => progress'[m][q] = ChatsPerRun
    BY <1>1, <1>2, <1>6, <2>1, <2>2 DEF ChainsInv
  <2>11. Once(arriving') /\ Once(storing')
    BY <1>2, <1>4, <2>1, <2>4 DEF ChainsInv, Once
  <2>12. ASSUME NEW m \in Nodes, NEW i \in 1..Len(nodeBlockchains'[m])
         PROVE  /\ nodeBlockchains'[m][i].chat[1] = currentRun'
                /\ nodeBlockchains'[m][i].chat[2] <= progress'[m][currentRun']
    <3>1. /\ nodeBlockchains[m][i].chat[1] = currentRun
          /\ nodeBlockchains[m][i].chat[2] <= progress[m][currentRun]
          /\ nodeBlockchains'[m][i] = nodeBlockchains[m][i]
      BY <1>2, <2>1 DEF ChainsInv
    <3>2. nodeBlockchains[m][i].chat[2] \in Nat
      <4>1. nodeBlockchains[m][i] \in Report
        BY <1>2 DEF Types, TypeOK
      <4>2. nodeBlockchains[m][i].chat[2] \in 1..ChatsPerRun
        BY <4>1, ReportKey
      <4>3. 1..ChatsPerRun \subseteq Nat
        BY <1>1
      <4> QED
        BY <4>2, <4>3
    <3>3. /\ progress[m][currentRun] <= progress'[m][currentRun]
          /\ progress[m][currentRun] \in Nat /\ progress'[m][currentRun] \in Nat
      BY <1>1, <2>7, <2>8
    <3> QED
      BY <1>2, <3>1, <3>2, <3>3
  <2>13. /\ Keys(storing)' \subseteq StoredKeys'
         /\ Keys(arriving)' \cap StoredKeys' = {}
         /\ messagesThisRun' + InHand' <= Cardinality(StoredKeys' \ Keys(storing)')
    BY <1>2, <2>1, <2>5, <2>6 DEF ChainsInv, InHand
  <2>14. MessagesReached' = MessagesReached
    BY <1>2 DEF MessagesReached, expectedBlockchains
  <2>15. PhaseInv'
    BY <1>2, <2>1, <2>2, <2>14 DEF PhaseInv
  <2>16. \A m \in Nodes : \A i, j \in 1..Len(nodeBlockchains'[m]) :
           nodeBlockchains'[m][i].chat[2] = nodeBlockchains'[m][j].chat[2] => i = j
    BY <1>2, <2>1 DEF ChainsInv
  <2>17. ResultsInv'
    BY <1>2, <2>1 DEF ResultsInv
  <2>18. ChainsInv'
    BY <2>9, <2>10, <2>11, <2>12, <2>13, <2>16 DEF ChainsInv
  <2> QED
    BY <2>15, <2>17, <2>18 DEF Orderly
<1> QED
  BY <1>7, <1>8, <1>9

LEMMA StutterInv == ASSUME Inv, UNCHANGED vars PROVE Inv'
<1> USE DEF Inv
<1>1. UNCHANGED <<currentRun, isTestRunning, messagesThisRun, nodeBlockchains,
                  results, main, consensusMutex, arriving, storing, progress,
                  chain, clears, cleared, timedOut>>
  BY DEF vars, collector, network
<1>2. Types'
  BY <1>1 DEF Types, TypeOK
<1>3. RunsInv'
  BY <1>1, CountTypes DEF RunsInv
<1>4. ~timedOut' => Orderly'
  <2> SUFFICES ASSUME ~timedOut' PROVE Orderly'
    OBVIOUS
  <2>1. ChainsInv /\ PhaseInv /\ ResultsInv
    BY <1>1 DEF Orderly
  <2>2. ChainsInv'
    BY <1>1, <2>1, ChainsStay, CountTypes DEF InHand
  <2>3. PhaseInv'
    BY <1>1, <2>1, ReachedIs DEF PhaseInv
  <2>4. ResultsInv'
    BY <1>1, <2>1 DEF ResultsInv
  <2> QED
    BY <2>2, <2>3, <2>4 DEF Orderly
<1> QED
  BY <1>2, <1>3, <1>4

LEMMA NextInv == Inv /\ [Next]_vars => Inv'
<1> SUFFICES ASSUME Inv, [Next]_vars PROVE Inv'
  OBVIOUS
<1>1. CASE Check
  BY <1>1, CheckInv
<1>2. CASE startNewRun
  BY <1>2, startNewRunInv
<1>3. CASE BeginRun
  BY <1>3, BeginRunInv
<1>4. CASE StartAnswered
  BY <1>4, StartAnsweredInv
<1>5. CASE \E timeoutReached \in BOOLEAN : Poll(timeoutReached)
  BY <1>5, PollInv
<1>6. CASE \E s \in arriving : Lose(s)
  BY <1>6, LoseInv
<1>7. CASE \E s \in arriving : storeBlockchainForConsensus(s)
  BY <1>7, storeInv
<1>8. CASE \E s \in storing : processMessageForConsensus(s)
  BY <1>8, processInv
<1>9. CASE Count
  BY <1>9, CountInv
<1>10. CASE Compare
  BY <1>10, CompareInv
<1>11. CASE EndRun
  BY <1>11, EndRunInv
<1>12. CASE AssessRun
  BY <1>12, AssessRunInv
<1>13. CASE clearBlockchainsOnAllVMs
  BY <1>13, clearInv
<1>14. CASE ClearAnswered
  BY <1>14, ClearAnsweredInv
<1>15. CASE Unlock
  BY <1>15, UnlockInv
<1>16. CASE \E n \in Nodes : Clear(n)
  BY <1>16, ClearInv
<1>17. CASE \E n \in Nodes : \E r \in Runs : SaveChat(n, r)
  BY <1>17, SaveChatInv
<1>18. CASE UNCHANGED vars
  BY <1>18, StutterInv
<1> QED
  BY <1>1, <1>2, <1>3, <1>4, <1>5, <1>6, <1>7, <1>8, <1>9, <1>10, <1>11,
     <1>12, <1>13, <1>14, <1>15, <1>16, <1>17, <1>18 DEF Next
--------------------------------------------------------------------------------
(* Inv holds in every state that the collector and its nodes reach.        *)
THEOREM Invariance == Spec => []Inv
BY InitInv, NextInv, PTL DEF Spec

(* Every variable has its type; at most one chain more than expected is    *)
(* ever counted in a run, though a run may be ended while the next begins. *)
THEOREM TypeCorrect == Spec => []TypeOK
<1>1. Inv => TypeOK
  BY DEF Inv, Types
<1> QED
  BY <1>1, Invariance, PTL

(* As long as no run times out, the i-th result is that of run i: each run *)
(* has been assessed, once, when the next begins, although main takes only *)
(* one of the two mutexes of the handler that ends it.                     *)
THEOREM EachRunAssessed == Spec => []ResultsByRun
<1>1. Inv => ResultsByRun
  BY DEF Inv, Orderly, ResultsInv, ResultsByRun
<1> QED
  BY <1>1, Invariance, PTL

(* As long as no run times out, what is stored in a run was sent for a     *)
(* chat of that run, though storing does not look at the run.              *)
THEOREM OnlyOwnChains == Spec => []OnlyThisRunStored
<1>1. Inv => OnlyThisRunStored
  BY DEF Inv, Orderly, ChainsInv, OnlyThisRunStored, Kept
<1> QED
  BY <1>1, Invariance, PTL

(* As long as no run times out, every node's chains of a run have all been *)
(* stored when the run is assessed.                                        *)
THEOREM NothingMissing == Spec => []AssessedComplete
<1>1. Inv => AssessedComplete
  BY DEF Inv, Orderly, ResultsInv, AssessedComplete
<1> QED
  BY <1>1, Invariance, PTL
================================================================================
