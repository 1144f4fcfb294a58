-------------------------- MODULE ConsensusCollector --------------------------
(***************************************************************************)
(* The statistics collector of the consensus tests.  It starts a run by a  *)
(* command to VM1, which gossips ChatsPerRun chats; every node that saves  *)
(* one sends its whole chain to the collector.  When as many chains have   *)
(* come as expected, or after a minute, the next run follows.              *)
(*                                                                         *)
(* In the collector the main loop and one goroutine per chain received run *)
(* side by side, with a mutex for the count and the end of a run and       *)
(* another for the chains.  Of the network only what the collector can see *)
(* is here: a node saves the chats of a run in the order VM1 gossips them, *)
(* three seconds apart, and applies the clear commands at any time.        *)
(***************************************************************************)
EXTENDS Naturals, Sequences, FiniteSets

CONSTANTS Nodes,         \* the VMs, each a sender of chains
          Attackers,     \* of these, those with injectSpamMessages
          ChatsPerRun,   \* 3 in the code
          TotalRuns      \* 100 in the code

ASSUME CollectorAssumption == /\ IsFiniteSet(Nodes) /\ Nodes # {}
                              /\ Attackers \subseteq Nodes
                              /\ ChatsPerRun \in Nat \ {0}
                              /\ TotalRuns \in Nat \ {0}

Runs  == 1..TotalRuns
Chats == Runs \X (1..ChatsPerRun)      \* chat k of run r
Spam  == <<0, 0>>                      \* no chat: what attackers append

expectedBlockchains == Cardinality(Nodes) * ChatsPerRun

VARIABLES
  currentRun,
  isTestRunning,
  messagesThisRun,  \* chains counted in this run
  nodeBlockchains,  \* by node, the chains stored in this run, oldest first
  results,          \* what assessConsensusIntegrity has found, by run
  main,             \* where the main goroutine is
  consensusMutex,   \* "free", or what the handler that holds it does next
  arriving,         \* chains sent, not yet stored
  storing,          \* chains stored or ignored, not yet counted
  progress,         \* progress[n][r]: chats of run r that n has saved
  chain,            \* chain[n]: the chats on n's chain
  clears,           \* clear commands VM1 has gossiped
  cleared,          \* cleared[n]: how many of them n has applied
  timedOut          \* history: a run has lasted longer than a minute

collector == <<currentRun, isTestRunning, messagesThisRun, nodeBlockchains,
               results, main, consensusMutex>>
network   == <<progress, chain, clears, cleared>>
vars      == <<collector, arriving, storing, network, timedOut>>

Chain  == Seq(Chats)
Report == [node : Nodes, chat : Chats, chain : Seq(Chats \cup {Spam})]

TypeOK ==
  /\ currentRun \in Runs
  /\ isTestRunning \in BOOLEAN
  /\ messagesThisRun \in 0..(expectedBlockchains + 1)
  /\ \A n \in Nodes : \A i \in 1..Len(nodeBlockchains[n]) :
       nodeBlockchains[n][i] \in Report
  /\ main \in {"wait", "poll", "over", "pause", "begin", "answer", "exit"}
  /\ consensusMutex \in {"free", "count", "compare", "end", "assess", "settle",
                         "clearing", "cleanup"}
  /\ \A s \in arriving \cup storing : s \in Report
  /\ progress \in [Nodes -> [Runs -> 0..ChatsPerRun]]
  /\ chain \in [Nodes -> Chain]
  /\ clears \in Nat
  /\ cleared \in [Nodes -> 0..clears]
  /\ timedOut \in BOOLEAN

(* waitForTestCompletion leaves its loop once the last run is started.     *)
AfterStart(r) == IF r < TotalRuns THEN "wait" ELSE "exit"

(* main has sent the command for the first run.                            *)
Init == /\ currentRun = 1
        /\ isTestRunning = TRUE
        /\ messagesThisRun = 0
        /\ nodeBlockchains = [n \in Nodes |-> << >>]
        /\ results = << >>
        /\ main = "answer"
        /\ consensusMutex = "free"
        /\ arriving = {}
        /\ storing = {}
        /\ progress = [n \in Nodes |-> [r \in Runs |-> 0]]
        /\ chain = [n \in Nodes |-> << >>]
        /\ clears = 0
        /\ cleared = [n \in Nodes |-> 0]
        /\ timedOut = FALSE
--------------------------------------------------------------------------------
(* The main goroutine.  It reads isTestRunning without any lock, and asks  *)
(* isRunComplete, which waits for consensusMutex, only if that is true.    *)
Check == /\ main = "wait"
         /\ main' = IF isTestRunning THEN "poll" ELSE "over"
         /\ UNCHANGED <<currentRun, isTestRunning, messagesThisRun,
                        nodeBlockchains, results, consensusMutex, arriving,
                        storing, network, timedOut>>

(* Mutant: one chain less is enough.                                       *)
MessagesAlmostReached == messagesThisRun + 1 >= expectedBlockchains

MessagesReached == messagesThisRun >= expectedBlockchains

isRunComplete(timeoutReached) == timeoutReached \/ MessagesReached

Poll(timeoutReached) ==
  /\ main = "poll" /\ consensusMutex = "free"
  /\ main' = IF isRunComplete(timeoutReached) THEN "pause" ELSE "wait"
  /\ timedOut' = (timedOut \/ timeoutReached)
  /\ UNCHANGED <<currentRun, isTestRunning, messagesThisRun, nodeBlockchains,
                 results, consensusMutex, arriving, storing, network>>

(* Mutant: the next run follows without a pause.                           *)
NoPause == main \in {"over", "pause"}

(* Two seconds have passed.  A handler that had ended the run before them, *)
(* as main has seen, has assessed it by now; one that ends the run while   *)
(* they pass, after a timeout, may not have.                               *)
Paused == \/ main = "pause"
          \/ main = "over" /\ consensusMutex # "assess"

(* Mutant: the chains of the run before stay.                              *)
KeptChains == nodeBlockchains

NoChains == [n \in Nodes |-> << >>]

(* startNewRun takes nodeBlockchainsMutex and keeps it until VM1 answers,  *)
(* but never takes consensusMutex.  The chains, which nobody can see       *)
(* meanwhile, are reset here and not one line later.                       *)
startNewRun == /\ Paused
               /\ currentRun' = currentRun + 1
               /\ messagesThisRun' = 0
               /\ nodeBlockchains' = NoChains
               /\ main' = "begin"
               /\ UNCHANGED <<isTestRunning, results, consensusMutex, arriving,
                              storing, network, timedOut>>

(* The command is sent to VM1.                                             *)
BeginRun == /\ main = "begin"
            /\ isTestRunning' = TRUE
            /\ main' = "answer"
            /\ UNCHANGED <<currentRun, messagesThisRun, nodeBlockchains, results,
                           consensusMutex, arriving, storing, network, timedOut>>

(* VM1 answers, or the connection is gone; there is no deadline.           *)
StartAnswered == /\ main = "answer"
                 /\ main' = AfterStart(currentRun)
                 /\ UNCHANGED <<currentRun, isTestRunning, messagesThisRun,
                                nodeBlockchains, results, consensusMutex,
                                arriving, storing, network, timedOut>>

nodeBlockchainsMutexFree == main \notin {"begin", "answer"}
--------------------------------------------------------------------------------
(* A report the collector cannot read is gone: handleConnection takes what *)
(* one Read of at most 64 kB returns for all of it.                        *)
Lose(s) == /\ s \in arriving
           /\ arriving' = arriving \ {s}
           /\ UNCHANGED <<collector, storing, network, timedOut>>

(* The handler of one chain.  It is stored while a run is under way.       *)
Stored(s) == IF isTestRunning
             THEN [nodeBlockchains EXCEPT ![s.node] = Append(@, s)]
             ELSE nodeBlockchains

storeBlockchainForConsensus(s) ==
  /\ main # "exit" /\ nodeBlockchainsMutexFree /\ s \in arriving
  /\ nodeBlockchains' = Stored(s)
  /\ arriving' = arriving \ {s}
  /\ storing' = storing \cup {s}
  /\ UNCHANGED <<currentRun, isTestRunning, messagesThisRun, results, main,
                 consensusMutex, network, timedOut>>

(* Integrity: of each node the first chain stored is looked at, and the    *)
(* share of those whose last block is the most frequent one is taken.  The *)
(* hash of the last block stands for the chats up to it; that of the last  *)
(* block of spam is a constant.                                            *)
Assessed == {n \in Nodes : nodeBlockchains[n] # << >>}

FinalHash(n) == LET c == nodeBlockchains[n][1].chain
                IN  IF c[Len(c)] = Spam THEN <<Spam>> ELSE c

Alike(n) == {x \in Assessed : FinalHash(x) = FinalHash(n)}

assessConsensusIntegrity ==
  LET Mode == CHOOSE n \in Assessed :
                \A x \in Assessed :
                  Cardinality(Alike(n)) >= Cardinality(Alike(x))
  IN  [run    |-> currentRun,
       chains |-> nodeBlockchains,
       total  |-> Cardinality(Assessed),
       agree  |-> IF Assessed = {} THEN 0 ELSE Cardinality(Alike(Mode))]

(* The handler goes on under consensusMutex.  If a run is under way it     *)
(* counts the chain; what else it does under the mutex interleaves with    *)
(* main, which may start a run between any two of these steps.             *)
processMessageForConsensus(s) ==
  /\ main # "exit" /\ consensusMutex = "free" /\ s \in storing
  /\ storing' = storing \ {s}
  /\ consensusMutex' = IF isTestRunning THEN "count" ELSE "free"
  /\ UNCHANGED <<currentRun, isTestRunning, messagesThisRun, nodeBlockchains,
                 results, main, arriving, network, timedOut>>

(* The handler that holds consensusMutex moves on to next.                 *)
HandlerStep(at, next) ==
  /\ main # "exit" /\ consensusMutex = at
  /\ consensusMutex' = next
  /\ UNCHANGED <<currentRun, nodeBlockchains, main, arriving, storing, progress,
                 chain, cleared, timedOut>>

Count == /\ HandlerStep("count", "compare")
         /\ messagesThisRun' = messagesThisRun + 1
         /\ UNCHANGED <<isTestRunning, results, clears>>

Compare == /\ HandlerStep("compare", IF MessagesReached THEN "end" ELSE "free")
           /\ UNCHANGED <<isTestRunning, messagesThisRun, results, clears>>

(* Mutant: the run is assessed and goes on.                                *)
AssessAndGoOn == /\ HandlerStep("end", "assess")
                 /\ UNCHANGED <<isTestRunning, messagesThisRun, results, clears>>

EndRun == /\ HandlerStep("end", "assess")
          /\ isTestRunning' = FALSE
          /\ UNCHANGED <<messagesThisRun, results, clears>>

AssessRun == /\ HandlerStep("assess", "settle")
             /\ nodeBlockchainsMutexFree
             /\ results' = Append(results, assessConsensusIntegrity)
             /\ UNCHANGED <<isTestRunning, messagesThisRun, clears>>

(* Two seconds later the command goes to VM1, which gossips it before it   *)
(* answers.  Here too there is no deadline.                                *)
clearBlockchainsOnAllVMs ==
  /\ HandlerStep("settle", "clearing")
  /\ clears' = clears + 1
  /\ UNCHANGED <<isTestRunning, messagesThisRun, results>>

ClearAnswered == /\ HandlerStep("clearing", "cleanup")
                 /\ UNCHANGED <<isTestRunning, messagesThisRun, results, clears>>

(* Mutant: the handler returns without unlocking.                          *)
NeverUnlocked == FALSE

(* Four seconds later.                                                     *)
Unlock == /\ HandlerStep("cleanup", "free")
          /\ UNCHANGED <<isTestRunning, messagesThisRun, results, clears>>
--------------------------------------------------------------------------------
(* VM1 has been told to gossip the chats of run r.                         *)
Commanded(r) == r < currentRun \/ (r = currentRun /\ main # "begin")

(* What n sends once it has saved the chat: the blocks of its file, which  *)
(* is taken to be the one that the node writes (the code names a fixed     *)
(* directory, network.go:577), an attacker's with spam at the end.         *)
SendBlockchainToStatCollector(n, chat, blocks) ==
  [node  |-> n,
   chat  |-> chat,
   chain |-> IF n \in Attackers THEN Append(blocks, Spam) ELSE blocks]

(* Node n saves the next chat of run r and sends its chain.                *)
SaveChat(n, r) ==
  /\ Commanded(r) /\ progress[n][r] < ChatsPerRun
  /\ LET chat == <<r, progress[n][r] + 1>>
     IN  /\ progress' = [progress EXCEPT ![n][r] = @ + 1]
         /\ chain' = [chain EXCEPT ![n] = Append(@, chat)]
         /\ arriving' =
              arriving \cup
                {SendBlockchainToStatCollector(n, chat, chain'[n])}
  /\ UNCHANGED <<collector, storing, clears, cleared, timedOut>>

(* A clear command reaches n; chats are removed, peers are not.            *)
Clear(n) == /\ cleared[n] < clears
            /\ cleared' = [cleared EXCEPT ![n] = @ + 1]
            /\ chain' = [chain EXCEPT ![n] = << >>]
            /\ UNCHANGED <<collector, arriving, storing, progress, clears,
                           timedOut>>

Next == \/ Check \/ startNewRun \/ BeginRun \/ StartAnswered
        \/ \E timeoutReached \in BOOLEAN : Poll(timeoutReached)
        \/ \E s \in arriving : Lose(s) \/ storeBlockchainForConsensus(s)
        \/ \E s \in storing : processMessageForConsensus(s)
        \/ Count \/ Compare \/ EndRun \/ AssessRun
        \/ clearBlockchainsOnAllVMs \/ ClearAnswered \/ Unlock
        \/ \E n \in Nodes : Clear(n) \/ \E r \in Runs : SaveChat(n, r)

Spec == Init /\ [][Next]_vars

(* main and the handler that holds consensusMutex go on, and a minute      *)
(* passes: from then on every poll finds that it has.  Polling is strongly *)
(* fair because handlers take the mutex again and again, but a Go mutex is *)
(* handed to whoever has waited for it a millisecond.  Nothing is assumed  *)
(* of what depends on another program: that a node sends a chain, or that  *)
(* VM1 answers a command.                                                  *)
FairSpec ==
  /\ Spec
  /\ WF_vars(Check) /\ SF_vars(Poll(TRUE))
  /\ WF_vars(startNewRun) /\ WF_vars(BeginRun)
  /\ WF_vars(Count) /\ WF_vars(Compare) /\ WF_vars(EndRun) /\ WF_vars(AssessRun)
  /\ WF_vars(clearBlockchainsOnAllVMs) /\ WF_vars(Unlock)
--------------------------------------------------------------------------------
Kept(n, i) == nodeBlockchains[n][i]

(* "Validate that this message is from the current run"                    *)
(* (consensusStatCollector.go:807): only chains sent for a chat of the run *)
(* are stored in it.  All that is checked is that some run is under way,   *)
(* which is enough as long as no run times out.                            *)
OnlyThisRunStored ==
  ~timedOut => \A n \in Nodes : \A i \in 1..Len(nodeBlockchains[n]) :
                 Kept(n, i).chat[1] = currentRun

(* The table of results calls its i-th row run i                           *)
(* (consensusStatCollector.go:1132, :1190).  It is, as long as no run      *)
(* times out: each has been assessed, and under its own number, by the time*)
(* that main, which does not wait for the handler, starts the next.        *)
ResultsByRun == ~timedOut => \A i \in 1..Len(results) : results[i].run = i

(* "Assess consensus integrity for this run"                               *)
(* (consensusStatCollector.go:308): no run is assessed twice.  After a     *)
(* timeout main may start a run between the end and the assessment of the  *)
(* one before; the handler then assesses the new one, which has no chains  *)
(* yet, and when that ends it is assessed again.                           *)
OneResultPerRun ==
  \A i, j \in 1..Len(results) : i < j => results[i].run < results[j].run

(* When a run is assessed all chains of it have been stored: as long as no *)
(* run times out, the ten milliseconds between storing a chain and         *)
(* counting it cannot make it count for another run.                       *)
AssessedComplete ==
  ~timedOut => \A i \in 1..Len(results) : \A n \in Nodes :
                 Len(results[i].chains[n]) = ChatsPerRun

(* main or a handler waits for VM1's answer, with a mutex held.            *)
AwaitsVM1 == main = "answer" \/ consensusMutex = "clearing"

(* The test comes to an end, though handlers hold consensusMutex over      *)
(* several waits and main holds nodeBlockchainsMutex over one, and though  *)
(* the count may stop short; unless VM1 leaves a command unanswered.       *)
TestEnds == <>(main = "exit") \/ <>[]AwaitsVM1

(* The handler waits after the clear command "to prevent cross-run         *)
(* contamination" (consensusStatCollector.go:373).  But the mutex that it  *)
(* holds does not hold up main, which starts the next run meanwhile: a     *)
(* chain assessed in a run may hold chats of the run before, even if no    *)
(* run has timed out.                                                      *)
NoCrossRunContamination ==
  ~timedOut =>
    \A i \in 1..Len(results) : \A n \in Nodes :
      LET chains == results[i].chains[n]
      IN  \A j \in 1..Len(chains) : \A k \in 1..Len(chains[j].chain) :
            chains[j].chain[k] = Spam \/ chains[j].chain[k][1] = results[i].run
================================================================================
