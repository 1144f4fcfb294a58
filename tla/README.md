# Blockchain P2P Messenger: specification, model checking and proofs

TLA+ models of the messenger under `src/src/` (Go), the TLC runs that check
them on small instances, and theorems proved with TLAPS for every instance.
`PROJECT.json` maps every definition to the lines it models, lists the runs,
one mutant of the code for every property, the hazards of the code and the
theorems.  Line numbers below are those of the files under `src/src/`.

## 1. The system

A room is a group of nodes on the Yggdrasil network.  Each node keeps a chain
of blocks per room, in memory and in `data/<room>/blockchain.json`; the chain
holds the peer list, the administrators and the chats.  Chats spread by gossip
and become blocks once enough peers have acknowledged them (*ack mode*) or at
once (*direct mode*, `noAckBlockchainSave`).  Two test beds measure this: a
statistics collector commands VM1, and the nodes report back to it.

| Component | State | Operations | Where it is hard |
|---|---|---|---|
| `network_gossip`, one node | `messageHistory`, `msgsToProcess` with counters, `processedAcks`, `pendingAcks`, a waiter goroutine per chat | `HandleGossipMessage`, `processGossipMessage`, `GossipMessage`, waiter tick and timer | a goroutine per copy received, critical sections between which everything moves; acks before chats; each ack processed twice; the timer against the last ack |
| `network_gossip`, the net | what each node has seen, copies under way, `gossipPeers` as of each node's start | `GossipMessage`, `SendGossipMessage`, `forwardGossipMessage`, the clear command | loss, reordering, paths of different lengths, TTL, fanout, nodes that do not know each other, do not forward or do not acknowledge |
| `blockchain` | global map of slices, file | `LoadBlockchainFromFile`, `AddBlock`, `SaveBlockchainToFile`, `GetBlockchain`, `ClearBlockchain`, `clearBlockchainForRoom` | unguarded map, shared backing arrays, truncate-then-write, crashes, readers that reload, saves that fail |
| `peerDetails`, `auth`, `room` | blocks of the chain, a global list of administrators, `thresholdAcks` | `AddPeer`, `RemovePeer`, `GetPeersInRoom`, `AddAdmin`, `RemoveAdmin`, `CreateRoom`, start of the network | long sequences of legal calls; a stale cache; clears and restarts |
| consensus test collector, VM1 | current run, chains by node, results | start a run, store, count, assess, clear | the main loop and a handler per chain share state under four mutexes, and some without |
| gossip test collector, VM1 | current run, identifiers counted, results | start a run, count a receipt, record | the same, and a timer of three seconds |
| `network` (direct network) | who listens yet | `InitializeNetwork`, `SendMessage`, `SendMessageToLimitedNodes`, `handleConnection`, reports to the collector | nodes wait for each other at the start; reports name no node and are repeated per entry of a list |
| `consensus` (hbbft adapter) | the library's | not called from the messenger | never run |
| others | - | key derivation, demonstrations, drivers | nothing to explore |

They interact by calls (a handler calls `AddBlock` and the report to the
collector with `gossipMutex` held; `isInRoom` reads the chain), by messages
(gossip, reports, receipts, commands) and by shared state (the global map of
chains, the file).

What makes each correct: a node decides every chat once, by a genuine quorum
and in the order it promises; the net brings chats and acks everywhere when
nothing is lost and bounds how far they go; the chain stays linked and what was
added stays added; the peer list is everyone that was added; a collector
assesses each run once, with that run's data only, and the test ends.

## 2. Modules

| Module | Models | Notes |
|---|---|---|
| `QuorumLog` | what a node promises about chats | abstract: receive, acknowledge, save, drop |
| `AckConsensus` | `network_gossip`, one node in ack mode | one action per critical section of `gossipMutex`; the other nodes are the environment |
| `AckConsensusProofs` | - | theorems about `AckConsensus` |
| `GossipNet` | several nodes and the net between them | each node's decisions in the terms of `QuorumLog`; copies may stay under way for ever |
| `Chain` | the chain as a value | hashes, genesis, what a clear keeps |
| `BlockchainStore` | `blockchain` and the clear handler | one action per access to map, array or file; instances of adds, reads and clears; crash |
| `RoomRegistry` | `peerDetails`, `auth`, `room`, start of the network | one action per call |
| `ConsensusCollector` | `consensusStatCollector.go`, VM1, the report of `network.go` | main loop and handlers between their locks |
| `GossipCollector` | `gossip_test_StatCollector.go` | the same; without the nodes that report to it |
| `GossipTest` | VM1, the direct network's nodes, the receipts of `network_gossip` | composed with `GossipCollector`, in both modes of the test |
| `GossipTestProofs` | - | theorems about `GossipTest` and `GossipCollector` |
| `GossipNetProofs` | - | theorems about `GossipNet`, and that each of its nodes implements `QuorumLog` |
| `BlockchainStoreProofs`, `RoomRegistryProofs`, `ConsensusCollectorProofs` | - | theorems about these modules |
| `ChainProofs` | - | lemmas about `Chain`: appending, cutting, what stays linked |
| `Induction` | - | induction over the naturals, for sets |
| `MC*` | - | instances for TLC |

`AckConsensus` and `GossipNet` meet in `QuorumLog`: the first shows that one
node's goroutines implement it, the second builds the net from nodes that do,
and checks that they keep the promise when their acks come over the net.
`BlockchainStore` and `RoomRegistry` share `Chain`.  `GossipTest` extends
`GossipCollector` with the two networks that the collector may be used with.

### How state and actions correspond to the code

* **AckConsensus.**  `SeeChat`/`SeeAck` are the first critical section of
  `HandleGossipMessage`; `FirstPass`/`SecondPass` the two calls of
  `processGossipMessage` an ack gets; `AuthChat` looking up and authenticating
  the sender, which may end the handler with the ID marked; `SendAck`/`AckSent`
  the node's own ack, whose handler runs inside the chat's; `Enqueue` the
  section that moves `pendingAcks` into the counter and starts the waiter;
  `Tick`/`Timeout` the waiter.  A chat is queued at most once, as its ID is in
  `messageHistory` for good; `acksReceived` is the counter of the queue entry.
  `TrySave` covers `AddBlock` failing.
* **GossipNet.**  `HandleChat`, `ReceiveAck` and `HandleClear` are
  `HandleGossipMessage` for the three kinds of message: the ID is marked, the
  author looked up among `gossipPeers` and in the room (`Authenticates`), the
  message processed and forwarded.  `Gossip` and `GossipClear` are
  `GossipMessage`, which hands the message to the node's own handler first.  An
  ack counts (`Count`) before that lookup, if its author is in the room.  The
  section that acknowledges a chat and the one that queues it are separate
  actions (`TakeChat`, `Queue`), as in the code.  `Neighbours` is whom a node
  found at its start, so that the relation need not be symmetric.  A copy that
  is never received is lost.  Copies that would be dropped by `messageHistory`
  are not kept in `inbox`.  A clear is taken to empty the chain of chats
  (`cleared`): what it really keeps, and its steps, are in `BlockchainStore`.
* **BlockchainStore.**  `Load`, `Fetch`, `Install`, `Use`, `AppendBlock`,
  `Truncate`, `Encode`, `Write` are the steps of `AddBlock` that touch shared
  state, in order; a read takes the first four; a clear is `Start` (delete
  the entry), `Scan`, `Truncate`, `Write`.  `SaveFails` is a save that returns an
  error, before or after it has truncated the file; the block stays in memory.  `append` writes into the backing
  array if there is room and copies otherwise, so two slices may share cells.
  Two writes that overlap may leave a torn file.
* **RoomRegistry.**  One action is one call; `Loaded` is the reload that
  precedes it.  `RemovePeer` writes a block that `GetPeersInRoom` cannot read:
  the next reading panics.
* **ConsensusCollector.**  `Check` and `Poll` are the two operands of the loop
  condition of `waitForTestCompletion`; `startNewRun`, `BeginRun` and
  `StartAnswered` the start of a run, all three with `nodeBlockchainsMutex`.  The
  handler of a chain stores it under that mutex, then takes `consensusMutex` and
  keeps it while it counts (`processMessageForConsensus`, `Count`), compares
  (`Compare`), clears `isTestRunning` (`EndRun`), assesses (`AssessRun`, under
  both mutexes) and has the nodes cleared (`clearBlockchainsOnAllVMs`,
  `ClearAnswered`, `Unlock`): the variable `consensusMutex` says what the handler
  that holds it does next.  `startNewRun` does not take `consensusMutex`, so that
  main may start a run between any two of these steps.  `StartAnswered` and
  `ClearAnswered` wait for VM1, without a deadline.  `SaveChat` is what the nodes
  do at a start command, `Clear` what they do at a clear command.  `Lose` drops a
  report that could not be read.
* **GossipCollector.**  `Timeout`, `LeaveLoop`, `LookAgain`,
  `recordRunMetrics`, `startNewRun` are the main loop; the handler of a receipt
  counts it, then ends the run (`EndRun`) while it holds the mutex, and answers
  when it returns (`Answered`).  `Identifier` is what a receipt is counted under:
  the node's key, or for reports of the direct network, which carry none, the
  clock's nanoseconds modulo 1000.
* **GossipTest.**  `LookForPeers` is one turn of the loop of
  `InitializeNetwork`; which peers are online is up to the environment.
  `SendMessage` is what VM1 sends when it starts, `SendMessageToLimitedNodes`
  what it sends at a command.  A node in whose list the collector stands
  several times reports as often, one report after the answer to the other.  A
  dial or a read that fails is a step that is never taken.

### Abstractions

Chats, keys and peers are model values.  SHA256 is injective: a block's hash is
the block without its time.  Signatures are not modelled: in `AckConsensus` a
member's message may or may not authenticate, in `GossipNet` it does.  A block's data is its kind and what it carries, so
a chat that contains `PEER_ADDED` is not taken for a peer block.  The timer of a
waiter is a choice after its first tick.  Access to a Go map is atomic (the
runtime may end a process that races on one).  `gossipMutex` is no variable of
`AckConsensus` and `GossipNet`, whose steps are whole critical sections: that no
handler waits for a mutex it holds itself cannot be stated there.  The chain that is reported is the
node's own (`network.go:577` reads a fixed directory, that of one VM driver).

## 3. Runs

All finish on two workers in less than three minutes.

| Run | Distinct states | Shows |
|---|---|---|
| `ack_order` | 109,936 | exact counts, quorum, one block per chat, order, the timer, refinement of `QuorumLog`; every queued chat leaves the queue |
| `store` | 1,016,857 | chain and file linked, equal, complete, across failed saves, a crash at any step, a reader and a clear |
| `net_row` | 464,998 | genuine quorums, bounded hops, no repeated block, the promise of `QuorumLog` at each node |
| `net_reach` | 57,632 | what is gossiped reaches whoever it can, chats are decided, quorums known; the net comes to rest |
| `room` | 411,036 | peers, links, administrators and threshold over long sequences of calls |
| `consensus_test` | 1,766,383 | runs without timeout assessed under their numbers, completely, with their own chains; the test ends if VM1 answers |
| `gossip_test` | 76,198 | completed runs reached their nodes, nothing overstated, every run recorded |
| `store_direct` | violation | in direct mode a block is lost although its add succeeded |
| `net_hashes` | violation | equal chats get different hashes |
| `consensus_mixed` | violation | a run's chains hold chats of the run before |
| `consensus_timeout` | violation | after a timeout a run is assessed twice and another not at all |
| `control_short` | violation | a run in control mode is not completed although all nodes reported |

The violations are disagreements of the code with its own comments:

* **`store_direct`.**  `AddBlock` takes no lock.  In ack mode its callers hold
  `gossipMutex`; in direct mode (`network_gossip.go:686`) they do not.  Two adds
  that overlap read the same chain, and the second to store its own replaces or,
  in a shared backing array, overwrites the block of the first, which has
  returned success (`blockchain.go:159`: "AddBlock adds a new block").  The chain
  stays linked in this: only a third add, that reads a block written in place
  before it is overwritten and appends after, breaks the link.
* **`net_hashes`.**  Timestamps are whole seconds and equal ones do not block
  each other, so nodes may save two chats in different orders; a hash covers the
  block's position, so the same chat has different hashes (`blockchain.go:31`).
* **`consensus_mixed`.**  The handler that ends a run waits two seconds before
  and four after the clear command; the main loop waits two and starts the next
  run, so that chats reach chains that were not cleared.
* **`consensus_timeout`.**  The handler that has the last chain of run r clears
  `isTestRunning` (`consensusStatCollector.go:300`) and then assesses "this run"
  (`:308`) under `nodeBlockchainsMutex` (`:386`).  If the minute was over meanwhile,
  main may start run r+1 in between, as `startNewRun` takes only that mutex: the
  handler finds no chains, its result counts for r+1, and r+1 gets another when it
  ends.
* **`control_short`.**  Four receipts are expected
  (`gossip_test_StatCollector.go:137`) of a message that is sent to three nodes,
  as the sender leaves itself out (`network.go:803`).

### Bounds, and why they are enough

* `ack_order`: two chats are what "earlier" needs, three members with threshold
  2 leave one ack over, so that an ack may come after the decision.  `Ticks = 1`:
  here a waiter that refused looks no second time; the safety properties and the
  refinement are proved for any number of ticks, and to the liveness properties
  more of them only offer further ways out of the queue.  `Copies = {1}`: a peer's ack under a
  second ID adds nothing that the second pass of each ack does not do; the
  proofs cover any number.
* `store_direct`: two adds are enough to lose a block.
* `store`: two adds, a reader and a clear are one of each kind plus a second
  add to build on the first; one crash or several.  `Spare = 1` gives arrays
  with and without room.
* `net_row`: n1 - n2 - n3 - n4 in a row, where n3 and n4 know n1 but it does not
  send to them, and n4 has not added n1 to its room: authors that are known and
  unknown, in the room and not.  Distances are 1 to 3, so a TTL of 2 cuts chats
  and acks off; n3 chooses one neighbour of several.  The last node attacks and
  the second is silent, so a quorum needs a real second acknowledger.
* `net_reach`: n1 sends to n3 as well, so that the long way n1 - n2 - n3 - n4
  races the short one; with a TTL of 3 the chat that came the long way is used
  up at n4.  `EveryNodeReached` claims nothing where the TTL is less than the
  number of relays, as there a message may really stop for want of it.  One chat
  and one clear; n3 wants three acks, of which it never gets enough, so that a
  timer must decide; n4 is in direct mode.
* `room`: six blocks hold a genesis, two peers, an administrator, a removal
  and a chat, or several rounds of clear and restart.
* `consensus_test`: two nodes and one chat a run make two chains a run; three
  runs have a first, a middle and a last.  `consensus_mixed` and
  `consensus_timeout` use the same instance.
* `gossip_test`: three VMs, of which two are expected in attack mode and three,
  more than there are receivers, in control mode, as in the code with four; three
  runs in attack mode, two in control mode, so that receipts can be late by a run;
  v2's driver was started twice, so that it reports twice; two attempts to find
  peers show one that fails and the last.  `control_short` uses
  lists without repetition.
* Deadlock is switched off where the supply of messages, calls or runs is
  finite, and checked in `RoomRegistry`.

### Fairness

* `AckConsensus.FairSpec`: a goroutine that can run is scheduled, a Go mutex is
  handed to its waiters, timers fire.  Nothing makes a message arrive.
* `GossipNet.FairSpec` is weak fairness of `Handle`, all that nodes do without
  their users: goroutines run, timers fire, and, which the code does not
  guarantee, no copy is lost, as `SendGossipMessage` has no retry.  `Settles`
  and the properties about a net at rest are for that case only.  No step
  of `Handle` can be taken twice for the same message, so that fairness to all
  of them is fairness to each.  A user need not gossip anything.
* `ConsensusCollector.FairSpec`: the collector's goroutines run and the minute
  passes.  `Poll` is strongly fair because handlers take the mutex again and
  again, and a Go mutex is given to whoever has waited a millisecond.  No node
  has to send anything, and VM1 need not answer: main reads the answer to a start
  command (`consensusStatCollector.go:892`) and the handler that to a clear
  command (`:978`) without a deadline and with a mutex held, and VM1 answers the
  latter only after it has forwarded the command to its peers
  (`consensus_test_VM1.go:197`).  `TestEnds` therefore says that the test ends or
  that one of the two waits for ever.  One assumption about time is part of the
  model itself (`Paused`): a handler that had ended its run before main began its
  pause of two seconds has assessed it when the pause is over.  Of a handler that
  ends the run later, after a timeout, nothing is assumed.
* `GossipTest.FairSpec`: the collector's main loop and handlers go on.  No
  message, command or receipt has to arrive, and no node to look for its peers.

### Mutants

Each property of a passing run has a mutant in `PROJECT.json`: a definition that
replaces another in the way a bug would (an ack dropped, a guard left out, one
off), under which TLC finds the property violated.  Mutants stand before the
definition they replace and are marked in the modules.

## 4. Theorems

### One node (`AckConsensusProofs`)

These hold for every set of chats, every finite set of peers, all timestamps,
any threshold, number of ack IDs and ticks, from `NodeAssumption` alone
(`SendsAcks` either way).

| Theorem | States |
|---|---|
| `TypeCorrect` | `Spec => []TypeOK` |
| `Invariance` | `Spec => []Inv` |
| `AckCountIsExact` | `Spec => []AckCountExact` |
| `ChainIsQuorumBacked` | `Spec => []QuorumBacked` |
| `NoChatSavedTwice` | `Spec => []SavedOnce` |
| `OrderOfChain` | `Spec => []OvertakenOnlyByEarlierDecision` |
| `TimerSparesQuorum` | `Spec => TimeoutSparesQuorum` |
| `Implements` | `Spec => ImplementsQuorumLog` |

*The inductive invariant.*  `AckCountExact` is not inductive: `Enqueue` sets the
counter from the stored acks, and whether that is the number of peers in
`processedAcks` depends on what was stored before.  `NotQueuedYet` says it:
until a chat is queued, the peers marked for it are those of its stored acks.
That needs to know that a chat is queued only once: `HandlerInv` ties the
handler, `messageHistory` and the waiter together.  `Decided` says that what is
in the chain was queued and is queued no more, which gives `SavedOnce`;
`QuorumBacked` needs it too: `Enqueue` overwrites `processedAcks`, and must not
do so for a chat that is in the chain already.  The invariant is preserved step by
step, one lemma per action, with the effect of an ack (`ApplyAck`) and of
reaching the threshold (`TrySave`) stated once.

*The order of the chain* is a second invariant on top, `OrderInv`, that says in
addition how long the chain was when a chat still queued arrived.  *The timer*
rests on `QuorumHeldBack`: a queued chat that has its quorum and whose waiter has
seen a tick was held back, be it by that tick or by the ack that made the quorum.  *The refinement* maps `waiter`, `msgsToProcess`
and `saved` to a status; every step is a stutter or a step of `QuorumLog`.

### The net (`GossipNetProofs`)

These hold for every finite set of nodes, any relation of neighbours, rooms,
fanouts, thresholds and time to live, any messages and clears, any attackers,
silent nodes and nodes in direct mode, from `NetAssumption`.

| Theorem | States |
|---|---|
| `Invariance` | `Spec => []Inv` |
| `TypeCorrect` | `Spec => []TypeOK` |
| `NoChatTwice` | `Spec => []OneBlockPerChat` |
| `GenuineQuorums` | `Spec => []QuorumIsGenuine` |
| `BoundedHops` | `Spec => []HopsBounded` |
| `AllReached` | `Spec => []EveryNodeReached` |
| `AllDecided` | `Spec => []EverythingDecided` |
| `QuorumsKnown` | `Spec => []QuorumKnown` |
| `PromiseKept` | `Spec => NodesKeepPromise` |

*The inductive invariant* has two halves.  `NetInv` is about messages of any
kind: what is under way, what each node has seen and what it is yet to forward.
To handle a message is to mark it and then to forward it, so that the lemmas
`MarkNet` and `ForwardNet` serve every handler; for a chat other steps come in
between, the node's own acknowledgement first.  `HopsMade` bounds the distance
of a copy by the time to live it has used.  `HopsCounted` says that for each
hop a relay has marked the message, a different one each time: therefore a copy
never runs out of time to live where the TTL is no less than the number of
relays.  `Spread` then says of a sure relay that has seen a message that it is
yet to forward it, or that each neighbour has seen it or has a copy coming; in a
quiet net the set of nodes that have seen it is closed under sure relays, and by
induction over hops holds `Reached`.  `NodeInv` ties the acks sent, the acks
counted, the handlers under way, the status of each chat and the log.

*The refinement* is per node: for a node not in direct mode each action, be it
of this node or of another one, is a step of its `QuorumLog` or leaves it as it
is.  What the other nodes do to a node reaches it only by copies, which the
abstract log does not see.

### The chain in memory and on file (`BlockchainStoreProofs`)

These hold for any set of goroutines with any operations, any slack of the
backing arrays, any initial chain, with or without crashes and failing saves,
from `StoreAssumption`.  The last four are about ack mode and assume
`Serialized`; in direct mode `AddedIsInMemory` is false (`store_direct`), and with
three adds so is `ChainLinked`.

| Theorem | States |
|---|---|
| `Invariance` | `Spec => []Inv` |
| `TypeCorrect` | `Spec => []TypeOK` |
| `NeverPanics` | `Spec => []NoPanic` |
| `ChainStaysLinked` | `Serialized`: `Spec => []ChainLinked` |
| `AddedStaysInMemory` | `Serialized`: `Spec => []AddedIsInMemory` |
| `AddedStaysOnFile` | `Serialized`: `Spec => []AddedIsOnFile` |
| `FileFollowsMemory` | `Serialized`: `Spec => []FileMatchesMemory` |

*The inductive invariant* comes in layers, each with the condition it needs.
`Types` holds always: every slice that anybody has, old ones too, ends within
the cells of its array.  As long as nothing is cleared, `EntryInv`: the entry
is not a nil chain, and no goroutine past the loading is without it.  With
gossipMutex, also across clears, `LinkInv`: the entry ends where its backing
array ends, and so does the slice an add is about to append to, with the block
the add has read at its end.  This is what makes an append in place harmless: it
writes behind the end of every slice, never over a cell that a reader sees, and
all arrays stay linked.  With both, `LoadInv` and `AddInv`: only a room without
a file is loaded a second time, and by the one add under way; the slice that is
appended to is the entry; the file is a prefix of the chain in memory, what it
lacks was added by saves that failed or by the one under way (`Behind`).  A save
writes the entry as it is at that time, which closes the gap of earlier failures.
`Inv` was checked by TLC in the `store` instance before it was proved.

### Room, collector, chain

`RoomRegistryProofs`, for all keys, messages and bounds (`RegistryAssumption`):
`Invariance`, `TypeCorrect` (`TypeOK`), `PeerListIsHistory` (`PeersAreHistory`),
`ChainStaysLinked` (`ChainLinked`), `AdministratorsAlternate`
(`AdminBlocksAlternate`), `ThresholdCanBeReached` (`ThresholdReachable`), each
as `Spec => []...`.  `GoodChain` is inductive: genesis first, linked, and
administrator blocks alternate in every prefix, which is why a clear, which
keeps a prefix, cannot break it.  `History` relates the last peer block to the
calls of `AddPeer`; it needs that no removal is on the chain (`NoRemovals`),
and that the threshold was computed from a list no longer than the one now.

`ConsensusCollectorProofs`, for any finite set of nodes, chats per run and
number of runs (`CollectorAssumption`): `Invariance`, `TypeCorrect` (`TypeOK`),
`EachRunAssessed` (`ResultsByRun`), `OnlyOwnChains` (`OnlyThisRunStored`),
`NothingMissing` (`AssessedComplete`).  `RunsInv`, which bounds the count of a run
by where main and the handler are, holds through timeouts.  The rest, `Orderly`,
holds as long as there was none.  `ChainsInv`: chains on their way, stored and
counted are told apart by node and chat (`Key`), each is in one place, and the
count, with the chain in the handler's hand, is no more than the keys stored and
not waiting to be counted; a full count thus means that every key is stored
(`AllCounted`).  `PhaseInv` follows the handler that ends a run step by step
against main: main leaves a run only when it has ended with a full count, and is
past its pause only when the handler is past the assessment.  `ResultsInv`: there
is one result for each run that is over, which the step `AssessRun` adds under
the right number because `PhaseInv` keeps main from starting a run before it.
After a timeout this fails, as `consensus_timeout` shows.

`ChainProofs` is shared by the two modules with a chain.  What a recursive
function computes (`ChainOf`, `Within`) is proved with `Induction`, which states
induction for sets of numbers instead of predicates: the property is the set of
the numbers that have it.

### The gossip test (`GossipTestProofs`)

These hold for every finite set of nodes, any peer lists, numbers of runs and
expected receipts, and both modes, from `CollectorAssumption` and
`TestAssumption`.

| Theorem | States |
|---|---|
| `Invariance` | `Spec => []Inv` |
| `TypeCorrect` | `Spec => []TypeOK` |
| `CompletedRunsReached` | `Spec => []CompletedMeansReached` |
| `ReceiptsCount` | `Spec => []EveryReceiptCounts` |
| `RunsNotOverstated` | `Spec => []NotOverstated` |

*The inductive invariant.*  A run is judged, judged again after a pause, and
recorded later still.  `CompletedStays` bridges that: from the judgement to the
record the run has the receipts it expects, as only `startNewRun` takes any
away.  `CountedByNode` is what `EveryReceiptCounts` says, of the run that is not
recorded yet: over the gossip network the identifiers counted are the nodes of
the receipts handled.

*`NotOverstated`* relates a record to what the nodes had been sent, in three
facts on top (`ReceiptInv`).  `Backing`: the identifiers counted are at most the
receipts handled, because no receipt is handled twice.  `Recorded`: so it was for every
record, and its receipts have all been sent.  `Origin`: every receipt stands for
one entry its message was sent to and one entry of the collector in that node's
list; this stays true because a message is sent only once (`SentOnce`).
`ReceiptsDue` then counts: receipts of one message map one to one to such pairs,
of which there are `Due` many.

## 5. Only model-checked

Every safety property that a run checks is a theorem.  Liveness is left to TLC:
`QueueDrains`, `Settles`, `TestEnds` and `EveryRunRecorded` need fairness and `ENABLED`, which the prover does not do.
The disagreements of section 3 are counterexamples, found by TLC.

## 6. Known limits of the code that no property states

These are in the list of hazards with a note; the code has no answer to them.

* Every restart of a driver adds its peers again; the list grows and the
  threshold exceeds the number of distinct peers.  Receipts multiply too.
* An ack whose author is in the room but no `gossipPeer` of the node is counted
  and not forwarded: the lookup that follows returns, although
  `network_gossip.go:606` says "Don't return here - continue to forward the ack
  to other nodes".  `QuorumKnown` takes it into account.
* A message ID is marked before its author is looked up: a node that learns of
  the author later never gets the message.
* With a TTL less than the number of relays, a copy with little TTL left
  suppresses a later one with more.
* Chats that are queued when a clear comes are saved after it.
* Acks that come after the decision stay in `pendingAcks`.
* A receipt carries no run: one that is more than ten seconds late counts for
  the next.  `NotOverstated` excludes it, and takes repeated entries of a peer
  list for nodes of their own.
* A crash between truncation and write loses the chain; concurrent access to
  the map may end the process; a clear during `AddBlock` may make it panic.
* A clear keeps chats that stand before the last peer block, and undoes a
  removal.
* `network.go:112`: the branch that reports "Not enough nodes have been
  connected" stands behind `lenPeers < 3` and `lenPeers >= 3`, which leave no case
  to it: after the last attempt a node listens with however few peers, and
  `LookForPeers` does so too.
* `peerDetails.go:135`: the block that `RemovePeer` writes has no `$` for
  `GetPeersInRoom` to split at, so that the next reading panics (`Unreadable`,
  `Panic` in `RoomRegistry`).  Nothing calls `RemovePeer` yet; the properties
  about peer lists are claimed as long as nobody was removed.
* The collector of the consensus test waits for VM1's answers without a
  deadline, with a mutex held: a VM1 that does not answer stops the test.

## 7. Not modelled

The hbbft adapter: its only call (`network.go:152`) is commented out, so that
there is no behaviour of the program to model.  Of the direct network,
signatures, `SendCustomMessage` (used by the forgery tests only) and functions
without a caller.  Heartbeats: the loops that would send them are not started
(`network_gossip.go:385`).  `ReplaceChain` and `ClearAllBlockchains`, which
nothing calls; metrics, charts and output; key handling; the demonstrations; the
drivers of VM2 to VM4, whose options are constants of the models.

## 8. Plan

Written so far, in this order: `QuorumLog` and `AckConsensus` with their proofs,
`Chain` and `BlockchainStore`, `GossipNet`, `RoomRegistry`, the collectors; then
authors unknown to a node, the clear command and paths of different lengths in
`GossipNet`, failing saves in `BlockchainStore`, and `GossipTest` with the direct
network and its proofs.

Then the proofs about `GossipNet`, `RoomRegistry`, `ConsensusCollector` and
`BlockchainStore`, and of every recursive function they use.

Next, proving:

1. `QuorumLog`: its own safety (a log without repetition, every entry backed),
   to be inherited through `Implements` and `PromiseKept` instead of being proved
   of each module.
2. The safety steps of the liveness properties: a measure that each step of
   `Handle` lowers in `GossipNet`, and that a waiter that ticks is not enabled
   for ever in `AckConsensus`.
3. `BlockchainStore` in direct mode: what remains true of it when at most one
   add is under way at a time.

Possible extensions of the model: `ConsensusCollector` over the clear command of
`GossipNet`, whose effect it takes as one step; peer lists with duplicates in
`ConsensusCollector`.
