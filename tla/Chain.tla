-------------------------------- MODULE Chain --------------------------------
(***************************************************************************)
(* The chain of one room as a value: blocks, the hash that links them, and *)
(* what the "clear" command keeps of a chain.                              *)
(***************************************************************************)
EXTENDS Naturals, Sequences, FiniteSets

(* The hash covers index, data and previous hash but not the time.  SHA256 *)
(* is taken to be injective, so a block's hash is the block without its    *)
(* time; the hash of nothing is "".                                        *)
CalculateHash(index, data, prevHash) ==
  [index |-> index, data |-> data, prevHash |-> prevHash]

HashOf(block) == CalculateHash(block.index, block.data, block.prevHash)

(* A block's Data, of which only the kind and what it carries matter.      *)
Genesis       == [kind |-> "GENESIS", about |-> {}]
Chat(m)       == [kind |-> "CHAT_MSG", about |-> m]
PeerAdded(l)  == [kind |-> "PEER_ADDED", about |-> l]
PeerRemoved(l) == [kind |-> "PEER_REMOVED", about |-> l]
AdminAdd(p)   == [kind |-> "ADMIN_ADD", about |-> p]
AdminRemove(p) == [kind |-> "ADMIN_REMOVE", about |-> p]

NewBlock(index, data, prevHash) ==
  [index |-> index, data |-> data, prevHash |-> prevHash,
   hash |-> CalculateHash(index, data, prevHash)]

GenesisBlock == NewBlock(0, Genesis, "")

GenerateBlock(oldBlock, data) ==
  NewBlock(oldBlock.index + 1, data, oldBlock.hash)

IsBlockValid(newBlock, oldBlock) ==
  /\ newBlock.index = oldBlock.index + 1
  /\ newBlock.prevHash = oldBlock.hash
  /\ newBlock.hash = HashOf(newBlock)

Linked(chain) ==
  \A i \in 1..(Len(chain) - 1) : IsBlockValid(chain[i + 1], chain[i])

(* The chain whose blocks carry these data, genesis first.                 *)
ChainOf(data) ==
  LET block[i \in 0..Len(data)] ==
        IF i = 0 THEN GenesisBlock ELSE GenerateBlock(block[i - 1], data[i])
  IN  [i \in 1..(Len(data) + 1) |-> block[i - 1]]

(* A clear, on VM1 (clearBlockchain) and on the nodes it is gossiped to    *)
(* (clearBlockchainForRoom), keeps the blocks up to the last PEER_ADDED    *)
(* one, or the first block when there is none.                             *)
PeerBlocks(chain) == {i \in 1..Len(chain) : chain[i].data.kind = "PEER_ADDED"}

LastOf(indices) == CHOOSE i \in indices : \A j \in indices : j <= i

(* Mutants: only genesis and peer blocks are kept; only genesis is.        *)
PreservedSelected(chain) ==
  LET Keep(block) == block.data.kind \in {"GENESIS", "PEER_ADDED"}
  IN  SelectSeq(chain, Keep)

PreservedGenesis(chain) == SubSeq(chain, 1, 1)

Preserved(chain) ==
  SubSeq(chain, 1,
         IF PeerBlocks(chain) = {} THEN 1 ELSE LastOf(PeerBlocks(chain)))
=============================================================================
