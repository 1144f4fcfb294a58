---------------------------- MODULE BlockchainStore ----------------------------
(***************************************************************************)
(* The chain of one room in a running process: the entry blockchains[room] *)
(* of an unguarded global map, the slice it holds with the backing array   *)
(* the slice may share, and the file ./data/<room>/blockchain.json.        *)
(*                                                                         *)
(* Goroutines work on them: "add" is AddBlock, "read" is GetBlockchain and *)
(* "clear" is the clear_blockchain handler.  In ack mode every AddBlock    *)
(* runs under gossipMutex (Serialized); in direct mode none does, and      *)
(* reads and clears never do.  A step is one access to the map or file.    *)
(***************************************************************************)
EXTENDS Chain

CONSTANTS Workers,       \* goroutines, each of one operation
          Job,           \* Job[w] \in {"add", "read", "clear"}
          Serialized,    \* AddBlock is called under gossipMutex
          MayCrash,      \* the process may be killed and started again
          MayFail,       \* the file may not be opened, or not be written
          Spare,         \* most spare cells a backing array is made with
          Fresh,         \* is there no file at the start? {FALSE}, {TRUE}
                         \* or both cases
          InitialData    \* data of the blocks on file at the start

ASSUME StoreAssumption == /\ Job \in [Workers -> {"add", "read", "clear"}]
                          /\ Serialized \in BOOLEAN
                          /\ MayCrash \in BOOLEAN
                          /\ MayFail \in BOOLEAN
                          /\ Fresh \subseteq BOOLEAN
                          /\ Spare \in Nat
                          /\ InitialData \in      \* a sequence
                               Seq({InitialData[i] : i \in DOMAIN InitialData})

Nil    == [array |-> 0, len |-> 0]       \* the nil slice
NoFile == [kind |-> "absent", chain |-> << >>]
Empty  == [kind |-> "empty", chain |-> << >>]    \* truncated, not yet written
Null   == [kind |-> "null", chain |-> << >>]     \* a nil chain, encoded
Torn   == [kind |-> "torn", chain |-> << >>]     \* two writes overlapped
File(chain) == [kind |-> "chain", chain |-> chain]

VARIABLES
  loaded,    \* blockchains has an entry for the room
  mem,       \* that entry: a slice, an array number and a length
  arrays,    \* backing arrays: cells in use and capacity, oldest first
  file,      \* content of blockchain.json
  pc,        \* pc[w]: next step of goroutine w
  slice,     \* slice[w]: the chain w has read from memory
  lastBlock, \* lastBlock[w]: the block that AddBlock builds on, a copy
  buffer,    \* buffer[w]: the file content w has read or is to write
  holder,    \* the AddBlock calls under way that hold gossipMutex
  added,     \* adds that returned success
  failed,    \* calls that met an error when they saved the chain
  down       \* a goroutine has panicked: the process is gone

vars == <<loaded, mem, arrays, file, pc, slice, lastBlock, buffer, holder,
          added, failed, down>>

Content(s) == IF s = Nil THEN << >>
              ELSE SubSeq(arrays[s.array].cells, 1, s.len)

TypeOK ==
  /\ loaded \in BOOLEAN
  /\ mem.array \in 0..Len(arrays)
  /\ \A i \in 1..Len(arrays) : Len(arrays[i].cells) <= arrays[i].cap
  /\ file.kind \in {"absent", "empty", "null", "torn", "chain"}
  /\ pc \in [Workers -> {"idle", "load", "fetch", "install", "use", "append",
                         "truncate", "encode", "write", "scan", "done"}]
  /\ \A w \in Workers : slice[w].array \in 0..Len(arrays)
  /\ holder \subseteq Workers
  /\ added \subseteq Workers
  /\ failed \subseteq Workers
  /\ down \in BOOLEAN

(* CreateRoom, or InitializeGossipNetwork, has loaded the chain before the *)
(* listeners start; only the first calls of CreateRoom find no file.       *)
Init ==
  /\ \E fresh \in Fresh, spare \in 0..Spare :
       LET chain == ChainOf(InitialData)
       IN  /\ loaded = ~fresh
           /\ mem = IF fresh THEN Nil ELSE [array |-> 1, len |-> Len(chain)]
           /\ arrays = IF fresh THEN << >>
                       ELSE <<[cells |-> chain, cap |-> Len(chain) + spare]>>
           /\ file = IF fresh THEN NoFile ELSE File(chain)
  /\ pc = [w \in Workers |-> "idle"]
  /\ slice = [w \in Workers |-> Nil]
  /\ lastBlock = [w \in Workers |-> GenesisBlock]
  /\ buffer = [w \in Workers |-> NoFile]
  /\ holder = {}
  /\ added = {}
  /\ failed = {}
  /\ down = FALSE
--------------------------------------------------------------------------------
Goto(w, step) == pc' = [pc EXCEPT ![w] = step]

(* w returns, and gives up the mutex if it holds it.                       *)
Return(w) == Goto(w, "done") /\ holder' = holder \ {w}

At(w, step) == ~down /\ pc[w] = step

(* Mutant: gossipMutex is not taken.                                       *)
Unguarded(w) == FALSE

NeedsMutex(w) == Job[w] = "add" /\ Serialized

(* A call begins; an add in ack mode waits for gossipMutex first.  A clear *)
(* begins with ClearBlockchain, which deletes the entry.  A room that does *)
(* not exist yet is made by adds alone: the listeners are not started.     *)
Start(w) ==
  /\ At(w, "idle")
  /\ file = NoFile => Job[w] = "add"
  /\ IF NeedsMutex(w)
     THEN holder = {} /\ holder' = {w}
     ELSE UNCHANGED holder
  /\ Goto(w, IF Job[w] = "clear" THEN "scan" ELSE "load")
  /\ loaded' = IF Job[w] = "clear" THEN FALSE ELSE loaded
  /\ mem' = IF Job[w] = "clear" THEN Nil ELSE mem
  /\ UNCHANGED <<arrays, file, slice, lastBlock, buffer, added, failed, down>>

(* Mutants: the file is read each time; it is never read.                  *)
LoadAlways(w) ==
  /\ At(w, "load")
  /\ Goto(w, "fetch")
  /\ UNCHANGED <<loaded, mem, arrays, file, slice, lastBlock, buffer, holder,
                 added, failed, down>>

LoadNever(w) ==
  /\ At(w, "load")
  /\ Goto(w, "use")
  /\ UNCHANGED <<loaded, mem, arrays, file, slice, lastBlock, buffer, holder,
                 added, failed, down>>

(* LoadBlockchainFromFile: is there an entry already?                      *)
Load(w) ==
  /\ At(w, "load")
  /\ Goto(w, IF loaded THEN "use" ELSE "fetch")
  /\ UNCHANGED <<loaded, mem, arrays, file, slice, lastBlock, buffer, holder,
                 added, failed, down>>

(* If not, the file is read.  A file that cannot be parsed makes AddBlock  *)
(* return the error; GetBlockchain ignores it.                             *)
Fetch(w) ==
  /\ At(w, "fetch")
  /\ buffer' = [buffer EXCEPT ![w] = file]
  /\ \/ /\ file.kind \in {"absent", "null", "chain"}
        /\ Goto(w, "install")
        /\ UNCHANGED holder
     \/ /\ file.kind \in {"empty", "torn"}
        /\ IF Job[w] = "read" THEN Goto(w, "use") /\ UNCHANGED holder
           ELSE Return(w)
  /\ UNCHANGED <<loaded, mem, arrays, file, slice, lastBlock, added, failed,
                 down>>

(* The chain read becomes the entry, whatever the entry is by now.  A new  *)
(* chain, made because there was no file, is saved at once.                *)
Install(w) ==
  /\ At(w, "install")
  /\ loaded' = TRUE
  /\ IF buffer[w] = Null
     THEN mem' = Nil /\ UNCHANGED arrays
     ELSE LET chain == IF buffer[w] = NoFile THEN <<GenesisBlock>>
                       ELSE buffer[w].chain
          IN  /\ \E spare \in 0..Spare :
                   arrays' = Append(arrays, [cells |-> chain,
                                             cap |-> Len(chain) + spare])
              /\ mem' = [array |-> Len(arrays) + 1, len |-> Len(chain)]
  /\ Goto(w, IF buffer[w] = NoFile THEN "truncate" ELSE "use")
  /\ UNCHANGED <<file, slice, lastBlock, buffer, holder, added, failed, down>>

(* The entry is read.  AddBlock takes its last block without a check: on a *)
(* nil chain it panics.                                                    *)
Use(w) ==
  /\ At(w, "use")
  /\ slice' = [slice EXCEPT ![w] = mem]
  /\ \/ /\ Job[w] = "read"
        /\ Return(w)
        /\ UNCHANGED <<lastBlock, down>>
     \/ /\ Job[w] = "add"
        /\ UNCHANGED holder
        /\ down' = (mem = Nil)
        /\ lastBlock' = IF mem = Nil THEN lastBlock
                        ELSE [lastBlock EXCEPT ![w] = Content(mem)[mem.len]]
        /\ Goto(w, "append")
  /\ UNCHANGED <<loaded, mem, arrays, file, buffer, added, failed>>

(* Mutant: a full backing array passes for one with a cell left.           *)
AlmostRoomFor(w) == slice[w].len <= arrays[slice[w].array].cap

RoomFor(w) == slice[w].len < arrays[slice[w].array].cap

(* append(chain, newBlock): in place if the backing array has a cell left, *)
(* over whatever that cell holds, and else in a larger copy.               *)
AppendBlock(w) ==
  /\ At(w, "append")
  /\ LET chain == Content(slice[w])
         block == GenerateBlock(lastBlock[w], Chat(w))
         a     == slice[w].array
         n     == slice[w].len + 1
     IN  IF RoomFor(w)
         THEN /\ arrays' = [arrays EXCEPT ![a].cells =
                              [i \in 1..n |-> IF i = n THEN block ELSE @[i]]
                                \o SubSeq(@, n + 1, Len(@))]
              /\ mem' = [array |-> a, len |-> n]
         ELSE /\ \E spare \in 0..Spare :
                   arrays' = Append(arrays, [cells |-> Append(chain, block),
                                             cap |-> n + spare])
              /\ mem' = [array |-> Len(arrays) + 1, len |-> n]
  /\ loaded' = TRUE
  /\ Goto(w, "truncate")
  /\ UNCHANGED <<file, slice, lastBlock, buffer, holder, added, failed, down>>

(* SaveBlockchainToFile, and os.WriteFile in the clear handler: the file   *)
(* is truncated before anything is written.                                *)
Truncate(w) ==
  /\ At(w, "truncate")
  /\ file' = Empty
  /\ Goto(w, IF Job[w] = "clear" THEN "write" ELSE "encode")
  /\ UNCHANGED <<loaded, mem, arrays, slice, lastBlock, buffer, holder, added,
                 failed, down>>

(* Mutant: the chain that w appended to is saved.                          *)
OldContent(w) == IF slice[w] = Nil THEN Null ELSE File(Content(slice[w]))

ToSave(w) == IF mem = Nil THEN Null ELSE File(Content(mem))

(* What is saved is the entry as it is now, not the chain w appended to.   *)
Encode(w) ==
  /\ At(w, "encode")
  /\ buffer' = [buffer EXCEPT ![w] = ToSave(w)]
  /\ Goto(w, "write")
  /\ UNCHANGED <<loaded, mem, arrays, file, slice, lastBlock, holder, added,
                 failed, down>>

(* A write starts at the beginning of the file: over what another one has  *)
(* written since the truncation, it leaves the tail of the longer one.     *)
Overwritten(old, new) ==
  IF old = Empty \/ old = new THEN {new}
  ELSE IF old.kind = "chain" /\ new.kind = "chain"
            /\ Len(new.chain) > Len(old.chain)
       THEN {new}
  ELSE IF Len(new.chain) < Len(old.chain) THEN {Torn}
  ELSE {new, Torn}

(* The write ends the save.  A save that LoadBlockchainFromFile made is    *)
(* followed by the rest of the call.                                       *)
Write(w) ==
  /\ At(w, "write")
  /\ file' \in Overwritten(file, buffer[w])
  /\ buffer' = [buffer EXCEPT ![w] = Empty]
  /\ IF Job[w] # "clear" /\ slice[w] = Nil
     THEN Goto(w, "use") /\ UNCHANGED <<holder, added>>
     ELSE /\ Return(w)
          /\ added' = IF Job[w] = "add" THEN added \cup {w} ELSE added
  /\ UNCHANGED <<loaded, mem, arrays, slice, lastBlock, failed, down>>

(* Mutant: the error is not returned.                                      *)
ErrorIgnored(w) == added \cup {w}

AfterError(w) == added

(* The file cannot be opened, or not be written, or only a part of it: the *)
(* error is returned.  The block stays in memory, and the new chain of a   *)
(* room without a file, whose reader goes on with it.                      *)
SaveFails(w) ==
  /\ MayFail
  /\ \/ At(w, "truncate") /\ UNCHANGED file
     \/ At(w, "write") /\ file' \in {file, Torn}
  /\ failed' = failed \cup {w}
  /\ IF Job[w] = "read" THEN Goto(w, "use") /\ UNCHANGED holder ELSE Return(w)
  /\ buffer' = [buffer EXCEPT ![w] = Empty]
  /\ added' = IF Job[w] = "add" THEN AfterError(w) ELSE added
  /\ UNCHANGED <<loaded, mem, arrays, slice, lastBlock, down>>

(* clearBlockchainForRoom reads the file and gives up if it cannot; on the *)
(* encoding of a nil chain its slice expression panics.                    *)
Scan(w) ==
  /\ At(w, "scan")
  /\ \/ /\ file.kind = "chain"
        /\ buffer' = [buffer EXCEPT ![w] = File(Preserved(file.chain))]
        /\ Goto(w, "truncate")
        /\ UNCHANGED <<holder, down>>
     \/ /\ file.kind \in {"absent", "empty", "torn", "null"}
        /\ down' = (file = Null)
        /\ Return(w)
        /\ UNCHANGED buffer
  /\ UNCHANGED <<loaded, mem, arrays, file, slice, lastBlock, added, failed>>

(* The process is killed and started again.  Calls under way are gone; the *)
(* chain is read back before the node listens again, if that is possible.  *)
CrashAndRestart ==
  /\ MayCrash /\ ~down
  /\ IF file.kind = "chain"
     THEN /\ loaded' = TRUE
          /\ mem' = [array |-> 1, len |-> Len(file.chain)]
          /\ \E spare \in 0..Spare :
               arrays' = <<[cells |-> file.chain,
                            cap |-> Len(file.chain) + spare]>>
     ELSE /\ loaded' = (file = Null)
          /\ mem' = Nil
          /\ arrays' = << >>
  /\ pc' = [w \in Workers |-> IF pc[w] = "idle" THEN "idle" ELSE "done"]
  /\ slice' = [w \in Workers |-> Nil]
  /\ lastBlock' = [w \in Workers |-> GenesisBlock]
  /\ buffer' = [w \in Workers |-> NoFile]
  /\ holder' = {}
  /\ UNCHANGED <<file, added, failed, down>>

Next == \/ \E w \in Workers :
             \/ SaveFails(w)
             \/ Start(w) \/ Load(w) \/ Fetch(w) \/ Install(w) \/ Use(w)
             \/ AppendBlock(w) \/ Truncate(w) \/ Encode(w) \/ Write(w)
             \/ Scan(w)
        \/ CrashAndRestart

Spec == Init /\ [][Next]_vars
--------------------------------------------------------------------------------
Chats(chain) == {chain[i].data.about : i \in {j \in 1..Len(chain) :
                                               chain[j].data.kind = "CHAT_MSG"}}

Saving == \E w \in Workers : pc[w] \in {"truncate", "encode", "write"}

NothingCleared == \A w \in Workers : Job[w] = "clear" => pc[w] = "idle"

(* Every block names the hash of the block before it, in memory and on     *)
(* file, however appends, reloads, clears and crashes interleave           *)
(* (GenerateBlock "creates a new block using previous block's hash",       *)
(* blockchain.go:42).  In direct mode a third add may read the block that  *)
(* one of two others has appended in place, and append its own after the   *)
(* other of the two has overwritten that block.                            *)
ChainLinked == Linked(Content(mem)) /\ Linked(file.chain)

(* AddBlock "adds a new block with the given data to the blockchain"       *)
(* (blockchain.go:159): what an add that returned success has added is in  *)
(* the chain, and stays there while nothing is cleared.  In direct mode,   *)
(* without gossipMutex, two adds that read the same chain each store it    *)
(* with their own block behind it, and one of the two blocks is lost.      *)
AddedIsInMemory ==
  NothingCleared /\ loaded => added \subseteq Chats(Content(mem))

(* The same of the file, across a crash at any step, as long as the file   *)
(* can be parsed.  (A crash between truncation and write leaves it empty.) *)
AddedIsOnFile ==
  NothingCleared /\ file.kind = "chain" => added \subseteq Chats(file.chain)

(* Memory and file agree whenever no save is under way: what a crash then  *)
(* loses is nothing, though readers may reload the chain at any time.      *)
(* After saves that failed the file may lack the end of the chain, but     *)
(* only blocks whose add returned an error.                                *)
FileMatchesMemory ==
  NothingCleared /\ loaded /\ ~Saving =>
    \/ file = File(Content(mem))
    \/ failed # {} /\ file.kind \in {"empty", "torn"}
    \/ LET onFile == Len(file.chain)
           n      == Len(Content(mem))
       IN  /\ onFile <= n
           /\ SubSeq(Content(mem), 1, onFile) = file.chain
           /\ file.kind = "absent" => failed # {}
           /\ Chats(SubSeq(Content(mem), onFile + 1, n)) \subseteq failed

(* AddBlock takes the last block of a chain that was loaded before ("Load  *)
(* blockchain if not in memory", blockchain.go:161): it is there, also     *)
(* after a crash that left the file without a chain, as long as no clear   *)
(* deletes the entry between the two steps.                                *)
NoPanic == NothingCleared => ~down
================================================================================
