----------------------------- MODULE BlockChain -----------------------------
(***************************************************************************)
(* The block store and the block processor of one node:                    *)
(* ethchain/block_chain.go (BlockChain) and ethchain/state_manager.go      *)
(* (StateManager.Process and ProcessBlock), called by the goroutine that   *)
(* reads each peer (peer.go, HandleInbound) and by the miner's goroutine.  *)
(*                                                                         *)
(* Every write to the database is a step of its own, so that a crash can   *)
(* fall between any two of them, and so is every access to memory that     *)
(* another goroutine can interleave with; only the search for the common   *)
(* block and the comparison of two chains, which write nothing, are taken  *)
(* as one step.  StateManager.mutex covers ProcessBlock and nothing else:  *)
(* Process reads the parent before it, and FindCanonicalChain and          *)
(* ResetTillBlockHash never take it.                                       *)
(***************************************************************************)
EXTENDS BlockHeaders, Sequences

CONSTANTS
    Worker,       \* goroutines that process blocks: one per peer, and the miner
    Main,         \* the goroutine that starts the node
    Reply,        \* block messages a diverted peer may send, newest block first
    MaxCrashes,   \* bound on crashes
    MaxResets     \* bound on chain resets

Thread == Worker \cup {Main}

ASSUME WorkerAssumption == Main \notin Worker
ASSUME BoundAssumption  == MaxCrashes \in Nat /\ MaxResets \in Nat

(* A reply is a piece of one chain: each block is followed by its parent.  *)
ASSUME ReplyAssumption ==
    \A msg \in Reply :
        /\ msg \in Seq(Block \ {Genesis})
        /\ \A i \in 1 .. Len(msg) - 1 : msg[i + 1] = PrevHash[msg[i]]

VARIABLES
    \* the database
    blocks,           \* blocks stored under their hash
    info,             \* BlockInfo.Number stored under hash ++ "Info", 0: none
    synced,           \* blocks whose state trie is stored
    lastBlockKey,     \* the block stored under "LastBlock"
    tdKey,            \* the number stored under "LastKnownTotalDifficulty"
    \* BlockChain
    currentBlock, lastBlockNumber, TD,
    genesisBlock,     \* Genesis, or NoBlock: the one without its funds
    \* StateManager and the goroutines
    mutex,            \* the holder of StateManager.mutex, Main: free
    pc,               \* what each goroutine does next
    blk,              \* the block it processes, or the block it resets to
    last,             \* lastBlock of ResetTillBlockHash
    \* the environment
    announced,        \* blocks posted to the reactor and broadcast to peers
    crashes, resets

store   == <<blocks, info, synced, lastBlockKey, tdKey>>
memory  == <<currentBlock, lastBlockNumber, TD, genesisBlock>>
threads == <<mutex, pc, blk, last>>
world   == <<announced, crashes, resets>>
vars    == <<store, memory, threads, world>>

(* ProcessBlock from taking the lock to the deferred unlock.               *)
Locked    == {"validate", "total", "sync", "addInfo",
              "addCurrent", "addBlock", "addLast", "announce"}
Resetting == {"resetStart", "resetSet", "resetDelete"}

TypeOK ==
    /\ blocks \subseteq Block
    /\ info \in [Block -> Nat]
    /\ synced \subseteq Block
    /\ lastBlockKey \in BlockOrNone
    /\ tdKey \in Nat
    /\ currentBlock \in BlockOrNone
    /\ lastBlockNumber \in Nat
    /\ TD \in Nat
    /\ genesisBlock \in {Genesis, NoBlock}
    /\ mutex \in Thread
    /\ pc \in [Thread -> Locked \cup Resetting \cup
                         {"down", "loadTD", "run", "idle", "getParent", "lock"}]
    /\ \A w \in Worker : pc[w] \notin {"down", "loadTD", "run"}
    /\ blk \in [Thread -> BlockOrNone]
    /\ last \in [Thread -> BlockOrNone]
    /\ announced \subseteq Block
    /\ crashes \in Nat
    /\ resets \in Nat

Init ==
    /\ blocks = {}
    /\ info = [b \in Block |-> 0]
    /\ synced = {}
    /\ lastBlockKey = NoBlock
    /\ tdKey = 0
    /\ currentBlock = NoBlock
    /\ lastBlockNumber = 0
    /\ TD = 0
    /\ genesisBlock = NoBlock
    /\ mutex = Main
    /\ pc = [t \in Thread |-> IF t = Main THEN "down" ELSE "idle"]
    /\ blk = [t \in Thread |-> NoBlock]
    /\ last = [t \in Thread |-> NoBlock]
    /\ announced = {}
    /\ crashes = 0
    /\ resets = 0

Running == pc[Main] = "run"

At(t, label)   == pc[t] = label
Goto(t, label) == pc' = [pc EXCEPT ![t] = label]

(* The deferred Unlock of ProcessBlock.                                    *)
Return(w) ==
    /\ mutex' = Main
    /\ pc'  = [pc EXCEPT ![w] = "idle"]
    /\ blk' = [blk EXCEPT ![w] = NoBlock]
    /\ UNCHANGED last

(* The process is gone: only the database is left.                         *)
Die ==
    /\ currentBlock' = NoBlock
    /\ lastBlockNumber' = 0
    /\ TD' = 0
    /\ genesisBlock' = NoBlock
    /\ mutex' = Main
    /\ pc' = [t \in Thread |-> IF t = Main THEN "down" ELSE "idle"]
    /\ blk' = [t \in Thread |-> NoBlock]
    /\ last' = [t \in Thread |-> NoBlock]
    /\ UNCHANGED store

(* A nil *Block is dereferenced: no goroutine recovers, so the node dies.  *)
Panic == Die /\ UNCHANGED world

Crash ==
    /\ ~At(Main, "down")
    /\ crashes < MaxCrashes
    /\ crashes' = crashes + 1
    /\ Die
    /\ UNCHANGED <<announced, resets>>

-----------------------------------------------------------------------------
(* NewBlockChain and setLastBlock.                                         *)

(* Mutant of LoadLastBlock: takes the last block for the genesis block.    *)
LoadLastBlockAsGenesis ==
    /\ At(Main, "down")
    /\ lastBlockKey # NoBlock
    /\ genesisBlock' = lastBlockKey
    /\ currentBlock' = lastBlockKey
    /\ Goto(Main, "loadTD")
    /\ UNCHANGED <<store, lastBlockNumber, TD, mutex, blk, last, world>>

(* A database with a last block: continue from it.  The genesis block of   *)
(* this process is decoded from the source and never gets its funds.       *)
LoadLastBlock ==
    /\ At(Main, "down")
    /\ lastBlockKey # NoBlock
    /\ currentBlock' = lastBlockKey
    /\ lastBlockNumber' = Number[lastBlockKey]
    /\ Goto(Main, "loadTD")
    /\ UNCHANGED <<store, TD, genesisBlock, mutex, blk, last, world>>

(* No last block: fund the genesis block, store its state and Add it.      *)
PrepareGenesis ==
    /\ At(Main, "down")
    /\ lastBlockKey = NoBlock
    /\ genesisBlock' = Genesis
    /\ synced' = synced \cup {Genesis}
    /\ blk' = [blk EXCEPT ![Main] = Genesis]
    /\ Goto(Main, "addInfo")
    /\ UNCHANGED <<blocks, info, lastBlockKey, tdKey, currentBlock,
                   lastBlockNumber, TD, mutex, last, world>>

(* Mutant of LoadTD: a restarted node counts from zero.                    *)
LoadTDForgotten ==
    /\ At(Main, "loadTD")
    /\ Goto(Main, "run")
    /\ UNCHANGED <<store, memory, mutex, blk, last, world>>

LoadTD ==
    /\ At(Main, "loadTD")
    /\ TD' = tdKey
    /\ Goto(Main, "run")
    /\ UNCHANGED <<store, currentBlock, lastBlockNumber, genesisBlock,
                   mutex, blk, last, world>>

-----------------------------------------------------------------------------
(* BlockChain.Add, step by step: the block info, the current block in      *)
(* memory, the block under its hash, the block under "LastBlock".          *)

writeBlockInfo(t) ==
    /\ At(t, "addInfo")
    /\ lastBlockNumber' = lastBlockNumber + 1
    /\ info' = [info EXCEPT ![blk[t]] = lastBlockNumber + 1]
    /\ Goto(t, "addCurrent")
    /\ UNCHANGED <<blocks, synced, lastBlockKey, tdKey, currentBlock, TD,
                   genesisBlock, mutex, blk, last, world>>

(* Mutant of AddCurrent: writes "LastBlock" before the block itself.       *)
AddCurrentLastFirst(t) ==
    /\ At(t, "addCurrent")
    /\ currentBlock' = blk[t]
    /\ lastBlockKey' = blk[t]
    /\ Goto(t, "addBlock")
    /\ UNCHANGED <<blocks, info, synced, tdKey, lastBlockNumber, TD,
                   genesisBlock, mutex, blk, last, world>>

AddCurrent(t) ==
    /\ At(t, "addCurrent")
    /\ currentBlock' = blk[t]
    /\ Goto(t, "addBlock")
    /\ UNCHANGED <<store, lastBlockNumber, TD, genesisBlock,
                   mutex, blk, last, world>>

AddBlock(t) ==
    /\ At(t, "addBlock")
    /\ blocks' = blocks \cup {blk[t]}
    /\ Goto(t, "addLast")
    /\ UNCHANGED <<info, synced, lastBlockKey, tdKey, memory,
                   mutex, blk, last, world>>

(* Mutant of AddLast: forgets to write "LastBlock".                        *)
AddLastForgotten(t) ==
    /\ At(t, "addLast")
    /\ Goto(t, IF t = Main THEN "loadTD" ELSE "announce")
    /\ UNCHANGED <<store, memory, mutex, blk, last, world>>

(* Mutant of AddLast: keeps one block only, as if the head were moved.     *)
AddLastMoving(t) ==
    /\ At(t, "addLast")
    /\ lastBlockKey' = blk[t]
    /\ blocks' = blocks \ {lastBlockKey}
    /\ Goto(t, IF t = Main THEN "loadTD" ELSE "announce")
    /\ UNCHANGED <<info, synced, tdKey, memory, mutex, blk, last, world>>

AddLast(t) ==
    /\ At(t, "addLast")
    /\ lastBlockKey' = blk[t]
    /\ Goto(t, IF t = Main THEN "loadTD" ELSE "announce")
    /\ UNCHANGED <<blocks, info, synced, tdKey, memory,
                   mutex, blk, last, world>>

-----------------------------------------------------------------------------
(* StateManager.Process and ProcessBlock.  ParentError leaves everything   *)
(* as it was, so Process is only enabled when HasBlock finds the parent.   *)

Process(w, b) ==
    /\ Running
    /\ At(w, "idle")
    /\ PrevHash[b] \in blocks
    /\ blk' = [blk EXCEPT ![w] = b]
    /\ Goto(w, "getParent")
    /\ UNCHANGED <<store, memory, mutex, last, world>>

(* parent := GetBlock(PrevHash); parent.State().                           *)
GetParent(w) ==
    /\ At(w, "getParent")
    /\ IF PrevHash[blk[w]] \in blocks
       THEN /\ Goto(w, "lock")
            /\ UNCHANGED <<store, memory, mutex, blk, last, world>>
       ELSE Panic

(* Mutants: a mutex nobody waits for; a block looked up before the lock    *)
(* only.                                                                   *)
UnlockedAlways     == TRUE
DiscardedIfOrphan(b) == PrevHash[b] \notin blocks

Unlocked     == mutex = Main
Discarded(b) == b \in blocks \/ PrevHash[b] \notin blocks

(* Taking the mutex and the two lookups that follow: a block we have is    *)
(* ignored, one whose parent has gone is a ParentError, and both return.   *)
Lock(w) ==
    /\ At(w, "lock")
    /\ Unlocked
    /\ IF Discarded(blk[w])
       THEN Return(w)
       ELSE mutex' = w /\ Goto(w, "validate") /\ UNCHANGED <<blk, last>>
    /\ UNCHANGED <<store, memory, world>>

(* Mutant of Validate: a block that fails is tried again.                  *)
ValidateRetrying(w) ==
    /\ At(w, "validate")
    /\ IF ValidateBlock(blk[w], currentBlock)
       THEN Goto(w, "total") /\ UNCHANGED mutex
       ELSE Goto(w, "lock") /\ mutex' = Main
    /\ UNCHANGED <<store, memory, blk, last, world>>

(* ApplyTransactions, ValidateBlock, AccumelateRewards and the comparison  *)
(* of state roots, on a state that only this call sees.  Checking an uncle *)
(* reads the parent from the database once more.                           *)
Validate(w) ==
    /\ At(w, "validate")
    /\ IF Uncles[blk[w]] # {} /\ PrevHash[blk[w]] \notin blocks
       THEN Panic
       ELSE /\ IF ValidateBlock(blk[w], currentBlock)
               THEN Goto(w, "total") /\ UNCHANGED <<mutex, blk, last>>
               ELSE Return(w)
            /\ UNCHANGED <<store, memory, world>>

(* Mutant: the uncles are forgotten.                                       *)
TotalWithoutUncles(b) == TD + Difficulty[b]

TotalWith(b) == TD + CalculateBlockTD(b)

(* The new total is what the chain had, whatever the block's parent, plus  *)
(* the block's own difficulty; a block that adds none would be dropped.    *)
CalculateTD(w) ==
    /\ At(w, "total")
    /\ LET td == TotalWith(blk[w]) IN
       IF td > TD
       THEN /\ tdKey' = td
            /\ TD' = td
            /\ Goto(w, "sync")
            /\ UNCHANGED <<mutex, blk, last>>
       ELSE Return(w) /\ UNCHANGED <<tdKey, TD>>
    /\ UNCHANGED <<blocks, info, synced, lastBlockKey, currentBlock,
                   lastBlockNumber, genesisBlock, world>>

(* Mutant of SyncState: the state is not written.                          *)
SyncStateSkipped(w) ==
    /\ At(w, "sync")
    /\ Goto(w, "addInfo")
    /\ UNCHANGED <<store, memory, mutex, blk, last, world>>

(* Mutant of SyncState: broadcasts the block before it is added.           *)
SyncStateAnnouncing(w) ==
    /\ At(w, "sync")
    /\ synced' = synced \cup {blk[w]}
    /\ announced' = announced \cup {blk[w]}
    /\ Goto(w, "addInfo")
    /\ UNCHANGED <<blocks, info, lastBlockKey, tdKey, memory,
                   mutex, blk, last, crashes, resets>>

(* state.Sync() *)
SyncState(w) ==
    /\ At(w, "sync")
    /\ synced' = synced \cup {blk[w]}
    /\ Goto(w, "addInfo")
    /\ UNCHANGED <<blocks, info, lastBlockKey, tdKey, memory,
                   mutex, blk, last, world>>

(* notifyChanges, Post("newBlock"), Broadcast, and the deferred Unlock.    *)
Announce(w) ==
    /\ At(w, "announce")
    /\ announced' = announced \cup {blk[w]}
    /\ Return(w)
    /\ UNCHANGED <<store, memory, crashes, resets>>

-----------------------------------------------------------------------------
(* A diverted peer: HandleInbound looks for the common ancestor and calls  *)
(* FindCanonicalChainFromMsg.                                              *)

(* Walks the current chain through the blocks that are stored.             *)
HasBlockWithPrevHash(h) ==
    LET found[b \in Block] ==
            \/ PrevHash[b] = h
            \/ PrevHash[b] \in blocks /\ found[PrevHash[b]]
    IN  found[currentBlock]

(* Positions of the message at which our chain and the peer's part.        *)
Splits(msg) ==
    {i \in DOMAIN msg : /\ msg[i] \notin blocks
                        /\ HasBlockWithPrevHash(PrevHash[msg[i]])}

(* The current chain down to the common block; the genesis block, or any   *)
(* block whose parent is not stored, ends the walk uncounted.              *)
CurChainDifficulty(common) ==
    LET sum[b \in Block] ==
            IF b = common \/ PrevHash[b] \notin blocks THEN 0
            ELSE CalculateBlockTD(b) + sum[PrevHash[b]]
    IN  sum[currentBlock]

(* The incoming chain: the last, oldest, block of the message is left out  *)
(* and the newer ones are counted up to the common block.                  *)
ChainDifficulty(msg, common) ==
    LET sum[i \in 1 .. Len(msg)] ==
            IF i = Len(msg) \/ msg[i] = common THEN 0
            ELSE CalculateBlockTD(msg[i]) + sum[i + 1]
    IN  sum[1]

(* More than two blocks, and the oldest split decides.  When our chain is  *)
(* not beaten nothing changes.                                             *)
FindCanonicalChain(w, msg) ==
    /\ Running
    /\ At(w, "idle")
    /\ resets < MaxResets
    /\ Len(msg) - 1 > 1
    /\ \E i \in Splits(msg) :
          LET common == PrevHash[msg[i]] IN
          /\ \A j \in Splits(msg) : j <= i
          /\ ChainDifficulty(msg, common) > CurChainDifficulty(common)
          /\ blk' = [blk EXCEPT ![w] = common]
    /\ Goto(w, "resetStart")
    /\ resets' = resets + 1
    /\ UNCHANGED <<store, memory, mutex, last, announced, crashes>>

(* ResetTillBlockHash: lastBlock := bc.CurrentBlock                        *)
ResetStart(w) ==
    /\ At(w, "resetStart")
    /\ last' = [last EXCEPT ![w] = currentBlock]
    /\ Goto(w, "resetSet")
    /\ UNCHANGED <<store, memory, mutex, blk, world>>

(* The genesis block needs no lookup in the process that created it.  A    *)
(* common block that has gone meanwhile is a nil dereference.              *)
ResetSet(w) ==
    /\ At(w, "resetSet")
    /\ IF blk[w] = genesisBlock \/ blk[w] \in blocks
       THEN /\ currentBlock' = blk[w]
            /\ lastBlockNumber' = IF blk[w] = genesisBlock THEN 1
                                  ELSE Number[blk[w]]
            /\ Goto(w, "resetDelete")
            /\ UNCHANGED <<store, TD, genesisBlock, mutex, blk, last, world>>
       ELSE Panic

(* Deletes the block that was current.  The loop that would delete the     *)
(* rest of the split chain starts from a nil block and does nothing.       *)
ResetDelete(w) ==
    /\ At(w, "resetDelete")
    /\ blocks' = blocks \ {last[w]}
    /\ blk'  = [blk EXCEPT ![w] = NoBlock]
    /\ last' = [last EXCEPT ![w] = NoBlock]
    /\ Goto(w, "idle")
    /\ UNCHANGED <<info, synced, lastBlockKey, tdKey, memory, mutex, world>>

-----------------------------------------------------------------------------
Start == LoadLastBlock \/ PrepareGenesis \/ LoadTD

Add(t) == writeBlockInfo(t) \/ AddCurrent(t) \/ AddBlock(t) \/ AddLast(t)

ProcessStep(w) ==
    \/ GetParent(w) \/ Lock(w) \/ Validate(w)
    \/ CalculateTD(w) \/ SyncState(w) \/ Announce(w)

ResetStep(w) == ResetStart(w) \/ ResetSet(w) \/ ResetDelete(w)

(* A node none of whose peers is diverted: the chain is never reset.       *)
SyncNext ==
    \/ Start
    \/ Crash
    \/ \E t \in Thread : Add(t)
    \/ \E w \in Worker : ProcessStep(w) \/ \E b \in Block : Process(w, b)

Next ==
    \/ SyncNext
    \/ \E w \in Worker : ResetStep(w) \/ \E msg \in Reply : FindCanonicalChain(w, msg)

Spec     == Init /\ [][Next]_vars
SyncSpec == Init /\ [][SyncNext]_vars

(***************************************************************************)
(* What the scheduling guarantees: a goroutine that can run runs, and a    *)
(* goroutine waiting for a sync.Mutex that keeps being released gets it in *)
(* the end (Go's mutex hands over to a starving waiter).  Crashes and the  *)
(* arrival of blocks are not fair.                                         *)
(***************************************************************************)
Fairness ==
    /\ WF_vars(Start)
    /\ \A t \in Thread : WF_vars(Add(t))
    /\ \A w \in Worker : WF_vars(ProcessStep(w)) /\ SF_vars(Lock(w))

SyncLiveSpec == SyncSpec /\ Fairness

-----------------------------------------------------------------------------
(* Properties of every behaviour, resets included.                         *)

(* "Processing a blocks may never happen simultaneously": between Lock and *)
(* the deferred Unlock of ProcessBlock there is one goroutine, the holder. *)
ProcessingIsExclusive ==
    \A w \in Worker : pc[w] \in Locked => mutex = w

(* Whatever order goroutines and crashes come in, a block that is stored,  *)
(* is current or is the one a restart begins from has its state trie and   *)
(* its block info in the database: ProcessBlock syncs the state first.     *)
StoredStateIsDurable ==
    /\ (blocks \cup {lastBlockKey, currentBlock}) \ {NoBlock} \subseteq synced
    /\ \A b \in blocks : info[b] # 0

(* The same block arriving from two peers is added once: past its checks,  *)
(* ProcessBlock works on a block that is not in the database.              *)
NeverProcessedTwice ==
    \A w \in Worker :
        pc[w] \in {"validate", "total", "sync", "addInfo", "addCurrent", "addBlock"}
            => blk[w] \notin blocks

(* The stored total counts every stored block at least once, a block a     *)
(* crash interrupts included: SetTotalDifficulty comes before Add.         *)
TotalCoversStore ==
    tdKey >= MapThenSumSet(CalculateBlockTD, blocks \ {Genesis})

(* Neither a reset nor a crash nor a restart lowers the stored total, and  *)
(* a running node agrees with its database about it.                       *)
TotalNeverFalls ==
    [][tdKey' >= tdKey /\ (Running' => TD' = tdKey')]_vars

-----------------------------------------------------------------------------
(* Properties of a node that never resets its chain (SyncSpec).            *)

(* From every stored block, the parents lead back to the genesis block     *)
(* through stored blocks, whatever crash or interleaving came before.      *)
ParentsAreStored ==
    \A b \in blocks \ {Genesis} : PrevHash[b] \in blocks

(* A block the node told its peers about is in the database for good, with *)
(* its state: a crash right after the broadcast cannot lose it.            *)
AnnouncedIsDurable == announced \subseteq blocks \cap synced

(* Outside of Add, the block a restart would begin from is the current     *)
(* one; inside Add, at worst the block before it.                          *)
RestartKeepsHead ==
    Running /\ lastBlockKey # currentBlock
        => \E w \in Worker : /\ pc[w] \in {"addBlock", "addLast"}
                              /\ blk[w] = currentBlock

(* What the database promises to whoever restarts from it.                 *)
Durable == INSTANCE DurableChain WITH chain <- blocks, head <- lastBlockKey
ImplementsDurableChain == Durable!Spec

(* A call of Process ends, unless the node does, and a node that is down   *)
(* comes up again: nobody waits for ever for the mutex or in the start-up. *)
ProcessReturns ==
    /\ \A w \in Worker : pc[w] # "idle" ~> pc[w] = "idle"
    /\ ~Running ~> Running

-----------------------------------------------------------------------------
(* What comments of the code say of it and the code does not do.           *)

(* "TD(genesis_block) = 0 and TD(B) = TD(B.parent) + sum(u.difficulty for  *)
(* u in B.uncles) + B.difficulty": the total the node keeps is that of the *)
(* chain that ends in its current block.                                   *)
ChainTD(b) ==
    LET td[c \in Block] ==
            IF c = Genesis THEN 0 ELSE td[PrevHash[c]] + CalculateBlockTD(c)
    IN  td[b]
TotalIsOfCurrentChain ==
    Running /\ mutex = Main => TD = ChainTD(currentBlock)

(* "Split chain deleted and reverted to common parent block.": when        *)
(* ResetTillBlockHash is done, no block of the chain that was current is   *)
(* left above the common block.                                            *)
SplitChain(b, common) ==
    LET above[c \in Block] ==
            IF c \in {common, Genesis} THEN {} ELSE {c} \cup above[PrevHash[c]]
    IN  above[b]
SplitChainIsDeleted ==
    [][\A w \in Worker :
         ResetDelete(w) => SplitChain(last[w], blk[w]) \cap blocks' = {}]_vars
=============================================================================
