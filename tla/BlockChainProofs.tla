-------------------------- MODULE BlockChainProofs --------------------------
(***************************************************************************)
(* Theorems about BlockChain for any set of blocks, any headers and any    *)
(* number of goroutines, crashes and resets.                               *)
(***************************************************************************)
EXTENDS BlockChain, BlockHeaderProofs

Adding == {"addInfo", "addCurrent", "addBlock", "addLast"}

(* Who does what: before the node runs only Main moves, on the genesis     *)
(* block; a goroutine that is not idle has a block; a running node has a   *)
(* current block and knows its total.                                      *)
ControlInv ==
    /\ pc[Main] \in Adding \cup {"down", "loadTD", "run"}
    /\ pc[Main] # "run" => mutex = Main /\ \A w \in Worker : pc[w] = "idle"
    /\ pc[Main] \in Adding => blk[Main] = Genesis
    /\ pc[Main] \in {"addBlock", "addLast", "loadTD", "run"} => currentBlock \in Block
    /\ pc[Main] = "run" => TD = tdKey
    /\ \A w \in Worker : pc[w] # "idle" => blk[w] \in Block

(* The state and the info of a block are stored before the steps of Add    *)
(* that make the block visible.                                            *)
DurableInv ==
    /\ StoredStateIsDurable
    /\ genesisBlock = Genesis => Genesis \in synced
    /\ \A t \in Thread : pc[t] \in Adding => blk[t] \in synced
    /\ \A t \in Thread : pc[t] \in {"addCurrent", "addBlock"} => info[blk[t]] # 0

IInv ==
    /\ TypeOK
    /\ ControlInv
    /\ ProcessingIsExclusive
    /\ NeverProcessedTwice
    /\ DurableInv

(* The inductive invariant of a node that never resets its chain: what     *)
(* each step of Add finds done by the steps before it.                     *)
ChainRest ==
    /\ lastBlockKey \in blocks \cup {NoBlock}
    /\ \A w \in Worker : /\ pc[w] \notin Resetting
                         /\ pc[w] \in Locked => PrevHash[blk[w]] \in blocks
    /\ \A t \in Thread : pc[t] \in {"addLast", "announce"} => blk[t] \in blocks
    /\ \A t \in Thread : pc[t] \in {"addBlock", "addLast"} => blk[t] = currentBlock
    /\ \A w \in Worker : pc[w] = "announce" => blk[w] \in synced
    /\ pc[Main] = "loadTD" => currentBlock = lastBlockKey

ChainInv == ParentsAreStored /\ AnnouncedIsDurable /\ RestartKeepsHead /\ ChainRest

(* What FindCanonicalChain changes, for a common block c.                  *)
Chooses(w, c) ==
    /\ pc[Main] = "run"
    /\ pc[w] = "idle"
    /\ blk' = [blk EXCEPT ![w] = c]
    /\ pc' = [pc EXCEPT ![w] = "resetStart"]
    /\ resets' = resets + 1
    /\ UNCHANGED <<store, memory, mutex, last, announced, crashes>>

(* The common block FindCanonicalChain resets to is a block: the parent of *)
(* a block of the reply, which is never the genesis block.                 *)
LEMMA CommonIsBlock ==
    ASSUME NEW w \in Worker, NEW msg \in Reply, FindCanonicalChain(w, msg)
    PROVE  \E c \in Block : Chooses(w, c)
<1>1. PICK i \in Splits(msg) : blk' = [blk EXCEPT ![w] = PrevHash[msg[i]]]
  BY DEF FindCanonicalChain
<1>2. i \in DOMAIN msg /\ msg \in Seq(Block \ {Genesis})
  BY ReplyAssumption DEF Splits
<1>3. PrevHash[msg[i]] \in Block
  BY <1>2, HeaderAssumption
<1> QED
  BY <1>1, <1>3 DEF FindCanonicalChain, Chooses, At, Goto, Running

(* Every action keeps every variable in its type.                          *)
LEMMA TypeStep == IInv /\ [Next]_vars => TypeOK'
<1> SUFFICES ASSUME IInv, [Next]_vars PROVE TypeOK'
  OBVIOUS
<1> USE HeaderAssumption, WorkerAssumption DEF Thread, At, Goto, Locked,
   Resetting, IInv, TypeOK, ControlInv, BlockOrNone, Adding
<1>1. CASE LoadLastBlock
  BY <1>1 DEF LoadLastBlock, store, memory, world
<1>2. CASE PrepareGenesis
  BY <1>2 DEF PrepareGenesis, store, memory, world
<1>3. CASE LoadTD
  BY <1>3 DEF LoadTD, store, memory, world
<1>4. CASE Crash
  BY <1>4 DEF Crash, Die, store, memory, world
<1>5. CASE \E t \in Thread : writeBlockInfo(t)
  BY <1>5 DEF writeBlockInfo, store, memory, world
<1>6. CASE \E t \in Thread : AddCurrent(t)
  BY <1>6 DEF AddCurrent, store, memory, world
<1>7. CASE \E t \in Thread : AddBlock(t)
  BY <1>7 DEF AddBlock, store, memory, world
<1>8. CASE \E t \in Thread : AddLast(t)
  BY <1>8 DEF AddLast, store, memory, world
<1>9. CASE \E w \in Worker, b \in Block : Process(w, b)
  BY <1>9 DEF Process, store, memory, world
<1>10. CASE \E w \in Worker : GetParent(w)
  BY <1>10 DEF GetParent, Panic, Die, store, memory, world
<1>11. CASE \E w \in Worker : Lock(w)
  BY <1>11 DEF Lock, Return, Unlocked, Discarded, store, memory, world
<1>12. CASE \E w \in Worker : Validate(w)
  BY <1>12 DEF Validate, Return, Panic, Die, store, memory, world
<1>13. CASE \E w \in Worker : CalculateTD(w)
  BY <1>13, BlockTDPositive DEF CalculateTD, TotalWith, Return, store,
     memory, world
<1>14. CASE \E w \in Worker : SyncState(w)
  BY <1>14 DEF SyncState, store, memory, world
<1>15. CASE \E w \in Worker : Announce(w)
  BY <1>15 DEF Announce, Return, store, memory, world
<1>16. CASE \E w \in Worker, msg \in Reply : FindCanonicalChain(w, msg)
  BY <1>16, CommonIsBlock DEF Chooses, store, memory, world
<1>17. CASE \E w \in Worker : ResetStart(w)
  BY <1>17 DEF ResetStart, store, memory, world
<1>18. CASE \E w \in Worker : ResetSet(w)
  BY <1>18 DEF ResetSet, Panic, Die, store, memory, world
<1>19. CASE \E w \in Worker : ResetDelete(w)
  BY <1>19 DEF ResetDelete, store, memory, world
<1>20. CASE UNCHANGED vars
  BY <1>20 DEF vars, store, memory, threads, world
<1> QED
  BY <1>1, <1>2, <1>3, <1>4, <1>5, <1>6, <1>7, <1>8, <1>9, <1>10, <1>11, <1>12,
     <1>13, <1>14, <1>15, <1>16, <1>17, <1>18, <1>19, <1>20 DEF SyncNext,
     Start, Add, ProcessStep, Next, ResetStep

(* Every action keeps the control invariant.                               *)
LEMMA ControlStep == IInv /\ [Next]_vars => ControlInv'
<1> SUFFICES ASSUME IInv, [Next]_vars PROVE ControlInv'
  OBVIOUS
<1> USE HeaderAssumption, WorkerAssumption DEF Thread, At, Goto, Locked,
   Resetting, IInv, TypeOK, ControlInv, ProcessingIsExclusive, BlockOrNone,
   Adding, Running
<1>1. CASE LoadLastBlock
  BY <1>1 DEF LoadLastBlock, store, memory, world
<1>2. CASE PrepareGenesis
  BY <1>2 DEF PrepareGenesis, store, memory, world
<1>3. CASE LoadTD
  BY <1>3 DEF LoadTD, store, memory, world
<1>4. CASE Crash
  BY <1>4 DEF Crash, Die, store, memory, world
<1>5. CASE \E t \in Thread : writeBlockInfo(t)
  BY <1>5 DEF writeBlockInfo, store, memory, world
<1>6. CASE \E t \in Thread : AddCurrent(t)
  BY <1>6 DEF AddCurrent, store, memory, world
<1>7. CASE \E t \in Thread : AddBlock(t)
  BY <1>7 DEF AddBlock, store, memory, world
<1>8. CASE \E t \in Thread : AddLast(t)
  BY <1>8 DEF AddLast, store, memory, world
<1>9. CASE \E w \in Worker, b \in Block : Process(w, b)
  BY <1>9 DEF Process, store, memory, world
<1>10. CASE \E w \in Worker : GetParent(w)
  BY <1>10 DEF GetParent, Panic, Die, store, memory, world
<1>11. CASE \E w \in Worker : Lock(w)
  BY <1>11 DEF Lock, Return, Unlocked, Discarded, store, memory, world
<1>12. CASE \E w \in Worker : Validate(w)
  BY <1>12 DEF Validate, Return, Panic, Die, store, memory, world
<1>13. CASE \E w \in Worker : CalculateTD(w)
  BY <1>13, BlockTDPositive DEF CalculateTD, TotalWith, Return, store,
     memory, world
<1>14. CASE \E w \in Worker : SyncState(w)
  BY <1>14 DEF SyncState, store, memory, world
<1>15. CASE \E w \in Worker : Announce(w)
  BY <1>15 DEF Announce, Return, store, memory, world
<1>16. CASE \E w \in Worker, msg \in Reply : FindCanonicalChain(w, msg)
  BY <1>16, CommonIsBlock DEF Chooses, store, memory, world
<1>17. CASE \E w \in Worker : ResetStart(w)
  BY <1>17 DEF ResetStart, store, memory, world
<1>18. CASE \E w \in Worker : ResetSet(w)
  BY <1>18 DEF ResetSet, Panic, Die, store, memory, world
<1>19. CASE \E w \in Worker : ResetDelete(w)
  BY <1>19 DEF ResetDelete, store, memory, world
<1>20. CASE UNCHANGED vars
  BY <1>20 DEF vars, store, memory, threads, world
<1> QED
  BY <1>1, <1>2, <1>3, <1>4, <1>5, <1>6, <1>7, <1>8, <1>9, <1>10, <1>11, <1>12,
     <1>13, <1>14, <1>15, <1>16, <1>17, <1>18, <1>19, <1>20 DEF SyncNext,
     Start, Add, ProcessStep, Next, ResetStep

(* Only Lock takes the mutex, when nobody holds it.                        *)
LEMMA ExclusiveStep == IInv /\ [Next]_vars => ProcessingIsExclusive'
<1> SUFFICES ASSUME IInv, [Next]_vars PROVE ProcessingIsExclusive'
  OBVIOUS
<1> USE HeaderAssumption, WorkerAssumption DEF Thread, At, Goto, Locked,
   Resetting, IInv, TypeOK, ControlInv, ProcessingIsExclusive, BlockOrNone,
   Adding, Running
<1>1. CASE LoadLastBlock
  BY <1>1 DEF LoadLastBlock, store, memory, world
<1>2. CASE PrepareGenesis
  BY <1>2 DEF PrepareGenesis, store, memory, world
<1>3. CASE LoadTD
  BY <1>3 DEF LoadTD, store, memory, world
<1>4. CASE Crash
  BY <1>4 DEF Crash, Die, store, memory, world
<1>5. CASE \E t \in Thread : writeBlockInfo(t)
  BY <1>5 DEF writeBlockInfo, store, memory, world
<1>6. CASE \E t \in Thread : AddCurrent(t)
  BY <1>6 DEF AddCurrent, store, memory, world
<1>7. CASE \E t \in Thread : AddBlock(t)
  BY <1>7 DEF AddBlock, store, memory, world
<1>8. CASE \E t \in Thread : AddLast(t)
  BY <1>8 DEF AddLast, store, memory, world
<1>9. CASE \E w \in Worker, b \in Block : Process(w, b)
  BY <1>9 DEF Process, store, memory, world
<1>10. CASE \E w \in Worker : GetParent(w)
  BY <1>10 DEF GetParent, Panic, Die, store, memory, world
<1>11. CASE \E w \in Worker : Lock(w)
  BY <1>11 DEF Lock, Return, Unlocked, Discarded, store, memory, world
<1>12. CASE \E w \in Worker : Validate(w)
  BY <1>12 DEF Validate, Return, Panic, Die, store, memory, world
<1>13. CASE \E w \in Worker : CalculateTD(w)
  BY <1>13 DEF CalculateTD, TotalWith, Return, store, memory, world
<1>14. CASE \E w \in Worker : SyncState(w)
  BY <1>14 DEF SyncState, store, memory, world
<1>15. CASE \E w \in Worker : Announce(w)
  BY <1>15 DEF Announce, Return, store, memory, world
<1>16. CASE \E w \in Worker, msg \in Reply : FindCanonicalChain(w, msg)
  BY <1>16, CommonIsBlock DEF Chooses, store, memory, world
<1>17. CASE \E w \in Worker : ResetStart(w)
  BY <1>17 DEF ResetStart, store, memory, world
<1>18. CASE \E w \in Worker : ResetSet(w)
  BY <1>18 DEF ResetSet, Panic, Die, store, memory, world
<1>19. CASE \E w \in Worker : ResetDelete(w)
  BY <1>19 DEF ResetDelete, store, memory, world
<1>20. CASE UNCHANGED vars
  BY <1>20 DEF vars, store, memory, threads, world
<1> QED
  BY <1>1, <1>2, <1>3, <1>4, <1>5, <1>6, <1>7, <1>8, <1>9, <1>10, <1>11, <1>12,
     <1>13, <1>14, <1>15, <1>16, <1>17, <1>18, <1>19, <1>20 DEF SyncNext,
     Start, Add, ProcessStep, Next, ResetStep

(* Only the holder of the mutex stores a block.                            *)
LEMMA TwiceStep == IInv /\ [Next]_vars => NeverProcessedTwice'
<1> SUFFICES ASSUME IInv, [Next]_vars PROVE NeverProcessedTwice'
  OBVIOUS
<1> USE HeaderAssumption, WorkerAssumption DEF Thread, At, Goto, Locked,
   Resetting, IInv, TypeOK, ControlInv, ProcessingIsExclusive,
   NeverProcessedTwice, BlockOrNone, Adding, Running
<1>1. CASE LoadLastBlock
  BY <1>1 DEF LoadLastBlock, store, memory, world
<1>2. CASE PrepareGenesis
  BY <1>2 DEF PrepareGenesis, store, memory, world
<1>3. CASE LoadTD
  BY <1>3 DEF LoadTD, store, memory, world
<1>4. CASE Crash
  BY <1>4 DEF Crash, Die, store, memory, world
<1>5. CASE \E t \in Thread : writeBlockInfo(t)
  BY <1>5 DEF writeBlockInfo, store, memory, world
<1>6. CASE \E t \in Thread : AddCurrent(t)
  BY <1>6 DEF AddCurrent, store, memory, world
<1>7. CASE \E t \in Thread : AddBlock(t)
  BY <1>7 DEF AddBlock, store, memory, world
<1>8. CASE \E t \in Thread : AddLast(t)
  BY <1>8 DEF AddLast, store, memory, world
<1>9. CASE \E w \in Worker, b \in Block : Process(w, b)
  BY <1>9 DEF Process, store, memory, world
<1>10. CASE \E w \in Worker : GetParent(w)
  BY <1>10 DEF GetParent, Panic, Die, store, memory, world
<1>11. CASE \E w \in Worker : Lock(w)
  BY <1>11 DEF Lock, Return, Unlocked, Discarded, store, memory, world
<1>12. CASE \E w \in Worker : Validate(w)
  BY <1>12 DEF Validate, Return, Panic, Die, store, memory, world
<1>13. CASE \E w \in Worker : CalculateTD(w)
  BY <1>13 DEF CalculateTD, TotalWith, Return, store, memory, world
<1>14. CASE \E w \in Worker : SyncState(w)
  BY <1>14 DEF SyncState, store, memory, world
<1>15. CASE \E w \in Worker : Announce(w)
  BY <1>15 DEF Announce, Return, store, memory, world
<1>16. CASE \E w \in Worker, msg \in Reply : FindCanonicalChain(w, msg)
  BY <1>16, CommonIsBlock DEF Chooses, store, memory, world
<1>17. CASE \E w \in Worker : ResetStart(w)
  BY <1>17 DEF ResetStart, store, memory, world
<1>18. CASE \E w \in Worker : ResetSet(w)
  BY <1>18 DEF ResetSet, Panic, Die, store, memory, world
<1>19. CASE \E w \in Worker : ResetDelete(w)
  BY <1>19 DEF ResetDelete, store, memory, world
<1>20. CASE UNCHANGED vars
  BY <1>20 DEF vars, store, memory, threads, world
<1> QED
  BY <1>1, <1>2, <1>3, <1>4, <1>5, <1>6, <1>7, <1>8, <1>9, <1>10, <1>11, <1>12,
     <1>13, <1>14, <1>15, <1>16, <1>17, <1>18, <1>19, <1>20 DEF SyncNext,
     Start, Add, ProcessStep, Next, ResetStep

(* A block's state and info are written before it becomes visible.         *)
LEMMA DurableStep == IInv /\ [Next]_vars => DurableInv'
<1> SUFFICES ASSUME IInv, [Next]_vars PROVE DurableInv'
  OBVIOUS
<1> USE HeaderAssumption, WorkerAssumption DEF Thread, At, Goto, Locked,
   Resetting, IInv, TypeOK, ControlInv, ProcessingIsExclusive, DurableInv,
   StoredStateIsDurable, BlockOrNone, Adding, Running
<1>1. CASE LoadLastBlock
  BY <1>1 DEF LoadLastBlock, store, memory, world
<1>2. CASE PrepareGenesis
  BY <1>2 DEF PrepareGenesis, store, memory, world
<1>3. CASE LoadTD
  BY <1>3 DEF LoadTD, store, memory, world
<1>4. CASE Crash
  BY <1>4 DEF Crash, Die, store, memory, world
<1>5. CASE \E t \in Thread : writeBlockInfo(t)
  BY <1>5 DEF writeBlockInfo, store, memory, world
<1>6. CASE \E t \in Thread : AddCurrent(t)
  BY <1>6 DEF AddCurrent, store, memory, world
<1>7. CASE \E t \in Thread : AddBlock(t)
  BY <1>7 DEF AddBlock, store, memory, world
<1>8. CASE \E t \in Thread : AddLast(t)
  BY <1>8 DEF AddLast, store, memory, world
<1>9. CASE \E w \in Worker, b \in Block : Process(w, b)
  BY <1>9 DEF Process, store, memory, world
<1>10. CASE \E w \in Worker : GetParent(w)
  BY <1>10 DEF GetParent, Panic, Die, store, memory, world
<1>11. CASE \E w \in Worker : Lock(w)
  BY <1>11 DEF Lock, Return, Unlocked, Discarded, store, memory, world
<1>12. CASE \E w \in Worker : Validate(w)
  BY <1>12 DEF Validate, Return, Panic, Die, store, memory, world
<1>13. CASE \E w \in Worker : CalculateTD(w)
  BY <1>13 DEF CalculateTD, TotalWith, Return, store, memory, world
<1>14. CASE \E w \in Worker : SyncState(w)
  BY <1>14 DEF SyncState, store, memory, world
<1>15. CASE \E w \in Worker : Announce(w)
  BY <1>15 DEF Announce, Return, store, memory, world
<1>16. CASE \E w \in Worker, msg \in Reply : FindCanonicalChain(w, msg)
  BY <1>16, CommonIsBlock DEF Chooses, store, memory, world
<1>17. CASE \E w \in Worker : ResetStart(w)
  BY <1>17 DEF ResetStart, store, memory, world
<1>18. CASE \E w \in Worker : ResetSet(w)
  BY <1>18 DEF ResetSet, Panic, Die, store, memory, world
<1>19. CASE \E w \in Worker : ResetDelete(w)
  BY <1>19 DEF ResetDelete, store, memory, world
<1>20. CASE UNCHANGED vars
  BY <1>20 DEF vars, store, memory, threads, world
<1> QED
  BY <1>1, <1>2, <1>3, <1>4, <1>5, <1>6, <1>7, <1>8, <1>9, <1>10, <1>11, <1>12,
     <1>13, <1>14, <1>15, <1>16, <1>17, <1>18, <1>19, <1>20 DEF SyncNext,
     Start, Add, ProcessStep, Next, ResetStep

(* ProcessBlock stores a block only under a parent that is stored.         *)
LEMMA ParentStep == IInv /\ ChainInv /\ [SyncNext]_vars => ParentsAreStored'
<1> SUFFICES ASSUME IInv, ChainInv, [SyncNext]_vars PROVE ParentsAreStored'
  OBVIOUS
<1> USE HeaderAssumption, WorkerAssumption DEF Thread, At, Goto, Locked,
   Resetting, IInv, TypeOK, ControlInv, ProcessingIsExclusive, ChainInv,
   ParentsAreStored, ChainRest, BlockOrNone, Adding, Running
<1>1. CASE LoadLastBlock
  BY <1>1 DEF LoadLastBlock, store, memory, world
<1>2. CASE PrepareGenesis
  BY <1>2 DEF PrepareGenesis, store, memory, world
<1>3. CASE LoadTD
  BY <1>3 DEF LoadTD, store, memory, world
<1>4. CASE Crash
  BY <1>4 DEF Crash, Die, store, memory, world
<1>5. CASE \E t \in Thread : writeBlockInfo(t)
  BY <1>5 DEF writeBlockInfo, store, memory, world
<1>6. CASE \E t \in Thread : AddCurrent(t)
  BY <1>6 DEF AddCurrent, store, memory, world
<1>7. CASE \E t \in Thread : AddBlock(t)
  BY <1>7 DEF AddBlock, store, memory, world
<1>8. CASE \E t \in Thread : AddLast(t)
  BY <1>8 DEF AddLast, store, memory, world
<1>9. CASE \E w \in Worker, b \in Block : Process(w, b)
  BY <1>9 DEF Process, store, memory, world
<1>10. CASE \E w \in Worker : GetParent(w)
  BY <1>10 DEF GetParent, Panic, Die, store, memory, world
<1>11. CASE \E w \in Worker : Lock(w)
  BY <1>11 DEF Lock, Return, Unlocked, Discarded, store, memory, world
<1>12. CASE \E w \in Worker : Validate(w)
  BY <1>12 DEF Validate, Return, Panic, Die, store, memory, world
<1>13. CASE \E w \in Worker : CalculateTD(w)
  BY <1>13 DEF CalculateTD, TotalWith, Return, store, memory, world
<1>14. CASE \E w \in Worker : SyncState(w)
  BY <1>14 DEF SyncState, store, memory, world
<1>15. CASE \E w \in Worker : Announce(w)
  BY <1>15 DEF Announce, Return, store, memory, world
<1>16. CASE UNCHANGED vars
  BY <1>16 DEF vars, store, memory, threads, world
<1> QED
  BY <1>1, <1>2, <1>3, <1>4, <1>5, <1>6, <1>7, <1>8, <1>9, <1>10, <1>11, <1>12,
     <1>13, <1>14, <1>15, <1>16 DEF SyncNext, Start, Add, ProcessStep

(* A block is announced after Add, and nothing is deleted.                 *)
LEMMA AnnouncedStep == IInv /\ ChainInv /\ [SyncNext]_vars =>
   AnnouncedIsDurable'
<1> SUFFICES ASSUME IInv, ChainInv, [SyncNext]_vars PROVE AnnouncedIsDurable'
  OBVIOUS
<1> USE HeaderAssumption, WorkerAssumption DEF Thread, At, Goto, Locked,
   Resetting, IInv, TypeOK, ControlInv, ProcessingIsExclusive, ChainInv,
   AnnouncedIsDurable, DurableInv, StoredStateIsDurable, ChainRest,
   BlockOrNone, Adding, Running
<1>1. CASE LoadLastBlock
  BY <1>1 DEF LoadLastBlock, store, memory, world
<1>2. CASE PrepareGenesis
  BY <1>2 DEF PrepareGenesis, store, memory, world
<1>3. CASE LoadTD
  BY <1>3 DEF LoadTD, store, memory, world
<1>4. CASE Crash
  BY <1>4 DEF Crash, Die, store, memory, world
<1>5. CASE \E t \in Thread : writeBlockInfo(t)
  BY <1>5 DEF writeBlockInfo, store, memory, world
<1>6. CASE \E t \in Thread : AddCurrent(t)
  BY <1>6 DEF AddCurrent, store, memory, world
<1>7. CASE \E t \in Thread : AddBlock(t)
  BY <1>7 DEF AddBlock, store, memory, world
<1>8. CASE \E t \in Thread : AddLast(t)
  BY <1>8 DEF AddLast, store, memory, world
<1>9. CASE \E w \in Worker, b \in Block : Process(w, b)
  BY <1>9 DEF Process, store, memory, world
<1>10. CASE \E w \in Worker : GetParent(w)
  BY <1>10 DEF GetParent, Panic, Die, store, memory, world
<1>11. CASE \E w \in Worker : Lock(w)
  BY <1>11 DEF Lock, Return, Unlocked, Discarded, store, memory, world
<1>12. CASE \E w \in Worker : Validate(w)
  BY <1>12 DEF Validate, Return, Panic, Die, store, memory, world
<1>13. CASE \E w \in Worker : CalculateTD(w)
  BY <1>13 DEF CalculateTD, TotalWith, Return, store, memory, world
<1>14. CASE \E w \in Worker : SyncState(w)
  BY <1>14 DEF SyncState, store, memory, world
<1>15. CASE \E w \in Worker : Announce(w)
  BY <1>15 DEF Announce, Return, store, memory, world
<1>16. CASE UNCHANGED vars
  BY <1>16 DEF vars, store, memory, threads, world
<1> QED
  BY <1>1, <1>2, <1>3, <1>4, <1>5, <1>6, <1>7, <1>8, <1>9, <1>10, <1>11, <1>12,
     <1>13, <1>14, <1>15, <1>16 DEF SyncNext, Start, Add, ProcessStep

(* "LastBlock" follows the current block at the end of Add.                *)
LEMMA HeadStep == IInv /\ ChainInv /\ [SyncNext]_vars => RestartKeepsHead'
<1> SUFFICES ASSUME IInv, ChainInv, [SyncNext]_vars PROVE RestartKeepsHead'
  OBVIOUS
<1> USE HeaderAssumption, WorkerAssumption DEF Thread, At, Goto, Locked,
   Resetting, IInv, TypeOK, ControlInv, ProcessingIsExclusive, ChainInv,
   RestartKeepsHead, DurableInv, StoredStateIsDurable, ChainRest, BlockOrNone,
   Adding, Running
<1>1. CASE LoadLastBlock
  BY <1>1 DEF LoadLastBlock, store, memory, world
<1>2. CASE PrepareGenesis
  BY <1>2 DEF PrepareGenesis, store, memory, world
<1>3. CASE LoadTD
  BY <1>3 DEF LoadTD, store, memory, world
<1>4. CASE Crash
  BY <1>4 DEF Crash, Die, store, memory, world
<1>5. CASE \E t \in Thread : writeBlockInfo(t)
  BY <1>5 DEF writeBlockInfo, store, memory, world
<1>6. CASE \E t \in Thread : AddCurrent(t)
  BY <1>6 DEF AddCurrent, store, memory, world
<1>7. CASE \E t \in Thread : AddBlock(t)
  BY <1>7 DEF AddBlock, store, memory, world
<1>8. CASE \E t \in Thread : AddLast(t)
  BY <1>8 DEF AddLast, store, memory, world
<1>9. CASE \E w \in Worker, b \in Block : Process(w, b)
  BY <1>9 DEF Process, store, memory, world
<1>10. CASE \E w \in Worker : GetParent(w)
  BY <1>10 DEF GetParent, Panic, Die, store, memory, world
<1>11. CASE \E w \in Worker : Lock(w)
  BY <1>11 DEF Lock, Return, Unlocked, Discarded, store, memory, world
<1>12. CASE \E w \in Worker : Validate(w)
  BY <1>12 DEF Validate, Return, Panic, Die, store, memory, world
<1>13. CASE \E w \in Worker : CalculateTD(w)
  BY <1>13 DEF CalculateTD, TotalWith, Return, store, memory, world
<1>14. CASE \E w \in Worker : SyncState(w)
  BY <1>14 DEF SyncState, store, memory, world
<1>15. CASE \E w \in Worker : Announce(w)
  BY <1>15 DEF Announce, Return, store, memory, world
<1>16. CASE UNCHANGED vars
  BY <1>16 DEF vars, store, memory, threads, world
<1> QED
  BY <1>1, <1>2, <1>3, <1>4, <1>5, <1>6, <1>7, <1>8, <1>9, <1>10, <1>11, <1>12,
     <1>13, <1>14, <1>15, <1>16 DEF SyncNext, Start, Add, ProcessStep

(* The remaining parts of the invariant.                                   *)
LEMMA RestStep == IInv /\ ChainInv /\ [SyncNext]_vars => ChainRest'
<1> SUFFICES ASSUME IInv, ChainInv, [SyncNext]_vars PROVE ChainRest'
  OBVIOUS
<1> USE HeaderAssumption, WorkerAssumption DEF Thread, At, Goto, Locked,
   Resetting, IInv, TypeOK, ControlInv, ProcessingIsExclusive, ChainInv,
   ChainRest, DurableInv, StoredStateIsDurable, ParentsAreStored, BlockOrNone,
   Adding, Running
<1>1. CASE LoadLastBlock
  BY <1>1 DEF LoadLastBlock, store, memory, world
<1>2. CASE PrepareGenesis
  BY <1>2 DEF PrepareGenesis, store, memory, world
<1>3. CASE LoadTD
  BY <1>3 DEF LoadTD, store, memory, world
<1>4. CASE Crash
  BY <1>4 DEF Crash, Die, store, memory, world
<1>5. CASE \E t \in Thread : writeBlockInfo(t)
  BY <1>5 DEF writeBlockInfo, store, memory, world
<1>6. CASE \E t \in Thread : AddCurrent(t)
  BY <1>6 DEF AddCurrent, store, memory, world
<1>7. CASE \E t \in Thread : AddBlock(t)
  BY <1>7 DEF AddBlock, store, memory, world
<1>8. CASE \E t \in Thread : AddLast(t)
  BY <1>8 DEF AddLast, store, memory, world
<1>9. CASE \E w \in Worker, b \in Block : Process(w, b)
  BY <1>9 DEF Process, store, memory, world
<1>10. CASE \E w \in Worker : GetParent(w)
  BY <1>10 DEF GetParent, Panic, Die, store, memory, world
<1>11. CASE \E w \in Worker : Lock(w)
  BY <1>11 DEF Lock, Return, Unlocked, Discarded, store, memory, world
<1>12. CASE \E w \in Worker : Validate(w)
  BY <1>12 DEF Validate, Return, Panic, Die, store, memory, world
<1>13. CASE \E w \in Worker : CalculateTD(w)
  BY <1>13 DEF CalculateTD, TotalWith, Return, store, memory, world
<1>14. CASE \E w \in Worker : SyncState(w)
  BY <1>14 DEF SyncState, store, memory, world
<1>15. CASE \E w \in Worker : Announce(w)
  BY <1>15 DEF Announce, Return, store, memory, world
<1>16. CASE UNCHANGED vars
  BY <1>16 DEF vars, store, memory, threads, world
<1> QED
  BY <1>1, <1>2, <1>3, <1>4, <1>5, <1>6, <1>7, <1>8, <1>9, <1>10, <1>11, <1>12,
     <1>13, <1>14, <1>15, <1>16 DEF SyncNext, Start, Add, ProcessStep

(* The initial state satisfies both invariants.                            *)
LEMMA InitInv == Init => IInv /\ ChainInv
  BY HeaderAssumption, WorkerAssumption
  DEF Init, IInv, TypeOK, ControlInv, ProcessingIsExclusive, NeverProcessedTwice,
      DurableInv, StoredStateIsDurable, ChainInv, ChainRest, ParentsAreStored,
      AnnouncedIsDurable, RestartKeepsHead, Running, Thread, Adding, Locked,
      Resetting, BlockOrNone

(* The invariant is inductive, resets included.                            *)
LEMMA InvStep == IInv /\ [Next]_vars => IInv'
  BY TypeStep, ControlStep, ExclusiveStep, TwiceStep, DurableStep DEF IInv

(* Without resets, so is the invariant of the chain.                       *)
LEMMA ChainStep == IInv /\ ChainInv /\ [SyncNext]_vars => ChainInv'
  BY ParentStep, AnnouncedStep, HeadStep, RestStep DEF ChainInv

(* The invariant holds throughout.                                         *)
LEMMA InvHolds == Spec => []IInv
<1>1. Init => IInv
  BY InitInv
<1> QED
  BY <1>1, InvStep, PTL DEF Spec

(* Every state of the node is well typed.                                  *)
THEOREM TypeCorrect == Spec => []TypeOK
<1>1. IInv => TypeOK
  BY DEF IInv
<1> QED
  BY <1>1, InvHolds, PTL

(* At most one goroutine is inside ProcessBlock, however many peers and    *)
(* miners call Process and however often the node dies.                    *)
THEOREM MutualExclusion == Spec => []ProcessingIsExclusive
<1>1. IInv => ProcessingIsExclusive
  BY DEF IInv
<1> QED
  BY <1>1, InvHolds, PTL

(* A block that is stored, current or the one a restart begins from has    *)
(* its state and its info in the database, at every crash point.           *)
THEOREM StateDurability == Spec => []StoredStateIsDurable
<1>1. IInv => StoredStateIsDurable
  BY DEF IInv, DurableInv
<1> QED
  BY <1>1, InvHolds, PTL

(* However many peers send the same block, it is added once.               *)
THEOREM AddedOnce == Spec => []NeverProcessedTwice
<1>1. IInv => NeverProcessedTwice
  BY DEF IInv
<1> QED
  BY <1>1, InvHolds, PTL

(* The stored total changes in CalculateTD only, which adds to it.         *)
LEMMA TotalStep == IInv /\ [Next]_vars => tdKey' >= tdKey
<1> SUFFICES ASSUME IInv, [Next]_vars PROVE tdKey' >= tdKey
  OBVIOUS
<1> USE DEF IInv, TypeOK, ControlInv
<1>1. CASE \E w \in Worker : CalculateTD(w)
  <2>1. PICK w \in Worker : CalculateTD(w)
    BY <1>1
  <2>2. blk[w] \in Block /\ TD = tdKey
    BY <2>1, WorkerAssumption DEF CalculateTD, At
  <2>3. CalculateBlockTD(blk[w]) \in Nat
    BY <2>2, BlockTDPositive
  <2> QED
    BY <2>1, <2>2, <2>3 DEF CalculateTD, TotalWith
<1>2. CASE ~ \E w \in Worker : CalculateTD(w)
  <2>1. tdKey' = tdKey
    BY <1>2 DEF Next, SyncNext, Start, Add, ProcessStep, ResetStep,
       LoadLastBlock, PrepareGenesis, LoadTD, Crash, Die, Panic, writeBlockInfo,
       AddCurrent, AddBlock, AddLast, Process, GetParent, Lock, Validate,
       SyncState, Announce, FindCanonicalChain, ResetStart, ResetSet,
       ResetDelete, vars, store
  <2> QED
    BY <2>1
<1> QED
  BY <1>1, <1>2

(* Neither a crash nor a restart nor a reset lowers the stored total, and  *)
(* a running node has it in memory.                                        *)
THEOREM TotalMonotone == Spec => TotalNeverFalls
<1>1. IInv /\ IInv' /\ [Next]_vars => [tdKey' >= tdKey /\ (Running' => TD' = tdKey')]_vars
  BY TotalStep DEF IInv, ControlInv, Running
<1> QED
  BY <1>1, InvHolds, PTL DEF Spec, TotalNeverFalls

(* CalculateTD has counted the block, AddBlock is still to store it.       *)
Counted == {"sync", "addInfo", "addCurrent", "addBlock"}

(* The total covers the block that is on its way to the store as well.     *)
CoverInv ==
    /\ IsFiniteSet(blocks)
    /\ tdKey >= Total(blocks \ {Genesis})
    /\ \A w \in Worker :
          pc[w] \in Counted => tdKey >= Total((blocks \cup {blk[w]}) \ {Genesis})

(* At first the database is empty.                                         *)
LEMMA CoverInit == Init => CoverInv
<1> SUFFICES ASSUME Init
             PROVE  CoverInv
  OBVIOUS
<1>1. blocks \ {Genesis} = {} /\ IsFiniteSet({}) /\ IsFiniteSet(blocks) /\ tdKey = 0
  BY FS_EmptySet DEF Init
<1>2. Total({}) = 0
  <2>1. PICK g : IsSum(BlockTD, {}, g) /\ Total({}) = g[{}]
    BY <1>1, TotalIsSum
  <2> QED
    BY <2>1, SumEquation
<1>3. \A w \in Worker : pc[w] = "idle"
  BY WorkerAssumption DEF Init, Thread
<1> QED
  BY <1>1, <1>2, <1>3 DEF CoverInv, Counted

(* The blocks and the total stay: nothing that is counted may be new.      *)
LEMMA CoverKept ==
  ASSUME CoverInv, UNCHANGED <<blocks, tdKey>>,
         \A w \in Worker : pc'[w] \in Counted => pc[w] \in Counted /\ blk'[w] = blk[w]
  PROVE  CoverInv'
BY DEF CoverInv, Total

(* CalculateTD counts a block, and nobody else is inside ProcessBlock.     *)
LEMMA CoverTD ==
  ASSUME IInv, CoverInv, NEW w \in Worker, CalculateTD(w)
  PROVE  CoverInv'
<1> DEFINE b == blk[w]
           S == blocks \ {Genesis}
<1>1. /\ b \in Block /\ b \notin blocks /\ TD = tdKey /\ tdKey \in Nat
      /\ blocks \in SUBSET Block /\ pc[Main] = "run"
  BY WorkerAssumption DEF CalculateTD, At, IInv, TypeOK, ControlInv, NeverProcessedTwice
<1>2. S \in SUBSET Block /\ IsFiniteSet(S) /\ tdKey >= Total(S)
  BY <1>1, FS_RemoveElement DEF CoverInv
<1>3. CalculateBlockTD(b) \in Nat \ {0} /\ Total(S) \in Nat
  BY <1>1, <1>2, BlockTDPositive, TotalGrows
<1>4. tdKey' = tdKey + CalculateBlockTD(b)
  BY <1>1, <1>3 DEF CalculateTD, TotalWith
<1>5. tdKey' >= Total(S)
  BY <1>1, <1>2, <1>3, <1>4
<1>6. tdKey' >= Total((blocks \cup {b}) \ {Genesis})
  <2>1. CASE b = Genesis
    <3>1. (blocks \cup {b}) \ {Genesis} = S
      BY <2>1
    <3> QED
      BY <1>5, <3>1
  <2>2. CASE b # Genesis
    <3>1. (blocks \cup {b}) \ {Genesis} = S \cup {b} /\ b \in Block \ S
      BY <1>1, <2>2
    <3>2. Total(S \cup {b}) = Total(S) + CalculateBlockTD(b)
      BY <1>2, <3>1, TotalGrows
    <3> QED
      BY <1>1, <1>2, <1>3, <1>4, <3>1, <3>2
  <2> QED
    BY <2>1, <2>2
<1>7. \A v \in Worker : pc'[v] \in Counted => v = w
  <2>1. \A v \in Worker : v # w => pc[v] \notin Counted
    BY DEF CalculateTD, At, IInv, ProcessingIsExclusive, Counted, Locked
  <2> QED
    BY <2>1 DEF CalculateTD, Goto, Return, IInv, TypeOK, Thread
<1>8. blocks' = blocks /\ (pc'[w] \in Counted => blk'[w] = b)
  BY <1>3, <1>4, <1>1 DEF CalculateTD, TotalWith
<1> QED
  BY <1>5, <1>6, <1>7, <1>8 DEF CoverInv, Total

(* AddBlock stores a block that is counted, or the genesis block.          *)
LEMMA CoverAdd ==
  ASSUME IInv, CoverInv, NEW t \in Thread, AddBlock(t)
  PROVE  CoverInv'
<1>1. blocks' = blocks \cup {blk[t]} /\ tdKey' = tdKey /\ IsFiniteSet(blocks')
  BY FS_AddElement DEF AddBlock, CoverInv
<1>2. tdKey >= Total((blocks \cup {blk[t]}) \ {Genesis})
  <2>1. CASE t = Main
    <3>1. blk[t] = Genesis
      BY <2>1 DEF IInv, ControlInv, AddBlock, At, Adding
    <3>2. (blocks \cup {blk[t]}) \ {Genesis} = blocks \ {Genesis}
      BY <3>1
    <3> QED
      BY <3>2 DEF CoverInv
  <2>2. CASE t # Main
    BY <2>2 DEF CoverInv, AddBlock, At, Counted, Thread
  <2> QED
    BY <2>1, <2>2
<1>3. \A w \in Worker : pc'[w] \notin Counted
  <2>1. \A w \in Worker : w # t => pc[w] \notin Counted
    BY WorkerAssumption DEF AddBlock, At, IInv, ControlInv, ProcessingIsExclusive, Counted, Locked, Thread
  <2> QED
    BY <2>1 DEF AddBlock, Goto, IInv, TypeOK, Thread, Counted
<1> QED
  BY <1>1, <1>2, <1>3 DEF CoverInv, Total

(* ResetTillBlockHash deletes a block; if another goroutine is inside      *)
(* ProcessBlock its block stays counted.                                   *)
LEMMA CoverDelete ==
  ASSUME IInv, CoverInv, NEW w \in Worker, ResetDelete(w)
  PROVE  CoverInv'
<1> DEFINE x == last[w]
<1>1. /\ blocks' = blocks \ {x} /\ tdKey' = tdKey /\ tdKey \in Nat
      /\ IsFiniteSet(blocks') /\ blocks \in SUBSET Block
  BY FS_RemoveElement DEF ResetDelete, CoverInv, IInv, TypeOK
<1>2. ASSUME NEW S \in SUBSET Block, IsFiniteSet(S), tdKey >= Total(S)
      PROVE  tdKey >= Total(S \ {x})
  <2>1. IsFiniteSet(S \ {x}) /\ S \ {x} \in SUBSET Block
    BY <1>2, FS_RemoveElement
  <2>2. Total(S \ {x}) <= Total(S) /\ Total(S) \in Nat /\ Total(S \ {x}) \in Nat
    BY <1>2, <2>1, TotalShrinks, TotalGrows
  <2> QED
    BY <1>1, <1>2, <2>2
<1>3. tdKey >= Total(blocks' \ {Genesis})
  <2>1. (blocks \ {Genesis}) \ {x} = blocks' \ {Genesis}
    BY <1>1
  <2>2. IsFiniteSet(blocks \ {Genesis})
    BY FS_RemoveElement DEF CoverInv
  <2> QED
    BY <1>1, <1>2, <2>1, <2>2 DEF CoverInv
<1>4. ASSUME NEW v \in Worker, pc'[v] \in Counted
      PROVE  tdKey >= Total((blocks' \cup {blk'[v]}) \ {Genesis})
  <2>1. pc[v] \in Counted /\ blk'[v] = blk[v] /\ blk[v] \in Block
    BY <1>4 DEF ResetDelete, Goto, IInv, TypeOK, ControlInv, Thread, Counted
  <2> DEFINE S == (blocks \cup {blk[v]}) \ {Genesis}
  <2>2. S \in SUBSET Block /\ IsFiniteSet(S) /\ tdKey >= Total(S)
    BY <1>1, <2>1, FS_AddElement, FS_RemoveElement DEF CoverInv
  <2>3. CASE x = blk[v]
    <3>1. (blocks' \cup {blk[v]}) \ {Genesis} = S
      BY <1>1, <2>3
    <3> QED
      BY <2>1, <2>2, <3>1
  <2>4. CASE x # blk[v]
    <3>1. (blocks' \cup {blk[v]}) \ {Genesis} = S \ {x}
      BY <1>1, <2>4
    <3> QED
      BY <1>2, <2>1, <2>2, <3>1
  <2> QED
    BY <2>3, <2>4
<1> QED
  BY <1>1, <1>3, <1>4 DEF CoverInv, Total

(* No other step changes the blocks or the total, or counts a block.       *)
LEMMA CoverStep == IInv /\ CoverInv /\ [Next]_vars => CoverInv'
<1> SUFFICES ASSUME IInv, CoverInv, [Next]_vars PROVE CoverInv'
  OBVIOUS
<1> USE HeaderAssumption, WorkerAssumption DEF Thread, At, Goto, Locked,
   Resetting, IInv, TypeOK, ControlInv, BlockOrNone, Adding, Counted
<1>1. CASE LoadLastBlock
  BY <1>1, CoverKept DEF LoadLastBlock, store, memory, world
<1>2. CASE PrepareGenesis
  BY <1>2, CoverKept DEF PrepareGenesis, store, memory, world
<1>3. CASE LoadTD
  BY <1>3, CoverKept DEF LoadTD, store, memory, world
<1>4. CASE Crash
  BY <1>4, CoverKept DEF Crash, Die, store, memory, world
<1>5. CASE \E t \in Thread : writeBlockInfo(t)
  BY <1>5, CoverKept DEF writeBlockInfo, store, memory, world
<1>6. CASE \E t \in Thread : AddCurrent(t)
  BY <1>6, CoverKept DEF AddCurrent, store, memory, world
<1>7. CASE \E t \in Thread : AddBlock(t)
  BY <1>7, CoverAdd
<1>8. CASE \E t \in Thread : AddLast(t)
  BY <1>8, CoverKept DEF AddLast, store, memory, world
<1>9. CASE \E w \in Worker, b \in Block : Process(w, b)
  BY <1>9, CoverKept DEF Process, store, memory, world
<1>10. CASE \E w \in Worker : GetParent(w)
  BY <1>10, CoverKept DEF GetParent, Panic, Die, store, memory, world
<1>11. CASE \E w \in Worker : Lock(w)
  BY <1>11, CoverKept DEF Lock, Return, Unlocked, Discarded, store, memory, world
<1>12. CASE \E w \in Worker : Validate(w)
  BY <1>12, CoverKept DEF Validate, Return, Panic, Die, store, memory, world
<1>13. CASE \E w \in Worker : CalculateTD(w)
  BY <1>13, CoverTD
<1>14. CASE \E w \in Worker : SyncState(w)
  BY <1>14, CoverKept DEF SyncState, store, memory, world
<1>15. CASE \E w \in Worker : Announce(w)
  BY <1>15, CoverKept DEF Announce, Return, store, memory, world
<1>16. CASE \E w \in Worker, msg \in Reply : FindCanonicalChain(w, msg)
  BY <1>16, CommonIsBlock, CoverKept DEF Chooses, store, memory, world
<1>17. CASE \E w \in Worker : ResetStart(w)
  BY <1>17, CoverKept DEF ResetStart, store, memory, world
<1>18. CASE \E w \in Worker : ResetSet(w)
  BY <1>18, CoverKept DEF ResetSet, Panic, Die, store, memory, world
<1>19. CASE \E w \in Worker : ResetDelete(w)
  BY <1>19, CoverDelete
<1>20. CASE UNCHANGED vars
  BY <1>20, CoverKept DEF vars, store, memory, threads, world
<1> QED
  BY <1>1, <1>2, <1>3, <1>4, <1>5, <1>6, <1>7, <1>8, <1>9, <1>10, <1>11, <1>12,
     <1>13, <1>14, <1>15, <1>16, <1>17, <1>18, <1>19, <1>20 DEF SyncNext,
     Start, Add, ProcessStep, Next, ResetStep

(* Whatever crashes, resets and other goroutines do, the stored total      *)
(* counts every stored block.                                              *)
THEOREM TotalCovers == Spec => []TotalCoversStore
<1>1. Init => CoverInv
  BY CoverInit
<1>2. CoverInv => TotalCoversStore
  BY DEF CoverInv, Total, TotalCoversStore
<1> QED
  BY <1>1, <1>2, CoverStep, InvHolds, PTL DEF Spec

(* Without resets both invariants hold throughout.                         *)
LEMMA SyncInvHolds == SyncSpec => [](IInv /\ ChainInv)
<1>1. Init => IInv /\ ChainInv
  BY InitInv
<1>2. IInv /\ ChainInv /\ [SyncNext]_vars => (IInv /\ ChainInv)'
  <2>1. [SyncNext]_vars => [Next]_vars
    BY DEF Next
  <2> QED
    BY <2>1, InvStep, ChainStep
<1> QED
  BY <1>1, <1>2, PTL DEF SyncSpec

(* As long as the chain is not reset, the parents of a stored block lead   *)
(* back to the genesis block, at every crash point.                        *)
THEOREM AncestryStored == SyncSpec => []ParentsAreStored
<1>1. IInv /\ ChainInv => ParentsAreStored
  BY DEF ChainInv
<1> QED
  BY <1>1, SyncInvHolds, PTL

(* A block that was broadcast is never lost.                               *)
THEOREM AnnouncedNeverLost == SyncSpec => []AnnouncedIsDurable
<1>1. IInv /\ ChainInv => AnnouncedIsDurable
  BY DEF ChainInv
<1> QED
  BY <1>1, SyncInvHolds, PTL

(* A crash loses at most the block Add is in the middle of.                *)
THEOREM HeadRecovered == SyncSpec => []RestartKeepsHead
<1>1. IInv /\ ChainInv => RestartKeepsHead
  BY DEF ChainInv
<1> QED
  BY <1>1, SyncInvHolds, PTL

(* Every step is one of the abstract chain or leaves the chain alone.      *)
LEMMA DurableChainStep ==
    IInv /\ ChainInv /\ [SyncNext]_vars => [Durable!Next]_<<blocks, lastBlockKey>>
<1> SUFFICES ASSUME IInv, ChainInv, [SyncNext]_vars
             PROVE  [Durable!Next]_<<blocks, lastBlockKey>>
  OBVIOUS
<1> USE DEF IInv, TypeOK, ControlInv, ChainInv, ChainRest, Thread
<1>1. CASE \E t \in Thread : AddBlock(t)
  <2>1. PICK t \in Thread : AddBlock(t)
    BY <1>1
  <2>2. blk[t] \in Block /\ (blk[t] = Genesis \/ PrevHash[blk[t]] \in blocks)
    BY <2>1, HeaderAssumption DEF AddBlock, At, Adding, Locked
  <2>3. blocks' = blocks \cup {blk[t]} /\ lastBlockKey' = lastBlockKey
    BY <2>1 DEF AddBlock
  <2>4. CASE blk[t] \in blocks
    BY <2>3, <2>4
  <2>5. CASE blk[t] \notin blocks
    BY <2>2, <2>3, <2>5 DEF Durable!Next, Durable!Grow
  <2> QED
    BY <2>4, <2>5
<1>2. CASE \E t \in Thread : AddLast(t)
  <2>1. PICK t \in Thread : AddLast(t)
    BY <1>2
  <2>2. blk[t] \in blocks /\ blocks' = blocks /\ lastBlockKey' = blk[t]
    BY <2>1 DEF AddLast, At
  <2> QED
    BY <2>2 DEF Durable!Next, Durable!Advance
<1>3. CASE ~ \E t \in Thread : AddBlock(t) \/ AddLast(t)
  <2>1. UNCHANGED <<blocks, lastBlockKey>>
    BY <1>3 DEF SyncNext, Start, Add, ProcessStep, LoadLastBlock,
       PrepareGenesis, LoadTD, Crash, Die, Panic, writeBlockInfo, AddCurrent,
       Process, GetParent, Lock, Validate, CalculateTD, SyncState, Announce,
       vars, store
  <2> QED
    BY <2>1
<1> QED
  BY <1>1, <1>2, <1>3

(* The database implements the abstract durable chain: crashes and         *)
(* restarts are invisible in it.                                           *)
THEOREM Refinement == SyncSpec => ImplementsDurableChain
<1>1. Init => Durable!Init
  BY DEF Init, Durable!Init
<1> QED
  BY <1>1, DurableChainStep, SyncInvHolds, PTL
  DEF SyncSpec, ImplementsDurableChain, Durable!Spec
=============================================================================
