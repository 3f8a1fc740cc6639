------------------------------- MODULE Miner -------------------------------
(***************************************************************************)
(* The miner (ethminer/miner.go), the reactor that tells it of blocks and  *)
(* transactions (ethutil/reactor.go), and the search for a nonce           *)
(* (EasyPow.Search in ethchain/dagger.go).                                 *)
(*                                                                         *)
(* Post starts a goroutine per subscriber, so events arrive in any order   *)
(* and one may wait while a later one is read.  Blocks are numbered in the *)
(* order in which they are added; a block is what it was built from.       *)
(* Transactions all come from one sender: a nonce is an account's state.   *)
(***************************************************************************)
EXTENDS Naturals, FiniteSets, SequencesExt

CONSTANTS
    Tx,
    Nonce,      \* of each transaction
    Poor,       \* those the sender cannot pay: they are listed in a block
                \* and change nothing (ApplyTransactions logs the error)
    Pooled,     \* what the pool holds when the miner is created
    MaxListed,  \* bound on the transactions of a peer's block
    MaxBlocks   \* bound on the blocks, the genesis block included

ASSUME MinerAssumption ==
    /\ \A tx \in Tx : tx \notin Nat  \* an event is of a block or of a transaction
    /\ Nonce \in [Tx -> Nat]
    /\ Poor \subseteq Tx
    /\ Pooled \in Seq(Tx) /\ IsInjective(Pooled)
    /\ MaxListed \in Nat
    /\ MaxBlocks \in Nat \ {0, 1}

VARIABLES
    blocks,       \* every block; a block is named by its index
    head,         \* CurrentBlock
    last,         \* LastBlockHash
    adding,       \* the block Add is about to store, or 0
    pool,         \* TxPool.pool
    arrived,      \* transactions seen so far: each comes in once
    reacts,       \* goroutines of Post that send to reactChan
    quits,        \* the number of those that send to powQuitChan
    reactChan, powQuitChan,    \* channels of capacity 1
    phase,        \* where the listener is
    txs, uncles,  \* fields of Miner
    block         \* the block it mines on

chain == <<blocks, head, last, adding>>
miner == <<phase, txs, uncles, block>>
vars  == <<chain, pool, arrived, reacts, quits, reactChan, powQuitChan, miner>>

Genesis == 1

NewestBlock(prev, base, list, us, nonce, own) ==
    [prev |-> prev, base |-> base, txs |-> list, uncles |-> us,
     nonce |-> nonce, own |-> own]

(* NewDefaultMiner subscribes first, then flushes the pool into the miner. *)
(* In between a first block has come in.                                   *)
Init ==
    /\ blocks = <<NewestBlock(0, 0, <<>>, {}, 0, FALSE),
                 NewestBlock(Genesis, Genesis, <<>>, {}, 0, FALSE)>>
    /\ head = 2 /\ last = 2 /\ adding = 0
    /\ pool = <<>>
    /\ arrived = ToSet(Pooled)
    /\ reacts = {head} /\ quits = 1
    /\ reactChan = <<>> /\ powQuitChan = 0
    /\ phase = "listen"
    /\ txs = Pooled
    /\ uncles = {}
    /\ block = blocks[Genesis]

-----------------------------------------------------------------------------
(* StateManager.ApplyTransactions on an account with the given nonce.      *)

ApplyTransaction(state, tx) ==
    IF Nonce[tx] # state.nonce THEN state
    ELSE [nonce |-> IF tx \in Poor THEN state.nonce ELSE state.nonce + 1,
          valid |-> Append(state.valid, tx)]

ApplyTransactions(nonce, list) ==
    FoldLeft(ApplyTransaction, [nonce |-> nonce, valid |-> <<>>], list)

(* TxByNonce: transactions of one nonce come in any order.                 *)
SortedByNonce(list) ==
    {s \in SetToSeqs(ToSet(list)) :
        \A i, j \in DOMAIN s : i < j => Nonce[s[i]] <= Nonce[s[j]]}

(* RemoveInvalid: after a removal the element has no next, the loop ends.  *)
RemoveInvalid(list, nonce) ==
    LET stale == {i \in DOMAIN list : Nonce[list[i]] <= nonce} IN
    IF stale = {} THEN list ELSE RemoveAt(list, Min(stale))

(* Mutant of PostNewBlock: newBlock was subscribed for reactChan only.     *)
PostNewBlockToListener(b) == reacts' = reacts \cup {b} /\ UNCHANGED quits

(* Reactor.Post("newBlock", b): both channels have subscribed.             *)
PostNewBlock(b) == reacts' = reacts \cup {b} /\ quits' = quits + 1

Newest == Len(blocks) + 1

(* What ProcessBlock does after Add, LastBlockHash and the store included. *)
Added(b, nonce) ==
    /\ last' = b
    /\ PostNewBlock(b)
    /\ pool' = RemoveInvalid(pool, nonce)

-----------------------------------------------------------------------------
(* The other goroutines of the node.  A peer's block may list transactions *)
(* that do not apply.  Add sets CurrentBlock before LastBlockHash.         *)

Room == Len(blocks) < MaxBlocks

Import(prev, list) ==
    /\ adding = 0
    /\ Room
    /\ blocks' = Append(blocks, NewestBlock(prev, prev, list, {},
                     ApplyTransactions(blocks[prev].nonce, list).nonce, FALSE))
    /\ head' = Newest
    /\ adding' = Newest
    /\ UNCHANGED <<last, pool, arrived, reacts, quits, reactChan, powQuitChan,
                   miner>>

ImportEnds ==
    /\ adding # 0
    /\ Added(adding, blocks[adding].nonce)
    /\ adding' = 0
    /\ UNCHANGED <<blocks, head, arrived, reactChan, powQuitChan, miner>>

(* queueHandler; the event is "newTx:pre".                                 *)
QueueTransaction(tx) ==
    /\ tx \notin arrived
    /\ arrived' = arrived \cup {tx}
    /\ pool' = Append(pool, tx)
    /\ reacts' = reacts \cup {tx}
    /\ quits' = quits + 1
    /\ UNCHANGED <<chain, reactChan, powQuitChan, miner>>

SendReact(r) ==
    /\ r \in reacts
    /\ reactChan = <<>>
    /\ reactChan' = <<r>>
    /\ reacts' = reacts \ {r}
    /\ UNCHANGED <<chain, pool, arrived, quits, powQuitChan, miner>>

(* Mutant of SendQuit: the channel was made with a capacity of two.        *)
SendQuitTwice ==
    /\ quits > 0
    /\ powQuitChan < 2
    /\ powQuitChan' = powQuitChan + 1
    /\ quits' = quits - 1
    /\ UNCHANGED <<chain, pool, arrived, reacts, reactChan, miner>>

SendQuit ==
    /\ quits > 0
    /\ powQuitChan = 0
    /\ powQuitChan' = 1
    /\ quits' = quits - 1
    /\ UNCHANGED <<chain, pool, arrived, reacts, reactChan, miner>>

-----------------------------------------------------------------------------
(* The select of listener.                                                 *)

React(r) ==
    /\ phase = "listen"
    /\ reactChan = <<r>>
    /\ reactChan' = <<>>
    /\ UNCHANGED <<chain, pool, arrived, reacts, quits, powQuitChan, phase,
                   block>>

(* The transactions of the miner that a block does not list.               *)
NotIn(listed, list) ==
    FoldLeft(LAMBDA kept, tx : IF Contains(listed, tx) THEN kept ELSE Append(kept, tx),
             <<>>, list)

(* A block that is the head by now, or a sibling of the head.              *)
ReactToBlock(b) ==
    /\ React(b)
    /\ IF b = head
       THEN /\ txs' = NotIn(blocks[b].txs, txs)
            /\ UNCHANGED uncles
       ELSE /\ uncles' = uncles \cup
                  (IF blocks[b].prev = blocks[head].prev THEN {b} ELSE {})
            /\ UNCHANGED txs

AddTransaction(tx) == txs' = IF Contains(txs, tx) THEN txs ELSE Append(txs, tx)

ReactToTransaction(tx) ==
    /\ React(tx)
    /\ AddTransaction(tx)
    /\ UNCHANGED uncles

(* mineNewBlock up to the search.  Transactions whose nonce does not fit   *)
(* are forgotten.  NewBlock takes the state of one block and the hash of   *)
(* the other where Add is between its two assignments.                     *)
MineNewBlock ==
    /\ phase = "listen"
    /\ reactChan = <<>>
    /\ \E list \in SortedByNonce(txs) :
       \E applied \in {ApplyTransactions(blocks[head].nonce, list)} :
          /\ txs' = applied.valid
          /\ block' = NewestBlock(last, head, applied.valid, uncles,
                                  applied.nonce, TRUE)
    /\ phase' = "search"
    /\ UNCHANGED <<chain, pool, arrived, reacts, quits, reactChan, powQuitChan,
                   uncles>>

-----------------------------------------------------------------------------
(* EasyPow.Search, and what mineNewBlock does with the nonce.              *)

(* The field keeps the old block, but nobody looks at it.                  *)
GiveUp == phase' = "listen" /\ block' = blocks[Genesis]

SearchBreaks ==
    /\ phase = "search"
    /\ powQuitChan = 1
    /\ powQuitChan' = 0
    /\ GiveUp
    /\ UNCHANGED <<chain, pool, arrived, reacts, quits, reactChan, txs, uncles>>

SearchFinds ==
    /\ phase = "search"
    /\ powQuitChan = 0
    /\ phase' = "found"
    /\ UNCHANGED <<chain, pool, arrived, reacts, quits, reactChan, powQuitChan,
                   txs, uncles, block>>

UnclesMatch == \A u \in block.uncles : blocks[u].prev = blocks[block.prev].prev

(* Mutant of RootMatches: the state root is not compared.                  *)
RootUnchecked == TRUE

(* block.State().Cmp(state): rewards make the states of any two blocks     *)
(* differ.                                                                 *)
RootMatches == block.base = block.prev

(* Process; it waits for the mutex that ProcessBlock holds.  CalculateTD   *)
(* adds to the chain's total, so that every valid block becomes the head.  *)
MinedAccepted ==
    /\ phase = "found"
    /\ adding = 0
    /\ Room
    /\ UnclesMatch
    /\ RootMatches
    /\ blocks' = Append(blocks, block)
    /\ head' = Newest
    /\ Added(Newest, block.nonce)
    /\ txs' = pool'
    /\ GiveUp
    /\ UNCHANGED <<adding, arrived, reactChan, powQuitChan, uncles>>

(* Refused, for uncles or root, or because the head is a peer's block with *)
(* a later time: the clocks of others are not ours.                        *)
MinedRefused ==
    /\ phase = "found"
    /\ adding = 0
    /\ ~UnclesMatch \/ ~RootMatches \/ ~blocks[head].own
    /\ GiveUp
    /\ UNCHANGED <<chain, pool, arrived, reacts, quits, reactChan, powQuitChan,
                   txs, uncles>>

-----------------------------------------------------------------------------
Search == SearchBreaks \/ SearchFinds \/ MinedAccepted \/ MinedRefused

Next ==
    \/ \E prev \in DOMAIN blocks, list \in SeqOf(Tx, MaxListed) : Import(prev, list)
    \/ ImportEnds
    \/ \E tx \in Tx : QueueTransaction(tx)
    \/ \E r \in reacts : SendReact(r)
    \/ SendQuit
    \/ \E b \in DOMAIN blocks : ReactToBlock(b)
    \/ \E tx \in Tx : ReactToTransaction(tx)
    \/ MineNewBlock
    \/ Search

(* Goroutines that can run do.  Nothing is assumed of the luck of a        *)
(* search and of the peers.                                                *)
Spec ==
    /\ Init /\ [][Next]_vars
    /\ WF_vars(ImportEnds)
    /\ WF_vars(SendQuit)
    /\ WF_vars(SearchBreaks)

-----------------------------------------------------------------------------
\* Type invariant: at most one answer waits for the search to be told to stop.
TypeOK ==
    /\ head \in DOMAIN blocks /\ last \in DOMAIN blocks
    /\ adding \in {0} \cup DOMAIN blocks
    /\ IsInjective(pool) /\ ToSet(pool) \subseteq arrived
    /\ IsInjective(txs) /\ ToSet(txs) \subseteq arrived
    /\ reacts \subseteq arrived \cup DOMAIN blocks
    /\ Len(reactChan) <= 1 /\ ToSet(reactChan) \subseteq arrived \cup DOMAIN blocks
    /\ quits \in Nat /\ powQuitChan \in 0 .. 1
    /\ phase \in {"listen", "search", "found"}
    /\ uncles \subseteq DOMAIN blocks

(* The chain executes every transaction that a block mined here lists, in  *)
(* the state the miner saw: none is listed in vain, whatever block came in *)
(* while NewBlock read the head, or between the search and Process.        *)
OwnBlocksExecute ==
    \A b \in DOMAIN blocks :
        blocks[b].own =>
            LET state == ApplyTransactions(blocks[blocks[b].prev].nonce, blocks[b].txs)
            IN  state.valid = blocks[b].txs /\ state.nonce = blocks[b].nonce

(* A search on a block that is not the head any more, or never was as the  *)
(* head changed under NewBlock, is broken off: events that were posted     *)
(* earlier and swallowed by other searches do not make it go on.           *)
StaleSearchEnds ==
    phase = "search" /\ block.prev # head ~> phase # "search" \/ block.prev = head
=============================================================================
