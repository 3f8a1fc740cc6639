------------------------------- MODULE TxPool -------------------------------
(***************************************************************************)
(* The transaction pool: ethchain/transaction_pool.go.  Transactions are   *)
(* put on a channel, one goroutine (queueHandler) takes them off, checks   *)
(* them and adds them to a linked list; the miner, the peers and the       *)
(* shutdown copy or replace the list, and the goroutine that has processed *)
(* a block walks it to drop what the block made invalid.                   *)
(*                                                                         *)
(* pool.mutex covers addTransaction and CurrentTransactions.  FindTx,      *)
(* RemoveInvalid and the second half of Flush use the list without it, so  *)
(* every loop over the list is modelled element by element.                *)
(***************************************************************************)
EXTENDS Naturals, FiniteSets, SequencesExt

CONSTANTS
    Tx,             \* transactions
    Account,        \* senders
    Hash,           \* Transaction.Hash: covers neither signature nor sender
    Sender, Nonce, Value,
    ChainState,     \* states a current block may have: nonces and amounts
    Fee,            \* TxFee * TxFeeRat
    QueueSize,      \* txPoolQueueSize
    Caller,         \* goroutines that copy or flush the pool, or stop it
    Handler,        \* the goroutine of queueHandler
    Processor,      \* the goroutine inside ProcessBlock: one at a time
    Nobody,
    MaxQueued,      \* bound on transactions handed to QueueTransaction
    MaxFlushes,     \* bound on calls of Flush
    MaxBlocks       \* bound on blocks processed

Goroutine == Caller \cup {Handler, Processor}

ASSUME TxAssumption ==
    /\ Sender \in [Tx -> Account]
    /\ Nonce \in [Tx -> Nat]
    /\ Value \in [Tx -> Nat]
    /\ ChainState \subseteq [nonce : [Account -> Nat], amount : [Account -> Nat]]
    /\ Fee \in Nat
    /\ QueueSize \in Nat \ {0}

ASSUME GoroutineAssumption ==
    /\ Handler \notin Caller /\ Processor \notin Caller /\ Handler # Processor
    /\ Nobody \notin Goroutine

ASSUME BoundAssumption ==
    MaxQueued \in Nat /\ MaxFlushes \in Nat /\ MaxBlocks \in Nat

VARIABLES
    queueChan,      \* the channel
    lists,          \* every list that was the pool; the last one is the pool
    mutex,
    quit,           \* the quit channel is closed
    pc,
    on, pos,        \* the list a goroutine loops over (0: none), its place there
    tx,             \* the transaction queueHandler works on
    room, copied,   \* txList of CurrentTransactions: its length, its contents
    head,           \* the state of the current block
    accepted,       \* history: transactions pushed, in order
    broadcast,      \* history: transactions sent to the peers
    taken,          \* history: transactions returned by Flush
    dropped,        \* history: transactions removed by RemoveInvalid
    skipped,        \* history: a removal cut queueHandler's search short
    queued, flushes, seen

loops   == <<on, pos>>
control == <<mutex, quit, pc, loops>>
history == <<accepted, broadcast, taken, dropped, skipped>>
bounds  == <<queued, flushes, seen>>
vars    == <<queueChan, lists, tx, room, copied, head, control, history, bounds>>

pool == lists[Len(lists)]

TypeOK ==
    /\ queueChan \in Seq(Tx) /\ Len(queueChan) <= QueueSize
    /\ lists \in Seq(Seq(Tx)) /\ lists # <<>>
    /\ mutex \in Caller \cup {Handler, Nobody}
    /\ quit \in BOOLEAN
    /\ pc \in [Goroutine -> {"idle", "find", "add", "send", "exit", "added", "walk",
                             "lock", "copy", "flushLock", "flushCopy", "swap"}]
    /\ on \in [Goroutine -> Nat]
    /\ pos \in [Goroutine -> Nat]
    /\ tx \in Tx \cup {Nobody}
    /\ room \in [Caller -> Nat]
    /\ copied \in [Caller -> Seq(Tx)]
    /\ head \in ChainState
    /\ accepted \in Seq(Tx)
    /\ broadcast \subseteq Tx /\ taken \subseteq Tx /\ dropped \subseteq Tx
    /\ skipped \in BOOLEAN
    /\ queued \in Nat /\ flushes \in Nat /\ seen \in Nat

At(g, label)   == pc[g] = label
Goto(g, label) == pc' = [pc EXCEPT ![g] = label]

Init ==
    /\ queueChan = <<>>
    /\ lists = << <<>> >>
    /\ mutex = Nobody
    /\ quit = FALSE
    /\ pc = [g \in Goroutine |-> "idle"]
    /\ on = [g \in Goroutine |-> 0]
    /\ pos = [g \in Goroutine |-> 0]
    /\ tx = Nobody
    /\ room = [c \in Caller |-> 0]
    /\ copied = [c \in Caller |-> <<>>]
    /\ head \in ChainState
    /\ accepted = <<>>
    /\ broadcast = {} /\ taken = {} /\ dropped = {}
    /\ skipped = FALSE
    /\ queued = 0 /\ flushes = 0 /\ seen = 0

-----------------------------------------------------------------------------
(* container/list, as the pool uses it.  A loop stands on an element and   *)
(* asks it for the next one.  An element that was removed while a loop     *)
(* stood on it has no next one, so that loop ends there.                   *)

ListFront(g) ==
    /\ on' = [on EXCEPT ![g] = Len(lists)]
    /\ pos' = [pos EXCEPT ![g] = 0]

HasNext(g)  == on[g] # 0 /\ pos[g] < Len(lists[on[g]])
NextElem(g) == lists[on[g]][pos[g] + 1]
Step(g)     == pos' = [pos EXCEPT ![g] = @ + 1] /\ UNCHANGED on

LoopEnds(g) ==
    /\ on' = [on EXCEPT ![g] = 0]
    /\ pos' = [pos EXCEPT ![g] = 0]

(* Mutants: a transaction is put first; the mutex is not waited for.       *)
PushFront(list, t) == <<t>> \o list
UnlockedAlways     == TRUE

PushBack(list, t) == Append(list, t)
Unlocked          == mutex = Nobody

StandsOn(g, k, i) == on[g] = k /\ pos[g] = i

(* Element i of list k is removed by r, whose loop ends there, as does     *)
(* every loop that stands on it; places further down move up.              *)
AfterRemove(r, k, i) ==
    /\ on' = [g \in Goroutine |-> IF g = r \/ StandsOn(g, k, i) THEN 0 ELSE on[g]]
    /\ pos' = [g \in Goroutine |->
                  IF g = r \/ StandsOn(g, k, i) THEN 0
                  ELSE IF on[g] = k /\ pos[g] > i THEN pos[g] - 1
                  ELSE pos[g]]

-----------------------------------------------------------------------------
(* Mutant of QueueTransaction: the channel has room for one more.          *)
QueueTransactionOverfull(t) ==
    /\ queued < MaxQueued
    /\ Len(queueChan) <= QueueSize
    /\ queueChan' = Append(queueChan, t)
    /\ queued' = queued + 1
    /\ UNCHANGED <<lists, tx, room, copied, head, control, history, flushes, seen>>

(* QueueTransaction blocks while the channel is full.                      *)
QueueTransaction(t) ==
    /\ queued < MaxQueued
    /\ Len(queueChan) < QueueSize
    /\ queueChan' = Append(queueChan, t)
    /\ queued' = queued + 1
    /\ UNCHANGED <<lists, tx, room, copied, head, control, history, flushes, seen>>

(* queueHandler: case tx := <-pool.queueChan                               *)
Receive ==
    /\ At(Handler, "idle")
    /\ queueChan # <<>>
    /\ tx' = Head(queueChan)
    /\ queueChan' = Tail(queueChan)
    /\ ListFront(Handler)
    /\ Goto(Handler, "find")
    /\ UNCHANGED <<lists, room, copied, head, mutex, quit, history, bounds>>

ValidateTransaction(t) == head.amount[Sender[t]] >= Value[t] + Fee

(* Mutant: two transactions are never taken for the same.                  *)
SameTxNever(t) == FALSE

SameTx(t) == Hash[t] = Hash[tx]

(* Back to the select of queueHandler.                                     *)
HandlerDone ==
    /\ tx' = Nobody
    /\ LoopEnds(Handler)
    /\ Goto(Handler, "idle")

(* One round of FindTx.  A transaction with the same hash ends it; at the  *)
(* end of the loop the transaction is validated.                           *)
FindTx ==
    /\ At(Handler, "find")
    /\ \/ /\ HasNext(Handler)
          /\ SameTx(NextElem(Handler))
          /\ HandlerDone
       \/ /\ HasNext(Handler)
          /\ ~SameTx(NextElem(Handler))
          /\ Step(Handler)
          /\ UNCHANGED <<pc, tx>>
       \/ /\ ~HasNext(Handler)
          /\ ~ValidateTransaction(tx)
          /\ HandlerDone
       \/ /\ ~HasNext(Handler)
          /\ ValidateTransaction(tx)
          /\ LoopEnds(Handler)
          /\ Goto(Handler, "add")
          /\ UNCHANGED tx
    /\ UNCHANGED <<queueChan, lists, room, copied, head, mutex, quit, history,
                   bounds>>

(* Mutant of addTransaction: unlocks before it broadcasts.                 *)
addTransactionEarlyUnlock ==
    /\ At(Handler, "add")
    /\ Unlocked
    /\ lists' = [lists EXCEPT ![Len(lists)] = PushBack(@, tx)]
    /\ accepted' = Append(accepted, tx)
    /\ Goto(Handler, "send")
    /\ UNCHANGED <<queueChan, tx, room, copied, head, mutex, quit, loops,
                   broadcast, taken, dropped, skipped, bounds>>

(* addTransaction: Lock and PushBack.                                      *)
addTransaction ==
    /\ At(Handler, "add")
    /\ Unlocked
    /\ mutex' = Handler
    /\ lists' = [lists EXCEPT ![Len(lists)] = PushBack(@, tx)]
    /\ accepted' = Append(accepted, tx)
    /\ Goto(Handler, "send")
    /\ UNCHANGED <<queueChan, tx, room, copied, head, quit, loops, broadcast,
                   taken, dropped, skipped, bounds>>

(* Mutant of Broadcast: the mutex is never released.                       *)
BroadcastLocked ==
    /\ At(Handler, "send")
    /\ broadcast' = broadcast \cup {tx}
    /\ HandlerDone
    /\ UNCHANGED <<queueChan, lists, room, copied, head, mutex, quit, accepted,
                   taken, dropped, skipped, bounds>>

(* Broadcast, the deferred Unlock, Post("newTx:pre").                      *)
Broadcast ==
    /\ At(Handler, "send")
    /\ broadcast' = broadcast \cup {tx}
    /\ mutex' = Nobody
    /\ HandlerDone
    /\ UNCHANGED <<queueChan, lists, room, copied, head, quit, accepted, taken,
                   dropped, skipped, bounds>>

(* case <-pool.quit; the select may still prefer the channel.              *)
HandlerQuits ==
    /\ At(Handler, "idle")
    /\ quit
    /\ Goto(Handler, "exit")
    /\ UNCHANGED <<queueChan, lists, tx, room, copied, head, mutex, quit, loops,
                   history, bounds>>

-----------------------------------------------------------------------------
(* A block was processed: the current state is new.  RemoveInvalid starts  *)
(* later, when the block has been broadcast; ProcessBlock holds the        *)
(* StateManager's mutex all along.                                         *)
NewBlock(s) ==
    /\ At(Processor, "idle")
    /\ seen < MaxBlocks
    /\ head' = s
    /\ Goto(Processor, "added")
    /\ seen' = seen + 1
    /\ UNCHANGED <<queueChan, lists, tx, room, copied, mutex, quit, loops, history,
                   queued, flushes>>

RemoveStart ==
    /\ At(Processor, "added")
    /\ ListFront(Processor)
    /\ Goto(Processor, "walk")
    /\ UNCHANGED <<queueChan, lists, tx, room, copied, head, mutex, quit,
                   history, bounds>>

Removable(t) == ~ValidateTransaction(t) \/ head.nonce[Sender[t]] >= Nonce[t]

(* One round of RemoveInvalid.  After a removal the element has no next,   *)
(* so the loop removes one transaction at most.                            *)
RemoveInvalid ==
    /\ At(Processor, "walk")
    /\ \/ /\ ~HasNext(Processor)
          /\ LoopEnds(Processor)
          /\ Goto(Processor, "idle")
          /\ UNCHANGED <<lists, dropped, skipped>>
       \/ /\ HasNext(Processor)
          /\ ~Removable(NextElem(Processor))
          /\ Step(Processor)
          /\ UNCHANGED <<lists, pc, dropped, skipped>>
       \/ /\ HasNext(Processor)
          /\ Removable(NextElem(Processor))
          /\ LET k == on[Processor]
                 i == pos[Processor] + 1
             IN  /\ lists' = [lists EXCEPT ![k] = RemoveAt(@, i)]
                 /\ AfterRemove(Processor, k, i)
                 /\ dropped' = dropped \cup {lists[k][i]}
                 /\ skipped' = (skipped \/ /\ At(Handler, "find")
                                           /\ StandsOn(Handler, k, i))
          /\ Goto(Processor, "idle")
    /\ UNCHANGED <<queueChan, tx, room, copied, head, mutex, quit, accepted,
                   broadcast, taken, bounds>>

-----------------------------------------------------------------------------
(* CurrentTransactions (by the miner, and by a peer's MsgGetTxs) and Flush *)
(* (by a new miner, and by Stop), which begins with it.                    *)

Call(c, label) ==
    /\ At(c, "idle")
    /\ Goto(c, label)
    /\ UNCHANGED <<queueChan, lists, tx, room, copied, head, mutex, loops, history,
                   queued, seen>>

CurrentTransactions(c) == Call(c, "lock") /\ UNCHANGED <<quit, flushes>>

Flush(c) ==
    /\ flushes < MaxFlushes
    /\ flushes' = flushes + 1
    /\ Call(c, "flushLock")
    /\ UNCHANGED quit

Stop(c) ==
    /\ ~quit
    /\ quit' = TRUE
    /\ Call(c, "flushLock")
    /\ UNCHANGED flushes

(* txList := make([]*Transaction, pool.pool.Len())                         *)
CopyStart(c) ==
    /\ pc[c] \in {"lock", "flushLock"}
    /\ Unlocked
    /\ mutex' = c
    /\ room' = [room EXCEPT ![c] = Len(pool)]
    /\ copied' = [copied EXCEPT ![c] = <<>>]
    /\ ListFront(c)
    /\ Goto(c, IF At(c, "lock") THEN "copy" ELSE "flushCopy")
    /\ UNCHANGED <<queueChan, lists, tx, head, quit, history, bounds>>

CopyNext(c) ==
    /\ pc[c] \in {"copy", "flushCopy"}
    /\ HasNext(c)
    /\ copied' = [copied EXCEPT ![c] = Append(@, NextElem(c))]
    /\ Step(c)
    /\ UNCHANGED <<queueChan, lists, tx, room, head, mutex, quit, pc, history,
                   bounds>>

(* A caller of CurrentTransactions goes its way with the copy.             *)
CopyEnd(c) ==
    /\ pc[c] \in {"copy", "flushCopy"}
    /\ ~HasNext(c)
    /\ mutex' = Nobody
    /\ LoopEnds(c)
    /\ room' = [room EXCEPT ![c] = 0]
    /\ copied' = [copied EXCEPT ![c] = IF At(c, "copy") THEN <<>> ELSE @]
    /\ Goto(c, IF At(c, "copy") THEN "idle" ELSE "swap")
    /\ UNCHANGED <<queueChan, lists, tx, head, quit, history, bounds>>

(* Flush: pool.pool = list.New(), with the mutex released.                 *)
Swap(c) ==
    /\ At(c, "swap")
    /\ lists' = Append(lists, <<>>)
    /\ taken' = taken \cup ToSet(copied[c])
    /\ copied' = [copied EXCEPT ![c] = <<>>]
    /\ Goto(c, "idle")
    /\ UNCHANGED <<queueChan, tx, room, head, mutex, quit, loops, accepted,
                   broadcast, dropped, skipped, bounds>>

-----------------------------------------------------------------------------
HandlerStep  == Receive \/ FindTx \/ addTransaction \/ Broadcast
Copying(c)   == CopyStart(c) \/ CopyNext(c) \/ CopyEnd(c) \/ Swap(c)

Next ==
    \/ \E t \in Tx : QueueTransaction(t)
    \/ HandlerStep
    \/ HandlerQuits
    \/ \E s \in ChainState : NewBlock(s)
    \/ RemoveStart
    \/ RemoveInvalid
    \/ \E c \in Caller :
          CurrentTransactions(c) \/ Flush(c) \/ Stop(c) \/ Copying(c)

(***************************************************************************)
(* A goroutine that can run runs, and a goroutine waiting for a mutex that *)
(* keeps being released gets it.  Broadcast is taken to return: the peers' *)
(* output queues are another component.                                    *)
(***************************************************************************)
Fairness ==
    /\ WF_vars(HandlerStep) /\ SF_vars(addTransaction)
    /\ WF_vars(RemoveStart \/ RemoveInvalid)
    /\ \A c \in Caller : WF_vars(Copying(c)) /\ SF_vars(CopyStart(c))

Spec     == Init /\ [][Next]_vars
LiveSpec == Spec /\ Fairness

-----------------------------------------------------------------------------
(* CurrentTransactions fills a slice it has made before the loop: it never *)
(* meets more elements than it made room for, or it would panic.  It is    *)
(* addTransaction's mutex that keeps the list from growing meanwhile.      *)
CopyFits ==
    \A c \in Caller : pc[c] \in {"copy", "flushCopy"} => Len(copied[c]) <= room[c]

(* A transaction the miner or a peer gets from the pool has been broadcast *)
(* to the other peers before: addTransaction broadcasts under the mutex.   *)
HandedOutWasBroadcast ==
    \A c \in Caller : ToSet(copied[c]) \subseteq broadcast

(* The pool never holds two transactions with one hash, unless a removal   *)
(* by RemoveInvalid cut short the search for the second one.               *)
NoDuplicates(list) ==
    \A i, j \in DOMAIN list : Hash[list[i]] = Hash[list[j]] => i = j
NoDuplicatesUnlessSkipped == ~skipped => NoDuplicates(pool)

(* Removals, flushes and races aside, the pool lists transactions in the   *)
(* order they arrived in, which is the order of a sender's nonces.         *)
KeepsArrivalOrder ==
    \E f \in [DOMAIN pool -> DOMAIN accepted] :
        /\ \A i \in DOMAIN pool : pool[i] = accepted[f[i]]
        /\ \A i, j \in DOMAIN pool : i < j => f[i] < f[j]

(* A transaction that is queued is looked at, so nobody waits for ever to  *)
(* queue one, unless the pool was stopped; and whoever asks for the pool   *)
(* gets it.                                                                *)
QueueDrains == []<>(queueChan = <<>> \/ quit)
CallersReturn == \A c \in Caller : pc[c] # "idle" ~> pc[c] = "idle"

-----------------------------------------------------------------------------
(* What the comment on TxPool says and the code does not do.               *)

(* "The tx pool a thread safe transaction pool handler": processing a      *)
(* block while a transaction comes in does not spoil the pool.             *)
PoolHasNoDuplicates == NoDuplicates(pool)

(* "If the pool is being drained or synced for whatever reason the         *)
(* transactions will simple queue up and handled when the mutex is freed": *)
(* a transaction the pool accepted is in the pool, was returned by Flush,  *)
(* is still to be returned, or was found invalid.                          *)
NothingIsLost ==
    ToSet(accepted) \subseteq
        ToSet(pool) \cup taken \cup dropped \cup
        UNION {ToSet(copied[c]) : c \in {d \in Caller : At(d, "swap")}}
=============================================================================
