---------------------------- MODULE TxPoolProofs ----------------------------
(***************************************************************************)
(* The safety properties of the transaction pool, for any number of        *)
(* transactions, callers and blocks.  These are not inductive:             *)
(*  - CopyFits needs the place of each copy in the list it is made from    *)
(*    (FitsInv), and the mutex that keeps the list from growing;           *)
(*  - HandedOutWasBroadcast needs the same of the lists, up to the         *)
(*    transaction addTransaction is about to broadcast (ListsSent);        *)
(*  - NoDuplicatesUnlessSkipped needs what FindTx has already passed, also *)
(*    when a removal or a Flush moves the list under it (UniqueInv).       *)
(* KeepsArrivalOrder is, stated of any two lists (Embeds): whatever        *)
(* element FindTx removes, those left keep their order.                    *)
(***************************************************************************)
EXTENDS TxPool, DataLemmas

(* CurrentTransactions is in its loop.                                     *)
Holding == {"copy", "flushCopy"}

(* Where each goroutine may be, who holds the mutex there, and that loops  *)
(* are on lists that exist.                                                *)
ControlInv ==
    /\ pc[Handler] \in {"idle", "find", "add", "send", "exit"}
    /\ pc[Processor] \in {"idle", "added", "walk"}
    /\ \A c \in Caller : pc[c] \in {"idle", "lock", "flushLock", "swap"} \cup Holding
    /\ \A c \in Caller : pc[c] \in Holding => mutex = c
    /\ pc[Handler] = "send" => mutex = Handler
    /\ pc[Handler] \in {"find", "add", "send"} => tx \in Tx
    /\ \A g \in Goroutine : on[g] <= Len(lists)

(* A copy has room for what is left of the list it is made from.           *)
Fits(c) ==
    pc[c] \in Holding =>
        /\ Len(copied[c]) <= room[c]
        /\ on[c] # 0 => Len(copied[c]) + Len(lists[on[c]]) <= room[c] + pos[c]
FitsInv == \A c \in Caller : Fits(c)

(* What is in a list was broadcast, but for the transaction addTransaction *)
(* has pushed and, under the mutex, is about to broadcast; what is in a    *)
(* copy was broadcast.                                                     *)
Sent == broadcast \cup IF pc[Handler] = "send" THEN {tx} ELSE {}
ListsSent ==
    \A k \in 1 .. Len(lists) : \A i \in 1 .. Len(lists[k]) : lists[k][i] \in Sent
CopiesSent ==
    \A c \in Caller : \A i \in 1 .. Len(copied[c]) : copied[c][i] \in broadcast

(* No transaction of the pool up to place n has the hash of tx.            *)
Fresh(n) == \A i \in 1 .. n : Hash[pool[i]] # Hash[tx]

(* What FindTx has passed is fresh, as long as it still is on the pool: if *)
(* it is not, Flush has left an empty pool, to which only queueHandler     *)
(* itself adds.                                                            *)
Searched ==
    /\ on[Handler] # 0
    /\ on[Handler] = Len(lists) => pos[Handler] <= Len(pool) /\ Fresh(pos[Handler])
    /\ on[Handler] # Len(lists) => Len(pool) = 0

UniqueInv ==
    ~skipped => /\ NoDuplicates(pool)
                /\ pc[Handler] = "find" => Searched
                /\ pc[Handler] = "add" => Fresh(Len(pool))

-----------------------------------------------------------------------------
(* Two facts about counting up.                                            *)
LEMMA NextPlace ==
  ASSUME NEW p \in Nat, NEW n \in Nat, p < n
  PROVE  p + 1 \in 1 .. n
OBVIOUS

(* One count goes up.                                                      *)
LEMMA CountUp ==
  ASSUME NEW G, NEW f \in [G -> Nat], NEW g \in G
  PROVE  [f EXCEPT ![g] = f[g] + 1] \in [G -> Nat]
OBVIOUS

(* The arithmetic of a copy: n copied, r made room for, at place p of l.   *)
LEMMA FitsNext ==
  ASSUME NEW n \in Nat, NEW l \in Nat, NEW r \in Nat, NEW p \in Nat,
         n + l <= r + p, p + 1 \in 1 .. l
  PROVE  n + 1 <= r /\ (n + 1) + l <= r + (p + 1)
OBVIOUS

(* The same arithmetic when the list gets shorter under the copy.          *)
LEMMA FitsShorter ==
  ASSUME NEW n \in Nat, NEW l \in Nat, NEW r \in Nat, NEW p \in Nat,
         n + l <= r + p, NEW q \in {p, p - 1}
  PROVE  n + (l - 1) <= r + q
OBVIOUS

(* There is a pool, and it and the lists before it hold transactions.      *)
LEMMA ListsProperties ==
  ASSUME TypeOK
  PROVE  /\ Len(lists) \in 1 .. Len(lists)
         /\ \A k \in 1 .. Len(lists) :
               /\ lists[k] \in Seq(Tx)
               /\ DOMAIN lists[k] = 1 .. Len(lists[k])
               /\ \A i \in 1 .. Len(lists[k]) : lists[k][i] \in Tx
         /\ pool \in Seq(Tx)
<1>1. lists \in Seq(Seq(Tx)) /\ Len(lists) \in Nat /\ Len(lists) # 0
  BY EmptySeq, LenProperties DEF TypeOK
<1>2. \A k \in 1 .. Len(lists) : lists[k] \in Seq(Tx)
  BY <1>1, ElementOfSeq
<1> QED
  BY <1>1, <1>2, ElementOfSeq, LenProperties DEF pool

(* A loop that has not ended is on a list there is.                        *)
LEMMA OnProperties ==
  ASSUME TypeOK, ControlInv, NEW g \in Goroutine, on[g] # 0
  PROVE  on[g] \in 1 .. Len(lists)
<1>1. on[g] \in Nat /\ on[g] <= Len(lists)
  BY DEF ControlInv, TypeOK
<1>2. Len(lists) \in Nat
  BY LenProperties DEF TypeOK
<1> QED
  BY <1>1, <1>2

(* A loop that has a next element finds it in a list of the pool.          *)
LEMMA NextElemProperties ==
  ASSUME TypeOK, ControlInv, NEW g \in Goroutine, HasNext(g)
  PROVE  /\ on[g] \in 1 .. Len(lists)
         /\ pos[g] + 1 \in 1 .. Len(lists[on[g]])
         /\ NextElem(g) \in Tx
<1>1. on[g] \in 1 .. Len(lists)
  BY OnProperties DEF HasNext
<1>2. pos[g] < Len(lists[on[g]])
  BY DEF HasNext
<1>3. pos[g] \in Nat /\ Len(lists[on[g]]) \in Nat
  BY <1>1, ListsProperties, LenProperties DEF TypeOK
<1>4. pos[g] + 1 \in 1 .. Len(lists[on[g]])
  BY <1>2, <1>3, NextPlace
<1> QED
  BY <1>1, <1>4, ListsProperties DEF NextElem

(* RemoveInvalid takes element i out of list k.                            *)
Removes(k, i) ==
    /\ k \in 1 .. Len(lists)
    /\ i \in 1 .. Len(lists[k])
    /\ lists' \in Seq(Seq(Tx))
    /\ Len(lists') = Len(lists)
    /\ \A m \in 1 .. Len(lists) \ {k} : lists'[m] = lists[m]
    /\ Len(lists'[k]) = Len(lists[k]) - 1
    /\ \A j \in 1 .. Len(lists[k]) - 1 :
          lists'[k][j] = IF j < i THEN lists[k][j] ELSE lists[k][j + 1]
    /\ AfterRemove(Processor, k, i)
    /\ dropped' = dropped \cup {lists[k][i]}
    /\ skipped' = (skipped \/ /\ At(Handler, "find")
                              /\ StandsOn(Handler, k, i))
    /\ Goto(Processor, "idle")

(* Or it leaves the lists alone and goes on, or ends.                      *)
Passes ==
    /\ UNCHANGED <<lists, dropped, skipped>>
    /\ on' \in [Goroutine -> Nat] /\ pos' \in [Goroutine -> Nat]
    /\ \A g \in Goroutine : g # Processor => on'[g] = on[g] /\ pos'[g] = pos[g]
    /\ on'[Processor] \in {0, on[Processor]}
    /\ pc' = pc \/ Goto(Processor, "idle")

(* These are the two things a round of RemoveInvalid may do.               *)
LEMMA RemovalStep ==
  ASSUME TypeOK, ControlInv, RemoveInvalid
  PROVE  Passes \/ \E k, i \in Nat : Removes(k, i)
<1>1. CASE ~HasNext(Processor)
  <2>1. LoopEnds(Processor) /\ UNCHANGED <<lists, dropped, skipped>> /\ Goto(Processor, "idle")
    BY <1>1 DEF RemoveInvalid
  <2> QED
    BY <2>1 DEF LoopEnds, TypeOK, Passes, Goroutine
<1>2. CASE HasNext(Processor) /\ ~Removable(NextElem(Processor))
  <2>1. Step(Processor) /\ UNCHANGED <<lists, pc, dropped, skipped>>
    BY <1>2 DEF RemoveInvalid
  <2> QED
    BY <2>1 DEF Step, TypeOK, Passes, Goroutine
<1>3. CASE HasNext(Processor) /\ Removable(NextElem(Processor))
  <2> DEFINE k == on[Processor]
             i == pos[Processor] + 1
  <2>1. k \in 1 .. Len(lists) /\ i \in 1 .. Len(lists[k])
    BY <1>3, NextElemProperties DEF Goroutine
  <2>2. lists[k] \in Seq(Tx) /\ lists \in Seq(Seq(Tx))
    BY <2>1, ListsProperties DEF TypeOK
  <2>3. /\ lists' = [lists EXCEPT ![k] = RemoveAt(lists[k], i)]
        /\ AfterRemove(Processor, k, i)
        /\ dropped' = dropped \cup {lists[k][i]}
        /\ skipped' = (skipped \/ /\ At(Handler, "find")
                                  /\ StandsOn(Handler, k, i))
        /\ Goto(Processor, "idle")
    BY <1>3 DEF RemoveInvalid
  <2> HIDE DEF k, i
  <2>4. /\ RemoveAt(lists[k], i) \in Seq(Tx)
        /\ Len(RemoveAt(lists[k], i)) = Len(lists[k]) - 1
        /\ \A j \in 1 .. Len(lists[k]) - 1 : RemoveAt(lists[k], i)[j] =
              IF j < i THEN lists[k][j] ELSE lists[k][j + 1]
    BY <2>1, <2>2, RemoveAtProperties
  <2>5. /\ lists' \in Seq(Seq(Tx))
        /\ Len(lists') = Len(lists)
        /\ \A m \in 1 .. Len(lists) :
              lists'[m] = IF m = k THEN RemoveAt(lists[k], i) ELSE lists[m]
    BY <2>1, <2>2, <2>3, <2>4, ExceptSeq
  <2>6. lists'[k] = RemoveAt(lists[k], i)
    BY <2>1, <2>5
  <2>7. Removes(k, i)
    BY <2>1, <2>3, <2>4, <2>5, <2>6 DEF Removes
  <2>8. k \in Nat /\ i \in Nat
    BY <2>1
  <2> QED
    BY <2>7, <2>8
<1> QED
  BY <1>1, <1>2, <1>3

-----------------------------------------------------------------------------
(* Every action keeps the types.                                           *)
LEMMA TypeStep == TypeOK /\ ControlInv /\ [Next]_vars => TypeOK'
<1> SUFFICES ASSUME TypeOK, ControlInv, [Next]_vars PROVE TypeOK'
  OBVIOUS
<1> USE GoroutineAssumption, BoundAssumption DEF Goroutine, At, Goto, TypeOK,
   control, history, bounds, loops
<1>1. CASE \E t \in Tx : QueueTransaction(t)
  <2>1. PICK t \in Tx : QueueTransaction(t)
    BY <1>1
  <2>2. queueChan' \in Seq(Tx) /\ Len(queueChan') = Len(queueChan) + 1
    BY <2>1, AppendProperties DEF QueueTransaction
  <2>3. Len(queueChan) < QueueSize /\ Len(queueChan) \in Nat
        /\ QueueSize \in Nat
    BY <2>1, LenProperties, TxAssumption DEF QueueTransaction
  <2>4. Len(queueChan') <= QueueSize
    BY <2>2, <2>3
  <2>5. queued' \in Nat
    <3>1. queued' = queued + 1 /\ queued \in Nat
      BY <2>1 DEF QueueTransaction
    <3> HIDE DEF TypeOK
    <3> QED
      BY <3>1
  <2> QED
    BY <2>1, <2>2, <2>4, <2>5 DEF QueueTransaction
<1>2. CASE Receive
  <2>1. Head(queueChan) \in Tx /\ queueChan' \in Seq(Tx)
        /\ Len(queueChan') = Len(queueChan) - 1
    BY <1>2, HeadTailProperties DEF Receive
  <2>2. Len(lists) \in Nat /\ Len(queueChan) \in Nat /\ QueueSize \in Nat
    BY LenProperties, TxAssumption
  <2>3. Len(queueChan') <= QueueSize
    BY <2>1, <2>2
  <2> QED
    BY <1>2, <2>1, <2>2, <2>3 DEF Receive, ListFront
<1>3. CASE FindTx
  <2>1. \/ HandlerDone
        \/ Step(Handler) /\ UNCHANGED <<pc, tx>>
        \/ LoopEnds(Handler) /\ Goto(Handler, "add") /\ UNCHANGED tx
    BY <1>3 DEF FindTx
  <2>2. UNCHANGED <<queueChan, lists, room, copied, head, mutex, quit, history,
     bounds>>
    BY <1>3 DEF FindTx
  <2>3. /\ on' \in [Goroutine -> Nat]
        /\ pos' \in [Goroutine -> Nat]
    BY <2>1 DEF HandlerDone, LoopEnds, Step
  <2> QED
    BY <2>1, <2>2, <2>3 DEF HandlerDone
<1>4. CASE addTransaction
  <2>1. tx \in Tx /\ pool \in Seq(Tx) /\ Len(lists) \in 1 .. Len(lists)
    BY <1>4, ListsProperties DEF addTransaction, ControlInv
  <2>2. Append(pool, tx) \in Seq(Tx) /\ accepted' \in Seq(Tx)
    BY <1>4, <2>1, AppendProperties DEF addTransaction
  <2>3. lists' = [lists EXCEPT ![Len(lists)] = Append(pool, tx)]
    BY <1>4 DEF addTransaction, PushBack, pool
  <2>4. lists' \in Seq(Seq(Tx)) /\ Len(lists') = Len(lists)
    BY <2>1, <2>2, <2>3, ExceptSeq
  <2>5. lists' # <<>>
    BY <2>1, <2>4, EmptySeq
  <2> QED
    BY <1>4, <2>2, <2>4, <2>5 DEF addTransaction
<1>5. CASE Broadcast
  <2>1. tx \in Tx
    BY <1>5 DEF Broadcast, ControlInv
  <2> QED
    BY <1>5, <2>1 DEF Broadcast, HandlerDone, LoopEnds
<1>6. CASE HandlerQuits
  BY <1>6 DEF HandlerQuits
<1>7. CASE \E s \in ChainState : NewBlock(s)
  <2>1. PICK s \in ChainState : NewBlock(s)
    BY <1>7
  <2>2. seen' \in Nat
    <3>1. seen' = seen + 1 /\ seen \in Nat
      BY <2>1 DEF NewBlock
    <3> HIDE DEF TypeOK
    <3> QED
      BY <3>1
  <2> QED
    BY <2>1, <2>2 DEF NewBlock
<1>8. CASE RemoveStart
  BY <1>8, LenProperties DEF RemoveStart, ListFront
<1>9. CASE RemoveInvalid
  <2>1. UNCHANGED <<queueChan, tx, room, copied, head, mutex, quit, accepted,
     broadcast, taken, bounds>>
    BY <1>9 DEF RemoveInvalid
  <2>2. CASE Passes
    BY <2>1, <2>2 DEF Passes
  <2>3. CASE \E k, i \in Nat : Removes(k, i)
    <3>1. PICK k, i \in Nat : Removes(k, i)
      BY <2>3
    <3>2. lists' \in Seq(Seq(Tx)) /\ lists' # <<>>
      BY <3>1, EmptySeq, LenProperties, ListsProperties DEF Removes
    <3>3. dropped' \subseteq Tx
      BY <3>1, ListsProperties DEF Removes
    <3>4. on' \in [Goroutine -> Nat] /\ pos' \in [Goroutine -> Nat]
      <4>1. AfterRemove(Processor, k, i)
        BY <3>1 DEF Removes
      <4>2. \A g \in Goroutine : on[g] \in Nat /\ pos[g] \in Nat
        OBVIOUS
      <4> HIDE DEF TypeOK, Goroutine
      <4>3. \A g \in Goroutine : pos[g] > i => pos[g] - 1 \in Nat
        BY <4>2
      <4> QED
        BY <4>1, <4>2, <4>3 DEF AfterRemove
    <3>5. skipped' \in BOOLEAN
      BY <3>1 DEF Removes
    <3> QED
      BY <2>1, <3>1, <3>2, <3>3, <3>4, <3>5 DEF Removes
  <2> QED
    BY <1>9, <2>2, <2>3, RemovalStep
<1>10. CASE \E c \in Caller : CurrentTransactions(c)
  <2>1. PICK c \in Caller : CurrentTransactions(c)
    BY <1>10
  <2> QED
    BY <2>1 DEF CurrentTransactions, Call
<1>11. CASE \E c \in Caller : Flush(c)
  <2>1. PICK c \in Caller : Flush(c)
    BY <1>11
  <2>2. flushes' \in Nat
    BY <2>1 DEF Flush
  <2> QED
    BY <2>1, <2>2 DEF Flush, Call
<1>12. CASE \E c \in Caller : Stop(c)
  <2>1. PICK c \in Caller : Stop(c)
    BY <1>12
  <2> QED
    BY <2>1 DEF Stop, Call
<1>13. CASE \E c \in Caller : CopyStart(c)
  <2>1. PICK c \in Caller : CopyStart(c)
    BY <1>13
  <2>2. copied' \in [Caller -> Seq(Tx)]
    BY <2>1, EmptySeq DEF CopyStart
  <2>3. Len(lists) \in Nat /\ Len(pool) \in Nat
    BY ListsProperties, LenProperties
  <2> QED
    BY <2>1, <2>2, <2>3 DEF CopyStart, ListFront
<1>14. CASE \E c \in Caller : CopyNext(c)
  <2>1. PICK c \in Caller : CopyNext(c)
    BY <1>14
  <2>2. NextElem(c) \in Tx
    BY <2>1, NextElemProperties DEF CopyNext
  <2>3. Append(copied[c], NextElem(c)) \in Seq(Tx)
    BY <2>2, AppendProperties
  <2>4. pos' \in [Goroutine -> Nat]
    <3>1. pos' = [pos EXCEPT ![c] = pos[c] + 1] /\ c \in Goroutine
      BY <2>1 DEF CopyNext, Step
    <3> QED
      BY <3>1, CountUp
  <2> QED
    BY <2>1, <2>3, <2>4 DEF CopyNext, Step
<1>15. CASE \E c \in Caller : CopyEnd(c)
  <2>1. PICK c \in Caller : CopyEnd(c)
    BY <1>15
  <2>2. copied' \in [Caller -> Seq(Tx)]
    BY <2>1, EmptySeq DEF CopyEnd
  <2> QED
    BY <2>1, <2>2 DEF CopyEnd, LoopEnds
<1>16. CASE \E c \in Caller : Swap(c)
  <2>1. PICK c \in Caller : Swap(c)
    BY <1>16
  <2>2. <<>> \in Seq(Tx)
    BY EmptySeq
  <2>3. lists' \in Seq(Seq(Tx)) /\ lists' # <<>>
    <3>1. lists' = Append(lists, <<>>) /\ lists \in Seq(Seq(Tx))
      BY <2>1 DEF Swap
    <3> HIDE DEF TypeOK
    <3> QED
      BY <2>2, <3>1, AppendProperties
  <2>4. taken' \subseteq Tx
    BY <2>1, ElementOfSeq, LenProperties DEF Swap, ToSet
  <2> QED
    BY <2>1, <2>2, <2>3, <2>4 DEF Swap
<1>17. CASE UNCHANGED vars
  BY <1>17 DEF vars
<1> QED
  BY <1>1, <1>2, <1>3, <1>4, <1>5, <1>6, <1>7, <1>8, <1>9, <1>10, <1>11, <1>12,
     <1>13, <1>14, <1>15, <1>16, <1>17 DEF Next, HandlerStep, Copying

(* Every action keeps the goroutines where they may be.                    *)
LEMMA ControlStep == TypeOK /\ ControlInv /\ [Next]_vars => ControlInv'
<1> SUFFICES ASSUME TypeOK, ControlInv, [Next]_vars PROVE ControlInv'
  OBVIOUS
<1> USE GoroutineAssumption DEF Goroutine, At, Goto, TypeOK, ControlInv,
   Holding, control, loops
<1>1. CASE \E t \in Tx : QueueTransaction(t)
  BY <1>1 DEF QueueTransaction
<1>2. CASE Receive
  <2>1. tx' \in Tx
    BY <1>2, HeadTailProperties DEF Receive
  <2>2. \A g \in Goroutine : on'[g] <= Len(lists')
    BY <1>2, LenProperties DEF Receive, ListFront
  <2> QED
    BY <1>2, <2>1, <2>2 DEF Receive
<1>3. CASE FindTx
  <2>1. \/ HandlerDone
        \/ Step(Handler) /\ UNCHANGED <<pc, tx>>
        \/ LoopEnds(Handler) /\ Goto(Handler, "add") /\ UNCHANGED tx
    BY <1>3 DEF FindTx
  <2>2. UNCHANGED <<lists, mutex>> /\ At(Handler, "find")
    BY <1>3 DEF FindTx
  <2>3. \A g \in Goroutine : on'[g] <= Len(lists')
    BY <2>1, <2>2, LenProperties DEF HandlerDone, LoopEnds, Step
  <2> QED
    BY <2>1, <2>2, <2>3 DEF HandlerDone
<1>4. CASE addTransaction
  <2>1. Len(lists') = Len(lists)
    <3>1. PushBack(pool, tx) \in Seq(Tx)
      BY <1>4, ListsProperties, AppendProperties DEF addTransaction, PushBack,
         TypeOK
    <3>2. lists' = [lists EXCEPT ![Len(lists)] = PushBack(pool, tx)]
      BY <1>4 DEF addTransaction, pool
    <3> QED
      BY <3>1, <3>2, ExceptSeq, ListsProperties DEF TypeOK
  <2> QED
    BY <1>4, <2>1 DEF addTransaction, Unlocked
<1>5. CASE Broadcast
  BY <1>5 DEF Broadcast, HandlerDone, LoopEnds
<1>6. CASE HandlerQuits
  BY <1>6 DEF HandlerQuits
<1>7. CASE \E s \in ChainState : NewBlock(s)
  BY <1>7 DEF NewBlock
<1>8. CASE RemoveStart
  BY <1>8, LenProperties DEF RemoveStart, ListFront
<1>9. CASE RemoveInvalid
  <2>1. CASE Passes
    <3>1. Len(lists) \in Nat /\ UNCHANGED <<lists, mutex, tx>>
      BY <1>9, <2>1, LenProperties DEF Passes, RemoveInvalid
    <3>2. \A g \in Goroutine : on'[g] <= Len(lists')
      BY <2>1, <3>1 DEF Passes
    <3> QED
      BY <2>1, <3>1, <3>2 DEF Passes
  <2>2. CASE \E k, i \in Nat : Removes(k, i)
    <3>1. PICK k, i \in Nat : Removes(k, i)
      BY <2>2
    <3>2. Len(lists') = Len(lists) /\ Len(lists) \in Nat
      BY <3>1, LenProperties DEF Removes
    <3>3. \A g \in Goroutine : on'[g] <= Len(lists')
      BY <3>1, <3>2 DEF Removes, AfterRemove
    <3> QED
      BY <1>9, <3>1, <3>3 DEF Removes, RemoveInvalid
  <2> QED
    BY <1>9, <2>1, <2>2, RemovalStep
<1>10. CASE \E c \in Caller : CurrentTransactions(c)
  BY <1>10 DEF CurrentTransactions, Call
<1>11. CASE \E c \in Caller : Flush(c)
  BY <1>11 DEF Flush, Call
<1>12. CASE \E c \in Caller : Stop(c)
  BY <1>12 DEF Stop, Call
<1>13. CASE \E c \in Caller : CopyStart(c)
  <2>1. PICK c \in Caller : CopyStart(c)
    BY <1>13
  <2>2. /\ on' = [on EXCEPT ![c] = Len(lists)] /\ on \in [Goroutine -> Nat]
        /\ \A g \in Goroutine : on[g] <= Len(lists)
        /\ lists' = lists /\ Len(lists) \in Nat
    BY <2>1, LenProperties DEF CopyStart, ListFront
  <2>3. \A g \in Goroutine : on'[g] <= Len(lists')
    <3> HIDE DEF TypeOK, ControlInv, Goroutine
    <3> QED
      BY <2>2
  <2> QED
    BY <2>1, <2>3 DEF CopyStart, Unlocked
<1>14. CASE \E c \in Caller : CopyNext(c)
  BY <1>14 DEF CopyNext, Step
<1>15. CASE \E c \in Caller : CopyEnd(c)
  BY <1>15 DEF CopyEnd, LoopEnds
<1>16. CASE \E c \in Caller : Swap(c)
  <2>1. PICK c \in Caller : Swap(c)
    BY <1>16
  <2>2. Len(lists') = Len(lists) + 1 /\ Len(lists) \in Nat
    BY <2>1, EmptySeq, AppendProperties, LenProperties DEF Swap
  <2>3. /\ on' = on /\ on \in [Goroutine -> Nat]
        /\ \A g \in Goroutine : on[g] <= Len(lists)
    BY <2>1 DEF Swap
  <2>4. \A g \in Goroutine : on'[g] <= Len(lists')
    <3> HIDE DEF TypeOK, ControlInv, Goroutine
    <3> QED
      BY <2>2, <2>3
  <2> QED
    BY <2>1, <2>4 DEF Swap
<1>17. CASE UNCHANGED vars
  BY <1>17 DEF vars
<1> QED
  BY <1>1, <1>2, <1>3, <1>4, <1>5, <1>6, <1>7, <1>8, <1>9, <1>10, <1>11, <1>12,
     <1>13, <1>14, <1>15, <1>16, <1>17 DEF Next, HandlerStep, Copying

(* Every action keeps room for the rest of a copy: a list only grows with  *)
(* the mutex free, and gets shorter no further than a copy's place.        *)
LEMMA FitsStep == TypeOK /\ ControlInv /\ FitsInv /\ [Next]_vars => FitsInv'
<1> SUFFICES ASSUME TypeOK, ControlInv, FitsInv, [Next]_vars, NEW c \in Caller,
                    Fits(c)
             PROVE  Fits(c)'
  BY DEF FitsInv
<1> USE GoroutineAssumption DEF Goroutine, At, Goto, Fits, Holding, control,
   loops
<1>1. CASE \E t \in Tx : QueueTransaction(t)
  BY <1>1 DEF QueueTransaction, TypeOK
<1>2. CASE Receive
  BY <1>2 DEF Receive, ListFront, TypeOK
<1>3. CASE FindTx
  BY <1>3 DEF FindTx, HandlerDone, LoopEnds, Step, TypeOK
<1>4. CASE addTransaction
  <2>1. pc[c] \notin Holding
    BY <1>4 DEF addTransaction, Unlocked, ControlInv
  <2> QED
    BY <1>4, <2>1 DEF addTransaction, TypeOK
<1>5. CASE Broadcast
  BY <1>5 DEF Broadcast, HandlerDone, LoopEnds, TypeOK
<1>6. CASE HandlerQuits
  BY <1>6 DEF HandlerQuits, TypeOK
<1>7. CASE \E s \in ChainState : NewBlock(s)
  BY <1>7 DEF NewBlock, TypeOK
<1>8. CASE RemoveStart
  BY <1>8 DEF RemoveStart, ListFront, TypeOK
<1>9. CASE RemoveInvalid
  <2>1. CASE Passes
    BY <1>9, <2>1 DEF Passes, RemoveInvalid, TypeOK
  <2>2. CASE \E k, i \in Nat : Removes(k, i)
    <3>1. PICK k, i \in Nat : Removes(k, i)
      BY <2>2
    <3>2. UNCHANGED <<pc[c], copied, room>> /\ AfterRemove(Processor, k, i)
      BY <1>9, <3>1 DEF Removes, RemoveInvalid, TypeOK
    <3>3. CASE on[c] # k \/ on'[c] = 0
      <4>1. on'[c] # 0 => on'[c] = on[c] /\ pos'[c] = pos[c]
                            /\ lists'[on[c]] = lists[on[c]]
        <5>1. on'[c] # 0 => on'[c] = on[c] /\ pos'[c] = pos[c] /\ on[c] # k
          BY <3>2, <3>3 DEF AfterRemove, StandsOn
        <5>2. on[c] # 0 => on[c] \in 1 .. Len(lists)
          BY OnProperties
        <5> QED
          BY <3>1, <5>1, <5>2 DEF Removes
      <4> QED
        BY <3>2, <4>1
    <3>4. CASE on[c] = k /\ on'[c] # 0
      <4>1. Len(lists'[k]) = Len(lists[k]) - 1 /\ Len(lists[k]) \in Nat
        BY <3>1, ListsProperties, LenProperties DEF Removes
      <4>2. on'[c] = k /\ pos'[c] \in {pos[c], pos[c] - 1}
        BY <3>2, <3>4 DEF AfterRemove, StandsOn
      <4>3. Len(copied[c]) \in Nat /\ room[c] \in Nat /\ pos[c] \in Nat
        BY LenProperties DEF TypeOK
      <4>4. pc[c] \in Holding => 
               Len(copied[c]) + Len(lists'[k]) <= room[c] + pos'[c]
        <5>1. ASSUME pc[c] \in Holding
              PROVE  Len(copied[c]) + Len(lists[k]) <= room[c] + pos[c]
          <6>1. k # 0
            BY <3>1 DEF Removes
          <6> QED
            BY <5>1, <6>1, <3>4
        <5> QED
          BY <5>1, <4>1, <4>2, <4>3, FitsShorter
      <4> QED
        BY <3>2, <4>2, <4>4
    <3> QED
      BY <3>3, <3>4
  <2> QED
    BY <1>9, <2>1, <2>2, RemovalStep
<1>10. CASE \E d \in Caller : CurrentTransactions(d)
  BY <1>10 DEF CurrentTransactions, Call, TypeOK
<1>11. CASE \E d \in Caller : Flush(d)
  BY <1>11 DEF Flush, Call, TypeOK
<1>12. CASE \E d \in Caller : Stop(d)
  BY <1>12 DEF Stop, Call, TypeOK
<1>13. CASE \E d \in Caller : CopyStart(d)
  <2>1. PICK d \in Caller : CopyStart(d)
    BY <1>13
  <2>2. CASE d = c
    <3>1. copied'[c] = <<>> /\ room'[c] = Len(pool) /\ pos'[c] = 0
          /\ lists'[on'[c]] = pool
      BY <2>1, <2>2 DEF CopyStart, ListFront, TypeOK, pool
    <3>2. Len(pool) \in Nat /\ Len(<<>>) = 0
      BY ListsProperties, LenProperties
    <3> QED
      BY <3>1, <3>2
  <2>3. CASE d # c
    BY <2>1, <2>3 DEF CopyStart, ListFront, TypeOK
  <2> QED
    BY <2>2, <2>3
<1>14. CASE \E d \in Caller : CopyNext(d)
  <2>1. PICK d \in Caller : CopyNext(d)
    BY <1>14
  <2>2. CASE d = c
    <3>1. NextElem(c) \in Tx /\ on[c] # 0 /\ pc[c] \in Holding
          /\ pos[c] + 1 \in 1 .. Len(lists[on[c]])
      BY <2>1, <2>2, NextElemProperties DEF CopyNext
    <3>2. Len(Append(copied[c], NextElem(c))) = Len(copied[c]) + 1
      BY <3>1, AppendProperties DEF TypeOK
    <3>3. UNCHANGED <<lists, room, on>> /\ pos'[c] = pos[c] + 1
          /\ Len(copied'[c]) = Len(copied[c]) + 1
      BY <2>1, <2>2, <3>2 DEF CopyNext, Step, TypeOK
    <3>4. Len(copied[c]) \in Nat /\ room[c] \in Nat /\ pos[c] \in Nat
          /\ Len(lists[on[c]]) \in Nat
      <4>1. on[c] \in 1 .. Len(lists)
        BY <2>1, <2>2, NextElemProperties DEF CopyNext
      <4> QED
        BY <4>1, LenProperties, ListsProperties DEF TypeOK
    <3>5. Len(copied[c]) + Len(lists[on[c]]) <= room[c] + pos[c]
      BY <3>1
    <3>6. Len(copied[c]) + 1 <= room[c]
          /\ (Len(copied[c]) + 1) + Len(lists[on[c]]) <= room[c] + (pos[c] + 1)
      BY <3>1, <3>4, <3>5, FitsNext
    <3> QED
      BY <3>3, <3>6
  <2>3. CASE d # c
    BY <2>1, <2>3 DEF CopyNext, Step, TypeOK
  <2> QED
    BY <2>2, <2>3
<1>15. CASE \E d \in Caller : CopyEnd(d)
  BY <1>15 DEF CopyEnd, LoopEnds, TypeOK
<1>16. CASE \E d \in Caller : Swap(d)
  <2>1. PICK d \in Caller : Swap(d)
    BY <1>16
  <2>2. CASE d = c
    BY <2>1, <2>2 DEF Swap, TypeOK
  <2>3. CASE d # c
    <3>1. on[c] # 0 => lists'[on[c]] = lists[on[c]]
      <4>1. on[c] # 0 => on[c] \in 1 .. Len(lists)
        BY OnProperties
      <4>2. lists' = Append(lists, <<>>) /\ <<>> \in Seq(Tx)
            /\ lists \in Seq(Seq(Tx))
        BY <2>1, EmptySeq DEF Swap, TypeOK
      <4> QED
        BY <4>1, <4>2, AppendProperties
    <3> QED
      BY <2>1, <2>3, <3>1 DEF Swap, TypeOK
  <2> QED
    BY <2>2, <2>3
<1>17. CASE UNCHANGED vars
  BY <1>17 DEF vars
<1> QED
  BY <1>1, <1>2, <1>3, <1>4, <1>5, <1>6, <1>7, <1>8, <1>9, <1>10, <1>11, <1>12,
     <1>13, <1>14, <1>15, <1>16, <1>17 DEF Next, HandlerStep, Copying

(* addTransaction leaves every list but the pool alone, and puts tx at the *)
(* end of the pool.                                                        *)
LEMMA AddProperties ==
  ASSUME TypeOK, ControlInv, addTransaction
  PROVE  /\ tx \in Tx
         /\ Len(lists') = Len(lists)
         /\ \A k \in 1 .. Len(lists) : k # Len(lists) => lists'[k] = lists[k]
         /\ lists'[Len(lists)] = Append(pool, tx)
         /\ Len(Append(pool, tx)) = Len(pool) + 1
         /\ \A i \in 1 .. Len(pool) : Append(pool, tx)[i] = pool[i]
         /\ Append(pool, tx)[Len(pool) + 1] = tx
<1>1. tx \in Tx
  BY DEF addTransaction, At, ControlInv
<1>2. pool \in Seq(Tx) /\ lists \in Seq(Seq(Tx)) /\ Len(lists) \in 1 .. Len(lists)
  BY ListsProperties DEF TypeOK
<1>3. /\ Append(pool, tx) \in Seq(Tx)
      /\ Len(Append(pool, tx)) = Len(pool) + 1
      /\ \A i \in 1 .. Len(pool) : Append(pool, tx)[i] = pool[i]
      /\ Append(pool, tx)[Len(pool) + 1] = tx
  BY <1>1, <1>2, AppendProperties
<1>4. lists' = [lists EXCEPT ![Len(lists)] = Append(pool, tx)]
  BY DEF addTransaction, PushBack, pool
<1>5. /\ Len(lists') = Len(lists)
      /\ \A k \in 1 .. Len(lists) :
            lists'[k] = IF k = Len(lists) THEN Append(pool, tx) ELSE lists[k]
  BY <1>2, <1>3, <1>4, ExceptSeq
<1> QED
  BY <1>1, <1>2, <1>3, <1>5

(* Flush leaves the lists there are alone, and an empty one is the pool.   *)
LEMMA SwapProperties ==
  ASSUME TypeOK, NEW c \in Caller, Swap(c)
  PROVE  /\ Len(lists') = Len(lists) + 1
         /\ \A k \in 1 .. Len(lists) : lists'[k] = lists[k]
         /\ lists'[Len(lists')] = <<>>
<1>1. lists' = Append(lists, <<>>) /\ <<>> \in Seq(Tx) /\ lists \in Seq(Seq(Tx))
  BY EmptySeq DEF Swap, TypeOK
<1> QED
  BY <1>1, AppendProperties

(* Only these three actions change a list.                                 *)
LEMMA ListsChange ==
  [Next]_vars => \/ UNCHANGED lists
                 \/ addTransaction
                 \/ RemoveInvalid
                 \/ \E c \in Caller : Swap(c)
BY DEF Next, HandlerStep, Copying, vars, QueueTransaction, Receive, FindTx,
       Broadcast, HandlerQuits, NewBlock, RemoveStart, CurrentTransactions,
       Flush, Stop, Call, CopyStart, CopyNext, CopyEnd

(* A transaction that was sent, or is being sent, stays so.                *)
LEMMA SentStays ==
  TypeOK /\ ControlInv /\ [Next]_vars => Sent \subseteq Sent'
<1> SUFFICES ASSUME TypeOK, ControlInv, [Next]_vars PROVE Sent \subseteq Sent'
  OBVIOUS
<1> USE GoroutineAssumption DEF Goroutine, At, Goto, Sent, control, loops, history,
        HandlerDone
<1>1. CASE \E u \in Tx : QueueTransaction(u)
  BY <1>1 DEF QueueTransaction
<1>2. CASE Receive
  BY <1>2 DEF Receive
<1>3. CASE FindTx
  BY <1>3 DEF FindTx
<1>4. CASE addTransaction
  BY <1>4 DEF addTransaction
<1>5. CASE Broadcast
  BY <1>5 DEF Broadcast
<1>6. CASE HandlerQuits
  BY <1>6 DEF HandlerQuits
<1>7. CASE \E s \in ChainState : NewBlock(s)
  BY <1>7 DEF NewBlock, TypeOK
<1>8. CASE RemoveStart
  BY <1>8 DEF RemoveStart, TypeOK
<1>9. CASE RemoveInvalid
  BY <1>9 DEF RemoveInvalid, TypeOK
<1>10. CASE \E c \in Caller : \/ CurrentTransactions(c) \/ Flush(c) \/ Stop(c)
  BY <1>10 DEF CurrentTransactions, Flush, Stop, Call, TypeOK
<1>11. CASE \E c \in Caller : Copying(c)
  BY <1>11 DEF Copying, CopyStart, CopyNext, CopyEnd, Swap, TypeOK
<1>12. CASE UNCHANGED vars
  BY <1>12 DEF vars
<1> QED
  BY <1>1, <1>2, <1>3, <1>4, <1>5, <1>6, <1>7, <1>8, <1>9, <1>10, <1>11, <1>12
     DEF Next, HandlerStep

(* Every action keeps the lists to transactions sent or being sent.        *)
LEMMA ListsSentStep == TypeOK /\ ControlInv /\ ListsSent /\ [Next]_vars => ListsSent'
<1> SUFFICES ASSUME TypeOK, ControlInv, ListsSent, [Next]_vars,
                    NEW k \in 1 .. Len(lists'), NEW i \in 1 .. Len(lists'[k])
             PROVE  lists'[k][i] \in Sent'
  BY DEF ListsSent
<1>1. Sent \subseteq Sent'
  BY SentStays
<1>2. \A m \in 1 .. Len(lists) : \A j \in 1 .. Len(lists[m]) : lists[m][j] \in Sent'
  BY <1>1 DEF ListsSent
<1>3. CASE UNCHANGED lists
  BY <1>2, <1>3
<1>4. CASE addTransaction
  <2>1. tx \in Sent'
    BY <1>4 DEF addTransaction, Goto, TypeOK, Goroutine, Sent
  <2>2. k # Len(lists) \/ i \in 1 .. Len(pool) \/ i = Len(pool) + 1
    BY <1>4, AddProperties, ListsProperties, LenProperties
  <2> QED
    BY <1>2, <1>4, <2>1, <2>2, AddProperties, ListsProperties DEF pool
<1>5. CASE RemoveInvalid
  <2>1. CASE Passes
    BY <1>2, <2>1 DEF Passes
  <2>2. CASE \E m, j \in Nat : Removes(m, j)
    <3>1. PICK m, j \in Nat : Removes(m, j)
      BY <2>2
    <3>2. CASE k # m
      BY <1>2, <3>1, <3>2 DEF Removes
    <3>3. CASE k = m
      <4>1. Len(lists[k]) \in Nat /\ i \in 1 .. Len(lists[k]) - 1
        BY <3>1, <3>3, ListsProperties, LenProperties DEF Removes
      <4>2. i \in 1 .. Len(lists[k]) /\ i + 1 \in 1 .. Len(lists[k])
        BY <4>1
      <4>3. lists'[k][i] = lists[k][i] \/ lists'[k][i] = lists[k][i + 1]
        BY <3>1, <3>3, <4>1 DEF Removes
      <4> QED
        BY <1>2, <3>1, <4>2, <4>3 DEF Removes
    <3> QED
      BY <3>2, <3>3
  <2> QED
    BY <1>5, <2>1, <2>2, RemovalStep
<1>6. CASE \E c \in Caller : Swap(c)
  <2>1. PICK c \in Caller : Swap(c)
    BY <1>6
  <2>2. k # Len(lists')
    <3>1. Len(<<>>) = 0
      OBVIOUS
    <3> QED
      BY <2>1, <3>1, SwapProperties
  <2>3. k \in 1 .. Len(lists) /\ lists'[k] = lists[k]
    BY <2>1, <2>2, SwapProperties, ListsProperties
  <2> QED
    BY <1>2, <2>3
<1> QED
  BY <1>3, <1>4, <1>5, <1>6, ListsChange

(* Every action keeps the copies to transactions sent: no copy is made     *)
(* between PushBack and Broadcast.                                         *)
LEMMA CopiesSentStep ==
  TypeOK /\ ControlInv /\ ListsSent /\ CopiesSent /\ [Next]_vars => CopiesSent'
<1> SUFFICES ASSUME TypeOK, ControlInv, ListsSent, CopiesSent, [Next]_vars,
                    NEW c \in Caller, NEW i \in 1 .. Len(copied'[c])
             PROVE  copied'[c][i] \in broadcast'
  BY DEF CopiesSent
<1> USE DEF control, loops, history
<1>1. broadcast \subseteq broadcast'
  BY DEF Next, HandlerStep, Copying, vars, QueueTransaction, Receive, FindTx,
         addTransaction, Broadcast, HandlerQuits, NewBlock, RemoveStart,
         RemoveInvalid, CurrentTransactions, Flush, Stop, Call, CopyStart,
         CopyNext, CopyEnd, Swap
<1>2. CASE copied'[c] = copied[c]
  BY <1>1, <1>2 DEF CopiesSent
<1>3. CASE copied'[c] = <<>>
  BY <1>3
<1>4. CASE CopyNext(c)
  <2>1. NextElem(c) \in Tx /\ NextElem(c) \in Sent
    BY <1>4, NextElemProperties DEF CopyNext, ListsSent, NextElem, Goroutine
  <2>2. NextElem(c) \in broadcast
    BY <1>4, <2>1, GoroutineAssumption DEF CopyNext, Sent, ControlInv, Holding
  <2>3. copied'[c] = Append(copied[c], NextElem(c)) /\ copied[c] \in Seq(Tx)
    BY <1>4 DEF CopyNext, TypeOK
  <2>4. /\ Len(copied'[c]) = Len(copied[c]) + 1
        /\ \A j \in 1 .. Len(copied[c]) : copied'[c][j] = copied[c][j]
        /\ copied'[c][Len(copied[c]) + 1] = NextElem(c)
    BY <2>1, <2>3, AppendProperties
  <2>5. i \in 1 .. Len(copied[c]) \/ i = Len(copied[c]) + 1
    BY <2>3, <2>4, LenProperties
  <2> QED
    BY <1>1, <2>2, <2>4, <2>5 DEF CopiesSent
<1>5. CopyNext(c) \/ copied'[c] = copied[c] \/ copied'[c] = <<>>
  <2>1. CASE \E d \in Caller : Copying(d)
    BY <2>1 DEF Copying, CopyStart, CopyNext, CopyEnd, Swap, TypeOK
  <2>2. CASE UNCHANGED copied
    BY <2>2
  <2>3. UNCHANGED copied \/ \E d \in Caller : Copying(d)
    BY DEF Next, HandlerStep, vars, QueueTransaction, Receive, FindTx,
           addTransaction, Broadcast, HandlerQuits, NewBlock, RemoveStart,
           RemoveInvalid, CurrentTransactions, Flush, Stop, Call
  <2> QED
    BY <2>1, <2>2, <2>3
<1> QED
  BY <1>2, <1>3, <1>4, <1>5

(* Where queueHandler stands, as far as its search depends on it.          *)
search == <<lists, tx, pc[Handler], on[Handler], pos[Handler]>>

(* The actions of other goroutines that leave the search alone.            *)
LEMMA SearchUndisturbed ==
  ASSUME TypeOK, ControlInv,
         \/ \E t \in Tx : QueueTransaction(t)
         \/ \E s \in ChainState : NewBlock(s)
         \/ RemoveStart
         \/ \E c \in Caller : \/ CurrentTransactions(c) \/ Flush(c) \/ Stop(c)
                              \/ CopyStart(c) \/ CopyNext(c) \/ CopyEnd(c)
         \/ UNCHANGED vars
  PROVE  UNCHANGED search /\ UNCHANGED skipped
<1> USE GoroutineAssumption DEF Goroutine, At, Goto, search, control, loops, history
<1>1. CASE (\E t \in Tx : QueueTransaction(t)) \/ UNCHANGED vars
  BY <1>1 DEF QueueTransaction, vars
<1>2. CASE (\E s \in ChainState : NewBlock(s)) \/ RemoveStart
  BY <1>2 DEF NewBlock, RemoveStart, ListFront, TypeOK
<1>3. CASE \E c \in Caller : CurrentTransactions(c) \/ Flush(c) \/ Stop(c)
  BY <1>3 DEF CurrentTransactions, Flush, Stop, Call, TypeOK
<1>4. CASE \E c \in Caller : CopyStart(c)
  BY <1>4 DEF CopyStart, ListFront, TypeOK
<1>5. CASE \E c \in Caller : CopyNext(c) \/ CopyEnd(c)
  BY <1>5 DEF CopyNext, CopyEnd, Step, LoopEnds, TypeOK
<1> QED
  BY <1>1, <1>2, <1>3, <1>4, <1>5

(* Every action keeps what FindTx has passed fresh.                        *)
LEMMA UniqueStep == TypeOK /\ ControlInv /\ UniqueInv /\ [Next]_vars => UniqueInv'
<1> SUFFICES ASSUME TypeOK, ControlInv, UniqueInv, [Next]_vars, ~skipped'
             PROVE  /\ NoDuplicates(pool)'
                    /\ pc'[Handler] = "find" => Searched'
                    /\ pc'[Handler] = "add" => Fresh(Len(pool))'
  BY DEF UniqueInv
<1> USE GoroutineAssumption DEF Goroutine, At, Goto
<1>1. pool \in Seq(Tx) /\ Len(pool) \in Nat /\ DOMAIN pool = 1 .. Len(pool)
  BY ListsProperties, LenProperties
<1>2. Len(lists) \in Nat /\ on[Handler] \in Nat /\ pos[Handler] \in Nat
  BY ListsProperties, LenProperties DEF TypeOK
<1>3. CASE UNCHANGED search /\ UNCHANGED skipped
  BY <1>3 DEF search, UniqueInv, pool, Searched, Fresh, NoDuplicates
<1>4. CASE Receive
  <2>1. /\ UNCHANGED <<lists, skipped>>
        /\ pc'[Handler] = "find" /\ on'[Handler] = Len(lists) /\ pos'[Handler] = 0
    BY <1>4 DEF Receive, ListFront, history, TypeOK
  <2>2. Len(lists) # 0
    BY ListsProperties
  <2>3. Searched'
    BY <1>1, <2>1, <2>2 DEF Searched, Fresh, pool
  <2> QED
    BY <2>1, <2>3 DEF UniqueInv, pool
<1>5. CASE FindTx
  <2>1. UNCHANGED <<lists, skipped>> /\ pc[Handler] = "find"
    BY <1>5 DEF FindTx, history
  <2>2. NoDuplicates(pool) /\ Searched /\ UNCHANGED pool
    BY <2>1 DEF UniqueInv, pool
  <2>3. NoDuplicates(pool)'
    BY <2>2 DEF NoDuplicates
  <2>4. CASE HandlerDone
    BY <2>3, <2>4 DEF HandlerDone, TypeOK
  <2>5. CASE /\ HasNext(Handler) /\ ~SameTx(NextElem(Handler))
             /\ Step(Handler) /\ UNCHANGED <<pc, tx>>
    <3>1. on' = on /\ pos'[Handler] = pos[Handler] + 1
      BY <2>5 DEF Step, TypeOK
    <3>2. pos[Handler] + 1 \in 1 .. Len(lists[on[Handler]])
      BY <2>5, NextElemProperties
    <3>3. Hash[lists[on[Handler]][pos[Handler] + 1]] # Hash[tx]
      BY <2>5 DEF SameTx, NextElem
    <3>4. ASSUME on[Handler] = Len(lists)
          PROVE  /\ pos[Handler] + 1 <= Len(pool)
                 /\ \A i \in 1 .. pos[Handler] + 1 : Hash[pool[i]] # Hash[tx]
      <4>1. /\ pos[Handler] + 1 \in 1 .. Len(pool)
            /\ Hash[pool[pos[Handler] + 1]] # Hash[tx]
        BY <3>2, <3>3, <3>4 DEF pool
      <4>2. \A i \in 1 .. pos[Handler] : Hash[pool[i]] # Hash[tx]
        BY <2>2, <3>4 DEF Searched, Fresh
      <4>3. \A i \in 1 .. pos[Handler] + 1 :
               i \in 1 .. pos[Handler] \/ i = pos[Handler] + 1
        BY <1>2
      <4> QED
        BY <1>1, <4>1, <4>2, <4>3
    <3>5. Searched'
      BY <2>1, <2>2, <2>5, <3>1, <3>4 DEF Searched, Fresh
    <3> QED
      BY <2>1, <2>3, <2>5, <3>5
  <2>6. CASE ~HasNext(Handler) /\ Goto(Handler, "add") /\ UNCHANGED tx
    <3>1. \A i \in 1 .. Len(pool) : Hash[pool[i]] # Hash[tx]
      <4>1. CASE on[Handler] = Len(lists)
        <5>1. ~(pos[Handler] < Len(pool))
          BY <2>2, <2>6, <4>1 DEF HasNext, Searched, pool
        <5>2. pos[Handler] <= Len(pool) /\ Fresh(pos[Handler])
          BY <2>2, <4>1 DEF Searched
        <5>3. pos[Handler] = Len(pool)
          BY <1>1, <1>2, <5>1, <5>2
        <5> QED
          BY <5>2, <5>3 DEF Fresh
      <4>2. CASE on[Handler] # Len(lists)
        BY <2>2, <4>2 DEF Searched
      <4> QED
        BY <4>1, <4>2
    <3>2. pc'[Handler] = "add"
      BY <2>6 DEF TypeOK
    <3> QED
      BY <2>2, <2>3, <2>6, <3>1, <3>2 DEF Fresh
  <2> QED
    BY <1>5, <2>4, <2>5, <2>6 DEF FindTx
<1>6. CASE addTransaction
  <2>1. pc[Handler] = "add" /\ pc'[Handler] = "send" /\ UNCHANGED skipped
    BY <1>6 DEF addTransaction, TypeOK
  <2>2. NoDuplicates(pool) /\ Fresh(Len(pool))
    BY <2>1 DEF UniqueInv
  <2> DEFINE longer == Append(pool, tx)
  <2>3. /\ pool' = longer
        /\ Len(longer) = Len(pool) + 1
        /\ \A i \in 1 .. Len(pool) : longer[i] = pool[i]
        /\ longer[Len(pool) + 1] = tx
        /\ longer \in Seq(Tx)
    BY <1>1, <1>6, AddProperties, AppendProperties DEF pool
  <2> HIDE DEF longer
  <2>4. ASSUME NEW i \in 1 .. Len(pool) + 1, NEW j \in 1 .. Len(pool) + 1,
               Hash[longer[i]] = Hash[longer[j]]
        PROVE  i = j
    <3>1. /\ i \in 1 .. Len(pool) \/ i = Len(pool) + 1
          /\ j \in 1 .. Len(pool) \/ j = Len(pool) + 1
      BY <1>1
    <3> QED
      BY <1>1, <2>2, <2>3, <2>4, <3>1 DEF NoDuplicates, Fresh
  <2>5. DOMAIN longer = 1 .. Len(pool) + 1
    BY <2>3, LenProperties
  <2> QED
    BY <2>1, <2>3, <2>4, <2>5 DEF NoDuplicates
<1>7. CASE Broadcast
  BY <1>7 DEF Broadcast, HandlerDone, UniqueInv, pool, NoDuplicates, TypeOK
<1>8. CASE HandlerQuits
  BY <1>8 DEF HandlerQuits, history, UniqueInv, pool, NoDuplicates, TypeOK
<1>9. CASE RemoveInvalid
  <2>1. UNCHANGED tx
    BY <1>9 DEF RemoveInvalid
  <2>2. CASE Passes
    BY <1>3, <2>1, <2>2 DEF Passes, search, TypeOK
  <2>3. CASE \E k, i \in Nat : Removes(k, i)
    <3>1. PICK k, i \in Nat : Removes(k, i)
      BY <2>3
    <3>2. ~skipped /\ ~(pc[Handler] = "find" /\ StandsOn(Handler, k, i))
      BY <3>1 DEF Removes
    <3>3. UNCHANGED pc[Handler]
      BY <3>1 DEF Removes, TypeOK
    <3>4. pc[Handler] = "find" =>
            /\ on'[Handler] = on[Handler]
            /\ pos'[Handler] = IF on[Handler] = k /\ pos[Handler] > i
                               THEN pos[Handler] - 1 ELSE pos[Handler]
            /\ ~(on[Handler] = k /\ pos[Handler] = i)
      BY <3>1, <3>2 DEF Removes, AfterRemove, StandsOn
    <3>5. Len(lists') = Len(lists)
      BY <3>1 DEF Removes
    <3>6. CASE k # Len(lists)
      <4>1. pool' = pool
        BY <3>1, <3>5, <3>6, ListsProperties DEF Removes, pool
      <4>2. pc[Handler] = "find" => Searched'
        BY <2>1, <3>2, <3>4, <3>5, <3>6, <4>1 DEF UniqueInv, Searched, Fresh
      <4> QED
        BY <2>1, <3>2, <3>3, <4>1, <4>2 DEF UniqueInv, NoDuplicates, Fresh
    <3>7. CASE k = Len(lists)
      <4>1. /\ Len(pool') = Len(pool) - 1
            /\ i \in 1 .. Len(pool)
            /\ \A j \in 1 .. Len(pool) - 1 :
                  pool'[j] = IF j < i THEN pool[j] ELSE pool[j + 1]
        BY <3>1, <3>5, <3>7 DEF Removes, pool
      <4>2. \A j \in 1 .. Len(pool) - 1 :
               j \in 1 .. Len(pool) /\ j + 1 \in 1 .. Len(pool)
        BY <1>1
      <4>3. DOMAIN pool' = 1 .. Len(pool) - 1
        <5>1. pool' \in Seq(Tx)
          BY <3>1, <3>5, ListsProperties, ElementOfSeq DEF Removes, pool
        <5> QED
          BY <4>1, <5>1, LenProperties
      <4>4. NoDuplicates(pool)'
        <5> SUFFICES ASSUME NEW m \in 1 .. Len(pool) - 1,
                            NEW n \in 1 .. Len(pool) - 1,
                            Hash[pool'[m]] = Hash[pool'[n]]
                     PROVE  m = n
          BY <4>3 DEF NoDuplicates
        <5>1. NoDuplicates(pool)
          BY <3>2 DEF UniqueInv
        <5> DEFINE a == IF m < i THEN m ELSE m + 1
                   b == IF n < i THEN n ELSE n + 1
        <5>2. a \in 1 .. Len(pool) /\ b \in 1 .. Len(pool)
          BY <4>2
        <5>3. pool'[m] = pool[a] /\ pool'[n] = pool[b]
          BY <4>1
        <5>4. a = b
          BY <1>1, <5>1, <5>2, <5>3 DEF NoDuplicates
        <5> QED
          BY <5>4
      <4>5. pc[Handler] = "find" => Searched'
        <5> SUFFICES ASSUME pc[Handler] = "find" PROVE Searched'
          OBVIOUS
        <5>1. Searched
          BY <3>2 DEF UniqueInv
        <5>2. CASE on[Handler] # Len(lists)
          BY <1>1, <3>4, <3>5, <4>1, <5>1, <5>2 DEF Searched
        <5>3. CASE on[Handler] = Len(lists)
          <6> DEFINE p == pos[Handler]
                     q == pos'[Handler]
          <6>1. /\ p <= Len(pool) /\ p # i
                /\ \A j \in 1 .. p : Hash[pool[j]] # Hash[tx]
            BY <3>4, <3>7, <5>1, <5>3 DEF Searched, Fresh
          <6>2. q = IF p > i THEN p - 1 ELSE p
            BY <3>4, <3>7, <5>3
          <6>3. p \in Nat
            BY <1>2
          <6> HIDE DEF p, q
          <6>4. q <= Len(pool) - 1
            BY <1>1, <4>1, <6>1, <6>2, <6>3
          <6>5. ASSUME NEW j \in 1 .. q PROVE Hash[pool'[j]] # Hash[tx]
            <7>1. j \in 1 .. Len(pool) - 1
              BY <1>1, <6>2, <6>3, <6>4
            <7>2. j < i => j \in 1 .. p
              BY <4>1, <6>2, <6>3
            <7>3. ~(j < i) => j + 1 \in 1 .. p
              BY <4>1, <6>1, <6>2, <6>3
            <7> QED
              BY <4>1, <6>1, <7>1, <7>2, <7>3
          <6> QED
            BY <2>1, <3>4, <3>5, <4>1, <5>1, <5>3, <6>4, <6>5
               DEF Searched, Fresh, q
        <5> QED
          BY <5>2, <5>3
      <4>6. pc[Handler] = "add" => Fresh(Len(pool))'
        BY <2>1, <3>2, <4>1, <4>2 DEF UniqueInv, Fresh
      <4> QED
        BY <3>3, <4>4, <4>5, <4>6
    <3> QED
      BY <3>6, <3>7
  <2> QED
    BY <1>9, <2>2, <2>3, RemovalStep
<1>10. CASE \E c \in Caller : Swap(c)
  <2>1. PICK c \in Caller : Swap(c)
    BY <1>10
  <2>2. UNCHANGED <<skipped, on, pos, tx, pc[Handler]>>
    BY <2>1 DEF Swap, loops, TypeOK
  <2>3. pool' = <<>> /\ Len(lists') = Len(lists) + 1
    BY <2>1, SwapProperties DEF pool
  <2>4. Len(pool') = 0 /\ DOMAIN pool' = {}
    BY <2>3
  <2>5. on[Handler] # Len(lists')
    <3>1. on[Handler] <= Len(lists)
      BY DEF ControlInv
    <3> QED
      BY <1>2, <2>3, <3>1
  <2>6. pc[Handler] = "find" => on[Handler] # 0
    BY <2>2 DEF UniqueInv, Searched
  <2> QED
    BY <2>2, <2>4, <2>5, <2>6 DEF Searched, Fresh, NoDuplicates
<1> QED
  BY <1>3, <1>4, <1>5, <1>6, <1>7, <1>8, <1>9, <1>10, SearchUndisturbed
     DEF Next, HandlerStep, Copying

-----------------------------------------------------------------------------
(* The places of s are places of t that hold the same, in the same order.  *)
Embedding(f, s, t) ==
    /\ \A i \in 1 .. Len(s) : s[i] = t[f[i]]
    /\ \A i, j \in 1 .. Len(s) : i < j => f[i] < f[j]
Embeds(s, t) == \E f \in [1 .. Len(s) -> 1 .. Len(t)] : Embedding(f, s, t)

(* What is put at the end of both lists keeps the order.                   *)
LEMMA EmbedsAppend ==
  ASSUME NEW s \in Seq(Tx), NEW t \in Seq(Tx), NEW e \in Tx, Embeds(s, t)
  PROVE  Embeds(Append(s, e), Append(t, e))
<1> DEFINE longer == Append(s, e)
           further == Append(t, e)
           n == Len(s)
           m == Len(t)
<1>1. n \in Nat /\ m \in Nat
  BY LenProperties
<1>2. /\ Len(longer) = n + 1 /\ longer[n + 1] = e
      /\ \A i \in 1 .. n : longer[i] = s[i]
      /\ Len(further) = m + 1 /\ further[m + 1] = e
      /\ \A i \in 1 .. m : further[i] = t[i]
  BY AppendProperties
<1>3. PICK f \in [1 .. n -> 1 .. m] : Embedding(f, s, t)
  BY DEF Embeds
<1> HIDE DEF longer, further
<1> DEFINE g == [i \in 1 .. n + 1 |-> IF i = n + 1 THEN m + 1 ELSE f[i]]
<1>4. /\ \A i \in 1 .. n : s[i] = t[f[i]] /\ f[i] \in 1 .. m
      /\ \A i, j \in 1 .. n : i < j => f[i] < f[j]
  BY <1>3 DEF Embedding
<1> HIDE DEF n, m
<1>5. \A i \in 1 .. n : i \in 1 .. n + 1 /\ i # n + 1
  BY <1>1
<1>6. n + 1 \in 1 .. n + 1
  BY <1>1
<1>7. g[n + 1] = m + 1 /\ \A i \in 1 .. n : g[i] = f[i]
  BY <1>5, <1>6
<1>8. \A i \in 1 .. n + 1 : i \in 1 .. n \/ i = n + 1
  BY <1>1
<1>9. g \in [1 .. n + 1 -> 1 .. m + 1]
  BY <1>1, <1>4, <1>5
<1> HIDE DEF g
<1>10. \A i \in 1 .. n + 1 : longer[i] = further[g[i]]
  BY <1>2, <1>4, <1>7, <1>8
<1>11. ASSUME NEW i \in 1 .. n + 1, NEW j \in 1 .. n + 1, i < j
       PROVE  g[i] < g[j]
  <2>1. i \in 1 .. n
    BY <1>1, <1>11
  <2>2. CASE j \in 1 .. n
    BY <1>4, <1>7, <1>11, <2>1, <2>2
  <2>3. CASE j = n + 1
    BY <1>1, <1>4, <1>7, <2>1, <2>3
  <2> QED
    BY <1>8, <2>2, <2>3
<1>12. Len(longer) = n + 1 /\ Len(further) = m + 1
  BY <1>2 DEF n, m
<1>13. Embedding(g, longer, further)
  BY <1>10, <1>11, <1>12 DEF Embedding
<1>14. Embeds(longer, further)
  BY <1>9, <1>12, <1>13 DEF Embeds
<1> QED
  BY <1>14 DEF longer, further

(* What is left of a list when an element is taken out keeps it.           *)
LEMMA EmbedsRemoved ==
  ASSUME NEW s, NEW r, NEW t, NEW k, Len(s) \in Nat, k \in 1 .. Len(s),
         Len(r) = Len(s) - 1,
         \A j \in 1 .. Len(s) - 1 : r[j] = IF j < k THEN s[j] ELSE s[j + 1],
         Embeds(s, t)
  PROVE  Embeds(r, t)
<1> DEFINE n == Len(s)
           up(i) == IF i < k THEN i ELSE i + 1
<1>1. PICK f \in [1 .. n -> 1 .. Len(t)] : Embedding(f, s, t)
  BY DEF Embeds
<1> DEFINE g == [i \in 1 .. n - 1 |-> f[up(i)]]
<1>2. \A i \in 1 .. n - 1 : up(i) \in 1 .. n /\ r[i] = s[up(i)]
  OBVIOUS
<1>3. \A i, j \in 1 .. n - 1 : i < j => up(i) < up(j)
  OBVIOUS
<1> HIDE DEF up
<1>4. g \in [1 .. n - 1 -> 1 .. Len(t)]
  BY <1>2
<1>5. /\ \A i \in 1 .. n : s[i] = t[f[i]]
      /\ \A i, j \in 1 .. n : i < j => f[i] < f[j]
  BY <1>1 DEF Embedding
<1>6. \A i \in 1 .. n - 1 : r[i] = t[g[i]]
  BY <1>2, <1>5
<1>7. \A i, j \in 1 .. n - 1 : i < j => g[i] < g[j]
  BY <1>2, <1>3, <1>5
<1> HIDE DEF g
<1>8. Embedding(g, r, t)
  BY <1>6, <1>7 DEF Embedding
<1> QED
  BY <1>4, <1>8 DEF Embeds

(* An empty list keeps any order.                                          *)
LEMMA EmbedsEmpty ==
  ASSUME NEW s, NEW t, Len(s) = 0
  PROVE  Embeds(s, t)
<1> DEFINE f == [i \in 1 .. 0 |-> 1]
<1>1. f \in [1 .. Len(s) -> 1 .. Len(t)] /\ Embedding(f, s, t)
  BY DEF Embedding
<1> QED
  BY <1>1 DEF Embeds

(* Transactions are recorded as accepted where they are put in the pool.   *)
LEMMA AcceptedChange ==
  [Next]_vars => UNCHANGED accepted \/ addTransaction
BY DEF Next, HandlerStep, Copying, vars, history, QueueTransaction, Receive, FindTx,
       Broadcast, HandlerQuits, NewBlock, RemoveStart, RemoveInvalid,
       CurrentTransactions, Flush, Stop, Call, CopyStart, CopyNext, CopyEnd, Swap

(* The only actions that change a list do not change the accepted ones,    *)
(* but for addTransaction, so the order of arrival is kept.                *)
OrderInv == Embeds(pool, accepted)

(* Every action keeps it.                                                  *)
LEMMA OrderStep == TypeOK /\ ControlInv /\ OrderInv /\ [Next]_vars => OrderInv'
<1> SUFFICES ASSUME TypeOK, ControlInv, OrderInv, [Next]_vars
             PROVE  Embeds(pool', accepted')
  BY DEF OrderInv
<1>1. pool \in Seq(Tx) /\ Len(pool) \in Nat /\ accepted \in Seq(Tx)
  BY ListsProperties, LenProperties DEF TypeOK
<1>2. CASE addTransaction
  <2>1. pool' = Append(pool, tx) /\ accepted' = Append(accepted, tx) /\ tx \in Tx
    BY <1>2, AddProperties DEF pool, addTransaction
  <2> QED
    BY <1>1, <2>1, EmbedsAppend DEF OrderInv
<1>3. CASE ~addTransaction
  <2>1. accepted' = accepted
    BY <1>3, AcceptedChange
  <2>2. CASE UNCHANGED lists
    BY <2>1, <2>2 DEF pool, OrderInv
  <2>3. CASE RemoveInvalid
    <3>1. CASE Passes
      BY <2>1, <3>1 DEF Passes, pool, OrderInv
    <3>2. CASE \E k, i \in Nat : Removes(k, i)
      <4>1. PICK k, i \in Nat : Removes(k, i)
        BY <3>2
      <4>2. CASE k # Len(lists)
        <5>1. pool' = pool
          BY <4>1, <4>2, ListsProperties DEF Removes, pool
        <5> QED
          BY <2>1, <5>1 DEF OrderInv
      <4>3. CASE k = Len(lists)
        <5>1. /\ Len(pool') = Len(pool) - 1
              /\ i \in 1 .. Len(pool)
              /\ \A j \in 1 .. Len(pool) - 1 :
                    pool'[j] = IF j < i THEN pool[j] ELSE pool[j + 1]
          BY <4>1, <4>3 DEF Removes, pool
        <5> QED
          BY <1>1, <2>1, <5>1, EmbedsRemoved DEF OrderInv
      <4> QED
        BY <4>2, <4>3
    <3> QED
      BY <2>3, <3>1, <3>2, RemovalStep
  <2>4. CASE \E c \in Caller : Swap(c)
    <3>1. Len(pool') = 0
      BY <2>4, SwapProperties DEF pool
    <3> QED
      BY <3>1, EmbedsEmpty
  <2> QED
    BY <1>3, <2>2, <2>3, <2>4, ListsChange
<1> QED
  BY <1>2, <1>3

-----------------------------------------------------------------------------
(* The inductive invariant, besides TypeOK.                                *)
IInv == ControlInv /\ FitsInv /\ ListsSent /\ CopiesSent /\ UniqueInv /\ OrderInv

(* It holds initially,                                                     *)
LEMMA InitEstablishes == Init => TypeOK /\ IInv
<1> SUFFICES ASSUME Init PROVE TypeOK /\ IInv
  OBVIOUS
<1> USE GoroutineAssumption DEF Init, Goroutine
<1>1. <<>> \in Seq(Tx) /\ Len(<<>>) = 0
  BY EmptySeq
<1>2. lists \in Seq(Seq(Tx)) /\ Len(lists) = 1 /\ lists[1] = <<>> /\ lists # <<>>
  BY <1>1
<1>3. Len(queueChan) <= QueueSize
  BY <1>1, TxAssumption
<1>4. TypeOK
  BY <1>1, <1>2, <1>3 DEF TypeOK
<1>5. ControlInv
  BY <1>2 DEF ControlInv, Holding
<1>6. FitsInv
  BY DEF FitsInv, Fits, Holding
<1>7. ListsSent /\ CopiesSent
  BY <1>1, <1>2 DEF ListsSent, CopiesSent
<1>8. UniqueInv
  BY <1>2 DEF UniqueInv, NoDuplicates, pool
<1>9. OrderInv
  <2>1. Len(pool) = 0
    BY <1>1, <1>2 DEF pool
  <2> QED
    BY <2>1, EmbedsEmpty DEF OrderInv
<1> QED
  BY <1>4, <1>5, <1>6, <1>7, <1>8, <1>9 DEF IInv

(* and every step preserves it.                                            *)
LEMMA NextPreserves == TypeOK /\ IInv /\ [Next]_vars => (TypeOK /\ IInv)'
BY TypeStep, ControlStep, FitsStep, ListsSentStep, CopiesSentStep, UniqueStep,
   OrderStep DEF IInv

(* So it always holds.                                                     *)
LEMMA Inductive == Spec => [](TypeOK /\ IInv)
<1>1. Init => TypeOK /\ IInv
  BY InitEstablishes
<1>2. TypeOK /\ IInv /\ [Next]_vars => (TypeOK /\ IInv)'
  BY NextPreserves
<1> QED
  BY <1>1, <1>2, PTL DEF Spec

(* However the goroutines interleave, the channel never holds more than it *)
(* was made for, and every loop stands in a list there is.                 *)
THEOREM TypeCorrect == Spec => []TypeOK
BY Inductive, PTL

(* CurrentTransactions never writes past the slice it made, although       *)
(* RemoveInvalid takes elements out of the list while it copies.           *)
THEOREM CopyAlwaysFits == Spec => []CopyFits
<1>1. FitsInv => CopyFits
  BY DEF FitsInv, Fits, CopyFits, Holding
<1>2. TypeOK /\ IInv => CopyFits
  BY <1>1 DEF IInv
<1> QED
  BY <1>2, Inductive, PTL

(* What the miner or a peer is given by the pool was broadcast before.     *)
THEOREM OnlyBroadcastIsHandedOut == Spec => []HandedOutWasBroadcast
<1>1. TypeOK /\ CopiesSent => HandedOutWasBroadcast
  <2> SUFFICES ASSUME TypeOK, CopiesSent, NEW c \in Caller
               PROVE  ToSet(copied[c]) \subseteq broadcast
    BY DEF HandedOutWasBroadcast
  <2>1. DOMAIN copied[c] = 1 .. Len(copied[c])
    BY LenProperties DEF TypeOK
  <2> QED
    BY <2>1 DEF CopiesSent, ToSet
<1>2. TypeOK /\ IInv => HandedOutWasBroadcast
  BY <1>1 DEF IInv
<1> QED
  BY <1>2, Inductive, PTL

(* Two transactions with one hash are never both in the pool, unless       *)
(* RemoveInvalid has removed the element FindTx stood on.                  *)
THEOREM UniqueUnlessSkipped == Spec => []NoDuplicatesUnlessSkipped
<1>1. TypeOK /\ IInv => NoDuplicatesUnlessSkipped
  BY DEF IInv, UniqueInv, NoDuplicatesUnlessSkipped
<1> QED
  BY <1>1, Inductive, PTL

(* RemoveInvalid and Flush never reorder the pool: it lists transactions   *)
(* in the order queueHandler accepted them, so a miner that applies them   *)
(* in turn meets the nonces of a sender as they were sent.                 *)
THEOREM ArrivalOrderKept == Spec => []KeepsArrivalOrder
<1>1. TypeOK /\ OrderInv => KeepsArrivalOrder
  <2> SUFFICES ASSUME TypeOK, OrderInv PROVE KeepsArrivalOrder
    OBVIOUS
  <2>1. DOMAIN pool = 1 .. Len(pool) /\ DOMAIN accepted = 1 .. Len(accepted)
    BY ListsProperties, LenProperties DEF TypeOK
  <2> QED
    BY <2>1 DEF OrderInv, Embeds, Embedding, KeepsArrivalOrder
<1>2. TypeOK /\ IInv => KeepsArrivalOrder
  BY <1>1 DEF IInv
<1> QED
  BY <1>2, Inductive, PTL
=============================================================================
