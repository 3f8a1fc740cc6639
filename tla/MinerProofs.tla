----------------------------- MODULE MinerProofs -----------------------------
(***************************************************************************)
(* The safety properties of the miner, for any transactions, any pool and  *)
(* any number of blocks.                                                   *)
(*                                                                         *)
(* OwnBlocksExecute is not inductive: the block is made long before it is  *)
(* added.  SearchInv says of the block mined on that it executes on the    *)
(* state it was made from, for which ApplyTransactions has to do the same  *)
(* on the transactions it returned as on those it was given                *)
(* (ApplyTransactionsAgain); existing blocks do not change, and Process    *)
(* refuses a block made from the state of another than its parent.         *)
(***************************************************************************)
EXTENDS Miner, DataLemmas

(* What ApplyTransactions returns of the state.                            *)
Account == [nonce : Nat, valid : Seq(Tx)]

(* The accounts ApplyTransactions passes through.                          *)
IsTrace(tr, nonce, list) ==
    /\ tr \in [0 .. Len(list) -> Account]
    /\ tr[0] = [nonce |-> nonce, valid |-> <<>>]
    /\ \A k \in 1 .. Len(list) : tr[k] = ApplyTransaction(tr[k - 1], list[k])
    /\ tr[Len(list)] = ApplyTransactions(nonce, list)

(* One turn of the loop of ApplyTransactions returns an account.           *)
LEMMA ApplyTransactionType ==
  ASSUME NEW a \in Account, NEW tx \in Tx
  PROVE  ApplyTransaction(a, tx) \in Account
<1>1. Append(a.valid, tx) \in Seq(Tx)
  BY DEF Account
<1> QED
  BY <1>1 DEF Account, ApplyTransaction

(* ApplyTransactions is its loop, run from the first transaction to the    *)
(* last.                                                                   *)
LEMMA ApplyTransactionsTrace ==
  ASSUME NEW nonce \in Nat, NEW list \in Seq(Tx)
  PROVE  \E tr : IsTrace(tr, nonce, list)
<1> DEFINE n == Len(list)
           b == [nonce |-> nonce, valid |-> <<>>]
           step == [p \in Account \X Tx |-> ApplyTransaction(p[1], p[2])]
           Def(g) == [T \in SUBSET (1 .. n) |->
                         IF T = {} THEN b
                         ELSE ApplyTransaction(g[T \ {Max(T)}], list[Max(T)])]
           G == CHOOSE g : g = Def(g)
<1>1. n \in Nat /\ list \in [1 .. n -> Tx] /\ b \in Account
  BY DEF Account
<1>2. step \in [Account \X Tx -> Account]
  BY ApplyTransactionType
<1>3. \E g : g = Def(g)
  <2>1. HasFold(Account, b, n, list, step)
    <3> HIDE DEF b, n, step
    <3> QED
      BY <1>1, <1>2, PrefixFold, Zenon
  <2>2. PICK g \in [SUBSET (1 .. n) -> Account] : \A T \in SUBSET (1 .. n) :
           g[T] = IF T = {} THEN b ELSE step[<<g[T \ {Max(T)}], list[Max(T)]>>]
    BY <2>1, Zenon DEF HasFold
  <2>3. ASSUME NEW T \in SUBSET (1 .. n)
        PROVE  g[T] = Def(g)[T]
    <3>1. CASE T = {}
      BY <2>2, <3>1
    <3>2. CASE T # {}
      <4> HIDE DEF n, b
      <4>1. Max(T) \in 1 .. n /\ T \ {Max(T)} \in SUBSET (1 .. n)
        BY <1>1, <3>2, MaxProperties
      <4>2. g[T \ {Max(T)}] \in Account /\ list[Max(T)] \in Tx
        BY <1>1, <4>1
      <4>3. g[T] = step[<<g[T \ {Max(T)}], list[Max(T)]>>]
        BY <2>2, <3>2
      <4> QED
        BY <3>2, <4>2, <4>3
    <3> QED
      BY <3>1, <3>2
  <2>4. g = Def(g)
    <3> HIDE DEF n, b
    <3> QED
      BY <2>3
  <2> QED
    BY <2>4
<1>4. G = Def(G)
  <2> HIDE DEF Def
  <2> QED
    BY <1>3, Zenon
<1>5. ApplyTransactions(nonce, list) = G[1 .. n]
  <2>1. DOMAIN list = 1 .. n
    BY <1>1
  <2> QED
    BY <2>1, Zenon DEF ApplyTransactions, FoldLeft, MapThenFoldSet
<1> DEFINE tr == [k \in 0 .. n |-> G[1 .. k]]
<1> HIDE DEF G
<1>6. tr[0] = b
  <2>1. 1 .. 0 = {} /\ {} \in SUBSET (1 .. n) /\ 0 \in 0 .. n
    BY <1>1
  <2>2. Def(G)[{}] = b
    BY <2>1
  <2> HIDE DEF n, b, Def
  <2> QED
    BY <1>4, <2>1, <2>2
<1>7. ASSUME NEW k \in 1 .. n
      PROVE  tr[k] = ApplyTransaction(tr[k - 1], list[k])
  <2>1. k \in Nat \ {0} /\ k \in 0 .. n /\ k - 1 \in 0 .. n
    BY <1>1
  <2>2. 1 .. k \in SUBSET (1 .. n) /\ 1 .. k # {}
    <3>1. k \in 1 .. k /\ \A j \in 1 .. k : j \in 1 .. n
      BY <1>1, <2>1
    <3> QED
      BY <3>1
  <2>3. Max(1 .. k) = k /\ (1 .. k) \ {k} = 1 .. (k - 1)
    BY <2>1, MaxOfPrefix
  <2>4. Def(G)[1 .. k] = ApplyTransaction(G[(1 .. k) \ {Max(1 .. k)}], list[Max(1 .. k)])
    <3> HIDE DEF n, b
    <3> QED
      BY <2>2
  <2> HIDE DEF n, b, Def
  <2> QED
    BY <1>4, <2>1, <2>3, <2>4
<1>8. \A k \in 0 .. n : tr[k] \in Account
  <2> DEFINE S == {k \in 0 .. n : tr[k] \in Account}
  <2>1. 0 \in S
    BY <1>1, <1>6
  <2>2. ASSUME NEW k \in 1 .. n, k - 1 \in S
        PROVE  k \in S
    <3>1. list[k] \in Tx /\ k \in 0 .. n
      BY <1>1
    <3> HIDE DEF tr
    <3> QED
      BY <1>7, <2>2, <3>1, ApplyTransactionType
  <2> HIDE DEF S, n
  <2>3. \A k \in 0 .. n : k \in S
    BY <1>1, <2>1, <2>2, PrefixInduction
  <2> QED
    BY <2>3 DEF S
<1>9. IsTrace(tr, nonce, list)
  <2>1. tr[n] = G[1 .. n]
    BY <1>1
  <2>2. tr \in [0 .. n -> Account]
    BY <1>8
  <2> HIDE DEF tr
  <2> QED
    BY <1>5, <1>6, <1>7, <2>1, <2>2 DEF IsTrace
<1> QED
  BY <1>9

(* The lists that the filter of the listener passes through.               *)
IsFilter(tr, listed, list) ==
    /\ tr \in [0 .. Len(list) -> Seq(Tx)]
    /\ tr[0] = <<>>
    /\ \A k \in 1 .. Len(list) :
          tr[k] = IF Contains(listed, list[k]) THEN tr[k - 1] ELSE Append(tr[k - 1], list[k])
    /\ tr[Len(list)] = NotIn(listed, list)

(* The filter is its loop, run from the first transaction to the last.     *)
LEMMA NotInTrace ==
  ASSUME NEW listed \in Seq(Tx), NEW list \in Seq(Tx)
  PROVE  \E tr : IsFilter(tr, listed, list)
<1> DEFINE n == Len(list)
           b == <<>>
           Keep(kept, tx) == IF Contains(listed, tx) THEN kept ELSE Append(kept, tx)
           step == [p \in Seq(Tx) \X Tx |-> Keep(p[1], p[2])]
           Def(g) == [T \in SUBSET (1 .. n) |->
                         IF T = {} THEN b
                         ELSE Keep(g[T \ {Max(T)}], list[Max(T)])]
           G == CHOOSE g : g = Def(g)
<1>1. n \in Nat /\ list \in [1 .. n -> Tx] /\ b \in Seq(Tx)
  OBVIOUS
<1>2. step \in [Seq(Tx) \X Tx -> Seq(Tx)]
  OBVIOUS
<1>3. \E g : g = Def(g)
  <2>1. HasFold(Seq(Tx), b, n, list, step)
    <3> HIDE DEF b, n, step
    <3> QED
      BY <1>1, <1>2, PrefixFold, Zenon
  <2>2. PICK g \in [SUBSET (1 .. n) -> Seq(Tx)] : \A T \in SUBSET (1 .. n) :
           g[T] = IF T = {} THEN b ELSE step[<<g[T \ {Max(T)}], list[Max(T)]>>]
    BY <2>1, Zenon DEF HasFold
  <2>3. ASSUME NEW T \in SUBSET (1 .. n)
        PROVE  g[T] = Def(g)[T]
    <3>1. CASE T = {}
      BY <2>2, <3>1
    <3>2. CASE T # {}
      <4> HIDE DEF n, b
      <4>1. Max(T) \in 1 .. n /\ T \ {Max(T)} \in SUBSET (1 .. n)
        BY <1>1, <3>2, MaxProperties
      <4>2. g[T \ {Max(T)}] \in Seq(Tx) /\ list[Max(T)] \in Tx
        BY <1>1, <4>1
      <4>3. g[T] = step[<<g[T \ {Max(T)}], list[Max(T)]>>]
        BY <2>2, <3>2
      <4> QED
        BY <3>2, <4>2, <4>3
    <3> QED
      BY <3>1, <3>2
  <2>4. g = Def(g)
    <3> HIDE DEF n, b
    <3> QED
      BY <2>3
  <2> QED
    BY <2>4
<1>4. G = Def(G)
  <2> HIDE DEF Def
  <2> QED
    BY <1>3, Zenon
<1>5. NotIn(listed, list) = G[1 .. n]
  <2>1. DOMAIN list = 1 .. n
    BY <1>1
  <2> QED
    BY <2>1, Zenon DEF NotIn, FoldLeft, MapThenFoldSet
<1> DEFINE tr == [k \in 0 .. n |-> G[1 .. k]]
<1> HIDE DEF G
<1>6. tr[0] = b
  <2>1. 1 .. 0 = {} /\ {} \in SUBSET (1 .. n) /\ 0 \in 0 .. n
    BY <1>1
  <2>2. Def(G)[{}] = b
    BY <2>1
  <2> HIDE DEF n, b, Def
  <2> QED
    BY <1>4, <2>1, <2>2
<1>7. ASSUME NEW k \in 1 .. n
      PROVE  tr[k] = Keep(tr[k - 1], list[k])
  <2>1. k \in Nat \ {0} /\ k \in 0 .. n /\ k - 1 \in 0 .. n
    BY <1>1
  <2>2. 1 .. k \in SUBSET (1 .. n) /\ 1 .. k # {}
    <3>1. k \in 1 .. k /\ \A j \in 1 .. k : j \in 1 .. n
      BY <1>1, <2>1
    <3> QED
      BY <3>1
  <2>3. Max(1 .. k) = k /\ (1 .. k) \ {k} = 1 .. (k - 1)
    BY <2>1, MaxOfPrefix
  <2>4. Def(G)[1 .. k] = Keep(G[(1 .. k) \ {Max(1 .. k)}], list[Max(1 .. k)])
    <3> HIDE DEF n, b
    <3> QED
      BY <2>2
  <2> HIDE DEF n, b, Def
  <2> QED
    BY <1>4, <2>1, <2>3, <2>4
<1>8. \A k \in 0 .. n : tr[k] \in Seq(Tx)
  <2> DEFINE S == {k \in 0 .. n : tr[k] \in Seq(Tx)}
  <2>1. 0 \in S
    <3>1. 0 \in 0 .. n
      BY <1>1
    <3> HIDE DEF tr, n, b
    <3> QED
      BY <1>1, <1>6, <3>1
  <2>2. ASSUME NEW k \in 1 .. n, k - 1 \in S
        PROVE  k \in S
    <3>1. list[k] \in Tx /\ k \in 0 .. n
      BY <1>1
    <3>2. tr[k - 1] \in Seq(Tx)
      BY <2>2
    <3> HIDE DEF tr
    <3>3. Keep(tr[k - 1], list[k]) \in Seq(Tx)
      BY <3>1, <3>2
    <3> HIDE DEF Keep
    <3> QED
      BY <1>7, <3>1, <3>3
  <2> HIDE DEF S, n
  <2>3. \A k \in 0 .. n : k \in S
    BY <1>1, <2>1, <2>2, PrefixInduction
  <2> QED
    BY <2>3 DEF S
<1>9. IsFilter(tr, listed, list)
  <2>1. tr[n] = G[1 .. n]
    BY <1>1
  <2>2. tr \in [0 .. n -> Seq(Tx)]
    BY <1>8
  <2> HIDE DEF tr
  <2> QED
    BY <1>5, <1>6, <1>7, <2>1, <2>2 DEF IsFilter
<1> QED
  BY <1>9

-----------------------------------------------------------------------------

(* The filter of the listener forges and doubles no transaction.           *)
LEMMA NotInProperties ==
  ASSUME NEW listed \in Seq(Tx), NEW list \in Seq(Tx)
  PROVE  /\ NotIn(listed, list) \in Seq(Tx)
         /\ ToSet(NotIn(listed, list)) \subseteq ToSet(list)
         /\ IsInjective(list) => IsInjective(NotIn(listed, list))
<1>1. PICK tr : IsFilter(tr, listed, list)
  BY NotInTrace
<1>2. tr \in [0 .. Len(list) -> Seq(Tx)] /\ tr[0] = <<>>
  BY <1>1 DEF IsFilter
<1>3. \A k \in 1 .. Len(list) : tr[k] = tr[k - 1] \/ tr[k] = Append(tr[k - 1], list[k])
  BY <1>1 DEF IsFilter
<1>4. tr[Len(list)] = NotIn(listed, list) /\ tr[Len(list)] \in Seq(Tx)
  BY <1>1, <1>2 DEF IsFilter
<1> QED
  BY <1>2, <1>3, <1>4, KeptProperties

(* The transactions ApplyTransactions returns are some of those it was     *)
(* given, none of them twice.                                              *)
LEMMA ApplyTransactionsProperties ==
  ASSUME NEW nonce \in Nat, NEW list \in Seq(Tx)
  PROVE  LET state == ApplyTransactions(nonce, list)
         IN  /\ state \in Account
             /\ ToSet(state.valid) \subseteq ToSet(list)
             /\ IsInjective(list) => IsInjective(state.valid)
<1>1. PICK tr : IsTrace(tr, nonce, list)
  BY ApplyTransactionsTrace
<1> DEFINE n == Len(list)
           out == [k \in 0 .. n |-> tr[k].valid]
<1>2. \A k \in 0 .. n : tr[k] \in Account /\ tr[k].valid \in Seq(Tx)
  BY <1>1 DEF IsTrace, Account
<1>3. out \in [0 .. n -> Seq(Tx)] /\ out[0] = <<>>
  BY <1>1, <1>2 DEF IsTrace
<1>4. ASSUME NEW k \in 1 .. n
      PROVE  out[k] = out[k - 1] \/ out[k] = Append(out[k - 1], list[k])
  <2>1. k \in 0 .. n /\ k - 1 \in 0 .. n
    OBVIOUS
  <2>2. tr[k] = ApplyTransaction(tr[k - 1], list[k])
    BY <1>1 DEF IsTrace
  <2>3. tr[k].valid = tr[k - 1].valid \/ tr[k].valid = Append(tr[k - 1].valid, list[k])
    BY <2>2 DEF ApplyTransaction
  <2> QED
    BY <2>1, <2>3
<1>5. n \in 0 .. n /\ out[n] = ApplyTransactions(nonce, list).valid
  BY <1>1 DEF IsTrace
<1>6. ApplyTransactions(nonce, list) \in Account
  BY <1>1, <1>2 DEF IsTrace
<1> HIDE DEF out
<1>7. /\ ToSet(out[n]) \subseteq ToSet(list)
      /\ IsInjective(list) => IsInjective(out[n])
  BY <1>3, <1>4, KeptProperties
<1> QED
  BY <1>5, <1>6, <1>7

(* Without transactions ApplyTransactions leaves the account alone.        *)
LEMMA ApplyNoTransactions ==
  ASSUME NEW nonce \in Nat
  PROVE  ApplyTransactions(nonce, <<>>) = [nonce |-> nonce, valid |-> <<>>]
<1>1. <<>> \in Seq(Tx) /\ Len(<<>>) = 0
  OBVIOUS
<1>2. PICK tr : IsTrace(tr, nonce, <<>>)
  BY <1>1, ApplyTransactionsTrace
<1> QED
  BY <1>1, <1>2 DEF IsTrace

(* ApplyTransactions executes a list as its last transaction after the     *)
(* others.                                                                 *)
LEMMA ApplyTransactionsAppend ==
  ASSUME NEW nonce \in Nat, NEW list \in Seq(Tx), NEW tx \in Tx
  PROVE  ApplyTransactions(nonce, Append(list, tx)) =
            ApplyTransaction(ApplyTransactions(nonce, list), tx)
<1> DEFINE n == Len(list)
           longer == Append(list, tx)
<1>1. /\ longer \in Seq(Tx) /\ n \in Nat /\ Len(longer) = n + 1
      /\ longer[n + 1] = tx /\ \A k \in 1 .. n : longer[k] = list[k]
  BY AppendProperties
<1> HIDE DEF longer
<1>2. PICK tr : IsTrace(tr, nonce, list)
  BY ApplyTransactionsTrace
<1>3. PICK up : IsTrace(up, nonce, longer)
  BY <1>1, ApplyTransactionsTrace
<1> DEFINE S == {k \in 0 .. n : tr[k] = up[k]}
<1>4. 0 \in S
  BY <1>1, <1>2, <1>3 DEF IsTrace
<1>5. ASSUME NEW k \in 1 .. n, k - 1 \in S
      PROVE  k \in S
  <2>1. k \in 1 .. Len(longer) /\ longer[k] = list[k] /\ k \in 0 .. n
    BY <1>1
  <2>2. tr[k] = ApplyTransaction(tr[k - 1], list[k])
    BY <1>2 DEF IsTrace
  <2>3. up[k] = ApplyTransaction(up[k - 1], longer[k])
    BY <1>3, <2>1 DEF IsTrace
  <2> QED
    BY <1>5, <2>1, <2>2, <2>3
<1>6. tr[n] = up[n]
  <2> HIDE DEF S
  <2>1. \A k \in 0 .. n : k \in S
    BY <1>1, <1>4, <1>5, PrefixInduction
  <2>2. n \in 0 .. n
    BY <1>1
  <2> QED
    BY <2>1, <2>2 DEF S
<1>7. up[n + 1] = ApplyTransaction(up[n], tx)
  <2>1. n + 1 \in 1 .. Len(longer) /\ (n + 1) - 1 = n
    BY <1>1
  <2> QED
    BY <1>1, <1>3, <2>1 DEF IsTrace
<1>8. ApplyTransactions(nonce, list) = tr[n] /\ ApplyTransactions(nonce, longer) = up[n + 1]
  BY <1>1, <1>2, <1>3 DEF IsTrace
<1> QED
  BY <1>6, <1>7, <1>8 DEF longer

(* What ApplyTransactions returned it executes again, from the same        *)
(* account and with the same result: the miner ran the first, Process runs *)
(* the second.                                                             *)
LEMMA ApplyTransactionsAgain ==
  ASSUME NEW nonce \in Nat, NEW list \in Seq(Tx)
  PROVE  ApplyTransactions(nonce, ApplyTransactions(nonce, list).valid) =
            ApplyTransactions(nonce, list)
<1> DEFINE n == Len(list)
<1>1. PICK tr : IsTrace(tr, nonce, list)
  BY ApplyTransactionsTrace
<1>2. \A k \in 0 .. n : tr[k] \in Account /\ tr[k].valid \in Seq(Tx)
  BY <1>1 DEF IsTrace, Account
<1> DEFINE S == {k \in 0 .. n : ApplyTransactions(nonce, tr[k].valid) = tr[k]}
<1>3. 0 \in S
  BY <1>1, ApplyNoTransactions DEF IsTrace
<1>4. ASSUME NEW k \in 1 .. n, k - 1 \in S
      PROVE  k \in S
  <2>1. k \in 0 .. n /\ k - 1 \in 0 .. n /\ list[k] \in Tx
    OBVIOUS
  <2>2. tr[k] = ApplyTransaction(tr[k - 1], list[k])
    BY <1>1 DEF IsTrace
  <2>3. ApplyTransactions(nonce, tr[k - 1].valid) = tr[k - 1]
    BY <1>4
  <2>4. CASE Nonce[list[k]] # tr[k - 1].nonce
    <3>1. tr[k] = tr[k - 1]
      BY <2>2, <2>4 DEF ApplyTransaction
    <3> QED
      BY <2>1, <2>3, <3>1
  <2>5. CASE Nonce[list[k]] = tr[k - 1].nonce
    <3>1. tr[k].valid = Append(tr[k - 1].valid, list[k])
      BY <2>2, <2>5 DEF ApplyTransaction
    <3>2. ApplyTransactions(nonce, Append(tr[k - 1].valid, list[k])) =
             ApplyTransaction(tr[k - 1], list[k])
      BY <1>2, <2>1, <2>3, ApplyTransactionsAppend
    <3> QED
      BY <2>1, <2>2, <3>1, <3>2
  <2> QED
    BY <2>4, <2>5
<1>5. n \in 0 .. n /\ n \in Nat
  OBVIOUS
<1>6. n \in S
  <2> HIDE DEF S, n
  <2>1. \A k \in 0 .. n : k \in S
    BY <1>3, <1>4, <1>5, PrefixInduction
  <2> QED
    BY <1>5, <2>1
<1> QED
  BY <1>1, <1>6 DEF IsTrace

-----------------------------------------------------------------------------

(* sort.Sort(TxByNonce) orders the transactions of the miner.              *)
LEMMA SortedByNonceProperties ==
  ASSUME NEW s \in Seq(Tx), NEW list \in SortedByNonce(s)
  PROVE  list \in Seq(Tx) /\ ToSet(list) \subseteq ToSet(s) /\ IsInjective(list)
<1> DEFINE c == Cardinality(ToSet(s))
<1>1. c \in Nat
  BY ToSetFinite
<1>2. list \in SetToSeqs(ToSet(s))
  BY DEF SortedByNonce
<1>3. list \in [1 .. c -> ToSet(s)] /\ \A i, j \in 1 .. c : i # j => list[i] # list[j]
  BY <1>2 DEF SetToSeqs
<1>4. ToSet(s) \subseteq Tx
  BY DEF ToSet
<1> HIDE DEF c
<1>5. list \in Seq(Tx)
  <2>1. list \in [1 .. c -> Tx]
    BY <1>3, <1>4
  <2> QED
    BY <1>1, <2>1
<1>6. ToSet(list) \subseteq ToSet(s)
  BY <1>3 DEF ToSet
<1>7. IsInjective(list)
  BY <1>3 DEF IsInjective
<1> QED
  BY <1>5, <1>6, <1>7

(* RemoveInvalid takes away from the pool, if anything.                    *)
LEMMA RemoveInvalidProperties ==
  ASSUME NEW s \in Seq(Tx), NEW nonce
  PROVE  LET r == RemoveInvalid(s, nonce)
         IN  /\ r \in Seq(Tx)
             /\ ToSet(r) \subseteq ToSet(s)
             /\ IsInjective(s) => IsInjective(r)
<1> DEFINE stale == {i \in DOMAIN s : Nonce[s[i]] <= nonce}
<1>1. CASE stale = {}
  BY <1>1 DEF RemoveInvalid
<1>2. CASE stale # {}
  <2>1. stale \in SUBSET Nat /\ stale \subseteq 1 .. Len(s)
    OBVIOUS
  <2>2. \E n \in stale : \A m \in stale : n <= m
    <3> HIDE DEF stale
    <3> QED
      BY <1>2, <2>1, LeastNatural
  <2>3. Min(stale) \in 1 .. Len(s)
    <3> HIDE DEF stale
    <3> QED
      BY <2>1, <2>2 DEF Min
  <2>4. RemoveInvalid(s, nonce) = RemoveAt(s, Min(stale))
    BY <1>2 DEF RemoveInvalid
  <2> HIDE DEF stale
  <2>5. RemoveAt(s, Min(stale)) \in Seq(Tx)
    BY <2>3, RemoveAtProperties
  <2> QED
    BY <2>3, <2>4, <2>5, RemoveAtKeeps
<1> QED
  BY <1>1, <1>2

-----------------------------------------------------------------------------

(* What a block holds.                                                     *)
Block == [prev : Nat, base : Nat, txs : Seq(Tx), uncles : SUBSET Nat,
          nonce : Nat, own : BOOLEAN]

(* Blocks are blocks and transactions transactions.                        *)
Shape ==
    /\ blocks \in Seq(Block) /\ block \in Block
    /\ pool \in Seq(Tx) /\ txs \in Seq(Tx) /\ arrived \subseteq Tx

(* ApplyTransactions on the state of the parent yields what the block      *)
(* says.                                                                   *)
Executes(b, parent) ==
    LET state == ApplyTransactions(blocks[parent].nonce, b.txs)
    IN  state.valid = b.txs /\ state.nonce = b.nonce

(* OwnBlocksExecute, and the parent of a block mined here is known.        *)
OwnInv ==
    \A b \in DOMAIN blocks :
        blocks[b].own => /\ blocks[b].prev \in DOMAIN blocks
                         /\ Executes(blocks[b], blocks[b].prev)

(* The block mined on executes on the state it was made from. NewBlock may *)
(* have read a head that was about to change, so that this need not be the *)
(* state of its parent: that they are the same is for Process to check.    *)
SearchInv ==
    phase # "listen" => /\ block.prev \in DOMAIN blocks /\ block.base \in DOMAIN blocks
                        /\ Executes(block, block.base)

(* The inductive invariant.                                                *)
Inv == TypeOK /\ Shape /\ OwnInv /\ SearchInv

(* NewDefaultMiner establishes the invariant.                              *)
LEMMA InitInv == Init => Inv
<1> SUFFICES ASSUME Init
             PROVE  Inv
  OBVIOUS
<1> USE MinerAssumption
<1>1. NewestBlock(0, 0, <<>>, {}, 0, FALSE) \in Block
  BY DEF NewestBlock, Block
<1>2. NewestBlock(Genesis, Genesis, <<>>, {}, 0, FALSE) \in Block
  BY DEF NewestBlock, Block, Genesis
<1>3. blocks \in Seq(Block) /\ DOMAIN blocks = {1, 2} /\ blocks[1] \in Block
  <2> DEFINE g == NewestBlock(0, 0, <<>>, {}, 0, FALSE)
             f == NewestBlock(Genesis, Genesis, <<>>, {}, 0, FALSE)
  <2>1. blocks = <<g, f>>
    BY DEF Init
  <2> HIDE DEF g, f
  <2>2. g \in Block /\ f \in Block
    BY <1>1, <1>2 DEF g, f
  <2> QED
    BY <2>1, <2>2
<1>4. \A b \in DOMAIN blocks : ~blocks[b].own
  BY <1>3 DEF Init, NewestBlock
<1>5. block \in Block
  BY <1>3 DEF Init, Genesis
<1>6. arrived \subseteq Tx /\ txs \in Seq(Tx) /\ pool \in Seq(Tx)
  BY DEF Init, ToSet
<1>7. TypeOK
  <2>1. IsInjective(pool) /\ ToSet(pool) = {} /\ ToSet(reactChan) = {} /\ Len(reactChan) = 0
    BY DEF Init, IsInjective, ToSet
  <2> QED
    BY <1>3, <2>1 DEF Init, TypeOK
<1>8. SearchInv
  BY DEF Init, SearchInv
<1> QED
  BY <1>3, <1>4, <1>5, <1>6, <1>7, <1>8 DEF Inv, Shape, OwnInv

(* A block appended to the others.                                         *)
LEMMA Grown ==
  ASSUME Inv, NEW b \in Block, blocks' = Append(blocks, b)
  PROVE  /\ blocks' \in Seq(Block)
         /\ Newest = Len(blocks) + 1 /\ Newest \in DOMAIN blocks'
         /\ DOMAIN blocks' = DOMAIN blocks \cup {Newest}
         /\ blocks'[Newest] = b
         /\ \A i \in DOMAIN blocks : blocks'[i] = blocks[i]
<1>1. blocks \in Seq(Block)
  BY DEF Inv, Shape
<1> QED
  BY <1>1, AppendProperties DEF Newest

(* Blocks stay what they were: what is known of the old ones remains.      *)
LEMMA GrownOwn ==
  ASSUME Inv, NEW b \in Block, blocks' = Append(blocks, b),
         b.own => b.prev \in DOMAIN blocks /\ Executes(b, b.prev)
  PROVE  OwnInv'
<1> SUFFICES ASSUME NEW i \in DOMAIN blocks', blocks'[i].own
             PROVE  /\ blocks'[i].prev \in DOMAIN blocks'
                    /\ Executes(blocks[i], blocks[i].prev)'
  BY DEF OwnInv
<1>1. CASE i \in DOMAIN blocks
  <2>1. blocks'[i] = blocks[i] /\ blocks[i].prev \in DOMAIN blocks
    BY <1>1, Grown DEF Inv, OwnInv
  <2>2. blocks'[blocks[i].prev] = blocks[blocks[i].prev] /\ blocks[i].prev \in DOMAIN blocks'
    BY <2>1, Grown
  <2> QED
    BY <1>1, <2>1, <2>2 DEF Inv, OwnInv, Executes
<1>2. CASE i = Newest
  <2>1. blocks'[i] = b /\ b.prev \in DOMAIN blocks
    BY <1>2, Grown
  <2>2. blocks'[b.prev] = blocks[b.prev] /\ b.prev \in DOMAIN blocks'
    BY <2>1, Grown
  <2> QED
    BY <2>1, <2>2 DEF Executes
<1> QED
  BY <1>1, <1>2, Grown

(* A block of somebody else does not touch the one mined on.               *)
LEMMA GrownSearch ==
  ASSUME Inv, NEW b \in Block, blocks' = Append(blocks, b), UNCHANGED <<block, phase>>
  PROVE  SearchInv'
<1> SUFFICES ASSUME phase # "listen"
             PROVE  /\ block.prev \in DOMAIN blocks' /\ block.base \in DOMAIN blocks'
                    /\ Executes(block, block.base)'
  BY DEF SearchInv
<1>1. /\ block.prev \in DOMAIN blocks /\ block.base \in DOMAIN blocks
      /\ Executes(block, block.base)
  BY DEF Inv, SearchInv
<1>2. blocks'[block.base] = blocks[block.base]
  BY <1>1, Grown
<1> QED
  BY <1>1, <1>2, Grown DEF Executes

(* A step that leaves the blocks alone.                                    *)
LEMMA OwnKept ==
  ASSUME Inv, UNCHANGED blocks
  PROVE  OwnInv'
BY DEF Inv, OwnInv, Executes

(* Nor does a step that begins no search.                                  *)
LEMMA SearchKept ==
  ASSUME Inv, UNCHANGED <<blocks, block>>, phase' # "listen" => phase # "listen"
  PROVE  SearchInv'
BY DEF Inv, SearchInv, Executes

(* What there is to say of the pool after the stale transaction is gone.   *)
LEMMA PoolShrinks ==
  ASSUME Inv, NEW nonce, pool' = RemoveInvalid(pool, nonce)
  PROVE  /\ pool' \in Seq(Tx) /\ IsInjective(pool')
         /\ ToSet(pool') \subseteq arrived
<1>1. pool \in Seq(Tx) /\ IsInjective(pool) /\ ToSet(pool) \subseteq arrived
  BY DEF Inv, TypeOK, Shape
<1> QED
  BY <1>1, RemoveInvalidProperties

(* Add of a block of a peer.                                               *)
LEMMA ImportInv ==
  ASSUME Inv, NEW prev \in DOMAIN blocks, NEW list \in SeqOf(Tx, MaxListed), Import(prev, list)
  PROVE  Inv'
<1> DEFINE b == NewestBlock(prev, prev, list, {}, ApplyTransactions(blocks[prev].nonce, list).nonce, FALSE)
<1>1. list \in Seq(Tx)
  BY MinerAssumption DEF SeqOf
<1>2. prev \in Nat /\ blocks[prev].nonce \in Nat
  <2>1. blocks \in Seq(Block)
    BY DEF Inv, Shape
  <2>2. prev \in Nat /\ blocks[prev] \in Block
    BY <2>1
  <2> QED
    BY <2>2 DEF Block
<1>3. b \in Block
  <2>1. ApplyTransactions(blocks[prev].nonce, list).nonce \in Nat
    BY <1>1, <1>2, ApplyTransactionsProperties DEF Account
  <2> QED
    BY <1>1, <1>2, <2>1 DEF NewestBlock, Block
<1>4. blocks' = Append(blocks, b) /\ ~b.own
  BY DEF Import, NewestBlock
<1> HIDE DEF b
<1>5. OwnInv' /\ SearchInv'
  BY <1>3, <1>4, GrownOwn, GrownSearch DEF Import, miner
<1>6. Shape'
  BY <1>3, <1>4, Grown DEF Inv, Shape, Import, miner
<1>7. TypeOK'
  BY <1>3, <1>4, Grown DEF Inv, TypeOK, Import, miner
<1> QED
  BY <1>5, <1>6, <1>7 DEF Inv

(* What follows Add in ProcessBlock.                                       *)
LEMMA ImportEndsInv ==
  ASSUME Inv, ImportEnds
  PROVE  Inv'
<1>1. pool' = RemoveInvalid(pool, blocks[adding].nonce)
  BY DEF ImportEnds, Added
<1>2. /\ pool' \in Seq(Tx) /\ IsInjective(pool')
      /\ ToSet(pool') \subseteq arrived
  BY <1>1, PoolShrinks
<1>3. TypeOK'
  BY <1>2 DEF Inv, TypeOK, ImportEnds, Added, PostNewBlock, miner
<1>4. Shape'
  BY <1>2 DEF Inv, Shape, ImportEnds, miner
<1> QED
  BY <1>3, <1>4, OwnKept, SearchKept DEF Inv, ImportEnds, miner

(* A transaction enters the pool.                                          *)
LEMMA QueueTransactionInv ==
  ASSUME Inv, NEW tx \in Tx, QueueTransaction(tx)
  PROVE  Inv'
<1>1. /\ pool' \in Seq(Tx) /\ IsInjective(pool')
      /\ ToSet(pool') = ToSet(pool) \cup {tx}
  BY AppendNew DEF Inv, TypeOK, Shape, QueueTransaction
<1>2. TypeOK'
  BY <1>1 DEF Inv, TypeOK, QueueTransaction, chain, miner
<1>3. Shape'
  BY <1>1 DEF Inv, Shape, QueueTransaction, chain, miner
<1> QED
  BY <1>2, <1>3, OwnKept, SearchKept DEF Inv, QueueTransaction, chain, miner

(* Goroutines of Post send on the channels.                                *)
LEMMA SendInv ==
  ASSUME Inv, (\E r \in reacts : SendReact(r)) \/ SendQuit
  PROVE  Inv'
<1>1. UNCHANGED <<chain, pool, arrived, miner>>
  BY DEF SendReact, SendQuit
<1>2. TypeOK'
  <2>1. ASSUME NEW r \in reacts, SendReact(r)
        PROVE  TypeOK'
    <3>1. Len(reactChan') = 1 /\ ToSet(reactChan') = {r}
      BY <2>1 DEF SendReact, ToSet
    <3> QED
      BY <1>1, <2>1, <3>1 DEF Inv, TypeOK, SendReact, chain, miner
  <2>2. ASSUME SendQuit
        PROVE  TypeOK'
    BY <2>2 DEF Inv, TypeOK, SendQuit, chain, miner
  <2> QED
    BY <2>1, <2>2
<1>3. Shape'
  BY <1>1 DEF Inv, Shape, chain, miner
<1> QED
  BY <1>1, <1>2, <1>3, OwnKept, SearchKept DEF Inv, chain, miner

(* The listener reads a block.                                             *)
LEMMA ReactToBlockInv ==
  ASSUME Inv, NEW b \in DOMAIN blocks, ReactToBlock(b)
  PROVE  Inv'
<1>1. /\ reactChan' = <<>>
      /\ UNCHANGED <<chain, pool, arrived, reacts, quits, powQuitChan, phase, block>>
  BY DEF ReactToBlock, React
<1>2. /\ txs' \in Seq(Tx) /\ IsInjective(txs') /\ ToSet(txs') \subseteq arrived
      /\ uncles' \subseteq DOMAIN blocks
  <2>1. CASE b = head
    <3>1. blocks[b].txs \in Seq(Tx)
      <4>1. blocks[b] \in Block
        BY DEF Inv, Shape
      <4> QED
        BY <4>1 DEF Block
    <3>2. txs' = NotIn(blocks[b].txs, txs) /\ uncles' = uncles
      BY <2>1 DEF ReactToBlock
    <3> QED
      BY <3>1, <3>2, NotInProperties DEF Inv, Shape, TypeOK
  <2>2. CASE b # head
    BY <2>2 DEF ReactToBlock, Inv, Shape, TypeOK
  <2> QED
    BY <2>1, <2>2
<1>3. TypeOK'
  <2>1. Len(reactChan') = 0 /\ ToSet(reactChan') = {}
    BY <1>1 DEF ToSet
  <2> QED
    BY <1>1, <1>2, <2>1 DEF Inv, TypeOK, chain
<1>4. Shape'
  BY <1>1, <1>2 DEF Inv, Shape, chain
<1> QED
  BY <1>1, <1>3, <1>4, OwnKept, SearchKept DEF Inv, chain

(* The listener reads a transaction: it is one that came in.               *)
LEMMA ReactToTransactionInv ==
  ASSUME Inv, NEW tx \in Tx, ReactToTransaction(tx)
  PROVE  Inv'
<1>1. /\ reactChan = <<tx>> /\ reactChan' = <<>> /\ uncles' = uncles
      /\ UNCHANGED <<chain, pool, arrived, reacts, quits, powQuitChan, phase, block>>
  BY DEF ReactToTransaction, React
<1>2. txs' \in Seq(Tx) /\ IsInjective(txs') /\ ToSet(txs') \subseteq ToSet(txs) \cup {tx}
  <2>1. txs \in Seq(Tx) /\ IsInjective(txs)
    BY DEF Inv, Shape, TypeOK
  <2>2. CASE Contains(txs, tx)
    BY <2>1, <2>2 DEF ReactToTransaction, AddTransaction
  <2>3. CASE ~Contains(txs, tx)
    <3>1. tx \notin ToSet(txs)
      BY <2>1, <2>3 DEF Contains, ToSet
    <3> QED
      BY <2>1, <2>3, <3>1, AppendNew DEF ReactToTransaction, AddTransaction
  <2> QED
    BY <2>2, <2>3
<1>3. tx \in arrived
  <2>1. blocks \in Seq(Block) /\ tx \in ToSet(reactChan)
    BY <1>1 DEF Inv, Shape, ToSet
  <2>2. tx \notin DOMAIN blocks
    BY <2>1, MinerAssumption
  <2> QED
    BY <2>1, <2>2 DEF Inv, TypeOK
<1>4. TypeOK'
  <2>1. Len(reactChan') = 0 /\ ToSet(reactChan') = {}
    BY <1>1 DEF ToSet
  <2> QED
    BY <1>1, <1>2, <1>3, <2>1 DEF Inv, TypeOK, chain
<1>5. Shape'
  BY <1>1, <1>2 DEF Inv, Shape, chain
<1> QED
  BY <1>1, <1>4, <1>5, OwnKept, SearchKept DEF Inv, chain

(* mineNewBlock applies the transactions and makes a block of those that   *)
(* apply.                                                                  *)
LEMMA MineNewBlockInv ==
  ASSUME Inv, MineNewBlock
  PROVE  Inv'
<1>1. PICK list \in SortedByNonce(txs) :
         /\ txs' = ApplyTransactions(blocks[head].nonce, list).valid
         /\ block' = NewestBlock(last, head, ApplyTransactions(blocks[head].nonce, list).valid,
                                 uncles, ApplyTransactions(blocks[head].nonce, list).nonce, TRUE)
  BY DEF MineNewBlock
<1> DEFINE state == ApplyTransactions(blocks[head].nonce, list)
<1>2. /\ head \in DOMAIN blocks /\ last \in DOMAIN blocks /\ uncles \subseteq DOMAIN blocks
      /\ blocks \in Seq(Block) /\ txs \in Seq(Tx) /\ ToSet(txs) \subseteq arrived
  BY DEF Inv, TypeOK, Shape
<1>3. blocks[head].nonce \in Nat /\ DOMAIN blocks \subseteq Nat
  <2>1. blocks[head] \in Block
    BY <1>2
  <2>2. blocks[head].nonce \in Nat
    BY <2>1 DEF Block
  <2>3. DOMAIN blocks = 1 .. Len(blocks) /\ Len(blocks) \in Nat
    BY <1>2
  <2> QED
    BY <2>2, <2>3
<1>4. list \in Seq(Tx) /\ ToSet(list) \subseteq ToSet(txs) /\ IsInjective(list)
  BY <1>2, SortedByNonceProperties
<1>5. /\ state \in Account /\ ToSet(state.valid) \subseteq ToSet(list)
      /\ IsInjective(state.valid)
      /\ ApplyTransactions(blocks[head].nonce, state.valid) = state
  BY <1>3, <1>4, ApplyTransactionsProperties, ApplyTransactionsAgain
<1>6. state.valid \in Seq(Tx) /\ state.nonce \in Nat
  BY <1>5 DEF Account
<1>7. /\ txs' = state.valid
      /\ block' = NewestBlock(last, head, state.valid, uncles, state.nonce, TRUE)
  BY <1>1
<1> HIDE DEF state
<1>8. /\ block' \in Block /\ block'.prev = last /\ block'.base = head
      /\ block'.txs = state.valid /\ block'.nonce = state.nonce
  BY <1>2, <1>3, <1>6, <1>7 DEF NewestBlock, Block
<1>9. UNCHANGED <<chain, pool, arrived, reacts, quits, reactChan, powQuitChan, uncles>>
  BY DEF MineNewBlock
<1>10. TypeOK'
  <2>1. IsInjective(txs') /\ ToSet(txs') \subseteq arrived
    BY <1>2, <1>4, <1>5, <1>7
  <2> QED
    BY <1>9, <2>1 DEF Inv, TypeOK, MineNewBlock, chain
<1>11. Shape'
  BY <1>6, <1>7, <1>8, <1>9 DEF Inv, Shape, chain
<1>12. SearchInv'
  BY <1>2, <1>5, <1>8, <1>9 DEF SearchInv, Executes, chain
<1> QED
  BY <1>9, <1>10, <1>11, <1>12, OwnKept DEF Inv, chain

(* The miner drops its block.                                              *)
LEMMA GiveUpShape ==
  ASSUME Inv, GiveUp
  PROVE  block' \in Block /\ phase' = "listen" /\ SearchInv'
<1>1. blocks \in Seq(Block) /\ Genesis \in DOMAIN blocks
  BY DEF Inv, TypeOK, Shape, Genesis
<1> QED
  BY <1>1 DEF GiveUp, SearchInv

(* The search goes on, or ends without a block for the chain.              *)
LEMMA SearchInvariant ==
  ASSUME Inv, SearchBreaks \/ SearchFinds \/ MinedRefused
  PROVE  Inv'
<1>1. UNCHANGED <<chain, pool, arrived, reacts, quits, reactChan, txs, uncles>>
  BY DEF SearchBreaks, SearchFinds, MinedRefused
<1>2. powQuitChan' \in 0 .. 1 /\ phase' \in {"listen", "search", "found"}
  BY DEF SearchBreaks, SearchFinds, MinedRefused, GiveUp, Inv, TypeOK
<1>3. TypeOK'
  BY <1>1, <1>2 DEF Inv, TypeOK, chain
<1>4. block' \in Block /\ SearchInv'
  <2>1. CASE SearchFinds
    BY <2>1, SearchKept DEF SearchFinds, Inv, Shape, chain
  <2>2. CASE SearchBreaks \/ MinedRefused
    BY <2>2, GiveUpShape DEF SearchBreaks, MinedRefused
  <2> QED
    BY <2>1, <2>2
<1>5. Shape'
  BY <1>1, <1>4 DEF Inv, Shape, chain
<1> QED
  BY <1>1, <1>3, <1>4, <1>5, OwnKept DEF Inv, chain

(* Process accepts the block: the state of its parent is the one it was    *)
(* made from.                                                              *)
LEMMA MinedAcceptedInv ==
  ASSUME Inv, MinedAccepted
  PROVE  Inv'
<1>1. /\ block \in Block /\ blocks' = Append(blocks, block)
      /\ block.prev \in DOMAIN blocks /\ Executes(block, block.prev)
  BY DEF Inv, Shape, SearchInv, MinedAccepted, RootMatches
<1>2. OwnInv'
  BY <1>1, GrownOwn
<1>3. pool' = RemoveInvalid(pool, block.nonce)
  BY DEF MinedAccepted, Added
<1>4. /\ pool' \in Seq(Tx) /\ IsInjective(pool')
      /\ ToSet(pool') \subseteq arrived
  BY <1>3, PoolShrinks
<1>5. TypeOK'
  BY <1>1, <1>4, Grown DEF Inv, TypeOK, MinedAccepted, Added, PostNewBlock, GiveUp
<1>6. block' \in Block /\ SearchInv'
  BY GiveUpShape DEF MinedAccepted, GiveUp, SearchInv
<1>7. Shape'
  BY <1>1, <1>4, <1>6, Grown DEF Inv, Shape, MinedAccepted
<1> QED
  BY <1>2, <1>5, <1>6, <1>7 DEF Inv

(* Each step preserves the invariant.                                      *)
LEMMA NextInv == Inv /\ [Next]_vars => Inv'
<1> SUFFICES ASSUME Inv, [Next]_vars
             PROVE  Inv'
  OBVIOUS
<1>1. CASE UNCHANGED vars
  <2>1. TypeOK' /\ Shape'
    BY <1>1 DEF Inv, TypeOK, Shape, vars, chain, miner
  <2> QED
    BY <1>1, <2>1, OwnKept, SearchKept DEF Inv, vars, chain, miner
<1>2. CASE Next
  BY <1>2, ImportInv, ImportEndsInv, QueueTransactionInv, SendInv, ReactToBlockInv,
     ReactToTransactionInv, MineNewBlockInv, SearchInvariant, MinedAcceptedInv
     DEF Next, Search
<1> QED
  BY <1>1, <1>2

(* The invariant holds in every reachable state.                           *)
THEOREM Invariance == Spec => []Inv
BY InitInv, NextInv, PTL DEF Spec

(* The channels hold at most one event, and the pool and the list of the   *)
(* miner hold transactions that came in, none of them twice, whatever the  *)
(* reactor reorders.                                                       *)
THEOREM TypeCorrect == Spec => []TypeOK
<1>1. Inv => TypeOK
  BY DEF Inv
<1> QED
  BY <1>1, Invariance, PTL

(* The chain executes all of the transactions a block mined here lists,    *)
(* whatever came in between NewBlock reading the head and Process.         *)
THEOREM OwnBlocksExecuteAlways == Spec => []OwnBlocksExecute
<1>1. Inv => OwnBlocksExecute
  BY DEF Inv, OwnInv, Executes, OwnBlocksExecute
<1> QED
  BY <1>1, Invariance, PTL
==============================================================================
