----------------------------- MODULE LedgerProofs -----------------------------
(***************************************************************************)
(* What holds of a block's execution for any contracts, transactions and   *)
(* state before the block. HashesAreNumbers and AddressesAreNumbers say    *)
(* what Ledger takes from the hash functions; replay also needs that no    *)
(* contract is created at the address of a sender (NoCollision).           *)
(*                                                                         *)
(* Every action is first shown to be one of a few moves (Applies, Stays,   *)
(* Enters, Returns, Ends, Rewarded), so that no invariant has to look at   *)
(* an instruction again. The inductive invariants: TypeInv and Solvent,    *)
(* what states and closures are and that none but the innermost closure    *)
(* may have started with less than no gas; Balanced, the sum GasConserved  *)
(* speaks of, closure by closure; ReplayInv, that every copy of an         *)
(* account, and every trie that may be restored, has the nonce behind all  *)
(* transactions processed so far; SpareInv, that no running closure and no *)
(* cached object shares the storage a snapshot would restore.              *)
(* Only the last part looks at instructions: PlacesInv, that every closure *)
(* stands where the disassembler sees an instruction, is kept as long as   *)
(* no closure jumps anywhere else (JumpsLand, which is up to contracts).   *)
(***************************************************************************)
EXTENDS Ledger, DataLemmas

-----------------------------------------------------------------------------
(* Numbers and bytes.                                                      *)

\* A stack word is at least one byte wide: 256 to its width is positive.
LEMMA PowerType == Pow256 \in Nat \ {0}
<1> DEFINE n == WordBytes
           V == Nat \ {0}
           step == [p \in V \X (1 .. n) |-> 256 * p[1]]
           Def(g) == [i \in 0 .. n |-> IF i = 0 THEN 1 ELSE 256 * g[i - 1]]
           G == CHOOSE g : g = Def(g)
<1>1. n \in Nat /\ 1 \in V
  BY WordAssumption
<1>2. step \in [V \X (1 .. n) -> V]
  OBVIOUS
<1>3. \E g : g = Def(g)
  <2>1. HasRounds(V, n, 1, step)
    <3> HIDE DEF V, n, step
    <3> QED
      BY <1>1, <1>2, RoundsExist, Zenon
  <2>2. PICK h \in [0 .. n -> V] : Rounds(h, n, 1, step)
    BY <2>1, Zenon DEF HasRounds
  <2>3. ASSUME NEW k \in 0 .. n
        PROVE  h[k] = IF k = 0 THEN 1 ELSE 256 * h[k - 1]
    <3>1. k # 0 => k \in 1 .. n /\ k - 1 \in 0 .. n
      BY <1>1
    <3> HIDE DEF n
    <3> QED
      BY <2>2, <3>1 DEF Rounds
  <2>4. h = Def(h)
    BY <2>3
  <2> QED
    BY <2>4
<1>4. G = Def(G)
  <2> HIDE DEF Def
  <2> QED
    BY <1>3, Zenon
<1>5. Pow256 = G[n]
  BY Zenon DEF Pow256, Iterate
<1> HIDE DEF G, n
<1>6. G[0] = 1 /\ \A k \in 1 .. n : G[k] = 256 * G[k - 1]
  BY <1>1, <1>4
<1> DEFINE S == {k \in Nat : G[k] \in V}
<1>7. \A k \in 0 .. n : k \in S
  <2>1. 0 \in S
    BY <1>6
  <2>2. \A k \in 1 .. n : k - 1 \in S => k \in S
    BY <1>1, <1>6
  <2> HIDE DEF S
  <2> QED
    BY <1>1, <2>1, <2>2, PrefixInduction
<1> QED
  BY <1>1, <1>5, <1>7

(* The number some bytes stand for.                                        *)
LEMMA BigDType ==
  ASSUME NEW bytes \in Seq(Byte)
  PROVE  BigD(bytes) \in Nat
<1> DEFINE n == Len(bytes)
           step == [p \in Nat \X (1 .. n) |-> 256 * p[1] + bytes[p[2]]]
           Def(g) == [i \in 0 .. n |-> IF i = 0 THEN 0 ELSE 256 * g[i - 1] + bytes[i]]
           G == CHOOSE g : g = Def(g)
<1>1. n \in Nat /\ \A k \in 1 .. n : bytes[k] \in Nat
  <2>1. n \in Nat /\ \A k \in 1 .. n : bytes[k] \in Byte
    BY ElementOfSeq, LenProperties
  <2>2. Byte \subseteq Nat
    BY DEF Byte
  <2> HIDE DEF n
  <2> QED
    BY <2>1, <2>2
<1>2. step \in [Nat \X (1 .. n) -> Nat]
  BY <1>1
<1>3. \E g : g = Def(g)
  <2>1. HasRounds(Nat, n, 0, step)
    <3> HIDE DEF n, step
    <3> QED
      BY <1>1, <1>2, RoundsExist
  <2>2. PICK h \in [0 .. n -> Nat] : Rounds(h, n, 0, step)
    BY <2>1, Zenon DEF HasRounds
  <2>3. ASSUME NEW k \in 0 .. n
        PROVE  h[k] = IF k = 0 THEN 0 ELSE 256 * h[k - 1] + bytes[k]
    <3>1. k # 0 => k \in 1 .. n /\ k - 1 \in 0 .. n
      BY <1>1
    <3> HIDE DEF n
    <3> QED
      BY <2>2, <3>1 DEF Rounds
  <2>4. h = Def(h)
    BY <2>3
  <2> QED
    BY <2>4
<1>4. G = Def(G)
  <2> HIDE DEF Def
  <2> QED
    BY <1>3, Zenon
<1>5. BigD(bytes) = G[n]
  BY Zenon DEF BigD, Iterate
<1> HIDE DEF G, n
<1>6. G[0] = 0 /\ \A k \in 1 .. n : G[k] = 256 * G[k - 1] + bytes[k]
  BY <1>1, <1>4
<1> DEFINE S == {k \in Nat : G[k] \in Nat}
<1>7. \A k \in 0 .. n : k \in S
  <2>1. 0 \in S
    BY <1>6
  <2>2. ASSUME NEW k \in 1 .. n, k - 1 \in S
        PROVE  k \in S
    <3>1. G[k - 1] \in Nat /\ bytes[k] \in Nat /\ k \in Nat
      BY <1>1, <2>2
    <3>2. G[k] = 256 * G[k - 1] + bytes[k]
      BY <1>6
    <3> QED
      BY <3>1, <3>2
  <2> HIDE DEF S
  <2> QED
    BY <1>1, <2>1, <2>2, PrefixInduction
<1> QED
  BY <1>1, <1>5, <1>7

\* Exponentiation by squaring yields a number, the rounds counted from the
\* top bit.
LEMMA ExpModType ==
  ASSUME NEW x \in Int, NEW y \in Int
  PROVE  ExpMod(x, y) \in Int
<1> SUFFICES ASSUME y > 0
             PROVE  ExpMod(x, y) \in Int
  <2>1. y <= 0 => ExpMod(x, y) = 1
    BY Zenon DEF ExpMod
  <2> QED
    BY <2>1
<1> DEFINE step == [p \in Int \X (1 .. y) |-> (x * p[1]) % Pow256]
           Def(g) == [i \in 0 .. y |-> IF i = 0 THEN 1 ELSE (x * g[i - 1]) % Pow256]
           G == CHOOSE g : g = Def(g)
<1>1. y \in Nat /\ 1 \in Int
  OBVIOUS
<1>2. \A r \in Int : (x * r) % Pow256 \in Int
  <2>1. \A r \in Int : x * r \in Int
    OBVIOUS
  <2> QED
    BY <2>1, PowerType
<1>3. step \in [Int \X (1 .. y) -> Int]
  BY <1>2
<1>4. \E g : g = Def(g)
  <2>1. HasRounds(Int, y, 1, step)
    <3> HIDE DEF step
    <3> QED
      BY <1>1, <1>3, RoundsExist
  <2>2. PICK h \in [0 .. y -> Int] : Rounds(h, y, 1, step)
    BY <2>1, Zenon DEF HasRounds
  <2>3. ASSUME NEW k \in 0 .. y
        PROVE  h[k] = IF k = 0 THEN 1 ELSE (x * h[k - 1]) % Pow256
    <3>1. k # 0 => k \in 1 .. y /\ k - 1 \in 0 .. y
      BY <1>1
    <3> QED
      BY <2>2, <3>1 DEF Rounds
  <2>4. h = Def(h)
    BY <2>3
  <2> QED
    BY <2>4
<1>5. G = Def(G)
  <2> HIDE DEF Def
  <2> QED
    BY <1>4, Zenon
<1>6. ExpMod(x, y) = G[y]
  <2>1. ~(y <= 0)
    OBVIOUS
  <2> QED
    BY <2>1, Zenon DEF ExpMod, Iterate
<1> HIDE DEF G
<1>7. G[0] = 1 /\ \A k \in 1 .. y : G[k] = (x * G[k - 1]) % Pow256
  BY <1>1, <1>5
<1> DEFINE S == {k \in Nat : G[k] \in Int}
<1>8. \A k \in 0 .. y : k \in S
  <2>1. 0 \in S
    BY <1>7
  <2>2. ASSUME NEW k \in 1 .. y, k - 1 \in S
        PROVE  k \in S
    <3>1. G[k - 1] \in Int /\ k \in Nat /\ G[k] = (x * G[k - 1]) % Pow256
      BY <1>1, <1>7, <2>2
    <3> QED
      BY <1>2, <3>1
  <2> HIDE DEF S
  <2> QED
    BY <1>1, <2>1, <2>2, PrefixInduction
<1>9. y \in 0 .. y
  BY <1>1
<1> QED
  BY <1>6, <1>8, <1>9

(* Halving brings a number towards 0 or -1.                                *)
LEMMA Halves ==
  ASSUME NEW x \in Int
  PROVE  /\ x \div 2 \in Int /\ x % 2 \in Int
         /\ x \in Nat => x \div 256 \in Nat /\ x % 256 \in Byte
         /\ x \in Nat /\ x # 0 => x \div 256 < x
         /\ Abs(x) \in Nat /\ Abs(x \div 2) \in Nat /\ Abs(x \div 2) <= Abs(x)
         /\ x \notin {0, -1} => Abs(x \div 2) < Abs(x)
BY DEF Abs, Byte

\* One bit put below a number makes a number.
LEMMA BitsType ==
  ASSUME NEW m \in Int, NEW r \in Int
  PROVE  m + 2 * r \in Int
OBVIOUS

\* The bitwise exclusive or of two numbers, built bit by bit, is a number.
LEMMA XorBitType ==
  ASSUME NEW x \in Int, NEW y \in Int
  PROVE  XorBit(x, y) \in Int
<1> DEFINE S == Int \X Int
           rank == [p \in S |-> Abs(p[1]) + Abs(p[2])]
           Ends(p) == p[1] \in {0, -1} /\ p[2] \in {0, -1}
           Last0(p) == IF p[1] = p[2] THEN 0 ELSE -1
           Rest(p) == <<p[1] \div 2, p[2] \div 2>>
           Def == [q \in [S -> Int] \X S |->
                     IF Ends(q[2]) THEN Last0(q[2])
                     ELSE ((q[2][1] + q[2][2]) % 2) + 2 * q[1][Rest(q[2])]]
           Xor(g) == [p \in S |-> IF Ends(p) THEN Last0(p)
                                  ELSE ((p[1] + p[2]) % 2) + 2 * g[Rest(p)]]
           G == CHOOSE g : g = Xor(g)
<1>1. rank \in [S -> Nat]
  <2>1. \A p \in S : Abs(p[1]) \in Nat /\ Abs(p[2]) \in Nat
    BY Halves
  <2> QED
    BY <2>1
<1>2. ASSUME NEW p \in S
      PROVE  /\ Rest(p) \in S /\ (p[1] + p[2]) % 2 \in Int /\ Last0(p) \in Int
             /\ ~Ends(p) => rank[Rest(p)] < rank[p]
  <2>1. p[1] \in Int /\ p[2] \in Int /\ p[1] + p[2] \in Int
    OBVIOUS
  <2>2. Rest(p) \in S /\ (p[1] + p[2]) % 2 \in Int /\ Last0(p) \in Int
    BY <2>1, Halves
  <2>3. rank[p] = Abs(p[1]) + Abs(p[2]) /\ rank[Rest(p)] = Abs(p[1] \div 2) + Abs(p[2] \div 2)
    BY <2>2
  <2> DEFINE a == Abs(p[1])  b == Abs(p[2])  c == Abs(p[1] \div 2)  d == Abs(p[2] \div 2)
  <2>4. /\ a \in Nat /\ b \in Nat /\ c \in Nat /\ d \in Nat /\ c <= a /\ d <= b
        /\ ~Ends(p) => c < a \/ d < b
    BY <2>1, Halves
  <2>5. ~Ends(p) => c + d < a + b
    <3> HIDE DEF a, b, c, d, Ends
    <3> QED
      BY <2>4
  <2> HIDE DEF rank, S, Ends, Rest
  <2> QED
    BY <2>2, <2>3, <2>5
<1>3. Def \in [[S -> Int] \X S -> Int]
  <2> SUFFICES ASSUME NEW g \in [S -> Int], NEW p \in S
               PROVE  (IF Ends(p) THEN Last0(p)
                       ELSE ((p[1] + p[2]) % 2) + 2 * g[Rest(p)]) \in Int
    <3> HIDE DEF S, Ends, Last0, Rest
    <3> QED
      OBVIOUS
  <2> HIDE DEF S, Ends, Last0, Rest
  <2>1. g[Rest(p)] \in Int
    BY <1>2
  <2> QED
    BY <1>2, <2>1, BitsType
<1>4. UsesLowerRanks(S, Int, rank, Def)
  <2> SUFFICES ASSUME NEW g \in [S -> Int], NEW h \in [S -> Int], NEW p \in S,
                      \A y_1 \in S : rank[y_1] < rank[p] => g[y_1] = h[y_1]
               PROVE  Def[<<g, p>>] = Def[<<h, p>>]
    <3> HIDE DEF S, rank, Def
    <3> QED
      BY Zenon DEF UsesLowerRanks
  <2>1. ~Ends(p) => g[Rest(p)] = h[Rest(p)]
    <3> HIDE DEF S, rank, Ends, Rest
    <3> QED
      BY <1>2
  <2> HIDE DEF S, rank, Ends, Last0, Rest
  <2> QED
    BY <2>1
<1>5. PICK g \in [S -> Int] : \A p \in S : g[p] = Def[<<g, p>>]
  <2>1. 0 \in Int
    OBVIOUS
  <2> HIDE DEF S, rank, Def
  <2>2. Solvable(S, Int, Def)
    BY <1>1, <1>3, <1>4, <2>1, RankRecursion, Zenon
  <2> QED
    BY <2>2, Zenon DEF Solvable
<1>6. g = Xor(g)
  <2>1. \A p \in S : g[p] = Xor(g)[p]
    <3> HIDE DEF S, Ends, Last0, Rest
    <3> QED
      BY <1>5
  <2> HIDE DEF S, Ends, Last0, Rest
  <2> QED
    BY <2>1
<1>7. G = Xor(G)
  <2> HIDE DEF Xor
  <2> QED
    BY <1>6, Zenon
<1>8. XorBit(x, y) = G[<<x, y>>]
  BY Zenon DEF XorBit
<1> HIDE DEF G
<1> DEFINE N == {n \in Nat : \A p \in S : rank[p] < n => G[p] \in Int}
<1>9. \A n \in Nat : n \in N
  <2>1. 0 \in N
    <3> HIDE DEF S, rank
    <3> QED
      BY <1>1
  <2>2. ASSUME NEW n \in Nat, n \in N
        PROVE  n + 1 \in N
    <3> SUFFICES ASSUME NEW p \in S, rank[p] < n + 1
                 PROVE  G[p] \in Int
      OBVIOUS
    <3>1. G[p] = IF Ends(p) THEN Last0(p) ELSE ((p[1] + p[2]) % 2) + 2 * G[Rest(p)]
      <4> HIDE DEF S, Ends, Last0, Rest
      <4> QED
        BY <1>7
    <3>2. ~Ends(p) => G[Rest(p)] \in Int
      <4> HIDE DEF S, Ends, Rest, rank
      <4> QED
        BY <1>1, <1>2, <2>2
    <3> HIDE DEF S, Ends, Last0, Rest
    <3> QED
      BY <1>2, <3>1, <3>2, BitsType
  <2> HIDE DEF N
  <2> QED
    BY <2>1, <2>2, NatSetInduction
<1>10. <<x, y>> \in S /\ rank[<<x, y>>] \in Nat
  BY <1>1
<1>11. rank[<<x, y>>] + 1 \in N
  <2> HIDE DEF N
  <2> QED
    BY <1>9, <1>10
<1> QED
  <2> HIDE DEF rank, S
  <2> QED
    BY <1>8, <1>10, <1>11

\* big.Int.Bytes yields bytes.
LEMMA BigBytesType ==
  ASSUME NEW n \in Int
  PROVE  BigBytes(n) \in Seq(Byte)
<1> DEFINE rank == [m \in Nat |-> m]
           V == Seq(Byte)
           Def == [q \in [Nat -> V] \X Nat |->
                     IF q[2] = 0 THEN <<>> ELSE Append(q[1][q[2] \div 256], q[2] % 256)]
           Bytes(g) == [m \in Nat |-> IF m = 0 THEN <<>> ELSE Append(g[m \div 256], m % 256)]
           G == CHOOSE g : g = Bytes(g)
<1>1. rank \in [Nat -> Nat] /\ <<>> \in V
  OBVIOUS
<1>2. \A m \in Nat : /\ m \div 256 \in Nat /\ m % 256 \in Byte
                     /\ m # 0 => m \div 256 < m /\ rank[m \div 256] < rank[m]
  BY Halves
<1>3. Def \in [[Nat -> V] \X Nat -> V]
  <2> SUFFICES ASSUME NEW g \in [Nat -> V], NEW m \in Nat
               PROVE  (IF m = 0 THEN <<>> ELSE Append(g[m \div 256], m % 256)) \in V
    <3> HIDE DEF V
    <3> QED
      OBVIOUS
  <2>1. g[m \div 256] \in V /\ m % 256 \in Byte
    BY <1>2
  <2> QED
    BY <1>1, <2>1, AppendProperties
<1>4. UsesLowerRanks(Nat, V, rank, Def)
  <2> SUFFICES ASSUME NEW g \in [Nat -> V], NEW h \in [Nat -> V], NEW m \in Nat,
                      \A y \in Nat : rank[y] < rank[m] => g[y] = h[y]
               PROVE  Def[<<g, m>>] = Def[<<h, m>>]
    <3> HIDE DEF V, rank, Def
    <3> QED
      BY Zenon DEF UsesLowerRanks
  <2>1. m # 0 => g[m \div 256] = h[m \div 256]
    <3> HIDE DEF V, rank
    <3> QED
      BY <1>2
  <2> HIDE DEF V, rank
  <2> QED
    BY <2>1
<1>5. PICK g \in [Nat -> V] : \A m \in Nat : g[m] = Def[<<g, m>>]
  <2> HIDE DEF V, rank, Def
  <2>1. Solvable(Nat, V, Def)
    BY <1>1, <1>3, <1>4, RankRecursion, Zenon
  <2> QED
    BY <2>1, Zenon DEF Solvable
<1>6. g = Bytes(g)
  <2>1. \A m \in Nat : g[m] = Bytes(g)[m]
    <3> SUFFICES ASSUME NEW m \in Nat
                 PROVE  g[m] = Bytes(g)[m]
      OBVIOUS
    <3>1. Def[<<g, m>>] = IF m = 0 THEN <<>> ELSE Append(g[m \div 256], m % 256)
      <4> HIDE DEF V
      <4> QED
        OBVIOUS
    <3> HIDE DEF V, Def
    <3> QED
      BY <1>5, <3>1
  <2> HIDE DEF V
  <2> QED
    BY <2>1
<1>7. G = Bytes(G)
  <2> HIDE DEF Bytes
  <2> QED
    BY <1>6, Zenon
<1>8. BigBytes(n) = G[Abs(n)]
  BY Zenon DEF BigBytes
<1> HIDE DEF G
<1> DEFINE N == {k \in Nat : \A m \in Nat : m < k => G[m] \in V}
<1>9. \A k \in Nat : k \in N
  <2>1. 0 \in N
    OBVIOUS
  <2>2. ASSUME NEW k \in Nat, k \in N
        PROVE  k + 1 \in N
    <3> SUFFICES ASSUME NEW m \in Nat, m < k + 1
                 PROVE  G[m] \in V
      OBVIOUS
    <3>1. G[m] = IF m = 0 THEN <<>> ELSE Append(G[m \div 256], m % 256)
      BY <1>7
    <3>2. m # 0 => G[m \div 256] \in V
      BY <1>2, <2>2
    <3>3. ASSUME m # 0
          PROVE  Append(G[m \div 256], m % 256) \in V
      <4>1. G[m \div 256] \in Seq(Byte) /\ m % 256 \in Byte
        BY <1>2, <3>2, <3>3
      <4> QED
        BY <4>1, AppendProperties
    <3> HIDE DEF V
    <3> QED
      BY <1>1, <3>1, <3>3
  <2> HIDE DEF N
  <2> QED
    BY <2>1, <2>2, NatSetInduction
<1>10. Abs(n) \in Nat /\ Abs(n) + 1 \in N
  <2>1. Abs(n) \in Nat
    BY Halves
  <2> HIDE DEF N
  <2> QED
    BY <1>9, <2>1
<1> QED
  BY <1>8, <1>10

-----------------------------------------------------------------------------
(* Lists of bytes and of numbers.                                          *)

\* A function on 1 .. n is a sequence of length n.
LEMMA FunctionIsSeq ==
  ASSUME NEW S, NEW n \in Nat, NEW f \in [1 .. n -> S]
  PROVE  f \in Seq(S) /\ Len(f) = n
OBVIOUS

\* What a slice of a sequence is, and how long.
LEMMA SliceType ==
  ASSUME NEW S, NEW s \in Seq(S), NEW m \in Int, NEW n \in Int, m >= 1, n <= Len(s)
  PROVE  /\ SubSeq(s, m, n) \in Seq(S)
         /\ Len(SubSeq(s, m, n)) = IF m <= n THEN n - m + 1 ELSE 0
<1>1. \A i \in m .. n : i \in 1 .. Len(s)
  <2>1. Len(s) \in Nat
    BY LenProperties
  <2> QED
    BY <2>1
<1>2. \A i \in m .. n : s[i] \in S
  BY <1>1, ElementOfSeq
<1> QED
  BY <1>2, SubSeqProperties

\* Padding is bytes.
LEMMA ZerosType ==
  ASSUME NEW n \in Int
  PROVE  [i \in 1 .. n |-> 0] \in Seq(Byte)
<1>1. 0 \in Byte
  BY DEF Byte
<1>2. CASE n \in Nat
  BY <1>1, <1>2, FunctionIsSeq
<1>3. CASE n \notin Nat
  <2>1. 1 .. n = 1 .. 0
    BY <1>3
  <2> DEFINE f == [i \in 1 .. 0 |-> 0]
  <2>2. f \in [1 .. 0 -> Byte] /\ 0 \in Nat
    BY <1>1
  <2> HIDE DEF f
  <2>3. f \in Seq(Byte)
    BY <2>2, FunctionIsSeq
  <2> QED
    BY <2>1, <2>3 DEF f
<1> QED
  BY <1>2, <1>3

\* BigToBytes pads to the word and yields bytes.
LEMMA BigToBytesType ==
  ASSUME NEW n \in Int
  PROVE  BigToBytes(n) \in Seq(Byte)
<1>1. BigBytes(n) \in Seq(Byte) /\ ByteLen(n) \in Nat
  BY BigBytesType, LenProperties DEF ByteLen
<1>2. WordBytes - ByteLen(n) \in Int
  BY <1>1, WordAssumption
<1> DEFINE zeros == [i \in 1 .. WordBytes - ByteLen(n) |-> 0]
<1>3. zeros \in Seq(Byte)
  BY <1>2, ZerosType
<1> HIDE DEF zeros
<1>4. zeros \o BigBytes(n) \in Seq(Byte)
  BY <1>1, <1>3, ConcatProperties
<1> QED
  BY <1>1, <1>4 DEF BigToBytes, zeros

\* What is read from the memory is bytes.
LEMMA MemGetType ==
  ASSUME NEW mem \in Seq(Byte), NEW offset \in Int, NEW size \in Int,
         CanRead(mem, offset, size)
  PROVE  MemGet(mem, offset, size) \in Seq(Byte)
<1>1. offset + 1 >= 1 /\ offset + size <= Len(mem)
  BY DEF CanRead
<1>2. offset + 1 \in Int /\ offset + size \in Int
  OBVIOUS
<1> QED
  BY <1>1, <1>2, SliceType DEF MemGet

\* A memory that is written to still is bytes.
LEMMA MemSetType ==
  ASSUME NEW mem \in Seq(Byte), NEW offset \in Int, NEW size \in Int,
         NEW value \in Seq(Byte)
  PROVE  MemSet(mem, offset, size, value) \in Seq(Byte)
<1> DEFINE zeros == [i \in 1 .. offset + size - Len(mem) |-> 0]
           grown == IF offset + size > Len(mem) - 1 THEN mem \o zeros ELSE mem
           set == [i \in DOMAIN grown |-> IF i - offset \in 1 .. size /\ i - offset <= Len(value)
                                          THEN value[i - offset] ELSE grown[i]]
<1>1. Len(mem) \in Nat /\ Len(value) \in Nat
  BY LenProperties
<1>2. offset + size - Len(mem) \in Int
  BY <1>1
<1>3. zeros \in Seq(Byte)
  BY <1>2, ZerosType
<1> HIDE DEF zeros
<1>4. grown \in Seq(Byte)
  BY <1>3, ConcatProperties
<1> HIDE DEF grown
<1>5. DOMAIN grown = 1 .. Len(grown) /\ Len(grown) \in Nat
  BY <1>4, LenProperties
<1>6. ASSUME NEW i \in 1 .. Len(grown)
      PROVE  (IF i - offset \in 1 .. size /\ i - offset <= Len(value)
              THEN value[i - offset] ELSE grown[i]) \in Byte
  <2>1. grown[i] \in Byte
    BY <1>4, ElementOfSeq
  <2>2. i - offset \in 1 .. size /\ i - offset <= Len(value) => i - offset \in 1 .. Len(value)
    BY <1>1, <1>5
  <2>3. \A j \in 1 .. Len(value) : value[j] \in Byte
    BY ElementOfSeq
  <2> QED
    BY <2>1, <2>2, <2>3
<1>7. set \in [1 .. Len(grown) -> Byte]
  BY <1>5, <1>6
<1> HIDE DEF set
<1>8. set \in Seq(Byte)
  BY <1>5, <1>7, FunctionIsSeq
<1> QED
  BY <1>8 DEF set, grown, zeros, MemSet

\* What an instruction reads of the script: nothing beyond its end.
LEMMA GetsType ==
  ASSUME NEW script \in Seq(Byte), NEW x \in Int, NEW y \in Nat, CanGet(script, x, y)
  PROVE  /\ Gets(script, x, y) \in Seq(Byte)
         /\ Gets(script, x, y) = <<>> \/ Len(Gets(script, x, y)) = y
<1>1. CASE x >= Len(script) \/ y >= Len(script)
  BY <1>1, EmptySeq DEF Gets
<1>2. CASE ~(x >= Len(script) \/ y >= Len(script))
  <2>1. x >= 0 /\ x + y <= Len(script)
    BY <1>2 DEF CanGet
  <2>2. x + 1 >= 1 /\ x + 1 \in Int /\ x + y \in Int
    BY <2>1
  <2>3. /\ SubSeq(script, x + 1, x + y) \in Seq(Byte)
        /\ Len(SubSeq(script, x + 1, x + y)) = IF x + 1 <= x + y THEN (x + y) - (x + 1) + 1 ELSE 0
    BY <2>1, <2>2, SliceType
  <2>4. (IF x + 1 <= x + y THEN (x + y) - (x + 1) + 1 ELSE 0) = y
    OBVIOUS
  <2>5. Gets(script, x, y) = SubSeq(script, x + 1, x + y)
    BY <1>2 DEF Gets
  <2> QED
    BY <2>3, <2>4, <2>5
<1> QED
  BY <1>1, <1>2

-----------------------------------------------------------------------------
(* What states, closures and receipts are made of.                         *)

Partial(S) == UNION {[A -> S] : A \in SUBSET Nat}

Items  == Partial(Nat)
Stored == [amount : Nat, nonce : Nat, root : Items, code : Seq(Byte)]
Object == [addr : Nat, amount : Int, nonce : Nat, store : Nat, code : Seq(Byte)]
State  == [trie : Partial(Stored), states : Partial(Nat), heap : Seq(Items)]
Views  == [trie : Partial(Stored), storage : Partial(Items)]
Snapshots == [trie : Partial(Stored), states : Partial(Nat)]

TxResume     == [tx : Transaction]
CallResume   == [snapshot : Snapshots, before : Views, offset : Int, size : Int]
CreateResume == [snapshot : Snapshots, before : Views, contract : Object]

Closure ==
    [kind : {"tx", "call", "create"}, callee : Nat, caller : Nat, object : Object,
     script : Seq(Byte), args : Seq(Byte), gas : Int, used : Int, limit : Int,
     stack : Seq(Int), mem : Seq(Byte), pc : Int, ok : BOOLEAN,
     resume : TxResume \cup CallResume \cup CreateResume]

\* What no instruction of a closure changes in it; gas and used are changed
\* by paying, and for those below by the closures they have called.
Keeps(f, g) ==
    /\ g \in Closure
    /\ g.kind = f.kind /\ g.callee = f.callee /\ g.caller = f.caller
    /\ g.object = f.object /\ g.script = f.script /\ g.args = f.args
    /\ g.limit = f.limit /\ g.resume = f.resume
KeepsGas(f, g) == Keeps(f, g) /\ g.gas = f.gas /\ g.used = f.used

\* Push changes nothing but the stack.
LEMMA PushKeeps ==
  ASSUME NEW f \in Closure, NEW n \in Int
  PROVE  /\ KeepsGas(f, Push(f, n))
         /\ Push(f, n).stack = Append(f.stack, n)
         /\ Push(f, n).mem = f.mem /\ Push(f, n).pc = f.pc /\ Push(f, n).ok = f.ok
<1>1. f.stack \in Seq(Int)
  BY DEF Closure
<1>2. Append(f.stack, n) \in Seq(Int)
  BY <1>1, AppendProperties
<1> QED
  BY <1>2 DEF Push, KeepsGas, Keeps, Closure

\* Drop changes nothing but the stack.
LEMMA DropKeeps ==
  ASSUME NEW f \in Closure, NEW n \in Nat
  PROVE  /\ KeepsGas(f, Drop(f, n))
         /\ Drop(f, n).mem = f.mem /\ Drop(f, n).pc = f.pc /\ Drop(f, n).ok = f.ok
<1>1. f.stack \in Seq(Int) /\ Len(f.stack) \in Nat
  BY LenProperties DEF Closure
<1>2. SubSeq(f.stack, 1, Len(f.stack) - n) \in Seq(Int)
  BY <1>1, SliceType
<1> QED
  BY <1>2 DEF Drop, KeepsGas, Keeps, Closure

\* An operand that is there is a number.
LEMMA TopType ==
  ASSUME NEW f \in Closure, NEW i \in Nat, 1 <= i, i <= Len(f.stack)
  PROVE  Top(f, i) \in Int
<1>1. f.stack \in Seq(Int) /\ Len(f.stack) \in Nat
  BY LenProperties DEF Closure
<1>2. Len(f.stack) + 1 - i \in 1 .. Len(f.stack)
  BY <1>1
<1> QED
  BY <1>1, <1>2, ElementOfSeq DEF Top

\* A jump changes nothing but the program counter.
LEMMA JumpKeeps ==
  ASSUME NEW f \in Closure, NEW x \in Int
  PROVE  /\ KeepsGas(f, [f EXCEPT !.pc = x])
         /\ [f EXCEPT !.pc = x].stack = f.stack
BY DEF KeepsGas, Keeps, Closure

\* Going on changes nothing but the program counter.
LEMMA NextKeeps ==
  ASSUME NEW f \in Closure
  PROVE  KeepsGas(f, Next1(f)) /\ Next1(f).stack = f.stack
<1>1. f.pc \in Int
  BY DEF Closure
<1>2. Next1(f) = [f EXCEPT !.pc = f.pc + 1]
  BY DEF Next1
<1> QED
  BY <1>1, <1>2, JumpKeeps

\* A panic keeps the gas: it is the closure that is not ok any more.
LEMMA PanicKeeps ==
  ASSUME NEW f \in Closure
  PROVE  /\ KeepsGas(f, Panic(f)) /\ ~Panic(f).ok
         /\ Panic(f).stack = f.stack /\ Panic(f).mem = f.mem /\ Panic(f).pc = f.pc
BY DEF Panic, KeepsGas, Keeps, Closure

\* Writing to the memory keeps the gas and the stack.
LEMMA MemKeeps ==
  ASSUME NEW f \in Closure, NEW m \in Seq(Byte)
  PROVE  /\ KeepsGas(f, [f EXCEPT !.mem = m])
         /\ [f EXCEPT !.mem = m].stack = f.stack
BY DEF KeepsGas, Keeps, Closure

\* What UseGas takes from the gas it adds to what is used.
LEMMA UseGasKeeps ==
  ASSUME NEW f \in Closure, NEW gas \in Int
  PROVE  /\ Keeps(f, UseGas(f, gas))
         /\ UseGas(f, gas).gas = f.gas - gas /\ UseGas(f, gas).used = f.used + gas
         /\ UseGas(f, gas).stack = f.stack /\ UseGas(f, gas).mem = f.mem
         /\ UseGas(f, gas).pc = f.pc /\ UseGas(f, gas).ok = f.ok
<1>1. f.gas - gas \in Int /\ f.used + gas \in Int
  BY DEF Closure
<1> QED
  BY <1>1 DEF UseGas, Keeps, Closure

\* What ReturnGas adds to the gas it takes from what is used.
LEMMA ReturnGasKeeps ==
  ASSUME NEW f \in Closure, NEW gas \in Int
  PROVE  /\ Keeps(f, ReturnGas(f, gas))
         /\ ReturnGas(f, gas).gas = f.gas + gas /\ ReturnGas(f, gas).used = f.used - gas
         /\ ReturnGas(f, gas).stack = f.stack
<1>1. f.gas + gas \in Int /\ f.used - gas \in Int
  BY DEF Closure
<1> QED
  BY <1>1 DEF ReturnGas, Keeps, Closure

\* A new closure has all its gas, has used none and has an empty stack.
LEMMA NewClosureType ==
  ASSUME NEW kind \in {"tx", "call", "create"}, NEW callee \in Nat, NEW caller \in Nat,
         NEW object \in Object, NEW script \in Seq(Byte), NEW args \in Seq(Byte),
         NEW gas \in Int, NEW resume \in TxResume \cup CallResume \cup CreateResume,
         NEW f, f = NewClosure(kind, callee, caller, object, script, args, gas, resume)
  PROVE  /\ f \in Closure
         /\ f.kind = kind /\ f.callee = callee /\ f.caller = caller /\ f.object = object
         /\ f.gas = gas /\ f.used = 0 /\ f.limit = gas /\ f.stack = <<>> /\ f.resume = resume
<1>1. <<>> \in Seq(Int) /\ <<>> \in Seq(Byte)
  BY EmptySeq
<1> QED
  BY <1>1 DEF NewClosure, Closure

-----------------------------------------------------------------------------
(* Opcodes and instructions.                                               *)

\* The numbers of the instructions, for the proofs that tell them apart.
LEMMA Opcodes ==
  /\ Op.STOP = 0 /\ Op.ADD = 1 /\ Op.MUL = 2 /\ Op.SUB = 3 /\ Op.DIV = 4 /\ Op.SDIV = 5
  /\ Op.MOD = 6 /\ Op.SMOD = 7 /\ Op.EXP = 8 /\ Op.NEG = 9 /\ Op.LT = 10 /\ Op.GT = 11
  /\ Op.EQ = 12 /\ Op.NOT = 13 /\ Op.AND = 16 /\ Op.OR = 17 /\ Op.XOR = 18 /\ Op.BYTE = 19
  /\ Op.SHA3 = 32 /\ Op.ADDRESS = 48 /\ Op.BALANCE = 49 /\ Op.ORIGIN = 50
  /\ Op.CALLER = 51 /\ Op.CALLVALUE = 52 /\ Op.CALLDATALOAD = 53 /\ Op.CALLDATASIZE = 54
  /\ Op.GASPRICE = 55 /\ Op.PREVHASH = 64 /\ Op.DIFFICULTY = 68 /\ Op.GASLIMIT = 69
  /\ Op.POP = 81 /\ Op.DUP = 82 /\ Op.SWAP = 83 /\ Op.MLOAD = 84 /\ Op.MSTORE = 85
  /\ Op.MSTORE8 = 86 /\ Op.SLOAD = 87 /\ Op.SSTORE = 88 /\ Op.JUMP = 89 /\ Op.JUMPI = 90
  /\ Op.PC = 91 /\ Op.MSIZE = 92 /\ Op.PUSH1 = 96 /\ Op.PUSH32 = 127 /\ Op.CREATE = 240
  /\ Op.CALL = 241 /\ Op.RETURN = 242 /\ Op.LOG = 254 /\ Op.SUICIDE = 255
BY DEF Op

\* A comparison pushes a number.
LEMMA TruthType == \A b : Truth(b) \in Int
BY DEF Truth

\* Division that rounds to zero, and its remainder, are numbers unless the
\* divisor is zero.
LEMMA DivisionType ==
  ASSUME NEW x \in Int, NEW y \in Int, y # 0
  PROVE  DivInt(x, y) \in Int /\ ModInt(x, y) \in Int
<1>1. DivInt(x, y) \in Int
  <2>1. CASE y > 0
    BY <2>1 DEF DivInt
  <2>2. CASE y < 0
    <3>1. -y > 0 /\ -y \in Int
      BY <2>2
    <3>2. x \div (-y) \in Int
      BY <3>1
    <3>3. DivInt(x, y) = -(x \div (-y))
      BY <2>2 DEF DivInt
    <3> QED
      BY <3>2, <3>3
  <2> QED
    BY <2>1, <2>2
<1>2. y * DivInt(x, y) \in Int
  BY <1>1
<1> QED
  BY <1>1, <1>2 DEF ModInt

\* Reading a word as signed keeps zero and non-zero apart.
LEMMA SignedType ==
  ASSUME NEW n \in Int
  PROVE  Signed(n) \in Int /\ (n # 0 => Signed(n) # 0)
BY PowerType DEF Signed

\* The two-operand instructions push a number; the dividing ones, where
\* they do not panic.
LEMMA BinaryType ==
  ASSUME NEW op \in BinaryOps, NEW x \in Int, NEW y \in Int, op \in Op.DIV .. Op.SMOD => y # 0
  PROVE  Binary(op, x, y) \in Int
<1>1. /\ x + y \in Int /\ x - y \in Int /\ x * y \in Int
      /\ ExpMod(x, y) \in Int /\ XorBit(x, y) \in Int
  BY ExpModType, XorBitType
<1>2. (IF y < 32 THEN ByteLen(x) - 1 - y ELSE 0) \in Int
  <2>1. ByteLen(x) \in Nat
    BY BigBytesType, LenProperties DEF ByteLen
  <2> QED
    BY <2>1
<1>3. op \in Op.DIV .. Op.SMOD => /\ DivInt(x, y) \in Int /\ ModInt(x, y) \in Int
                                 /\ Signed(DivInt(Signed(x), Signed(y))) \in Int
                                 /\ Signed(ModInt(Signed(x), Signed(y))) \in Int
  BY DivisionType, SignedType
<1>4. op \in {1, 2, 3, 4, 5, 6, 7, 8, 10, 11, 12, 16, 17, 18, 19}
  BY Opcodes DEF BinaryOps
<1>5. CASE op \in {1, 2, 3, 8}
  BY <1>1, <1>5, Opcodes DEF Binary
<1>6. CASE op \in {4, 5, 6, 7}
  <2>1. op \in Op.DIV .. Op.SMOD
    BY <1>6, Opcodes
  <2> QED
    BY <1>3, <1>6, <2>1, Opcodes DEF Binary
<1>7. CASE op \in {10, 11, 12, 16, 17}
  <2>1. \E b : Binary(op, x, y) = Truth(b)
    BY <1>7, Opcodes DEF Binary
  <2> QED
    BY <2>1, TruthType
<1>8. CASE op \in {18, 19}
  BY <1>1, <1>2, <1>8, Opcodes DEF Binary
<1> QED
  BY <1>4, <1>5, <1>6, <1>7, <1>8

\* CALLDATALOAD pushes a number.
LEMMA CallDataType ==
  ASSUME NEW f \in Closure, NEW offset \in Nat
  PROVE  CallData(f, offset) \in Int
<1>1. f.args \in Seq(Byte) /\ offset + 1 >= 1 /\ offset + 1 \in Int /\ offset + WordBytes \in Int
  BY WordAssumption DEF Closure
<1>2. Len(f.args) >= offset + WordBytes
        => SubSeq(f.args, offset + 1, offset + WordBytes) \in Seq(Byte)
  BY <1>1, SliceType
<1>3. CASE Len(f.args) >= offset + WordBytes
  <2>1. BigD(SubSeq(f.args, offset + 1, offset + WordBytes)) \in Nat
    BY <1>2, <1>3, BigDType
  <2> QED
    BY <1>3, <2>1 DEF CallData
<1>4. CASE ~(Len(f.args) >= offset + WordBytes)
  BY <1>4 DEF CallData
<1> QED
  BY <1>3, <1>4

\* The instructions that push what the closure or the block knows push a
\* number.
LEMMA EnvironmentType ==
  ASSUME NEW f \in Closure, NEW op \in EnvironmentOps, NEW env \in [BlockOps -> Int]
  PROVE  Environment(f, op, env) \in Int
<1>1. /\ f.object.addr \in Int /\ f.object.amount \in Int /\ f.caller \in Int /\ f.pc \in Int
      /\ Len(f.args) \in Int /\ Len(f.mem) \in Int
  BY LenProperties DEF Closure, Object
<1>2. op \in BlockOps => env[op] \in Int
  OBVIOUS
<1>3. op \in BlockOps \/ op \in {Op.ADDRESS, Op.BALANCE, Op.CALLER, Op.CALLDATASIZE,
                                 Op.GASLIMIT, Op.PC, Op.MSIZE}
  BY DEF EnvironmentOps
<1>4. CASE op \in {Op.ADDRESS, Op.BALANCE, Op.CALLER, Op.CALLDATASIZE, Op.GASLIMIT, Op.PC,
                   Op.MSIZE}
  BY <1>1, <1>4, Opcodes DEF Environment
<1>5. CASE op \in BlockOps
  BY <1>2, <1>5, Opcodes DEF Environment, BlockOps
<1> QED
  BY <1>3, <1>4, <1>5

\* The numbers of the instructions of one closure.
LEMMA LocalNumbers ==
  ASSUME NEW op \in LocalOps
  PROVE  \/ op \in BinaryOps /\ Requires(op) = 2
         \/ op \in EnvironmentOps /\ op \notin BinaryOps
         \/ op \in Pushes /\ op \notin BinaryOps \cup EnvironmentOps
         \/ /\ op \notin BinaryOps \cup EnvironmentOps \cup Pushes
            /\ \/ op \in {Op.NEG, Op.NOT, Op.CALLDATALOAD, Op.POP, Op.DUP, Op.MLOAD, Op.JUMP}
                  /\ Requires(op) = 1
               \/ op \in {Op.SHA3, Op.SWAP, Op.MSTORE, Op.MSTORE8, Op.JUMPI}
                  /\ Requires(op) = 2
               \/ op = Op.LOG
<1>1. CASE op \in BinaryOps
  BY <1>1, Opcodes DEF Requires, BinaryOps
<1>2. CASE op \in EnvironmentOps
  BY <1>2, Opcodes DEF EnvironmentOps, BinaryOps, BlockOps
<1>3. CASE op \in Pushes
  BY <1>3, Opcodes DEF Pushes, EnvironmentOps, BinaryOps, BlockOps
<1>4. CASE op \notin BinaryOps \cup EnvironmentOps \cup Pushes
  <2>1. op \in {9, 13, 53, 254, 32, 81, 82, 83, 84, 85, 86, 89, 90}
    BY <1>4, Opcodes DEF LocalOps
  <2> QED
    BY <1>4, <2>1, Opcodes DEF Requires
<1> QED
  BY <1>1, <1>2, <1>3, <1>4

\* Two changes that keep the gas are one.
LEMMA KeepsGasTrans ==
  ASSUME NEW f, NEW g, NEW h, KeepsGas(f, g), KeepsGas(g, h)
  PROVE  KeepsGas(f, h)
BY DEF KeepsGas, Keeps

\* No change keeps the gas.
LEMMA KeepsGasSelf ==
  ASSUME NEW f \in Closure
  PROVE  KeepsGas(f, f)
BY DEF KeepsGas, Keeps

\* An instruction that takes n numbers and leaves another one.
LEMMA ResultKeeps ==
  ASSUME NEW f \in Closure, NEW n \in Nat, NEW x \in Int
  PROVE  KeepsGas(f, Next1(Push(Drop(f, n), x)))
<1> DEFINE d == Drop(f, n)
           p == Push(d, x)
<1>1. KeepsGas(f, d) /\ d \in Closure
  BY DropKeeps DEF KeepsGas, Keeps
<1> HIDE DEF d
<1>2. KeepsGas(d, p) /\ p \in Closure
  BY <1>1, PushKeeps DEF KeepsGas, Keeps
<1> HIDE DEF p
<1>3. KeepsGas(p, Next1(p))
  BY <1>2, NextKeeps
<1> QED
  BY <1>1, <1>2, <1>3, KeepsGasTrans DEF p, d

\* Pushing a result and going on keeps the gas.
LEMMA PushNextKeeps ==
  ASSUME NEW f \in Closure, NEW x \in Int
  PROVE  KeepsGas(f, Next1(Push(f, x)))
<1> DEFINE p == Push(f, x)
<1>1. KeepsGas(f, p) /\ p \in Closure
  BY PushKeeps DEF KeepsGas, Keeps
<1> HIDE DEF p
<1>2. KeepsGas(p, Next1(p))
  BY <1>1, NextKeeps
<1> QED
  BY <1>1, <1>2, KeepsGasTrans DEF p

\* Dropping the operands and going on keeps the gas.
LEMMA DropNextKeeps ==
  ASSUME NEW f \in Closure, NEW n \in Nat
  PROVE  KeepsGas(f, Next1(Drop(f, n)))
<1> DEFINE d == Drop(f, n)
<1>1. KeepsGas(f, d) /\ d \in Closure
  BY DropKeeps DEF KeepsGas, Keeps
<1> HIDE DEF d
<1>2. KeepsGas(d, Next1(d))
  BY <1>1, NextKeeps
<1> QED
  BY <1>1, <1>2, KeepsGasTrans DEF d

\* Dropping the operands and jumping keeps the gas.
LEMMA DropJumpKeeps ==
  ASSUME NEW f \in Closure, NEW n \in Nat, NEW x \in Int
  PROVE  KeepsGas(f, [Drop(f, n) EXCEPT !.pc = x])
<1> DEFINE d == Drop(f, n)
<1>1. KeepsGas(f, d) /\ d \in Closure
  BY DropKeeps DEF KeepsGas, Keeps
<1> HIDE DEF d
<1>2. KeepsGas(d, [d EXCEPT !.pc = x])
  BY <1>1, JumpKeeps
<1> QED
  BY <1>1, <1>2, KeepsGasTrans DEF d

\* Storing a word in the memory keeps the gas.
LEMMA StoreKeeps ==
  ASSUME NEW f \in Closure, NEW offset \in Int, NEW n \in Int
  PROVE  KeepsGas(f, StoreWord(f, offset, n))
<1> DEFINE d == Drop(f, 2)
           m == MemSet(f.mem, offset, WordBytes, BigToBytes(n))
           s == [d EXCEPT !.mem = m]
<1>1. KeepsGas(f, d) /\ d \in Closure /\ d.mem = f.mem
  BY DropKeeps DEF KeepsGas, Keeps
<1>2. m \in Seq(Byte)
  <2>1. BigToBytes(n) \in Seq(Byte) /\ WordBytes \in Int /\ f.mem \in Seq(Byte)
    BY WordAssumption, BigToBytesType DEF Closure
  <2> QED
    BY <2>1, MemSetType
<1>3. StoreWord(f, offset, n) = IF offset < 0 THEN Panic(f) ELSE Next1(s)
  BY <1>1 DEF StoreWord
<1> HIDE DEF d, m
<1>4. KeepsGas(d, s) /\ s \in Closure
  BY <1>1, <1>2, MemKeeps DEF KeepsGas, Keeps
<1> HIDE DEF s
<1>5. KeepsGas(s, Next1(s))
  BY <1>4, NextKeeps
<1>6. KeepsGas(f, Next1(s))
  BY <1>1, <1>4, <1>5, KeepsGasTrans
<1> QED
  BY <1>3, <1>6, PanicKeeps

\* The classes of instructions do not meet.
Single(op) == op \in {Op.NEG, Op.NOT, Op.CALLDATALOAD, Op.LOG, Op.SHA3, Op.POP, Op.DUP, Op.SWAP,
                     Op.MLOAD, Op.MSTORE, Op.MSTORE8, Op.JUMP, Op.JUMPI}

\* A two-operand instruction is of no other class.
LEMMA BinaryAlone ==
  ASSUME NEW op \in BinaryOps
  PROVE  op \notin EnvironmentOps /\ op \notin Pushes /\ ~Single(op)
BY DEF BinaryOps, EnvironmentOps, BlockOps, Pushes, Op, Single

\* An instruction that pushes the environment is of no other class.
LEMMA EnvironmentAlone ==
  ASSUME NEW op \in EnvironmentOps
  PROVE  op \notin BinaryOps /\ op \notin Pushes /\ ~Single(op)
BY DEF BinaryOps, EnvironmentOps, BlockOps, Pushes, Op, Single

\* A PUSH is of no other class.
LEMMA PushAlone ==
  ASSUME NEW op \in Pushes
  PROVE  op \notin BinaryOps /\ op \notin EnvironmentOps /\ ~Single(op) /\ PushLen(op) \in Nat
BY DEF BinaryOps, EnvironmentOps, BlockOps, Pushes, Op, Single, PushLen

\* None of the instructions that stay in the closure touches its gas, its
\* object, its script or whom it returns to, panic or not.
LEMMA LocalKeeps ==
  ASSUME NEW f \in Closure, NEW op \in LocalOps, Len(f.stack) >= Requires(op),
         NEW env \in [BlockOps -> Int], HashesAreNumbers
  PROVE  KeepsGas(f, Local(f, op, env))
<1>0. Len(f.stack) \in Nat /\ f.mem \in Seq(Byte) /\ f.script \in Seq(Byte) /\ f.pc \in Int
  BY LenProperties DEF Closure
<1>1. CASE op \in BinaryOps /\ Requires(op) = 2
  <2> DEFINE x == Top(f, 2)
             y == Top(f, 1)
  <2>1. x \in Int /\ y \in Int
    BY <1>0, <1>1, TopType
  <2>0. op \notin EnvironmentOps \cup Pushes /\ ~Single(op)
    BY <1>1, BinaryAlone
  <2>2. Local(f, op, env) = IF op \in Op.DIV .. Op.SMOD /\ y = 0 THEN Panic(f)
                            ELSE Next1(Push(Drop(f, 2), Binary(op, x, y)))
    BY <1>1, <2>0 DEF Local, Single
  <2> HIDE DEF x, y
  <2>3. CASE op \in Op.DIV .. Op.SMOD /\ y = 0
    BY <2>2, <2>3, PanicKeeps
  <2>4. CASE ~(op \in Op.DIV .. Op.SMOD /\ y = 0)
    <3>1. Binary(op, x, y) \in Int
      BY <1>1, <2>1, <2>4, BinaryType
    <3> QED
      BY <2>2, <2>4, <3>1, ResultKeeps
  <2> QED
    BY <2>3, <2>4
<1>2. CASE op \in EnvironmentOps /\ op \notin BinaryOps
  <2>0. op \notin BinaryOps \cup Pushes /\ ~Single(op)
    BY <1>2, EnvironmentAlone
  <2>1. Local(f, op, env) = Next1(Push(f, Environment(f, op, env)))
    BY <1>2, <2>0 DEF Local, Single
  <2> QED
    BY <1>2, <2>1, EnvironmentType, PushNextKeeps
<1>3. CASE op \in Pushes /\ op \notin BinaryOps \cup EnvironmentOps
  <2> DEFINE n == PushLen(op)
             x == BigD(Gets(f.script, f.pc + 1, n))
  <2>0. op \notin BinaryOps \cup EnvironmentOps /\ ~Single(op)
    BY <1>3, PushAlone
  <2>1. Local(f, op, env) = IF CanGet(f.script, f.pc + 1, n)
                            THEN [Push(f, x) EXCEPT !.pc = @ + 1 + n] ELSE Panic(f)
    BY <1>3, <2>0 DEF Local, Single
  <2>2. n \in Nat /\ f.pc + 1 \in Int
    BY <1>0, <1>3, PushAlone
  <2>3. CASE CanGet(f.script, f.pc + 1, n)
    <3>1. Gets(f.script, f.pc + 1, n) \in Seq(Byte)
      BY <1>0, <2>2, <2>3, GetsType
    <3>2. x \in Int
      BY <3>1, BigDType
    <3> HIDE DEF n, x
    <3> DEFINE p == Push(f, x)
    <3>3. KeepsGas(f, p) /\ p \in Closure /\ p.pc = f.pc
      BY <3>2, PushKeeps DEF KeepsGas, Keeps
    <3>4. Local(f, op, env) = [p EXCEPT !.pc = p.pc + 1 + n]
      BY <2>1, <2>3
    <3> HIDE DEF p
    <3>5. p.pc + 1 + n \in Int
      BY <1>0, <2>2, <3>3
    <3> QED
      BY <3>3, <3>4, <3>5, JumpKeeps, KeepsGasTrans
  <2>4. CASE ~CanGet(f.script, f.pc + 1, n)
    BY <2>1, <2>4, PanicKeeps
  <2> QED
    BY <2>3, <2>4
<1>4. CASE op \notin BinaryOps \cup EnvironmentOps \cup Pushes
  <2>1. CASE op = Op.LOG
    <3>1. Local(f, op, env) = Next1(f)
      BY <1>4, <2>1, Opcodes DEF Local
    <3> QED
      BY <3>1, NextKeeps
  <2>2. CASE op \in {Op.NEG, Op.NOT, Op.CALLDATALOAD, Op.POP, Op.DUP, Op.MLOAD, Op.JUMP}
             /\ Requires(op) = 1
    <3>1. Top(f, 1) \in Int
      BY <1>0, <2>2, TopType
    <3>2. CASE op = Op.NEG
      <4>1. Local(f, op, env) = Next1(Push(Drop(f, 1), Pow256 - Top(f, 1)))
        BY <1>4, <3>2, Opcodes DEF Local
      <4>2. Pow256 - Top(f, 1) \in Int
        BY <3>1, PowerType
      <4> QED
        BY <4>1, <4>2, ResultKeeps
    <3>3. CASE op = Op.NOT
      <4>1. Local(f, op, env) = Next1(Push(Drop(f, 1), Truth(Top(f, 1) = 0)))
        BY <1>4, <3>3, Opcodes DEF Local
      <4>2. Truth(Top(f, 1) = 0) \in Int
        BY DEF Truth
      <4> QED
        BY <4>1, <4>2, ResultKeeps
    <3>4. CASE op = Op.CALLDATALOAD
      <4>1. Local(f, op, env) = IF Top(f, 1) < 0 THEN Panic(f)
                                ELSE Next1(Push(Drop(f, 1), CallData(f, Top(f, 1))))
        BY <1>4, <3>4, Opcodes DEF Local
      <4>2. ~(Top(f, 1) < 0) => CallData(f, Top(f, 1)) \in Int
        BY <3>1, CallDataType
      <4> QED
        BY <4>1, <4>2, ResultKeeps, PanicKeeps
    <3>5. CASE op = Op.POP
      <4>1. Local(f, op, env) = Next1(Drop(f, 1))
        BY <1>4, <3>5, Opcodes DEF Local
      <4> QED
        BY <4>1, DropNextKeeps
    <3>6. CASE op = Op.DUP
      <4>1. Local(f, op, env) = Next1(Push(f, Top(f, 1)))
        BY <1>4, <3>6, Opcodes DEF Local
      <4> QED
        BY <3>1, <4>1, PushNextKeeps
    <3>7. CASE op = Op.MLOAD
      <4>1. Local(f, op, env) = IF CanRead(f.mem, Top(f, 1), WordBytes)
              THEN Next1(Push(Drop(f, 1), BigD(MemGet(f.mem, Top(f, 1), WordBytes))))
              ELSE Panic(f)
        BY <1>4, <3>7, Opcodes DEF Local
      <4>2. CanRead(f.mem, Top(f, 1), WordBytes)
              => BigD(MemGet(f.mem, Top(f, 1), WordBytes)) \in Int
        BY <1>0, <3>1, WordAssumption, MemGetType, BigDType
      <4> QED
        BY <4>1, <4>2, ResultKeeps, PanicKeeps
    <3>8. CASE op = Op.JUMP
      <4>1. Local(f, op, env) = [Drop(f, 1) EXCEPT !.pc = Top(f, 1)]
        BY <1>4, <3>8, Opcodes DEF Local
      <4> QED
        BY <3>1, <4>1, DropJumpKeeps
    <3> QED
      BY <2>2, <3>2, <3>3, <3>4, <3>5, <3>6, <3>7, <3>8
  <2>3. CASE op \in {Op.SHA3, Op.SWAP, Op.MSTORE, Op.MSTORE8, Op.JUMPI} /\ Requires(op) = 2
    <3>1. Top(f, 1) \in Int /\ Top(f, 2) \in Int
      BY <1>0, <2>3, TopType
    <3>2. CASE op = Op.SHA3
      <4>1. Local(f, op, env) = IF CanRead(f.mem, Top(f, 1), Top(f, 2))
              THEN Next1(Push(Drop(f, 2), Sha3(MemGet(f.mem, Top(f, 1), Top(f, 2)))))
              ELSE Panic(f)
        BY <1>4, <3>2, Opcodes DEF Local
      <4>2. CanRead(f.mem, Top(f, 1), Top(f, 2))
              => Sha3(MemGet(f.mem, Top(f, 1), Top(f, 2))) \in Int
        BY <1>0, <3>1, MemGetType DEF HashesAreNumbers
      <4> QED
        BY <4>1, <4>2, ResultKeeps, PanicKeeps
    <3>3. CASE op = Op.SWAP
      <4>1. Local(f, op, env) = Next1(Push(Push(Drop(f, 2), Top(f, 1)), Top(f, 2)))
        BY <1>4, <3>3, Opcodes DEF Local
      <4> DEFINE p == Push(Drop(f, 2), Top(f, 1))
      <4>2. KeepsGas(f, Drop(f, 2)) /\ Drop(f, 2) \in Closure
        BY DropKeeps DEF KeepsGas, Keeps
      <4>3. KeepsGas(Drop(f, 2), p) /\ p \in Closure
        BY <3>1, <4>2, PushKeeps DEF KeepsGas, Keeps
      <4> HIDE DEF p
      <4>4. KeepsGas(p, Next1(Push(p, Top(f, 2))))
        BY <3>1, <4>3, PushNextKeeps
      <4>5. KeepsGas(f, p)
        BY <4>2, <4>3, KeepsGasTrans
      <4> QED
        BY <4>1, <4>4, <4>5, KeepsGasTrans DEF p
    <3>4. CASE op = Op.MSTORE
      <4>1. Local(f, op, env) = StoreWord(f, Top(f, 1), Top(f, 2))
        BY <1>4, <3>4, Opcodes DEF Local
      <4> QED
        BY <3>1, <4>1, StoreKeeps
    <3>6. CASE op = Op.MSTORE8
      <4>1. Local(f, op, env) = StoreWord(f, Top(f, 1), Top(f, 2) % 256)
        BY <1>4, <3>6, Opcodes DEF Local
      <4>2. Top(f, 2) % 256 \in Int
        BY <3>1
      <4> QED
        BY <3>1, <4>1, <4>2, StoreKeeps
    <3>5. CASE op = Op.JUMPI
      <4>1. Local(f, op, env) = IF Top(f, 2) = 1 THEN [Drop(f, 2) EXCEPT !.pc = Top(f, 1)]
                                ELSE Next1(Drop(f, 2))
        BY <1>4, <3>5, Opcodes DEF Local
      <4> QED
        BY <3>1, <4>1, DropNextKeeps, DropJumpKeeps
    <3> QED
      BY <2>3, <3>2, <3>3, <3>4, <3>5, <3>6
  <2> QED
    BY <1>4, <2>1, <2>2, <2>3, LocalNumbers
<1> QED
  BY <1>1, <1>2, <1>3, <1>4, LocalNumbers

-----------------------------------------------------------------------------
(* States.                                                                 *)

\* The storage a state names is there, and only so much of it.
Good(st) ==
    /\ st \in State
    /\ IsFiniteSet(DOMAIN st.states)
    /\ \A a \in DOMAIN st.states : st.states[a] \in 1 .. Len(st.heap)

\* Storage is added to, and written in place, but never taken away.
Wider(st, t) == Len(st.heap) <= Len(t.heap)

\* Nothing that was there is changed.
Extends(st, t) ==
    /\ Wider(st, t)
    /\ \A k \in 1 .. Len(st.heap) : t.heap[k] = st.heap[k]

\* A partial function is a function on its domain.
LEMMA PartialMember ==
  ASSUME NEW S, NEW f, f \in Partial(S)
  PROVE  f \in [DOMAIN f -> S] /\ DOMAIN f \in SUBSET Nat
BY Zenon DEF Partial

\* A function on a set of numbers is a partial function.
LEMMA PartialIntro ==
  ASSUME NEW S, NEW A \in SUBSET Nat, NEW f \in [A -> S]
  PROVE  f \in Partial(S)
BY Zenon DEF Partial

\* What With changes of a partial function.
LEMMA WithPartial ==
  ASSUME NEW S, NEW f \in Partial(S), NEW x \in Nat, NEW v \in S
  PROVE  /\ With(f, x, v) \in Partial(S)
         /\ DOMAIN With(f, x, v) = DOMAIN f \cup {x}
         /\ \A y \in DOMAIN f \cup {x} : With(f, x, v)[y] = IF y = x THEN v ELSE f[y]
<1>1. f \in [DOMAIN f -> S] /\ DOMAIN f \in SUBSET Nat
  BY PartialMember
<1>2. With(f, x, v) \in [DOMAIN f \cup {x} -> S]
  BY <1>1 DEF With
<1>3. DOMAIN f \cup {x} \in SUBSET Nat
  BY <1>1
<1> QED
  BY <1>2, <1>3, PartialIntro DEF With

\* An absolute value is natural.
LEMMA AbsType ==
  ASSUME NEW n \in Int
  PROVE  Abs(n) \in Nat
BY DEF Abs

\* The parts of a state.
LEMMA StateParts ==
  ASSUME NEW st \in State
  PROVE  /\ st = [trie |-> st.trie, states |-> st.states, heap |-> st.heap]
         /\ st.trie \in Partial(Stored) /\ st.states \in Partial(Nat) /\ st.heap \in Seq(Items)
         /\ Len(st.heap) \in Nat /\ DOMAIN st.heap = 1 .. Len(st.heap)
         /\ DOMAIN st.trie \subseteq Nat /\ DOMAIN st.states \subseteq Nat
         /\ \A a \in DOMAIN st.trie : st.trie[a] \in Stored
         /\ \A k \in 1 .. Len(st.heap) : st.heap[k] \in Items
<1>1. /\ st = [trie |-> st.trie, states |-> st.states, heap |-> st.heap]
      /\ st.trie \in Partial(Stored) /\ st.states \in Partial(Nat) /\ st.heap \in Seq(Items)
  BY DEF State
<1>2. st.trie \in [DOMAIN st.trie -> Stored] /\ DOMAIN st.trie \in SUBSET Nat
  BY <1>1, PartialMember
<1>3. DOMAIN st.states \in SUBSET Nat
  BY <1>1, PartialMember
<1>4. /\ Len(st.heap) \in Nat /\ DOMAIN st.heap = 1 .. Len(st.heap)
      /\ \A k \in 1 .. Len(st.heap) : st.heap[k] \in Items
  BY <1>1, LenProperties, ElementOfSeq
<1> QED
  BY <1>1, <1>2, <1>3, <1>4

\* An empty storage is a storage.
LEMMA NoItemsType == NoItems \in Items
<1>1. NoItems \in [{} -> Nat] /\ {} \in SUBSET Nat
  BY DEF NoItems
<1> QED
  BY <1>1, PartialIntro DEF Items

\* A value read from a storage is a natural number.
LEMMA GetMemType ==
  ASSUME NEW st \in State, NEW obj, obj.store \in 1 .. Len(st.heap), NEW loc
  PROVE  GetMem(st, obj, loc) \in Nat
<1> DEFINE items == st.heap[obj.store]
<1>1. items \in Items
  BY StateParts
<1> HIDE DEF items
<1>2. items \in [DOMAIN items -> Nat]
  BY <1>1, PartialMember DEF Items
<1>3. GetMem(st, obj, loc) = IF Abs(loc) \in DOMAIN items THEN items[Abs(loc)] ELSE 0
  BY DEF GetMem, items
<1> QED
  BY <1>2, <1>3

\* A new storage comes behind the others and disturbs none of them.
LEMMA WithStoreGood ==
  ASSUME NEW st, Good(st), NEW root \in Items, NEW t, t = WithStore(st, root)
  PROVE  /\ Good(t) /\ t.trie = st.trie /\ t.states = st.states
         /\ Len(t.heap) = Len(st.heap) + 1 /\ Extends(st, t)
<1>1. st \in State /\ st.heap \in Seq(Items) /\ Len(st.heap) \in Nat
  BY StateParts DEF Good
<1>2. t = [st EXCEPT !.heap = Append(st.heap, root)]
  BY DEF WithStore
<1>3. t.trie = st.trie /\ t.states = st.states /\ t.heap = Append(st.heap, root)
  BY <1>1, <1>2 DEF State
<1>4. /\ Append(st.heap, root) \in Seq(Items)
      /\ Len(Append(st.heap, root)) = Len(st.heap) + 1
      /\ \A k \in 1 .. Len(st.heap) : Append(st.heap, root)[k] = st.heap[k]
  BY <1>1, AppendProperties
<1>5. t \in State
  BY <1>1, <1>2, <1>4 DEF State
<1>6. \A k \in 1 .. Len(st.heap) : k \in 1 .. Len(t.heap)
  BY <1>1, <1>3, <1>4
<1> QED
  BY <1>1, <1>3, <1>4, <1>5, <1>6 DEF Good, Extends, Wider

\* Fetching an account only adds a storage.
LEMMA AfterGetGood ==
  ASSUME NEW st, Good(st), NEW a, NEW t, t = AfterGet(st, a)
  PROVE  /\ Good(t) /\ t.trie = st.trie /\ t.states = st.states /\ Extends(st, t)
         /\ Exists(st, a) => Len(t.heap) = Len(st.heap) + 1
<1>1. CASE Exists(st, a)
  <2>1. st.trie[a] \in Stored
    BY <1>1, StateParts DEF Good, Exists
  <2>2. st.trie[a].root \in Items
    BY <2>1 DEF Stored
  <2> QED
    BY <1>1, <2>2, WithStoreGood DEF AfterGet
<1>2. CASE ~Exists(st, a)
  <2>1. t = st /\ Len(st.heap) \in Nat
    BY <1>2, StateParts DEF AfterGet, Good
  <2> QED
    BY <1>2, <2>1 DEF Extends, Wider
<1> QED
  BY <1>1, <1>2

\* An object decoded from the trie is an object, with a storage of its own.
LEMMA DecodedType ==
  ASSUME NEW st, Good(st), NEW a, Exists(st, a)
  PROVE  /\ Decoded(st, a) \in Object
         /\ Decoded(st, a).addr = a /\ Decoded(st, a).nonce = st.trie[a].nonce
         /\ Decoded(st, a).store = Len(st.heap) + 1
         /\ Decoded(st, a).amount = st.trie[a].amount /\ Decoded(st, a).amount \in Nat
<1>1. st.trie[a] \in Stored /\ a \in Nat /\ Len(st.heap) + 1 \in Nat
  BY StateParts DEF Good, Exists
<1>2. /\ st.trie[a].amount \in Nat /\ st.trie[a].nonce \in Nat /\ st.trie[a].code \in Seq(Byte)
      /\ st.trie[a].amount \in Int
  BY <1>1 DEF Stored
<1> QED
  BY <1>1, <1>2 DEF Decoded, Object

\* What fetching an account returns: a copy of what the state holds of it,
\* with a storage of its own or, for a new account, none.
LEMMA GetAccountType ==
  ASSUME NEW st, Good(st), NEW a \in Nat, NEW o, o = GetAccount(st, a)
  PROVE  /\ o \in Object /\ o.addr = a /\ o.amount \in Nat
         /\ o.nonce = IF Exists(st, a) THEN st.trie[a].nonce ELSE 0
         /\ o.store = IF Exists(st, a) THEN Len(st.heap) + 1 ELSE 0
         /\ o.store \in 0 .. Len(AfterGet(st, a).heap)
<1>1. CASE Exists(st, a)
  <2>1. o = Decoded(st, a)
    BY <1>1 DEF GetAccount
  <2>2. Len(AfterGet(st, a).heap) = Len(st.heap) + 1 /\ Len(st.heap) \in Nat
    BY <1>1, AfterGetGood, StateParts DEF Good
  <2>3. Len(st.heap) + 1 \in 0 .. Len(AfterGet(st, a).heap)
    BY <2>2
  <2> QED
    BY <1>1, <2>1, <2>3, DecodedType
<1>2. CASE ~Exists(st, a)
  <2>1. o = [Idle EXCEPT !.addr = a]
    BY <1>2 DEF GetAccount
  <2>2. <<>> \in Seq(Byte) /\ 0 \in Nat /\ 0 \in Int
    BY EmptySeq
  <2>3. o = [addr |-> a, amount |-> 0, nonce |-> 0, store |-> 0, code |-> <<>>]
    BY <2>1 DEF Idle
  <2>4. 0 \in 0 .. Len(AfterGet(st, a).heap)
    <3>1. Len(AfterGet(st, a).heap) \in Nat
      BY AfterGetGood, StateParts DEF Good
    <3> QED
      BY <3>1
  <2> QED
    BY <1>2, <2>2, <2>3, <2>4 DEF Object
<1> QED
  BY <1>1, <1>2

\* What fetching an object returns: its storage is the one the state names,
\* or a new one.
LEMMA GetStateObjectType ==
  ASSUME NEW st, Good(st), NEW a, Exists(st, a), NEW o, o = GetStateObject(st, a)
  PROVE  /\ o \in Object /\ o.addr = a /\ o.amount \in Nat /\ o.nonce = st.trie[a].nonce
         /\ o.store \in 1 .. Len(st.heap) + 1
         /\ IF a \in DOMAIN st.states THEN o.store = st.states[a] ELSE o.store = Len(st.heap) + 1
<1> DEFINE d == Decoded(st, a)
<1>1. /\ d \in Object /\ d.addr = a /\ d.amount \in Nat /\ d.nonce = st.trie[a].nonce
      /\ d.store = Len(st.heap) + 1 /\ Len(st.heap) \in Nat
  BY DecodedType, StateParts DEF Good
<1> HIDE DEF d
<1>2. CASE a \in DOMAIN st.states
  <2>1. st.states[a] \in 1 .. Len(st.heap)
    BY <1>2 DEF Good
  <2>2. st.states[a] \in Nat /\ st.states[a] \in 1 .. Len(st.heap) + 1
    BY <1>1, <2>1
  <2>3. o = [d EXCEPT !.store = st.states[a]]
    BY <1>2 DEF GetStateObject, d
  <2> QED
    BY <1>1, <1>2, <2>2, <2>3 DEF Object
<1>3. CASE a \notin DOMAIN st.states
  <2>1. o = d
    BY <1>3 DEF GetStateObject, d
  <2>2. Len(st.heap) + 1 \in 1 .. Len(st.heap) + 1
    BY <1>1
  <2> QED
    BY <1>1, <1>3, <2>1, <2>2
<1> QED
  BY <1>2, <1>3

\* The root of an object is a storage, an empty one for the object that has
\* none.
LEMMA RootType ==
  ASSUME NEW st, Good(st), NEW obj \in Object, obj.store \in 0 .. Len(st.heap)
  PROVE  Root(st, obj) \in Items
<1>1. obj.store = 0 \/ obj.store \in 1 .. Len(st.heap)
  BY StateParts DEF Good
<1> QED
  BY <1>1, NoItemsType, StateParts DEF Root, Good

\* Writing an object back: its storage is named from now on, unless the
\* address already has one.
LEMMA UpdateGood ==
  ASSUME NEW st, Good(st), NEW obj \in Object, obj.store \in 0 .. Len(st.heap),
         NEW t, t = UpdateStateObject(st, obj)
  PROVE  /\ Good(t) /\ t.heap = st.heap /\ Extends(st, t)
         /\ DOMAIN t.trie = DOMAIN st.trie \cup {obj.addr}
         /\ \A a \in DOMAIN t.trie :
               t.trie[a].nonce = IF a = obj.addr THEN obj.nonce ELSE st.trie[a].nonce
         /\ DOMAIN st.states \subseteq DOMAIN t.states
         /\ \A a \in DOMAIN t.states :
               \/ a \in DOMAIN st.states /\ t.states[a] = st.states[a]
               \/ t.states[a] = obj.store /\ obj.store # 0
<1> DEFINE states == IF obj.store = 0 \/ obj.addr \in DOMAIN st.states THEN st.states
                     ELSE With(st.states, obj.addr, obj.store)
           cell == [amount |-> Abs(obj.amount), nonce |-> obj.nonce,
                    root |-> Root(st, obj), code |-> obj.code]
           trie == With(st.trie, obj.addr, cell)
<1>0. st \in State /\ Len(st.heap) \in Nat
  BY StateParts DEF Good
<1>1. /\ obj.addr \in Nat /\ obj.amount \in Int /\ obj.nonce \in Nat /\ obj.code \in Seq(Byte)
      /\ obj.store \in Nat
  BY DEF Object
<1>2. cell \in Stored /\ cell.nonce = obj.nonce
  BY <1>1, AbsType, RootType DEF Stored
<1>3. t = [st EXCEPT !.states = states, !.trie = trie]
  BY DEF UpdateStateObject
<1> HIDE DEF cell, trie
<1>4. /\ trie \in Partial(Stored) /\ DOMAIN trie = DOMAIN st.trie \cup {obj.addr}
      /\ \A a \in DOMAIN st.trie \cup {obj.addr} :
            trie[a] = IF a = obj.addr THEN cell ELSE st.trie[a]
  <2>1. st.trie \in Partial(Stored) /\ obj.addr \in Nat
    BY <1>0, <1>1, StateParts
  <2>2. With(st.trie, obj.addr, cell) \in Partial(Stored)
    BY <1>2, <2>1, WithPartial
  <2> QED
    BY <2>2 DEF With, trie
<1>5. /\ states \in Partial(Nat) /\ IsFiniteSet(DOMAIN states)
      /\ DOMAIN st.states \subseteq DOMAIN states
      /\ \A a \in DOMAIN states : \/ a \in DOMAIN st.states /\ states[a] = st.states[a]
                                  \/ states[a] = obj.store /\ obj.store # 0
  <2>1. CASE obj.store = 0 \/ obj.addr \in DOMAIN st.states
    BY <1>0, <2>1, StateParts DEF Good
  <2>2. CASE ~(obj.store = 0 \/ obj.addr \in DOMAIN st.states)
    <3>1. states = With(st.states, obj.addr, obj.store)
      BY <2>2
    <3> HIDE DEF states
    <3>2. /\ states \in Partial(Nat) /\ DOMAIN states = DOMAIN st.states \cup {obj.addr}
          /\ \A a \in DOMAIN st.states \cup {obj.addr} :
                states[a] = IF a = obj.addr THEN obj.store ELSE st.states[a]
      <4>1. st.states \in Partial(Nat) /\ obj.addr \in Nat /\ obj.store \in Nat
        BY <1>0, <1>1, StateParts
      <4>2. With(st.states, obj.addr, obj.store) \in Partial(Nat)
        BY <4>1, WithPartial
      <4> QED
        BY <3>1, <4>2 DEF With
    <3>3. IsFiniteSet(DOMAIN states)
      BY <3>2, FS_AddElement DEF Good
    <3> QED
      BY <2>2, <3>2, <3>3
  <2> QED
    BY <2>1, <2>2
<1> HIDE DEF states
<1>6. t \in State /\ t.states = states /\ t.trie = trie /\ t.heap = st.heap
  BY <1>0, <1>3, <1>4, <1>5 DEF State
<1>7. \A a \in DOMAIN states : states[a] \in 1 .. Len(st.heap)
  <2>1. obj.store # 0 => obj.store \in 1 .. Len(st.heap)
    BY <1>0
  <2> QED
    BY <1>5, <2>1 DEF Good
<1>8. Good(t) /\ Extends(st, t)
  BY <1>0, <1>5, <1>6, <1>7 DEF Good, Extends, Wider
<1>9. \A a \in DOMAIN t.trie :
         t.trie[a].nonce = IF a = obj.addr THEN obj.nonce ELSE st.trie[a].nonce
  BY <1>2, <1>4, <1>6
<1> QED
  BY <1>4, <1>5, <1>6, <1>8, <1>9

\* Writing to a storage.
LEMMA SetStorageGood ==
  ASSUME NEW st, Good(st), NEW obj, obj.store \in 1 .. Len(st.heap), NEW loc \in Int,
         NEW val \in Int, NEW t, t = SetStorage(st, obj, loc, val)
  PROVE  /\ Good(t) /\ t.trie = st.trie /\ t.states = st.states
         /\ Len(t.heap) = Len(st.heap)
         /\ \A k \in 1 .. Len(st.heap) : k # obj.store => t.heap[k] = st.heap[k]
<1> DEFINE items == With(st.heap[obj.store], Abs(loc), Abs(val))
           heap == [st.heap EXCEPT ![obj.store] = items]
<1>1. /\ st \in State /\ st.heap \in Seq(Items) /\ Len(st.heap) \in Nat
      /\ DOMAIN st.heap = 1 .. Len(st.heap)
      /\ \A k \in 1 .. Len(st.heap) : st.heap[k] \in Items
  BY StateParts DEF Good
<1>2. items \in Items
  <2>1. Abs(loc) \in Nat /\ Abs(val) \in Nat
    BY AbsType
  <2> QED
    BY <1>1, <2>1, WithPartial DEF Items
<1>3. t = [st EXCEPT !.heap = heap]
  BY DEF SetStorage
<1> HIDE DEF items
<1>4. heap \in [1 .. Len(st.heap) -> Items]
  BY <1>1, <1>2
<1>5. \A k \in 1 .. Len(st.heap) : k # obj.store => heap[k] = st.heap[k]
  BY <1>1
<1> HIDE DEF heap
<1>6. heap \in Seq(Items) /\ Len(heap) = Len(st.heap)
  BY <1>1, <1>4, FunctionIsSeq
<1>7. t \in State /\ t.states = st.states /\ t.trie = st.trie /\ t.heap = heap
  BY <1>1, <1>3, <1>6 DEF State
<1> QED
  BY <1>5, <1>6, <1>7 DEF Good

-----------------------------------------------------------------------------
(* Snapshots.                                                              *)

GoodSnapshot(s, st) ==
    /\ s \in Snapshots
    /\ IsFiniteSet(DOMAIN s.states)
    /\ \A a \in DOMAIN s.states : s.states[a] \in 1 .. Len(st.heap)

\* s has, in cells of its own behind those of st, what st has; t is st with
\* these cells.
IsCopy(s, st, t) ==
    /\ GoodSnapshot(s, t)
    /\ s.trie = st.trie /\ DOMAIN s.states = DOMAIN st.states
    /\ \A a \in DOMAIN st.states : /\ s.states[a] > Len(st.heap)
                                   /\ t.heap[s.states[a]] = st.heap[st.states[a]]

\* SetToSeq lists every element of a finite set.
LEMMA ListOfSet ==
  ASSUME NEW S, IsFiniteSet(S)
  PROVE  /\ SetToSeq(S) \in [1 .. Cardinality(S) -> S]
         /\ \A x \in S : \E i \in 1 .. Cardinality(S) : SetToSeq(S)[i] = x
         /\ Cardinality(S) \in Nat
<1> DEFINE n == Cardinality(S)
           s == SetToSeq(S)
<1>1. n \in Nat /\ ExistsBijection(1 .. n, S)
  BY FS_CardinalityType
<1>2. \E f \in [1 .. n -> S] : IsInjective(f)
  <2>1. PICK f \in Bijection(1 .. n, S) : TRUE
    BY <1>1 DEF ExistsBijection
  <2>2. f \in Injection(1 .. n, S)
    BY <2>1 DEF Bijection
  <2> QED
    BY <2>2 DEF Injection
<1>3. s \in [1 .. n -> S] /\ IsInjective(s)
  BY <1>2, Zenon DEF SetToSeq
<1> HIDE DEF s
<1>4. s \in Injection(1 .. n, S)
  BY <1>3 DEF Injection
<1>5. IsFiniteSet(1 .. n) /\ Cardinality(1 .. n) = n
  <2>1. 1 \in Int /\ n \in Int
    BY <1>1
  <2>2. /\ IsFiniteSet(1 .. n)
        /\ Cardinality(1 .. n) = IF 1 > n THEN 0 ELSE n - 1 + 1
    BY <2>1, FS_Interval
  <2> QED
    BY <1>1, <2>2
<1>6. s \in Surjection(1 .. n, S)
  BY <1>4, <1>5, FS_Injection
<1>7. \A x \in S : \E i \in 1 .. n : s[i] = x
  BY <1>6 DEF Surjection
<1> QED
  BY <1>1, <1>3, <1>7 DEF s

\* Snapshot copies every cached storage into a cell of its own behind all
\* others.
LEMMA SnapshotCopies ==
  ASSUME NEW st, Good(st), NEW t, t = Copied(st), NEW s, s = Snapshot(st)
  PROVE  /\ Good(t) /\ t.trie = st.trie /\ t.states = st.states /\ Extends(st, t)
         /\ IsCopy(s, st, t)
<1> DEFINE S == DOMAIN st.states
           n == Cardinality(S)
           list == Nested(st)
           copies == [i \in DOMAIN list |-> st.heap[st.states[list[i]]]]
           at(a) == CHOOSE i \in DOMAIN list : list[i] = a
           L == Len(st.heap)
<1>1. /\ st \in State /\ IsFiniteSet(S) /\ st.heap \in Seq(Items) /\ L \in Nat
      /\ S \in SUBSET Nat
      /\ \A a \in S : st.states[a] \in 1 .. L
      /\ \A k \in 1 .. L : st.heap[k] \in Items
  BY StateParts DEF Good
<1>2. /\ list \in [1 .. n -> S] /\ n \in Nat
      /\ \A a \in S : \E i \in 1 .. n : list[i] = a
  BY <1>1, ListOfSet DEF Nested
<1>3. t = [st EXCEPT !.heap = st.heap \o copies]
  BY DEF Copied
<1>4. s = [trie |-> st.trie, states |-> [a \in S |-> L + at(a)]]
  BY DEF Snapshot
<1> HIDE DEF list
<1>5. \A a \in S : at(a) \in 1 .. n /\ list[at(a)] = a
  BY <1>2
<1>6. copies \in Seq(Items) /\ Len(copies) = n
  <2>1. ASSUME NEW i \in 1 .. n
        PROVE  st.heap[st.states[list[i]]] \in Items
    <3>1. list[i] \in S
      BY <1>2
    <3> QED
      BY <1>1, <3>1
  <2>2. copies \in [1 .. n -> Items]
    BY <1>2, <2>1
  <2> HIDE DEF copies, n
  <2> QED
    BY <1>2, <2>2, FunctionIsSeq
<1>7. \A i \in 1 .. n : copies[i] = st.heap[st.states[list[i]]]
  BY <1>2
<1> HIDE DEF copies
<1> DEFINE heap == st.heap \o copies
<1>8. /\ heap \in Seq(Items) /\ Len(heap) = L + n
      /\ \A k \in 1 .. L : heap[k] = st.heap[k]
      /\ \A i \in 1 .. n : heap[L + i] = copies[i]
  <2>1. /\ heap \in Seq(Items) /\ Len(heap) = L + n
        /\ \A k \in 1 .. L + n : heap[k] = IF k <= L THEN st.heap[k] ELSE copies[k - L]
    <3>1. heap \in Seq(Items) /\ Len(heap) = L + Len(copies)
      BY <1>1, <1>6, ConcatProperties
    <3>2. \A k \in 1 .. L + Len(copies) :
             heap[k] = IF k <= L THEN st.heap[k] ELSE copies[k - L]
      BY <1>1, <1>6, ConcatProperties
    <3> QED
      BY <1>6, <3>1, <3>2
  <2> HIDE DEF heap, n, L
  <2>2. ASSUME NEW i \in 1 .. n
        PROVE  heap[L + i] = copies[i]
    <3>1. L + i \in 1 .. L + n /\ ~(L + i <= L) /\ (L + i) - L = i
      BY <1>1, <1>2
    <3> QED
      BY <2>1, <3>1
  <2> QED
    BY <1>1, <1>2, <2>1, <2>2
<1> HIDE DEF heap
<1>9. t \in State /\ t.trie = st.trie /\ t.states = st.states /\ t.heap = heap
  BY <1>1, <1>3, <1>8 DEF State, heap
<1>10. Good(t) /\ Extends(st, t)
  <2>1. Len(t.heap) = L + n /\ L <= Len(t.heap)
    BY <1>1, <1>2, <1>8, <1>9
  <2>2. \A a \in S : st.states[a] \in 1 .. Len(t.heap)
    BY <1>1, <1>2, <2>1
  <2> QED
    BY <1>1, <1>8, <1>9, <2>1, <2>2 DEF Good, Extends, Wider
<1>11. IsCopy(s, st, t)
  <2> DEFINE states == [a \in S |-> L + at(a)]
  <2>1. \A a \in S : /\ states[a] = L + at(a) /\ states[a] \in Nat
                     /\ states[a] \in 1 .. L + n /\ states[a] > L
    <3>1. ASSUME NEW a \in S
          PROVE  /\ L + at(a) \in Nat /\ L + at(a) \in 1 .. L + n /\ L + at(a) > L
      <4>1. at(a) \in 1 .. n /\ n \in Nat /\ L \in Nat
        BY <1>1, <1>2, <1>5
      <4> HIDE DEF at, n, L
      <4> QED
        BY <4>1
    <3> QED
      BY <3>1
  <2>2. ASSUME NEW a \in S
        PROVE  t.heap[states[a]] = st.heap[st.states[a]]
    <3>1. at(a) \in 1 .. n /\ list[at(a)] = a
      BY <1>5
    <3>2. heap[L + at(a)] = copies[at(a)]
      BY <1>8, <3>1
    <3>3. copies[at(a)] = st.heap[st.states[list[at(a)]]]
      BY <1>7, <3>1
    <3> HIDE DEF at
    <3> QED
      BY <1>9, <3>1, <3>2, <3>3
  <2>3. DOMAIN states = S /\ states \in [S -> Nat]
    BY <2>1
  <2>4. s = [trie |-> st.trie, states |-> states]
    BY <1>4
  <2> HIDE DEF states
  <2>5. states \in Partial(Nat)
    BY <1>1, <2>3, PartialIntro
  <2>6. s \in Snapshots
    BY <1>1, <2>4, <2>5, StateParts DEF Snapshots
  <2>7. Len(t.heap) = L + n
    BY <1>8, <1>9
  <2>8. s.trie = st.trie /\ s.states = states
    BY <2>4
  <2>9. GoodSnapshot(s, t)
    BY <1>1, <2>1, <2>3, <2>6, <2>7, <2>8 DEF GoodSnapshot
  <2> QED
    BY <2>1, <2>2, <2>3, <2>8, <2>9 DEF IsCopy
<1> QED
  BY <1>9, <1>10, <1>11

\* What can be read from a state is a view.
LEMMA ViewType ==
  ASSUME NEW st, Good(st)
  PROVE  View(st) \in Views
<1> DEFINE S == DOMAIN st.states
           storage == [a \in S |-> st.heap[st.states[a]]]
<1>1. st.trie \in Partial(Stored) /\ S \in SUBSET Nat
  BY StateParts DEF Good
<1>2. storage \in [S -> Items]
  BY StateParts DEF Good
<1> HIDE DEF storage
<1>3. storage \in Partial(Items)
  BY <1>1, <1>2, PartialIntro
<1>4. View(st) = [trie |-> st.trie, storage |-> storage]
  BY DEF View, storage
<1> QED
  BY <1>1, <1>3, <1>4 DEF Views

\* Going back to a snapshot keeps every cell.
LEMMA RevertGood ==
  ASSUME NEW st, Good(st), NEW s, GoodSnapshot(s, st), NEW t, t = Revert(st, s)
  PROVE  /\ Good(t) /\ t.trie = s.trie /\ t.states = s.states /\ t.heap = st.heap
         /\ View(t) = [trie |-> s.trie,
                       storage |-> [a \in DOMAIN s.states |-> st.heap[s.states[a]]]]
<1>1. st \in State /\ s \in Snapshots
  BY DEF Good, GoodSnapshot
<1>2. s.trie \in Partial(Stored) /\ s.states \in Partial(Nat)
  BY <1>1 DEF Snapshots
<1>3. t \in State /\ t.trie = s.trie /\ t.states = s.states /\ t.heap = st.heap
  BY <1>1, <1>2 DEF Revert, State
<1>4. Good(t)
  BY <1>3 DEF Good, GoodSnapshot
<1> QED
  BY <1>3, <1>4 DEF View

-----------------------------------------------------------------------------
(* Paying for a step.                                                      *)

\* What is fetched is a number, past the end of the script as well.
LEMMA OpOfType ==
  ASSUME NEW f \in Closure
  PROVE  OpOf(f) \in Int
<1>1. f.pc \in Int /\ f.script \in Seq(Byte)
  BY DEF Closure
<1>2. CASE f.pc < 0
  BY <1>2, Opcodes DEF OpOf
<1>3. CASE ~(f.pc < 0)
  <2> DEFINE code == Gets(f.script, f.pc, 1)
  <2>1. CanGet(f.script, f.pc, 1)
    <3>1. Len(f.script) \in Nat
      BY <1>1, LenProperties
    <3> QED
      BY <1>1, <1>3, <3>1 DEF CanGet
  <2>2. code \in Seq(Byte) /\ (code = <<>> \/ Len(code) = 1)
    BY <1>1, <2>1, GetsType
  <2> HIDE DEF code
  <2>3. OpOf(f) = IF code = <<>> THEN Op.STOP ELSE code[1]
    BY <1>3 DEF OpOf, code
  <2>4. code # <<>> => code[1] \in Byte
    <3>1. CASE Len(code) = 1
      <4>1. 1 \in 1 .. Len(code)
        BY <3>1
      <4> QED
        BY <2>2, <4>1, ElementOfSeq
    <3> QED
      BY <2>2, <3>1
  <2>5. Byte \subseteq Int /\ Op.STOP \in Int
    BY Opcodes DEF Byte
  <2> QED
    BY <2>3, <2>4, <2>5
<1> QED
  BY <1>2, <1>3

\* What the next step costs, where the closure can look at its operands.
LEMMA StepGasType ==
  ASSUME NEW f \in Closure, Len(f.stack) >= Peeks(OpOf(f)), NEW stored
  PROVE  /\ StepGas(f, OpOf(f), stored) \in Int
         /\ f.stack = <<>> => StepGas(f, OpOf(f), stored) > 0
<1> DEFINE op == OpOf(f)
<1>1. f.stack \in Seq(Int) /\ Len(f.stack) \in Nat
  BY LenProperties DEF Closure
<1>2. f.stack = <<>> => Len(f.stack) = 0
  BY EmptySeq
<1> HIDE DEF op
<1>3. CASE op = Op.CREATE
  <2>1. Peeks(op) = 3
    BY <1>3 DEF Peeks
  <2>2. Top(f, 2) \in Int /\ Top(f, 3) \in Int
    BY <1>1, <2>1, TopType DEF op
  <2>3. StepGas(f, op, stored) = ((Top(f, 2) + Top(f, 3)) \div 32) * 100
    BY <1>3, Opcodes DEF StepGas, CalculateTxGas
  <2>4. Top(f, 2) + Top(f, 3) \in Int
    BY <2>2
  <2>5. (Top(f, 2) + Top(f, 3)) \div 32 \in Int
    BY <2>4
  <2> QED
    BY <1>1, <1>2, <2>1, <2>3, <2>5 DEF op
<1>4. CASE op = Op.SSTORE
  <2>1. Peeks(op) = 2
    BY <1>4, Opcodes DEF Peeks
  <2>2. StepGas(f, op, stored) \in {0, 100}
    BY <1>4, Opcodes DEF StepGas
  <2> QED
    BY <1>1, <1>2, <2>1, <2>2 DEF op
<1>5. CASE op \notin {Op.CREATE, Op.SSTORE}
  <2>1. StepGas(f, op, stored) \in {1, 20}
    BY <1>5 DEF StepGas
  <2> QED
    BY <2>1 DEF op
<1> QED
  BY <1>3, <1>4, <1>5 DEF op

\* c is f after paying for a step: what it does not have any more it has
\* used, it has only gone on if it could, and a closure that was given less
\* than nothing has not.
Pays(f, c) ==
    /\ Keeps(f, c)
    /\ c.stack = f.stack /\ c.mem = f.mem /\ c.pc = f.pc
    /\ c.gas + c.used = f.gas + f.used
    /\ f.gas >= 0 => c.gas >= 0
    /\ f.gas < 0 /\ f.stack = <<>> => ~c.ok /\ c.gas = f.gas /\ c.used = f.used
    /\ c.ok => /\ f.ok /\ c.gas >= 0 /\ OpOf(c) \in Known
               /\ Len(c.stack) >= Requires(OpOf(c))

\* The same place in the same script holds the same instruction.
LEMMA OpOfSame ==
  ASSUME NEW f, NEW c, c.pc = f.pc, c.script = f.script
  PROVE  OpOf(c) = OpOf(f)
BY DEF OpOf

\* What a closure is charged for a step it had, and it goes on only with
\* what the step needs.
LEMMA ChargedPays ==
  ASSUME NEW f \in Closure, Good(state)
  PROVE  Pays(f, Charged(f))
<1> DEFINE op == OpOf(f)
           stored == IF op = Op.SSTORE THEN GetMem(state, f.object, f.stack[2]) ELSE 0
           gas == StepGas(f, op, stored)
           paid == UseGas(f, gas)
<1>1. f.gas \in Int /\ f.used \in Int /\ f.ok \in BOOLEAN
  BY DEF Closure
<1>2. /\ KeepsGas(f, Panic(f)) /\ ~Panic(f).ok
      /\ Panic(f).stack = f.stack /\ Panic(f).mem = f.mem /\ Panic(f).pc = f.pc
  BY PanicKeeps
<1>3. Charged(f) = IF ~f.ok \/ f.pc < 0 \/ Len(f.stack) < Peeks(op) THEN Panic(f)
                   ELSE IF ~HasGas(f, gas) THEN Panic(f)
                   ELSE IF op \notin Known \/ Len(f.stack) < Requires(op) THEN Panic(paid)
                   ELSE paid
  BY DEF Charged
<1>4. Pays(f, Panic(f))
  BY <1>1, <1>2 DEF Pays, KeepsGas
<1>5. CASE ~f.ok \/ f.pc < 0 \/ Len(f.stack) < Peeks(op)
  BY <1>3, <1>4, <1>5
<1>6. CASE ~(~f.ok \/ f.pc < 0 \/ Len(f.stack) < Peeks(op))
  <2>1. Len(f.stack) \in Nat /\ Peeks(op) \in Nat
    BY LenProperties DEF Closure, Peeks
  <2>2. Len(f.stack) >= Peeks(op)
    BY <1>6, <2>1
  <2>3. gas \in Int /\ (f.stack = <<>> => gas > 0)
    BY <2>2, StepGasType
  <2> HIDE DEF gas
  <2>4. CASE ~HasGas(f, gas)
    BY <1>3, <1>4, <1>6, <2>4
  <2>5. CASE HasGas(f, gas)
    <3>1. f.gas >= gas
      BY <2>5 DEF HasGas
    <3>2. /\ Keeps(f, paid) /\ paid.gas = f.gas - gas /\ paid.used = f.used + gas
          /\ paid.stack = f.stack /\ paid.mem = f.mem /\ paid.pc = f.pc /\ paid.ok = f.ok
      BY <2>3, UseGasKeeps
    <3> HIDE DEF paid
    <3>3. /\ paid.gas + paid.used = f.gas + f.used /\ paid.gas >= 0
          /\ ~(f.gas < 0 /\ f.stack = <<>>)
      BY <1>1, <2>3, <3>1, <3>2
    <3>4. CASE op \notin Known \/ Len(f.stack) < Requires(op)
      <4>1. Charged(f) = Panic(paid)
        BY <1>3, <1>6, <2>5, <3>4
      <4>2. paid \in Closure
        BY <3>2 DEF Keeps
      <4>3. /\ KeepsGas(paid, Panic(paid)) /\ ~Panic(paid).ok
            /\ Panic(paid).stack = paid.stack /\ Panic(paid).mem = paid.mem
            /\ Panic(paid).pc = paid.pc
        BY <4>2, PanicKeeps
      <4>4. Keeps(f, Panic(paid))
        BY <3>2, <4>3 DEF KeepsGas, Keeps
      <4> QED
        BY <3>2, <3>3, <4>1, <4>3, <4>4 DEF Pays, KeepsGas
    <3>5. CASE op \in Known /\ ~(Len(f.stack) < Requires(op))
      <4>1. Charged(f) = paid
        BY <1>3, <1>6, <2>5, <3>5
      <4>2. OpOf(paid) = op
        BY <3>2, OpOfSame DEF Keeps
      <4>3. Len(paid.stack) >= Requires(op)
        <5>1. Requires(op) \in Nat
          BY DEF Requires
        <5> QED
          BY <2>1, <3>2, <3>5, <5>1
      <4> HIDE DEF op
      <4> QED
        BY <1>6, <3>2, <3>3, <3>5, <4>1, <4>2, <4>3 DEF Pays
    <3> QED
      BY <3>4, <3>5
  <2> QED
    BY <2>4, <2>5
<1> QED
  BY <1>5, <1>6

-----------------------------------------------------------------------------
(* The type invariant.                                                     *)

\* What the frame in place i runs for, and who gets its gas back.
Shape(fr, i) ==
    /\ fr[i].callee \in 0 .. i - 1
    /\ \/ i = 1 /\ fr[i].kind = "tx" /\ fr[i].callee = 0 /\ fr[i].resume \in TxResume
       \/ i > 1 /\ fr[i].kind = "call" /\ fr[i].callee = i - 1 /\ fr[i].resume \in CallResume
       \/ /\ i > 1 /\ fr[i].kind = "create" /\ fr[i].callee = fr[i - 1].callee
          /\ fr[i].resume \in CreateResume
          /\ \E a, n \in Nat : fr[i].resume.contract.addr = CreateAddress(a, n)

\* The storage a frame works on, and what it will go back to, are there.
Housed(f, st) ==
    /\ f.object.store \in 1 .. Len(st.heap)
    /\ f.kind # "tx" => GoodSnapshot(f.resume.snapshot, st)
    /\ f.kind = "create" => f.resume.contract.store \in 1 .. Len(st.heap)

StackInv ==
    /\ frames \in Seq(Closure)
    /\ \A i \in 1 .. Len(frames) : Shape(frames, i) /\ Housed(frames[i], state)

ReceiptType == [tx : Transaction, used : Int]

LedgerInv ==
    /\ phase \in {"apply", "run", "crashed", "done"}
    /\ (phase = "run") <=> (frames # <<>>)
    /\ txs \in Seq(Transaction)
    /\ \A i \in 1 .. Len(txs) : txs[i].from \in Senders
    /\ phase = "run" => txs # <<>>
    /\ account \in Object
    /\ txGas \in Int
    /\ receipts \in Seq(ReceiptType)
    /\ processed \in Seq(Nat \X Nat)
    /\ burnt \in Int /\ returned \in Nat

AccountInv == account.store \in 0 .. Len(state.heap)

TypeInv == Good(state) /\ StackInv /\ LedgerInv /\ AccountInv

\* A stack whose frames are only paid and resumed keeps its shape.
LEMMA ShapeKept ==
  ASSUME NEW fr, NEW gr, NEW i \in Nat, Shape(fr, i), Keeps(fr[i], gr[i]),
         i > 1 => Keeps(fr[i - 1], gr[i - 1])
  PROVE  Shape(gr, i)
BY DEF Shape, Keeps

\* A snapshot stays one while the heap grows.
LEMMA SnapshotKept ==
  ASSUME NEW st, NEW t, Good(st), Good(t), Wider(st, t), NEW s, GoodSnapshot(s, st)
  PROVE  GoodSnapshot(s, t)
<1>1. Len(st.heap) \in Nat /\ Len(t.heap) \in Nat
  BY StateParts DEF Good
<1>2. \A k \in 1 .. Len(st.heap) : k \in 1 .. Len(t.heap)
  BY <1>1 DEF Wider
<1> QED
  BY <1>2 DEF GoodSnapshot

\* What a frame needs stays there while the heap grows.
LEMMA HousedKept ==
  ASSUME NEW st, NEW t, Good(st), Good(t), Wider(st, t), NEW f, NEW g, Keeps(f, g),
         Housed(f, st)
  PROVE  Housed(g, t)
<1>1. Len(st.heap) \in Nat /\ Len(t.heap) \in Nat
  BY StateParts DEF Good
<1>2. \A k \in 1 .. Len(st.heap) : k \in 1 .. Len(t.heap)
  BY <1>1 DEF Wider
<1>3. g.object = f.object /\ g.kind = f.kind /\ g.resume = f.resume
  BY DEF Keeps
<1>4. f.kind # "tx" => GoodSnapshot(f.resume.snapshot, t)
  BY SnapshotKept DEF Housed
<1> QED
  BY <1>2, <1>3, <1>4 DEF Housed

\* A list with another last element.
LEMMA ReplaceTop ==
  ASSUME NEW S, NEW fr \in Seq(S), NEW n, n = Len(fr), n # 0, NEW g \in S, NEW gr,
         gr = [fr EXCEPT ![n] = g]
  PROVE  /\ n \in Nat /\ n >= 1 /\ gr \in Seq(S) /\ Len(gr) = n /\ gr # <<>>
         /\ gr[n] = g /\ \A i \in 1 .. n : i # n => gr[i] = fr[i]
<1>1. n \in Nat /\ n >= 1 /\ DOMAIN fr = 1 .. n /\ fr \in [1 .. n -> S]
  BY LenProperties
<1>2. gr \in [1 .. n -> S] /\ gr[n] = g /\ \A i \in 1 .. n : i # n => gr[i] = fr[i]
  BY <1>1
<1>3. gr \in Seq(S) /\ Len(gr) = n
  BY <1>1, <1>2, FunctionIsSeq
<1>4. gr # <<>>
  BY <1>1, <1>3, EmptySeq
<1> QED
  BY <1>1, <1>2, <1>3, <1>4

\* Two changes that keep a frame's identity are one.
LEMMA KeepsTrans ==
  ASSUME NEW f, NEW g, NEW h, Keeps(f, g), Keeps(g, h)
  PROVE  Keeps(f, h)
BY DEF Keeps

\* No change keeps a frame's identity.
LEMMA KeepsSelf ==
  ASSUME NEW f \in Closure
  PROVE  Keeps(f, f)
BY DEF Keeps

\* The innermost frame of a running transaction.
LEMMA TopFrame ==
  ASSUME StackInv, frames # <<>>
  PROVE  /\ Inner \in Nat /\ Inner >= 1 /\ Inner = Len(frames) /\ Inner # 0
         /\ Frame \in Closure /\ Frame = frames[Inner]
         /\ Shape(frames, Inner) /\ Housed(Frame, state)
         /\ \A i \in 1 .. Inner : frames[i] \in Closure
         /\ 1 \in 1 .. Inner /\ Inner \in 1 .. Inner
<1>1. Inner \in Nat /\ Inner >= 1 /\ Inner = Len(frames) /\ Inner # 0
  BY EmptySeq, LenProperties DEF StackInv, Inner
<1>2. \A i \in 1 .. Inner : frames[i] \in Closure
  BY <1>1, ElementOfSeq DEF StackInv
<1>3. 1 \in 1 .. Inner /\ Inner \in 1 .. Inner
  BY <1>1
<1> QED
  BY <1>1, <1>2, <1>3 DEF StackInv, Frame

\* The transaction that runs.
LEMMA RunningTransaction ==
  ASSUME StackInv, frames # <<>>
  PROVE  frames[1].resume.tx \in Transaction /\ frames[1].kind = "tx"
<1>1. Shape(frames, 1)
  BY TopFrame DEF StackInv
<1>2. frames[1].resume \in TxResume /\ frames[1].kind = "tx"
  BY <1>1 DEF Shape
<1> QED
  BY <1>2 DEF TxResume

\* The variables of the block are not those of the transaction.
LEMMA BlockVariables ==
  ASSUME NEW op \in Op.PREVHASH .. Op.DIFFICULTY
  PROVE  op # Op.ORIGIN /\ op # Op.CALLVALUE /\ op # Op.GASPRICE
BY DEF Op

\* The environment of a running transaction is all numbers.
LEMMA EnvType ==
  ASSUME TypeInv, frames # <<>>
  PROVE  Env \in [BlockOps -> Int]
<1>1. /\ frames[1].resume.tx.value \in Int /\ frames[1].resume.tx.price \in Int
      /\ account.addr \in Int
  <2> DEFINE tx == frames[1].resume.tx
  <2>1. tx \in Transaction /\ account \in Object
    BY RunningTransaction DEF TypeInv, LedgerInv
  <2> HIDE DEF tx
  <2>2. tx.value \in Int /\ tx.price \in Int /\ account.addr \in Int
    BY <2>1 DEF Transaction, Object
  <2> QED
    BY <2>2 DEF tx
<1>2. ASSUME NEW op \in BlockOps
      PROVE  (CASE op = Op.ORIGIN -> account.addr
                [] op = Op.CALLVALUE -> frames[1].resume.tx.value
                [] op = Op.GASPRICE -> frames[1].resume.tx.price
                [] OTHER -> BlockVars[op]) \in Int
  <2>1. CASE op = Op.ORIGIN
    BY <1>1, <2>1, Opcodes
  <2>2. CASE op = Op.CALLVALUE
    BY <1>1, <2>2, Opcodes
  <2>3. CASE op = Op.GASPRICE
    BY <1>1, <2>3, Opcodes
  <2>4. CASE op \in Op.PREVHASH .. Op.DIFFICULTY
    <3>1. op # Op.ORIGIN /\ op # Op.CALLVALUE /\ op # Op.GASPRICE
      BY <2>4, BlockVariables
    <3>2. BlockVars[op] \in Int
      BY <2>4, BlockAssumption
    <3> QED
      BY <3>1, <3>2
  <2> QED
    BY <2>1, <2>2, <2>3, <2>4 DEF BlockOps
<1> QED
  BY <1>2 DEF Env

-----------------------------------------------------------------------------
(* The steps of a closure, by what they do to the call stack.              *)

\* The innermost closure goes on, with the gas it has paid for the step.
Stays(c) ==
    /\ c.ok
    /\ \E g : KeepsGas(c, g) /\ frames' = [frames EXCEPT ![Inner] = g]
    /\ \/ state' = state
       \/ \E loc, val \in Int : state' = SetStorage(state, c.object, loc, val)
    /\ UNCHANGED <<ledger, account, returned>>

\* A local instruction changes nothing but its own closure.
LEMMA LocalStepStays ==
  ASSUME TypeInv, frames # <<>>, HashesAreNumbers, NEW c, Pays(Frame, c), LocalStep(c)
  PROVE  Stays(c)
<1>1. c.ok /\ OpOf(c) \in LocalOps /\ c \in Closure /\ Len(c.stack) >= Requires(OpOf(c))
  BY DEF LocalStep, Pays, Keeps
<1>2. KeepsGas(c, Local(c, OpOf(c), Env))
  BY <1>1, EnvType, LocalKeeps
<1>3. frames' = [frames EXCEPT ![Inner] = Local(c, OpOf(c), Env)]
  BY DEF LocalStep, Continue
<1> QED
  BY <1>1, <1>2, <1>3 DEF Stays, LocalStep

\* SLOAD and SSTORE change nothing but their own closure and its own
\* storage.
LEMMA StorageStepStays ==
  ASSUME TypeInv, frames # <<>>, NEW c, Pays(Frame, c), StorageStep(c)
  PROVE  Stays(c)
<1>1. /\ c.ok /\ c \in Closure /\ Len(c.stack) >= Requires(OpOf(c))
      /\ Len(c.stack) \in Nat
  BY LenProperties DEF StorageStep, Pays, Keeps, Closure
<1>2. c.object.store \in 1 .. Len(state.heap) /\ Good(state)
  BY TopFrame DEF Pays, Keeps, Housed, TypeInv
<1>3. CASE OpOf(c) = Op.SLOAD
  <2> DEFINE v == GetMem(state, c.object, Top(c, 1))
             g == Next1(Push(Drop(c, 1), v))
  <2>1. v \in Int
    BY <1>2, GetMemType DEF Good
  <2> HIDE DEF v
  <2>2. KeepsGas(c, g)
    BY <1>1, <2>1, ResultKeeps
  <2> HIDE DEF g
  <2>3. frames' = [frames EXCEPT ![Inner] = g] /\ state' = state
    BY <1>3, Opcodes DEF StorageStep, Continue, g, v
  <2> QED
    BY <1>1, <2>2, <2>3 DEF Stays, StorageStep
<1>4. CASE OpOf(c) = Op.SSTORE
  <2> DEFINE g == Next1(Drop(c, 2))
  <2>1. Requires(OpOf(c)) = 2
    BY <1>4, Opcodes DEF Requires
  <2>2. Top(c, 1) \in Int /\ Top(c, 2) \in Int
    BY <1>1, <2>1, TopType
  <2>3. KeepsGas(c, g)
    BY <1>1, DropNextKeeps
  <2> HIDE DEF g
  <2>4. frames' = [frames EXCEPT ![Inner] = g]
        /\ state' = SetStorage(state, c.object, Top(c, 1), Top(c, 2))
    BY <1>4, Opcodes DEF StorageStep, Continue, g
  <2> QED
    BY <1>1, <2>2, <2>3, <2>4 DEF Stays, StorageStep
<1> QED
  BY <1>3, <1>4 DEF StorageStep

\* The innermost closure pays for another one that it starts, which has a
\* copy of the state to go back to.
Enters(c) ==
    /\ c.ok
    /\ \E g, e \in Closure, t \in State :
          /\ frames' = Append([frames EXCEPT ![Inner] = g], e)
          /\ Keeps(c, g) /\ g.gas >= 0 /\ g.gas + e.gas = c.gas
          /\ g.gas + g.used = c.gas + c.used
          /\ e.used = 0 /\ e.limit = e.gas /\ e.stack = <<>>
          /\ IsCopy(e.resume.snapshot, state, t) /\ e.resume.before = View(state)
          /\ Extends(state, t) /\ Extends(t, state') /\ Good(t) /\ Good(state')
          /\ state'.trie = state.trie /\ state'.states = state.states
          /\ \/ /\ e.kind = "call" /\ e.callee = Inner /\ e.resume \in CallResume
                /\ Exists(state, e.object.addr)
                /\ e.object.nonce = state.trie[e.object.addr].nonce
                /\ \/ \E a \in DOMAIN state.states : e.object.store = state.states[a]
                   \/ e.object.store = Len(t.heap) + 1 /\ Len(state'.heap) = Len(t.heap) + 1
             \/ /\ e.kind = "create" /\ e.callee = c.callee /\ e.resume \in CreateResume
                /\ e.gas >= 0 /\ e.object = c.object
                /\ e.resume.contract.store = Len(t.heap) + 1
                /\ Len(state'.heap) = Len(t.heap) + 1
                /\ \E a, n \in Nat : e.resume.contract.addr = CreateAddress(a, n)
    /\ UNCHANGED <<ledger, account, returned>>

\* AddAmount changes nothing but the amount.
LEMMA AddAmountKeeps ==
  ASSUME NEW o \in Object, NEW n \in Int
  PROVE  /\ AddAmount(o, n) \in Object
         /\ AddAmount(o, n).addr = o.addr /\ AddAmount(o, n).nonce = o.nonce
         /\ AddAmount(o, n).store = o.store
<1>1. o.amount + n \in Int
  BY DEF Object
<1> QED
  BY <1>1 DEF AddAmount, Object

\* Leaving without a call keeps the gas.
LEMMA PushesNothing ==
  ASSUME NEW c \in Closure, NEW n \in Nat
  PROVE  KeepsGas(c, Next1(Drop(c, n))) /\ KeepsGas(c, Push(Next1(Drop(c, n)), 0))
<1> DEFINE d == Next1(Drop(c, n))
<1>1. KeepsGas(c, d) /\ d \in Closure
  BY DropNextKeeps DEF KeepsGas, Keeps
<1> HIDE DEF d
<1>2. 0 \in Int
  OBVIOUS
<1>3. KeepsGas(d, Push(d, 0))
  BY <1>1, <1>2, PushKeeps
<1> QED
  BY <1>1, <1>3, KeepsGasTrans DEF d

\* A closure that panics, or is answered at once, stays where it is.
LEMMA PanicStays ==
  ASSUME TypeInv, frames # <<>>, NEW c, Pays(Frame, c), c.ok, NEW g, KeepsGas(c, g),
         Continue(g), UNCHANGED state, UNCHANGED <<ledger, account, returned>>
  PROVE  Stays(c)
BY DEF Stays, Continue

\* How many operands the instructions need that leave their closure.
LEMMA Arities ==
  /\ Requires(Op.CALL) = 7 /\ Requires(Op.CREATE) = 3
  /\ Requires(Op.SUICIDE) = 1 /\ Requires(Op.RETURN) = 2
BY Opcodes DEF Requires

\* CALL panics, is answered at once, or starts a closure with the gas it
\* takes from its own and a snapshot to go back to.
LEMMA CallStep ==
  ASSUME TypeInv, frames # <<>>, NEW c, Pays(Frame, c), Call(c)
  PROVE  Stays(c) \/ Enters(c)
<1> DEFINE d == Next1(Drop(c, 7))
           addr == Abs(Top(c, 1))
           gas == IF Top(c, 3) = 0 THEN c.gas ELSE Top(c, 3)
           st == Copied(state)
           found == GetStateObject(st, addr)
           contract == AddAmount(found, Top(c, 2))
           resume == [snapshot |-> Snapshot(state), before |-> View(state),
                      offset |-> Top(c, 6), size |-> Top(c, 7)]
           args == MemGet(c.mem, Top(c, 4), Top(c, 5))
           e == NewClosure("call", Inner, c.object.addr, contract, contract.code, args, gas,
                           resume)
           g == UseGas(d, gas)
<1>1. /\ c.ok /\ c \in Closure /\ OpOf(c) = Op.CALL /\ Len(c.stack) >= Requires(OpOf(c))
      /\ Len(c.stack) \in Nat /\ c.gas \in Int /\ c.gas >= 0 /\ c.mem \in Seq(Byte)
      /\ c.object \in Object
  BY LenProperties DEF Call, Pays, Keeps, Closure
<1>2. Requires(OpOf(c)) = 7
  BY <1>1, Arities
<1>3. /\ Top(c, 1) \in Int /\ Top(c, 2) \in Int /\ Top(c, 3) \in Int /\ Top(c, 4) \in Int
      /\ Top(c, 5) \in Int /\ Top(c, 6) \in Int /\ Top(c, 7) \in Int
  BY <1>1, <1>2, TopType
<1>4. KeepsGas(c, d) /\ KeepsGas(c, Push(d, 0)) /\ KeepsGas(c, Panic(c)) /\ d \in Closure
  <2>1. KeepsGas(c, Panic(c)) /\ 7 \in Nat
    BY <1>1, PanicKeeps
  <2>2. KeepsGas(c, d) /\ KeepsGas(c, Push(d, 0))
    BY <1>1, <2>1, PushesNothing
  <2> QED
    BY <2>1, <2>2 DEF KeepsGas, Keeps
<1>5. Good(state) /\ Inner \in Nat /\ c.object.addr \in Nat
  BY <1>1, TopFrame DEF TypeInv, Object
<1>6. UNCHANGED <<ledger, account, returned>>
  BY DEF Call
<1>7. /\ c.gas < Top(c, 3) => Continue(Push(d, 0)) /\ UNCHANGED state
      /\ ~(c.gas < Top(c, 3)) /\ ~CanRead(c.mem, Top(c, 4), Top(c, 5))
            => Continue(Panic(c)) /\ UNCHANGED state
      /\ ~(c.gas < Top(c, 3)) /\ CanRead(c.mem, Top(c, 4), Top(c, 5)) /\ ~Exists(state, addr)
            => Continue(Push(d, 0)) /\ UNCHANGED state
      /\ ~(c.gas < Top(c, 3)) /\ CanRead(c.mem, Top(c, 4), Top(c, 5)) /\ Exists(state, addr)
            => /\ frames' = Append([frames EXCEPT ![Inner] = g], e)
               /\ state' = AfterGet(st, addr)
  BY Zenon DEF Call
<1> HIDE DEF d
<1>8. CASE c.gas < Top(c, 3)
  BY <1>1, <1>4, <1>6, <1>7, <1>8, PanicStays
<1>9. CASE ~(c.gas < Top(c, 3)) /\ ~CanRead(c.mem, Top(c, 4), Top(c, 5))
  BY <1>1, <1>4, <1>6, <1>7, <1>9, PanicStays
<1>10. CASE /\ ~(c.gas < Top(c, 3)) /\ CanRead(c.mem, Top(c, 4), Top(c, 5))
            /\ ~Exists(state, addr)
  BY <1>1, <1>4, <1>6, <1>7, <1>10, PanicStays
<1>11. CASE /\ ~(c.gas < Top(c, 3)) /\ CanRead(c.mem, Top(c, 4), Top(c, 5))
            /\ Exists(state, addr)
  <2>1. gas \in Int /\ c.gas - gas >= 0
    BY <1>1, <1>3, <1>11
  <2>2. addr \in Nat
    BY <1>3, AbsType
  <2>3. /\ Good(st) /\ st.trie = state.trie /\ st.states = state.states /\ Extends(state, st)
        /\ IsCopy(Snapshot(state), state, st)
    BY <1>5, SnapshotCopies
  <2> HIDE DEF addr, gas, st
  <2>4. Exists(st, addr)
    BY <1>11, <2>3 DEF Exists
  <2>5. /\ found \in Object /\ found.addr = addr /\ found.nonce = st.trie[addr].nonce
        /\ IF addr \in DOMAIN st.states THEN found.store = st.states[addr]
           ELSE found.store = Len(st.heap) + 1
    BY <2>3, <2>4, GetStateObjectType
  <2> HIDE DEF found
  <2>6. /\ contract \in Object /\ contract.addr = addr /\ contract.nonce = found.nonce
        /\ contract.store = found.store
    <3>1. found \in Object /\ found.addr = addr
      BY <2>5
    <3> QED
      BY <1>3, <3>1, AddAmountKeeps
  <2> HIDE DEF contract
  <2>7. contract.code \in Seq(Byte)
    BY <2>6 DEF Object
  <2>8. args \in Seq(Byte)
    BY <1>1, <1>3, <1>11, MemGetType
  <2>9. Snapshot(state) \in Snapshots /\ View(state) \in Views
    BY <1>5, <2>3, ViewType DEF IsCopy, GoodSnapshot
  <2>10. resume \in CallResume /\ resume.snapshot = Snapshot(state) /\ resume.before = View(state)
    BY <1>3, <2>9 DEF CallResume
  <2> HIDE DEF resume, args
  <2>11. /\ e \in Closure /\ e.kind = "call" /\ e.callee = Inner /\ e.object = contract
         /\ e.gas = gas /\ e.used = 0 /\ e.limit = gas /\ e.stack = <<>> /\ e.resume = resume
    BY <1>5, <2>1, <2>6, <2>7, <2>8, <2>10, NewClosureType
  <2>12. /\ Keeps(d, g) /\ g.gas = d.gas - gas /\ g.used = d.used + gas
    BY <1>4, <2>1, UseGasKeeps
  <2> HIDE DEF e, g
  <2>13. Keeps(c, g) /\ g \in Closure
    BY <1>4, <2>12, KeepsTrans DEF KeepsGas, Keeps
  <2>14. g.gas >= 0 /\ g.gas + e.gas = c.gas /\ g.gas + g.used = c.gas + c.used
    <3>1. d.gas = c.gas /\ d.used = c.used /\ c.used \in Int
      BY <1>1, <1>4 DEF KeepsGas, Closure
    <3> QED
      BY <1>1, <2>1, <2>11, <2>12, <3>1
  <2>15. /\ Good(state') /\ state'.trie = st.trie /\ state'.states = st.states
         /\ Extends(st, state') /\ Len(state'.heap) = Len(st.heap) + 1
    BY <1>7, <1>11, <2>3, <2>4, AfterGetGood
  <2>16. frames' = Append([frames EXCEPT ![Inner] = g], e)
    BY <1>7, <1>11
  <2>17. /\ Exists(state, e.object.addr)
         /\ e.object.nonce = state.trie[e.object.addr].nonce
         /\ \/ \E a \in DOMAIN state.states : e.object.store = state.states[a]
            \/ e.object.store = Len(st.heap) + 1 /\ Len(state'.heap) = Len(st.heap) + 1
    BY <1>11, <2>3, <2>5, <2>6, <2>11, <2>15
  <2>18. /\ IsCopy(e.resume.snapshot, state, st) /\ e.resume.before = View(state)
         /\ Extends(state, st) /\ Extends(st, state') /\ Good(st) /\ Good(state')
         /\ state'.trie = state.trie /\ state'.states = state.states
         /\ e.kind = "call" /\ e.callee = Inner /\ e.resume \in CallResume
         /\ e.used = 0 /\ e.limit = e.gas /\ e.stack = <<>>
    BY <2>3, <2>10, <2>11, <2>15
  <2>19. st \in State
    BY <2>3 DEF Good
  <2>20. Enters(c)
    BY <1>1, <1>6, <2>11, <2>13, <2>14, <2>16, <2>17, <2>18, <2>19 DEF Enters
  <2> QED
    BY <2>20
<1> QED
  BY <1>8, <1>9, <1>10, <1>11

\* A new contract is an object whose storage comes behind all others.
LEMMA NewContractType ==
  ASSUME NEW st, Good(st), NEW a \in Nat, NEW n \in Int, NEW o, o = NewContract(st, a, n)
  PROVE  o \in Object /\ o.addr = a /\ o.nonce = 0 /\ o.store = Len(st.heap) + 1
<1>1. Len(st.heap) + 1 \in Nat /\ <<>> \in Seq(Byte) /\ 0 \in Nat
  BY StateParts, EmptySeq DEF Good
<1> QED
  BY <1>1 DEF NewContract, Object

\* CREATE panics, or starts a closure with all of its gas and a snapshot to
\* go back to.
LEMMA CreateStep ==
  ASSUME TypeInv, frames # <<>>, AddressesAreNumbers, NEW c, Pays(Frame, c), Create(c)
  PROVE  Stays(c) \/ Enters(c)
<1> DEFINE d == Next1(Drop(c, 3))
           nonce == IF c.callee = 0 THEN account.nonce ELSE frames[c.callee].object.nonce
           st == Copied(state)
           contract == NewContract(st, CreateAddress(c.caller, nonce), Top(c, 1))
           script == MemGet(c.mem, Top(c, 2), Top(c, 3))
           resume == [snapshot |-> Snapshot(state), before |-> View(state),
                      contract |-> contract]
           e == NewClosure("create", c.callee, c.caller, c.object, script, <<>>, c.gas, resume)
           g == UseGas(d, c.gas)
<1>1. /\ c.ok /\ c \in Closure /\ OpOf(c) = Op.CREATE /\ Len(c.stack) >= Requires(OpOf(c))
      /\ Len(c.stack) \in Nat /\ c.gas \in Int /\ c.gas >= 0 /\ c.mem \in Seq(Byte)
      /\ c.object \in Object /\ c.callee \in Nat /\ c.caller \in Nat
  BY LenProperties DEF Create, Pays, Keeps, Closure
<1>2. Requires(OpOf(c)) = 3
  BY <1>1, Arities
<1>3. Top(c, 1) \in Int /\ Top(c, 2) \in Int /\ Top(c, 3) \in Int
  BY <1>1, <1>2, TopType
<1>4. KeepsGas(c, d) /\ KeepsGas(c, Panic(c)) /\ d \in Closure
  <2>1. KeepsGas(c, Panic(c)) /\ 3 \in Nat
    BY <1>1, PanicKeeps
  <2>2. KeepsGas(c, d)
    BY <1>1, <2>1, PushesNothing
  <2> QED
    BY <2>1, <2>2 DEF KeepsGas, Keeps
<1>5. Good(state) /\ Inner \in Nat
  BY TopFrame DEF TypeInv
<1>6. UNCHANGED <<ledger, account, returned>>
  BY DEF Create
<1>7. /\ ~CanRead(c.mem, Top(c, 2), Top(c, 3)) => Continue(Panic(c)) /\ UNCHANGED state
      /\ CanRead(c.mem, Top(c, 2), Top(c, 3))
            => /\ frames' = Append([frames EXCEPT ![Inner] = g], e)
               /\ state' = WithStore(st, NoItems)
  BY Zenon DEF Create
<1> HIDE DEF d
<1>8. CASE ~CanRead(c.mem, Top(c, 2), Top(c, 3))
  BY <1>1, <1>4, <1>6, <1>7, <1>8, PanicStays
<1>9. CASE CanRead(c.mem, Top(c, 2), Top(c, 3))
  <2>1. nonce \in Nat
    <3>1. CASE c.callee = 0
      <4>1. account \in Object
        BY DEF TypeInv, LedgerInv
      <4> QED
        BY <3>1, <4>1 DEF Object
    <3>2. CASE c.callee # 0
      <4>1. c.callee \in 0 .. Inner - 1
        BY TopFrame DEF TypeInv, Pays, Keeps, Shape
      <4>2. c.callee \in 1 .. Inner
        BY <1>5, <3>2, <4>1
      <4>3. frames[c.callee] \in Closure
        BY <4>2, TopFrame DEF TypeInv
      <4> QED
        BY <3>2, <4>3 DEF Closure, Object
    <3> QED
      BY <3>1, <3>2
  <2>2. CreateAddress(c.caller, nonce) \in Nat
    BY <1>1, <2>1 DEF AddressesAreNumbers
  <2>3. /\ Good(st) /\ st.trie = state.trie /\ st.states = state.states /\ Extends(state, st)
        /\ IsCopy(Snapshot(state), state, st)
    BY <1>5, SnapshotCopies
  <2> HIDE DEF st, nonce
  <2>4. /\ contract \in Object /\ contract.addr = CreateAddress(c.caller, nonce)
        /\ contract.store = Len(st.heap) + 1
    BY <1>3, <2>2, <2>3, NewContractType
  <2> HIDE DEF contract
  <2>5. script \in Seq(Byte) /\ <<>> \in Seq(Byte)
    BY <1>1, <1>3, <1>9, MemGetType, EmptySeq
  <2>6. Snapshot(state) \in Snapshots /\ View(state) \in Views
    BY <1>5, <2>3, ViewType DEF IsCopy, GoodSnapshot
  <2>7. /\ resume \in CreateResume /\ resume.snapshot = Snapshot(state)
        /\ resume.before = View(state) /\ resume.contract = contract
    BY <2>4, <2>6 DEF CreateResume
  <2> HIDE DEF resume, script
  <2>8. /\ e \in Closure /\ e.kind = "create" /\ e.callee = c.callee /\ e.object = c.object
        /\ e.gas = c.gas /\ e.used = 0 /\ e.limit = c.gas /\ e.stack = <<>>
        /\ e.resume = resume
    <3>1. resume \in TxResume \cup CallResume \cup CreateResume
      BY <2>7
    <3>2. /\ c.callee \in Nat /\ c.caller \in Nat /\ c.object \in Object /\ c.gas \in Int
          /\ "create" \in {"tx", "call", "create"}
      BY <1>1
    <3> DEFINE none == <<>>
    <3>3. none \in Seq(Byte)
      BY <2>5
    <3> HIDE DEF none
    <3>4. e = NewClosure("create", c.callee, c.caller, c.object, script, none, c.gas, resume)
      BY DEF none
    <3> HIDE DEF e
    <3>5. /\ e \in Closure /\ e.kind = "create" /\ e.callee = c.callee /\ e.caller = c.caller
          /\ e.object = c.object /\ e.gas = c.gas /\ e.used = 0 /\ e.limit = c.gas
          /\ e.stack = <<>> /\ e.resume = resume
      BY <2>5, <3>1, <3>2, <3>3, <3>4, NewClosureType
    <3> QED
      BY <3>5
  <2>9. Keeps(d, g) /\ g.gas = d.gas - c.gas /\ g.used = d.used + c.gas
    BY <1>1, <1>4, UseGasKeeps
  <2> HIDE DEF e, g
  <2>10. Keeps(c, g) /\ g \in Closure
    BY <1>4, <2>9, KeepsTrans DEF KeepsGas, Keeps
  <2>11. g.gas >= 0 /\ g.gas + e.gas = c.gas /\ g.gas + g.used = c.gas + c.used
    <3>1. d.gas = c.gas /\ d.used = c.used /\ c.used \in Int
      BY <1>1, <1>4 DEF KeepsGas, Closure
    <3> QED
      BY <1>1, <2>8, <2>9, <3>1
  <2>12. /\ Good(state') /\ state'.trie = st.trie /\ state'.states = st.states
         /\ Extends(st, state') /\ Len(state'.heap) = Len(st.heap) + 1
    BY <1>7, <1>9, <2>3, NoItemsType, WithStoreGood
  <2>13. frames' = Append([frames EXCEPT ![Inner] = g], e)
    BY <1>7, <1>9
  <2>14. /\ IsCopy(e.resume.snapshot, state, st) /\ e.resume.before = View(state)
         /\ Extends(state, st) /\ Extends(st, state') /\ Good(st) /\ Good(state')
         /\ state'.trie = state.trie /\ state'.states = state.states
         /\ e.kind = "create" /\ e.callee = c.callee /\ e.resume \in CreateResume
         /\ e.used = 0 /\ e.limit = e.gas /\ e.stack = <<>> /\ e.gas >= 0
         /\ e.object = c.object /\ e.resume.contract.store = Len(st.heap) + 1
         /\ Len(state'.heap) = Len(st.heap) + 1
    BY <1>1, <2>3, <2>4, <2>7, <2>8, <2>12
  <2>15. \E a, n \in Nat : e.resume.contract.addr = CreateAddress(a, n)
    BY <1>1, <2>1, <2>4, <2>7, <2>8
  <2>16. st \in State
    BY <2>3 DEF Good
  <2>17. Enters(c)
    BY <1>1, <1>6, <2>8, <2>10, <2>11, <2>13, <2>14, <2>15, <2>16 DEF Enters
  <2> QED
    BY <2>17
<1> QED
  BY <1>8, <1>9

-----------------------------------------------------------------------------
(* The end of a closure.                                                   *)

\* t is st after some accounts were paid: they may be new, and so may their
\* storage be, but nobody's nonce has changed.
Credits(st, t) ==
    /\ Good(t) /\ Extends(st, t)
    /\ DOMAIN st.trie \subseteq DOMAIN t.trie
    /\ \A a \in DOMAIN t.trie :
          t.trie[a].nonce = IF a \in DOMAIN st.trie THEN st.trie[a].nonce ELSE 0
    /\ \A a \in DOMAIN t.states : \/ a \in DOMAIN st.states /\ t.states[a] = st.states[a]
                                  \/ t.states[a] > Len(st.heap)

\* Doing nothing credits nobody.
LEMMA CreditsSelf ==
  ASSUME NEW st, Good(st)
  PROVE  Credits(st, st)
<1>1. Len(st.heap) \in Nat
  BY StateParts DEF Good
<1> QED
  BY <1>1 DEF Credits, Extends, Wider

\* A reward leaves every nonce and every storage alone.
LEMMA RewardCredits ==
  ASSUME NEW st, Good(st), NEW a \in Nat, NEW n \in Int
  PROVE  Credits(st, Reward(st, a, n))
<1> DEFINE u == AfterGet(st, a)
           o == GetAccount(st, a)
           p == AddAmount(o, n)
           t == UpdateStateObject(u, p)
<1>1. Len(st.heap) \in Nat
  BY StateParts DEF Good
<1>2. Good(u) /\ u.trie = st.trie /\ u.states = st.states /\ Extends(st, u)
  BY AfterGetGood
<1>3. /\ o \in Object /\ o.addr = a
      /\ o.nonce = IF Exists(st, a) THEN st.trie[a].nonce ELSE 0
      /\ o.store = IF Exists(st, a) THEN Len(st.heap) + 1 ELSE 0
      /\ o.store \in 0 .. Len(u.heap)
  BY GetAccountType
<1> HIDE DEF u, o
<1>4. p \in Object /\ p.addr = o.addr /\ p.nonce = o.nonce /\ p.store = o.store
  BY <1>3, AddAmountKeeps
<1> HIDE DEF p
<1>5. p.store \in 0 .. Len(u.heap) /\ t = UpdateStateObject(u, p)
  BY <1>3, <1>4
<1> HIDE DEF t
<1>6. /\ Good(t) /\ t.heap = u.heap
      /\ DOMAIN t.trie = DOMAIN u.trie \cup {p.addr}
      /\ \A b \in DOMAIN t.trie :
            t.trie[b].nonce = IF b = p.addr THEN p.nonce ELSE u.trie[b].nonce
      /\ \A b \in DOMAIN t.states :
            \/ b \in DOMAIN u.states /\ t.states[b] = u.states[b]
            \/ t.states[b] = p.store /\ p.store # 0
  BY <1>2, <1>4, <1>5, UpdateGood
<1>7. Extends(st, t)
  BY <1>2, <1>6 DEF Extends, Wider
<1>8. \A b \in DOMAIN t.trie :
         t.trie[b].nonce = IF b \in DOMAIN st.trie THEN st.trie[b].nonce ELSE 0
  BY <1>2, <1>3, <1>4, <1>6 DEF Exists
<1>9. p.store # 0 => p.store > Len(st.heap)
  BY <1>1, <1>3, <1>4
<1>10. Credits(st, t)
  BY <1>2, <1>6, <1>7, <1>8, <1>9 DEF Credits
<1> QED
  BY <1>10 DEF Reward, t, p, u, o

\* The state a closure leaves behind, before its own object is written back:
\* SUICIDE pays somebody.
Leaves(st) == st = state \/ \E a \in Nat, n \in Int : st = Reward(state, a, n)

\* What SUICIDE pays before it leaves changes no nonce and no storage.
LEMMA LeavesCredits ==
  ASSUME Good(state), NEW st, Leaves(st)
  PROVE  Credits(state, st)
BY CreditsSelf, RewardCredits DEF Leaves

\* What the end of the closure c gives the frame in place i.
Given(c, i) == IF i = c.callee THEN c.gas ELSE 0

\* The call stack without its innermost frame.
Pops(c) ==
    /\ frames' \in Seq(Closure) /\ Len(frames') = Inner - 1
    /\ \A i \in 1 .. Inner - 1 :
          /\ Keeps(frames[i], frames'[i])
          /\ frames'[i].gas = frames[i].gas + Given(c, i)
          /\ frames'[i].used = frames[i].used - Given(c, i)

\* The caller goes on: the closure has failed and is reverted, or the object
\* it worked on, or made, is written back.
Returns(c) ==
    /\ Inner > 1 /\ Pops(c)
    /\ account' = Paid(c) /\ returned' = returned + Refund(c)
    /\ UNCHANGED ledger
    /\ \/ state' = Revert(state, c.resume.snapshot)
       \/ /\ \E st : /\ Leaves(st)
                     /\ state' = UpdateStateObject(st, IF c.kind = "call" THEN c.object
                                                       ELSE c.resume.contract)
          /\ Last(frames'[Inner - 1].stack) # 0

\* The transaction is over.
Ends(c) ==
    /\ Inner = 1
    /\ frames' = <<>> /\ account' = Idle /\ txs' = Tail(txs) /\ phase' = "apply"
    /\ txGas' = 0 /\ processed' = processed /\ returned' = returned + Refund(c)
    /\ receipts' = Append(receipts, Receipt(c.resume.tx, txGas + c.used))
    /\ \E st, st1 :
          /\ Leaves(st)
          /\ st1 = UpdateStateObject(UpdateStateObject(st, Paid(c)), c.object)
          /\ \/ state' = st1
             \/ \E ret \in Seq(Byte) :
                   state' = UpdateStateObject(st1, [c.object EXCEPT !.code = ret])

\* What is pushed is on top.
LEMMA LastPushed ==
  ASSUME NEW f \in Closure, NEW n \in Int
  PROVE  Last(Push(f, n).stack) = n
<1>1. f.stack \in Seq(Int) /\ Push(f, n).stack = Append(f.stack, n)
  BY PushKeeps DEF Closure
<1>2. Len(Append(f.stack, n)) = Len(f.stack) + 1 /\ Append(f.stack, n)[Len(f.stack) + 1] = n
  BY <1>1, AppendProperties
<1> QED
  BY <1>1, <1>2 DEF Last

\* Resuming a CALL pushes 1, whatever the memory does.
LEMMA ResumeCallKeeps ==
  ASSUME NEW f, f.resume \in CallResume, NEW p \in Closure, NEW ret \in Seq(Byte)
  PROVE  KeepsGas(p, ResumeCall(f, p, ret)) /\ Last(ResumeCall(f, p, ret).stack) = 1
<1> DEFINE q == Push(p, 1)
           m == MemSet(q.mem, f.resume.offset, f.resume.size, ret)
<1>1. 1 \in Int
  OBVIOUS
<1>2. KeepsGas(p, q) /\ q \in Closure /\ Last(q.stack) = 1
  BY <1>1, PushKeeps, LastPushed DEF KeepsGas, Keeps
<1>3. ResumeCall(f, p, ret) = IF f.resume.offset < 0 \/ f.resume.size < 0 THEN Panic(q)
                              ELSE [q EXCEPT !.mem = m]
  BY DEF ResumeCall
<1>4. q.mem \in Seq(Byte) /\ f.resume.offset \in Int /\ f.resume.size \in Int
  BY <1>2 DEF Closure, CallResume
<1>5. m \in Seq(Byte)
  BY <1>4, MemSetType
<1> HIDE DEF q, m
<1>6. KeepsGas(q, Panic(q)) /\ Panic(q).stack = q.stack
  BY <1>2, PanicKeeps
<1>7. KeepsGas(q, [q EXCEPT !.mem = m]) /\ [q EXCEPT !.mem = m].stack = q.stack
  BY <1>2, <1>5, MemKeeps
<1> QED
  BY <1>2, <1>3, <1>6, <1>7, KeepsGasTrans

\* The frames below the innermost one get its gas.
LEMMA BelowGets ==
  ASSUME TypeInv, frames # <<>>, NEW c, Keeps(Frame, c), Inner > 1
  PROVE  /\ Below(c) \in Seq(Closure) /\ Len(Below(c)) = Inner - 1
         /\ \A i \in 1 .. Inner - 1 :
               /\ Keeps(frames[i], Below(c)[i])
               /\ Below(c)[i].gas = frames[i].gas + Given(c, i)
               /\ Below(c)[i].used = frames[i].used - Given(c, i)
<1>1. Inner \in Nat /\ \A i \in 1 .. Inner : frames[i] \in Closure
  BY TopFrame DEF TypeInv
<1>2. c.gas \in Int
  BY DEF Keeps, Closure
<1>3. ASSUME NEW i \in 1 .. Inner - 1
      PROVE  /\ Keeps(frames[i], Below(c)[i])
             /\ Below(c)[i].gas = frames[i].gas + Given(c, i)
             /\ Below(c)[i].used = frames[i].used - Given(c, i)
  <2>1. frames[i] \in Closure
    BY <1>1
  <2>2. frames[i].gas \in Int /\ frames[i].used \in Int
    BY <2>1 DEF Closure
  <2>3. CASE i = c.callee
    <3>1. Below(c)[i] = ReturnGas(frames[i], c.gas)
      BY <2>3 DEF Below
    <3> QED
      BY <1>2, <2>1, <2>3, <3>1, ReturnGasKeeps DEF Given
  <2>4. CASE i # c.callee
    <3>1. Below(c)[i] = frames[i]
      BY <2>4 DEF Below
    <3> QED
      BY <2>1, <2>2, <2>4, <3>1, KeepsSelf DEF Given
  <2> QED
    BY <2>3, <2>4
<1>4. Below(c) \in [1 .. Inner - 1 -> Closure]
  <2>1. DOMAIN Below(c) = 1 .. Inner - 1
        /\ Below(c) = [i \in 1 .. Inner - 1 |-> Below(c)[i]]
    BY DEF Below
  <2>2. \A i \in 1 .. Inner - 1 : Below(c)[i] \in Closure
    BY <1>3 DEF Keeps
  <2> QED
    BY <2>1, <2>2
<1>5. Inner - 1 \in Nat
  BY <1>1
<1>6. Below(c) \in Seq(Closure) /\ Len(Below(c)) = Inner - 1
  BY <1>4, <1>5, FunctionIsSeq
<1> QED
  BY <1>3, <1>6

\* The end of a closure under another one gives its gas to its callee or to
\* the account, and reverts the state or writes an object back.
LEMMA ResumeReturns ==
  ASSUME TypeInv, frames # <<>>, AddressesAreNumbers, NEW c, Keeps(Frame, c), Inner > 1,
         NEW ret \in Seq(Byte), NEW err \in BOOLEAN, NEW st, Leaves(st), err => st = state,
         Resume(c, ret, err, st), returned' = returned + Refund(c)
  PROVE  Returns(c)
<1> DEFINE below == Below(c)
           n == Inner - 1
           p == below[n]
           object == IF c.kind = "call" THEN c.object ELSE c.resume.contract
           g == IF err THEN Push(p, 0)
                ELSE IF c.kind = "call" THEN ResumeCall(c, p, ret)
                ELSE Push(p, object.addr)
<1>1. /\ state' = IF err THEN Revert(st, c.resume.snapshot) ELSE UpdateStateObject(st, object)
      /\ frames' = [below EXCEPT ![n] = g]
      /\ account' = Paid(c) /\ UNCHANGED ledger
  BY Zenon DEF Resume
<1>2. /\ below \in Seq(Closure) /\ Len(below) = n
      /\ \A i \in 1 .. n : /\ Keeps(frames[i], below[i])
                           /\ below[i].gas = frames[i].gas + Given(c, i)
                           /\ below[i].used = frames[i].used - Given(c, i)
  BY BelowGets
<1>3. n \in Nat /\ n # 0 /\ n \in 1 .. n
  BY TopFrame DEF TypeInv
<1> HIDE DEF below, n
<1>4. p \in Closure
  BY <1>2, <1>3, ElementOfSeq
<1>5. Shape(frames, Inner) /\ c.kind = Frame.kind /\ c.resume = Frame.resume /\ Frame = frames[Inner]
  BY TopFrame DEF TypeInv, Keeps
<1>6. \/ c.kind = "call" /\ c.resume \in CallResume
      \/ /\ c.kind = "create"
         /\ \E a, m \in Nat : c.resume.contract.addr = CreateAddress(a, m)
  BY <1>5 DEF Shape
<1>7. KeepsGas(p, g) /\ (~err => Last(g.stack) # 0)
  <2>1. CASE err
    <3>1. 0 \in Int /\ g = Push(p, 0)
      BY <2>1
    <3> QED
      BY <1>4, <2>1, <3>1, PushKeeps
  <2>2. CASE ~err /\ c.kind = "call"
    <3>1. g = ResumeCall(c, p, ret) /\ c.resume \in CallResume
      BY <1>6, <2>2
    <3>2. KeepsGas(p, g) /\ Last(g.stack) = 1
      BY <1>4, <3>1, ResumeCallKeeps
    <3> QED
      BY <3>2
  <2>3. CASE ~err /\ c.kind = "create"
    <3>1. g = Push(p, c.resume.contract.addr)
      BY <2>3
    <3>2. c.resume.contract.addr \in Nat \ {0}
      BY <1>6, <2>3 DEF AddressesAreNumbers
    <3>3. c.resume.contract.addr \in Int /\ c.resume.contract.addr # 0
      BY <3>2
    <3> QED
      BY <1>4, <3>1, <3>3, PushKeeps, LastPushed
  <2> QED
    BY <1>6, <2>1, <2>2, <2>3
<1> HIDE DEF g
<1>8. /\ frames' \in Seq(Closure) /\ Len(frames') = n /\ frames'[n] = g
      /\ \A i \in 1 .. n : i # n => frames'[i] = below[i]
  BY <1>1, <1>2, <1>3, <1>7, ReplaceTop DEF KeepsGas, Keeps
<1>9. ASSUME NEW i \in 1 .. n
      PROVE  /\ Keeps(frames[i], frames'[i])
             /\ frames'[i].gas = frames[i].gas + Given(c, i)
             /\ frames'[i].used = frames[i].used - Given(c, i)
  <2>1. CASE i = n
    BY <1>2, <1>7, <1>8, <2>1, KeepsTrans DEF KeepsGas
  <2>2. CASE i # n
    BY <1>2, <1>8, <2>2
  <2> QED
    BY <2>1, <2>2
<1>10. Pops(c)
  BY <1>8, <1>9 DEF Pops, n
<1>11. CASE err
  BY <1>1, <1>10, <1>11 DEF Returns
<1>12. CASE ~err
  <2>1. Last(frames'[Inner - 1].stack) # 0
    BY <1>7, <1>8, <1>12 DEF n
  <2>2. state' = UpdateStateObject(st, object)
    BY <1>1, <1>12
  <2> QED
    BY <1>1, <1>10, <2>1, <2>2 DEF Returns
<1> QED
  BY <1>11, <1>12

\* The end of the first closure writes the account and the object back and
\* moves on to the next transaction.
LEMMA EvalScriptEnds ==
  ASSUME Inner = 1, NEW c, NEW ret \in Seq(Byte), NEW err \in BOOLEAN, NEW st, Leaves(st),
         EvalScriptEnd(c, ret, err, st), returned' = returned + Refund(c)
  PROVE  Ends(c)
<1> DEFINE st1 == UpdateStateObject(UpdateStateObject(st, Paid(c)), c.object)
<1>1. state' = st1 \/ state' = UpdateStateObject(st1, [c.object EXCEPT !.code = ret])
  BY DEF EvalScriptEnd
<1>2. /\ frames' = <<>> /\ account' = Idle /\ txs' = Tail(txs) /\ phase' = "apply"
      /\ txGas' = 0 /\ processed' = processed
      /\ receipts' = Append(receipts, Receipt(c.resume.tx, txGas + c.used))
  BY DEF EvalScriptEnd
<1> HIDE DEF st1
<1>3. \/ state' = st1
      \/ \E r \in Seq(Byte) : state' = UpdateStateObject(st1, [c.object EXCEPT !.code = r])
  BY <1>1
<1>4. \E s, s1 : /\ Leaves(s)
                 /\ s1 = UpdateStateObject(UpdateStateObject(s, Paid(c)), c.object)
                 /\ \/ state' = s1
                    \/ \E r \in Seq(Byte) :
                          state' = UpdateStateObject(s1, [c.object EXCEPT !.code = r])
  <2>1. st1 = UpdateStateObject(UpdateStateObject(st, Paid(c)), c.object)
    BY DEF st1
  <2> QED
    BY <1>3, <2>1
<1> QED
  BY <1>2, <1>4 DEF Ends

\* Leaving is the one or the other.
LEMMA LeaveStep ==
  ASSUME TypeInv, frames # <<>>, AddressesAreNumbers, NEW c, Keeps(Frame, c),
         NEW ret \in Seq(Byte), NEW err \in BOOLEAN, NEW st, Leaves(st), err => st = state,
         Leave(c, ret, err, st)
  PROVE  Returns(c) \/ Ends(c)
<1>1. Inner \in Nat /\ Inner >= 1
  BY TopFrame DEF TypeInv
<1>2. returned' = returned + Refund(c)
  BY DEF Leave
<1>3. CASE Inner = 1
  BY <1>2, <1>3, EvalScriptEnds DEF Leave
<1>4. CASE Inner # 1
  <2>1. Inner > 1 /\ Resume(c, ret, err, st)
    BY <1>1, <1>4 DEF Leave
  <2> QED
    BY <1>2, <2>1, ResumeReturns
<1> QED
  BY <1>3, <1>4

\* RETURN, STOP, SUICIDE and failing all leave.
LEMMA LeavingStep ==
  ASSUME TypeInv, frames # <<>>, AddressesAreNumbers, NEW c, Pays(Frame, c),
         Return(c) \/ Stop(c) \/ Suicide(c) \/ Fail(c)
  PROVE  Returns(c) \/ Ends(c)
<1>1. /\ Keeps(Frame, c) /\ c \in Closure /\ c.mem \in Seq(Byte)
      /\ Len(c.stack) \in Nat /\ c.object \in Object
  BY LenProperties DEF Pays, Keeps, Closure
<1>2. <<>> \in Seq(Byte) /\ TRUE \in BOOLEAN /\ FALSE \in BOOLEAN /\ Leaves(state)
  BY EmptySeq DEF Leaves
<1>3. CASE Return(c)
  <2>1. Len(c.stack) >= 2
    BY <1>3, Arities DEF Return, Pays
  <2>2. Top(c, 1) \in Int /\ Top(c, 2) \in Int
    BY <1>1, <2>1, TopType
  <2>3. CASE CanRead(c.mem, Top(c, 1), Top(c, 2))
    <3> DEFINE ret == MemGet(c.mem, Top(c, 1), Top(c, 2))
    <3>1. ret \in Seq(Byte)
      BY <1>1, <2>2, <2>3, MemGetType
    <3>2. Leave(c, ret, FALSE, state)
      BY <1>3, <2>3 DEF Return
    <3> HIDE DEF ret
    <3> QED
      BY <1>1, <1>2, <3>1, <3>2, LeaveStep
  <2>4. CASE ~CanRead(c.mem, Top(c, 1), Top(c, 2))
    <3>1. Leave(c, <<>>, TRUE, state)
      BY <1>3, <2>4 DEF Return
    <3> QED
      BY <1>1, <1>2, <3>1, LeaveStep
  <2> QED
    BY <2>3, <2>4
<1>4. CASE Stop(c)
  <2>1. Leave(c, <<>>, FALSE, state)
    BY <1>4 DEF Stop
  <2> QED
    BY <1>1, <1>2, <2>1, LeaveStep
<1>5. CASE Suicide(c)
  <2> DEFINE a == Abs(Top(c, 1))
             st == Reward(state, a, c.object.amount)
  <2>1. Leave(c, <<>>, FALSE, st)
    BY <1>5, Zenon DEF Suicide, Reward
  <2>2. Len(c.stack) >= 1
    BY <1>5, Arities DEF Suicide, Pays
  <2>3. a \in Nat /\ c.object.amount \in Int
    <3>1. Top(c, 1) \in Int
      BY <1>1, <2>2, TopType
    <3> QED
      BY <1>1, <3>1, AbsType DEF Object
  <2> HIDE DEF a
  <2>4. Leaves(st)
    BY <2>3 DEF Leaves
  <2> HIDE DEF st
  <2> QED
    BY <1>1, <1>2, <2>1, <2>4, LeaveStep
<1>6. CASE Fail(c)
  <2>1. Leave(c, <<>>, TRUE, state)
    BY <1>6 DEF Fail
  <2> QED
    BY <1>1, <1>2, <2>1, LeaveStep
<1> QED
  BY <1>3, <1>4, <1>5, <1>6

\* What every step of the machine is.
Step(c) ==
    /\ Pays(Frame, c)
    /\ burnt' = burnt + Frame.gas - c.gas
    /\ Stays(c) \/ Enters(c) \/ Returns(c) \/ Ends(c)

\* Every step of the machine is one of four: it stays in its closure,
\* enters another, returns to the one below or ends the transaction.
LEMMA RunClosureSteps ==
  ASSUME TypeInv, HashesAreNumbers, AddressesAreNumbers, RunClosure
  PROVE  frames # <<>> /\ \E c : Step(c)
<1> DEFINE c == Charged(Frame)
<1>1. frames # <<>>
  BY DEF TypeInv, LedgerInv, RunClosure
<1>2. Pays(Frame, c)
  BY <1>1, TopFrame, ChargedPays DEF TypeInv
<1>3. /\ burnt' = burnt + Frame.gas - c.gas
      /\ \/ LocalStep(c) \/ StorageStep(c) \/ Call(c) \/ Create(c)
         \/ Return(c) \/ Stop(c) \/ Suicide(c) \/ Fail(c)
  BY DEF RunClosure
<1> HIDE DEF c
<1>4. Stays(c) \/ Enters(c) \/ Returns(c) \/ Ends(c)
  BY <1>1, <1>2, <1>3, LocalStepStays, StorageStepStays, CallStep, CreateStep, LeavingStep
<1>5. Step(c)
  BY <1>2, <1>3, <1>4 DEF Step
<1> QED
  BY <1>1, <1>5

-----------------------------------------------------------------------------
(* Every step of the machine keeps the types.                              *)

\* The gas of a closure and what it has used are what it started with, and
\* only a closure that was given less than nothing, by the one that called
\* it and that can make up for it, has less than nothing: the innermost one,
\* before its first step.
Solvent ==
    \A i \in 1 .. Len(frames) :
       /\ frames[i].gas + frames[i].used = frames[i].limit
       /\ frames[i].gas < 0 => /\ i = Len(frames) /\ frames[i].used = 0
                               /\ frames[i].stack = <<>> /\ frames[i].kind = "call"
                               /\ frames[i - 1].gas + frames[i].gas >= 0

\* What goes back to the account is never less than nothing.
LEMMA RefundType ==
  ASSUME TypeInv, Solvent, frames # <<>>, NEW c, Pays(Frame, c)
  PROVE  Refund(c) \in Nat
<1>1. Inner \in 1 .. Inner /\ Frame = frames[Inner] /\ Inner = Len(frames) /\ Inner \in Nat
  BY TopFrame DEF TypeInv
<1>2. c.gas \in Int /\ c.callee = Frame.callee /\ Frame.gas \in Int
  BY TopFrame DEF TypeInv, Pays, Keeps, Closure
<1>3. CASE c.callee = 0
  <2>1. Frame.kind # "call"
    BY <1>1, <1>2, <1>3, TopFrame DEF TypeInv, Shape
  <2>2. ~(Frame.gas < 0)
    BY <1>1, <2>1 DEF Solvent
  <2>3. c.gas >= 0
    BY <1>2, <2>2 DEF Pays
  <2> QED
    BY <1>2, <1>3, <2>3 DEF Refund
<1>4. CASE c.callee # 0
  BY <1>4 DEF Refund
<1> QED
  BY <1>3, <1>4

\* What is charged is a number.
LEMMA BurntType ==
  ASSUME TypeInv, frames # <<>>, NEW c, Step(c)
  PROVE  burnt' \in Int
<1>1. burnt \in Int /\ Frame.gas \in Int /\ c.gas \in Int
  BY TopFrame DEF TypeInv, LedgerInv, Step, Pays, Keeps, Closure
<1> QED
  BY <1>1 DEF Step

\* A step that stays in its closure changes at most the storage of its
\* object.
LEMMA StaysState ==
  ASSUME TypeInv, frames # <<>>, NEW c, Pays(Frame, c), Stays(c)
  PROVE  /\ Good(state') /\ state'.trie = state.trie /\ state'.states = state.states
         /\ Len(state'.heap) = Len(state.heap) /\ Wider(state, state')
         /\ \A k \in 1 .. Len(state.heap) :
               k # c.object.store => state'.heap[k] = state.heap[k]
<1>1. Good(state) /\ Len(state.heap) \in Nat
  BY StateParts DEF TypeInv, Good
<1>2. c.object.store \in 1 .. Len(state.heap)
  BY TopFrame DEF TypeInv, Pays, Keeps, Housed
<1>3. CASE state' = state
  BY <1>1, <1>3 DEF Wider
<1>4. CASE \E loc, val \in Int : state' = SetStorage(state, c.object, loc, val)
  <2>1. PICK loc \in Int, val \in Int : state' = SetStorage(state, c.object, loc, val)
    BY <1>4
  <2>2. /\ Good(state') /\ state'.trie = state.trie /\ state'.states = state.states
        /\ Len(state'.heap) = Len(state.heap)
        /\ \A k \in 1 .. Len(state.heap) :
              k # c.object.store => state'.heap[k] = state.heap[k]
    BY <1>1, <1>2, <2>1, SetStorageGood
  <2> QED
    BY <1>1, <2>2 DEF Wider
<1> QED
  BY <1>3, <1>4 DEF Stays

\* A step that stays in its closure changes no other frame.
LEMMA StaysFrames ==
  ASSUME TypeInv, frames # <<>>, NEW c, Pays(Frame, c), Stays(c)
  PROVE  /\ frames' \in Seq(Closure) /\ Len(frames') = Inner /\ frames' # <<>>
         /\ KeepsGas(c, frames'[Inner]) /\ Keeps(frames[Inner], frames'[Inner])
         /\ \A i \in 1 .. Inner : i # Inner => frames'[i] = frames[i]
<1>1. PICK g : KeepsGas(c, g) /\ frames' = [frames EXCEPT ![Inner] = g]
  BY DEF Stays
<1>2. Keeps(Frame, c) /\ Keeps(c, g) /\ g \in Closure /\ Frame = frames[Inner]
  BY <1>1, TopFrame DEF Pays, KeepsGas, Keeps, TypeInv
<1>3. frames \in Seq(Closure) /\ Inner = Len(frames) /\ Inner # 0
  BY TopFrame DEF TypeInv, StackInv
<1>4. /\ frames' \in Seq(Closure) /\ Len(frames') = Inner /\ frames' # <<>>
      /\ frames'[Inner] = g /\ \A i \in 1 .. Inner : i # Inner => frames'[i] = frames[i]
  BY <1>1, <1>2, <1>3, ReplaceTop
<1> QED
  BY <1>1, <1>2, <1>4, KeepsTrans

\* Frames that are kept keep their shape and find their storage.
LEMMA StackKept ==
  ASSUME TypeInv, NEW n \in Nat, n <= Len(frames), Good(state'), Wider(state, state'),
         \A i \in 1 .. n : Keeps(frames[i], frames'[i])
  PROVE  \A i \in 1 .. n : Shape(frames', i) /\ Housed(frames'[i], state')
<1> SUFFICES ASSUME NEW i \in 1 .. n
             PROVE  Shape(frames', i) /\ Housed(frames'[i], state')
  OBVIOUS
<1>1. Len(frames) \in Nat
  BY LenProperties DEF TypeInv, StackInv
<1>2. i \in Nat /\ i \in 1 .. Len(frames) /\ (i > 1 => i - 1 \in 1 .. n)
  BY <1>1
<1>3. Shape(frames, i) /\ Housed(frames[i], state)
  BY <1>2 DEF TypeInv, StackInv
<1>4. Keeps(frames[i], frames'[i]) /\ (i > 1 => Keeps(frames[i - 1], frames'[i - 1]))
  BY <1>2
<1>5. Shape(frames', i)
  BY <1>2, <1>3, <1>4, ShapeKept
<1>6. Housed(frames'[i], state')
  BY <1>3, <1>4, HousedKept DEF TypeInv
<1> QED
  BY <1>5, <1>6

\* The storage of the sender's copy stays there while the heap grows.
LEMMA AccountKept ==
  ASSUME TypeInv, Good(state'), Wider(state, state'), account'.store = account.store
  PROVE  AccountInv'
<1>1. Len(state.heap) \in Nat /\ Len(state'.heap) \in Nat
  BY StateParts DEF TypeInv, Good
<1> QED
  BY <1>1 DEF TypeInv, AccountInv, Wider

\* A step that stays in its closure keeps the types.
LEMMA StaysType ==
  ASSUME TypeInv, frames # <<>>, NEW c, Step(c), Stays(c)
  PROVE  TypeInv'
<1>1. Pays(Frame, c) /\ burnt' \in Int
  BY BurntType DEF Step
<1>2. Good(state') /\ Wider(state, state')
  BY <1>1, StaysState
<1>3. /\ frames' \in Seq(Closure) /\ Len(frames') = Inner /\ frames' # <<>>
      /\ Keeps(frames[Inner], frames'[Inner])
      /\ \A i \in 1 .. Inner : i # Inner => frames'[i] = frames[i]
  BY <1>1, StaysFrames
<1>4. /\ Inner \in Nat /\ Inner = Len(frames) /\ \A i \in 1 .. Inner : frames[i] \in Closure
  BY TopFrame DEF TypeInv
<1>5. \A i \in 1 .. Inner : Keeps(frames[i], frames'[i])
  BY <1>3, <1>4, KeepsSelf
<1>6. \A i \in 1 .. Inner : Shape(frames', i) /\ Housed(frames'[i], state')
  BY <1>2, <1>4, <1>5, StackKept
<1>7. StackInv'
  BY <1>3, <1>6 DEF StackInv
<1>8. LedgerInv'
  BY <1>1, <1>3 DEF TypeInv, LedgerInv, Stays, ledger
<1>9. AccountInv'
  BY <1>2, AccountKept DEF Stays
<1> QED
  BY <1>2, <1>7, <1>8, <1>9 DEF TypeInv

\* Entering changes the frame that pays and puts one on top of it.
LEMMA EntersFrames ==
  ASSUME TypeInv, frames # <<>>, NEW c, NEW g \in Closure, NEW e \in Closure,
         Keeps(Frame, c), Keeps(c, g), frames' = Append([frames EXCEPT ![Inner] = g], e)
  PROVE  /\ frames' \in Seq(Closure) /\ Len(frames') = Inner + 1 /\ frames' # <<>>
         /\ frames'[Inner + 1] = e /\ frames'[Inner] = g
         /\ \A i \in 1 .. Inner : i # Inner => frames'[i] = frames[i]
         /\ \A i \in 1 .. Inner : Keeps(frames[i], frames'[i])
<1> DEFINE fr == [frames EXCEPT ![Inner] = g]
<1>1. /\ frames \in Seq(Closure) /\ Inner = Len(frames) /\ Inner # 0 /\ Inner \in Nat
      /\ Inner >= 1 /\ Frame = frames[Inner] /\ \A i \in 1 .. Inner : frames[i] \in Closure
  BY TopFrame DEF TypeInv, StackInv
<1>2. /\ fr \in Seq(Closure) /\ Len(fr) = Inner
      /\ fr[Inner] = g /\ \A i \in 1 .. Inner : i # Inner => fr[i] = frames[i]
  BY <1>1, ReplaceTop
<1> HIDE DEF fr
<1>3. /\ frames' \in Seq(Closure) /\ Len(frames') = Inner + 1 /\ frames'[Inner + 1] = e
      /\ \A i \in 1 .. Inner : frames'[i] = fr[i]
  BY <1>2, AppendProperties DEF fr
<1>4. frames' # <<>>
  BY <1>1, <1>3, EmptySeq
<1>5. Inner \in 1 .. Inner
  BY <1>1
<1>6. Keeps(frames[Inner], g)
  BY <1>1, KeepsTrans
<1>7. \A i \in 1 .. Inner : Keeps(frames[i], frames'[i])
  BY <1>1, <1>2, <1>3, <1>6, KeepsSelf
<1> QED
  BY <1>2, <1>3, <1>4, <1>5, <1>7

\* Growing twice is growing.
LEMMA ExtendsTrans ==
  ASSUME NEW st, NEW t, NEW u, Good(st), Good(t), Good(u), Extends(st, t), Extends(t, u)
  PROVE  Extends(st, u)
<1>1. Len(st.heap) \in Nat /\ Len(t.heap) \in Nat /\ Len(u.heap) \in Nat
  BY StateParts DEF Good
<1>2. \A k \in 1 .. Len(st.heap) : k \in 1 .. Len(t.heap)
  BY <1>1 DEF Extends, Wider
<1>3. \A k \in 1 .. Len(st.heap) : u.heap[k] = st.heap[k]
  BY <1>2 DEF Extends
<1> QED
  BY <1>1, <1>3 DEF Extends, Wider

\* Entering a closure keeps the types.
LEMMA EntersType ==
  ASSUME TypeInv, frames # <<>>, NEW c, Step(c), Enters(c)
  PROVE  TypeInv'
<1>1. Pays(Frame, c) /\ Keeps(Frame, c) /\ burnt' \in Int
  BY BurntType DEF Step, Pays
<1>2. PICK g \in Closure, e \in Closure, t \in State :
          /\ frames' = Append([frames EXCEPT ![Inner] = g], e)
          /\ Keeps(c, g)
          /\ IsCopy(e.resume.snapshot, state, t)
          /\ Extends(state, t) /\ Extends(t, state') /\ Good(t) /\ Good(state')
          /\ \/ /\ e.kind = "call" /\ e.callee = Inner /\ e.resume \in CallResume
                /\ \/ \E a \in DOMAIN state.states : e.object.store = state.states[a]
                   \/ e.object.store = Len(t.heap) + 1 /\ Len(state'.heap) = Len(t.heap) + 1
             \/ /\ e.kind = "create" /\ e.callee = c.callee /\ e.resume \in CreateResume
                /\ e.object = c.object
                /\ e.resume.contract.store = Len(t.heap) + 1
                /\ Len(state'.heap) = Len(t.heap) + 1
                /\ \E a, n \in Nat : e.resume.contract.addr = CreateAddress(a, n)
  BY DEF Enters
<1> DEFINE n == Inner
<1>3. /\ frames' \in Seq(Closure) /\ Len(frames') = n + 1 /\ frames' # <<>>
      /\ frames'[n + 1] = e /\ \A i \in 1 .. n : Keeps(frames[i], frames'[i])
  BY <1>1, <1>2, EntersFrames
<1>4. /\ Good(state) /\ Extends(state, state') /\ Wider(state, state')
      /\ Len(state.heap) \in Nat /\ Len(t.heap) \in Nat /\ Len(state'.heap) \in Nat
  <2>1. Good(state) /\ Good(t) /\ Good(state')
    BY <1>2 DEF TypeInv
  <2>2. Extends(state, state')
    BY <1>2, <2>1, ExtendsTrans
  <2>3. Len(state.heap) \in Nat /\ Len(t.heap) \in Nat /\ Len(state'.heap) \in Nat
    BY <2>1, StateParts DEF Good
  <2> QED
    BY <2>1, <2>2, <2>3 DEF Extends
<1>5. /\ n \in Nat /\ n >= 1 /\ n = Len(frames) /\ Shape(frames, n) /\ Frame = frames[n]
      /\ n \in 1 .. n
  BY TopFrame DEF TypeInv
<1>6. \A i \in 1 .. n : Shape(frames', i) /\ Housed(frames'[i], state')
  <2>1. n \in Nat /\ n <= Len(frames)
    BY <1>5
  <2> QED
    BY <1>2, <1>3, <1>4, <2>1, StackKept
<1>7. Shape(frames', n + 1)
  <2>1. c.callee = frames[n].callee /\ frames'[n].callee = frames[n].callee
    BY <1>1, <1>3, <1>5 DEF Keeps
  <2>2. frames[n].callee \in 0 .. n - 1
    BY <1>5 DEF Shape
  <2>3. e.callee \in 0 .. (n + 1) - 1 /\ (n + 1) - 1 = n /\ n + 1 > 1
    BY <1>2, <1>5, <2>1, <2>2
  <2> HIDE DEF n
  <2> QED
    BY <1>2, <1>3, <2>1, <2>3 DEF Shape, n
<1>8. Housed(frames'[n + 1], state')
  <2>1. GoodSnapshot(e.resume.snapshot, state')
    BY <1>2, SnapshotKept DEF IsCopy, Extends
  <2>2. c.object.store \in 1 .. Len(state'.heap)
    <3>1. c.object.store \in 1 .. Len(state.heap)
      BY <1>1, TopFrame DEF TypeInv, Keeps, Housed
    <3> QED
      BY <1>4, <3>1 DEF Wider
  <2>3. \A a \in DOMAIN state.states : state.states[a] \in 1 .. Len(state'.heap)
    <3>1. \A a \in DOMAIN state.states : state.states[a] \in 1 .. Len(state.heap)
      BY <1>4 DEF Good
    <3> QED
      BY <1>4, <3>1 DEF Wider
  <2>4. Len(state'.heap) = Len(t.heap) + 1 => Len(t.heap) + 1 \in 1 .. Len(state'.heap)
    BY <1>4
  <2>5. e.object.store \in 1 .. Len(state'.heap)
    BY <1>2, <2>2, <2>3, <2>4
  <2>6. e.kind = "create" => e.resume.contract.store \in 1 .. Len(state'.heap)
    BY <1>2, <2>4
  <2> QED
    BY <1>3, <2>1, <2>5, <2>6 DEF Housed
<1>9. StackInv'
  <2>1. \A i \in 1 .. n + 1 : i \in 1 .. n \/ i = n + 1
    BY <1>5
  <2> HIDE DEF n
  <2> QED
    BY <1>3, <1>6, <1>7, <1>8, <2>1 DEF StackInv
<1>10. LedgerInv'
  BY <1>1, <1>3 DEF TypeInv, LedgerInv, Enters, ledger
<1>11. AccountInv'
  BY <1>2, <1>4, AccountKept DEF Enters
<1> QED
  BY <1>2, <1>9, <1>10, <1>11 DEF TypeInv

\* The sender gets back what is left of the gas it paid for.
LEMMA PaidType ==
  ASSUME TypeInv, Solvent, frames # <<>>, NEW c, Pays(Frame, c)
  PROVE  /\ Paid(c) \in Object /\ Paid(c).addr = account.addr
         /\ Paid(c).nonce = account.nonce /\ Paid(c).store = account.store
<1> DEFINE tx == frames[1].resume.tx
           n == Refund(c) * tx.price
<1>1. Refund(c) \in Nat /\ tx \in Transaction /\ account \in Object
  BY RefundType, RunningTransaction DEF TypeInv, LedgerInv
<1> HIDE DEF tx
<1>2. tx.price \in Nat
  BY <1>1 DEF Transaction
<1>3. n \in Int
  BY <1>1, <1>2
<1>4. Paid(c) = AddAmount(account, n)
  BY DEF Paid, tx
<1> HIDE DEF n
<1> QED
  BY <1>1, <1>3, <1>4, AddAmountKeeps

\* What a closure hands over to be written back.
LEMMA ObjectHanded ==
  ASSUME TypeInv, frames # <<>>, NEW c, Pays(Frame, c)
  PROVE  /\ c.object \in Object /\ c.object.store \in 1 .. Len(state.heap)
         /\ c.kind = "create" => /\ c.resume.contract \in Object
                                 /\ c.resume.contract.store \in 1 .. Len(state.heap)
         /\ c.kind # "tx" => GoodSnapshot(c.resume.snapshot, state)
<1>1. /\ c \in Closure /\ c.object = Frame.object /\ c.kind = Frame.kind
      /\ c.resume = Frame.resume /\ Frame = frames[Inner]
      /\ Housed(Frame, state) /\ Shape(frames, Inner)
  BY TopFrame DEF TypeInv, Pays, Keeps
<1>2. c.object \in Object
  BY <1>1 DEF Closure
<1>3. c.kind = "create" => c.resume.contract \in Object
  BY <1>1 DEF Shape, CreateResume
<1> QED
  BY <1>1, <1>2, <1>3 DEF Housed

\* A cell of a state is a cell of what extends it.
LEMMA CellStays ==
  ASSUME NEW st, Good(st), NEW t, Good(t), Extends(st, t), NEW k \in 1 .. Len(st.heap)
  PROVE  k \in 1 .. Len(t.heap) /\ k \in 0 .. Len(t.heap) /\ t.heap[k] = st.heap[k]
<1>1. Len(st.heap) \in Nat /\ Len(t.heap) \in Nat
  BY StateParts DEF Good
<1> QED
  BY <1>1 DEF Extends, Wider

\* Where the running transaction is not over, one closure has ended.
LEMMA ReturnsState ==
  ASSUME TypeInv, frames # <<>>, NEW c, Pays(Frame, c), Returns(c)
  PROVE  Good(state') /\ Wider(state, state')
<1>1. Good(state) /\ Len(state.heap) \in Nat
  BY StateParts DEF TypeInv, Good
<1>2. c.kind # "tx"
  <2>1. Shape(frames, Inner) /\ c.kind = frames[Inner].kind /\ Inner > 1
    BY TopFrame DEF TypeInv, Pays, Keeps, Returns
  <2> QED
    BY <2>1 DEF Shape
<1>3. CASE state' = Revert(state, c.resume.snapshot)
  <2>1. Good(state') /\ state'.heap = state.heap
    BY <1>1, <1>2, <1>3, ObjectHanded, RevertGood
  <2> QED
    BY <1>1, <2>1 DEF Wider
<1>4. CASE \E st : /\ Leaves(st)
                   /\ state' = UpdateStateObject(st, IF c.kind = "call" THEN c.object
                                                     ELSE c.resume.contract)
  <2> DEFINE o == IF c.kind = "call" THEN c.object ELSE c.resume.contract
  <2>1. PICK st : Leaves(st) /\ state' = UpdateStateObject(st, o)
    BY <1>4
  <2>2. o \in Object /\ o.store \in 1 .. Len(state.heap)
    <3>1. c.kind \in {"tx", "call", "create"}
      BY DEF Pays, Keeps, Closure
    <3> QED
      BY <1>2, <3>1, ObjectHanded
  <2> HIDE DEF o
  <2>3. Good(st) /\ Extends(state, st)
    BY <1>1, <2>1, LeavesCredits DEF Credits
  <2>4. o.store \in 0 .. Len(st.heap)
    BY <1>1, <2>2, <2>3, CellStays
  <2>5. Good(state') /\ state'.heap = st.heap
    BY <2>1, <2>2, <2>3, <2>4, UpdateGood
  <2> QED
    BY <2>3, <2>5 DEF Extends, Wider
<1> QED
  BY <1>3, <1>4 DEF Returns

\* Returning to the closure below keeps the types.
LEMMA ReturnsType ==
  ASSUME TypeInv, Solvent, frames # <<>>, NEW c, Step(c), Returns(c)
  PROVE  TypeInv'
<1>1. Pays(Frame, c) /\ burnt' \in Int
  BY BurntType DEF Step
<1>2. Good(state') /\ Wider(state, state')
  BY <1>1, ReturnsState
<1>3. /\ Inner \in Nat /\ Inner > 1 /\ Inner = Len(frames)
      /\ frames' \in Seq(Closure) /\ Len(frames') = Inner - 1
      /\ \A i \in 1 .. Inner - 1 : Keeps(frames[i], frames'[i])
  BY TopFrame DEF TypeInv, Returns, Pops
<1>4. frames' # <<>> /\ Inner - 1 \in Nat /\ Inner - 1 <= Len(frames)
  BY <1>3, EmptySeq
<1>5. \A i \in 1 .. Inner - 1 : Shape(frames', i) /\ Housed(frames'[i], state')
  BY <1>2, <1>3, <1>4, StackKept
<1>6. StackInv'
  BY <1>3, <1>5 DEF StackInv
<1>7. account' \in Object /\ returned' \in Nat
  <2>1. Paid(c) \in Object /\ Refund(c) \in Nat /\ returned \in Nat
    BY <1>1, PaidType, RefundType DEF TypeInv, LedgerInv
  <2>2. account' = Paid(c) /\ returned' = returned + Refund(c)
    BY DEF Returns
  <2> HIDE DEF Paid
  <2> QED
    BY <2>1, <2>2
<1>8. UNCHANGED ledger
  BY DEF Returns
<1>9. LedgerInv'
  BY <1>1, <1>4, <1>7, <1>8 DEF TypeInv, LedgerInv, ledger
<1>10. AccountInv'
  <2>1. account'.store = account.store
    BY <1>1, PaidType DEF Returns
  <2> QED
    BY <1>2, <2>1, AccountKept
<1> QED
  BY <1>2, <1>6, <1>9, <1>10 DEF TypeInv

\* A receipt is a receipt.
LEMMA ReceiptGood ==
  ASSUME receipts \in Seq(ReceiptType), NEW tx \in Transaction, NEW gas \in Int
  PROVE  Receipt(tx, gas) \in ReceiptType
<1>1. CASE receipts = <<>>
  BY <1>1 DEF Receipt, ReceiptType
<1>2. CASE receipts # <<>>
  <2>1. Len(receipts) \in 1 .. Len(receipts)
    BY <1>2, EmptySeq, LenProperties
  <2>2. receipts[Len(receipts)] \in ReceiptType
    BY <2>1, ElementOfSeq
  <2>3. Last(receipts).used \in Int
    BY <2>2 DEF Last, ReceiptType
  <2> QED
    BY <1>2, <2>3 DEF Receipt, ReceiptType
<1> QED
  BY <1>1, <1>2

\* The copy of no sender is an object.
LEMMA IdleType == Idle \in Object
<1>1. <<>> \in Seq(Byte) /\ NoAddress \in Nat /\ 0 \in Nat /\ 0 \in Int
  BY EmptySeq, BlockAssumption
<1> QED
  BY <1>1 DEF Idle, Object

\* The transactions left are transactions of the block.
LEMMA TailOfTxs ==
  ASSUME LedgerInv, txs # <<>>
  PROVE  /\ Tail(txs) \in Seq(Transaction)
         /\ \A i \in 1 .. Len(Tail(txs)) : Tail(txs)[i].from \in Senders
<1>1. /\ txs \in Seq(Transaction) /\ \A i \in 1 .. Len(txs) : txs[i].from \in Senders
      /\ Len(txs) \in Nat
  BY LenProperties DEF LedgerInv
<1>2. /\ Tail(txs) \in Seq(Transaction) /\ Len(Tail(txs)) = Len(txs) - 1
      /\ \A i \in 1 .. Len(Tail(txs)) : Tail(txs)[i] = txs[i + 1]
  BY <1>1, HeadTailProperties
<1>3. \A i \in 1 .. Len(Tail(txs)) : i + 1 \in 1 .. Len(txs)
  BY <1>1, <1>2
<1> QED
  BY <1>1, <1>2, <1>3

\* Both copies of the sender, and the code of a new contract, are written back.
LEMMA EndsState ==
  ASSUME TypeInv, Solvent, frames # <<>>, NEW c, Pays(Frame, c), Ends(c)
  PROVE  Good(state')
<1>1. PICK st, st1 :
         /\ Leaves(st)
         /\ st1 = UpdateStateObject(UpdateStateObject(st, Paid(c)), c.object)
         /\ \/ state' = st1
            \/ \E ret \in Seq(Byte) :
                  state' = UpdateStateObject(st1, [c.object EXCEPT !.code = ret])
  BY DEF Ends
<1> DEFINE p == Paid(c)
           u == UpdateStateObject(st, p)
<1>2. Good(state) /\ Good(st) /\ Extends(state, st)
  BY <1>1, LeavesCredits DEF TypeInv, Credits
<1>3. p \in Object /\ p.store = account.store
  BY PaidType
<1>4. c.object \in Object /\ c.object.store \in 1 .. Len(state.heap)
  BY ObjectHanded
<1> HIDE DEF p
<1>5. p.store \in 0 .. Len(st.heap) /\ c.object.store \in 0 .. Len(st.heap)
  <2>1. Len(state.heap) \in Nat /\ Len(st.heap) \in Nat
    BY <1>2, StateParts DEF Good
  <2>2. account.store \in 0 .. Len(state.heap)
    BY DEF TypeInv, AccountInv
  <2> QED
    BY <1>2, <1>3, <1>4, <2>1, <2>2 DEF Extends, Wider
<1>6. Good(u) /\ u.heap = st.heap
  BY <1>2, <1>3, <1>5, UpdateGood
<1> HIDE DEF u
<1>7. st1 = UpdateStateObject(u, c.object)
  BY <1>1 DEF u, p
<1>8. Good(st1) /\ st1.heap = st.heap
  BY <1>4, <1>5, <1>6, <1>7, UpdateGood
<1>9. ASSUME NEW ret \in Seq(Byte), state' = UpdateStateObject(st1, [c.object EXCEPT !.code = ret])
      PROVE  Good(state')
  <2> DEFINE o == [c.object EXCEPT !.code = ret]
  <2>1. o \in Object /\ o.store = c.object.store
    BY <1>4 DEF Object
  <2> HIDE DEF o
  <2> QED
    BY <1>5, <1>8, <1>9, <2>1, UpdateGood DEF o
<1> QED
  BY <1>1, <1>8, <1>9

\* The end of a transaction keeps the types.
LEMMA EndsType ==
  ASSUME TypeInv, Solvent, frames # <<>>, NEW c, Step(c), Ends(c)
  PROVE  TypeInv'
<1>1. Pays(Frame, c) /\ burnt' \in Int
  BY BurntType DEF Step
<1>2. Good(state')
  BY <1>1, EndsState
<1>3. /\ frames' = <<>> /\ account' = Idle /\ txs' = Tail(txs) /\ phase' = "apply"
      /\ txGas' = 0 /\ processed' = processed /\ returned' = returned + Refund(c)
      /\ receipts' = Append(receipts, Receipt(c.resume.tx, txGas + c.used))
  BY DEF Ends
<1>4. StackInv'
  BY <1>3, EmptySeq DEF StackInv
<1>5. LedgerInv /\ txs # <<>> /\ c \in Closure
  BY <1>1 DEF TypeInv, LedgerInv, Pays, Keeps
<1>6. receipts' \in Seq(ReceiptType)
  <2>1. c.resume.tx \in Transaction
    <3>1. c.resume = frames[1].resume
      BY <1>1, TopFrame DEF TypeInv, Pays, Keeps, Ends
    <3> QED
      BY <3>1, RunningTransaction DEF TypeInv
  <2>2. txGas + c.used \in Int
    BY <1>5 DEF LedgerInv, Closure
  <2>3. receipts \in Seq(ReceiptType)
    BY <1>5 DEF LedgerInv
  <2>4. Receipt(c.resume.tx, txGas + c.used) \in ReceiptType
    BY <2>1, <2>2, <2>3, ReceiptGood
  <2> QED
    BY <1>3, <2>3, <2>4, AppendProperties
<1>7. returned' \in Nat
  <2>1. Refund(c) \in Nat /\ returned \in Nat
    BY <1>1, RefundType DEF TypeInv, LedgerInv
  <2> QED
    BY <1>3, <2>1
<1>8. /\ txs' \in Seq(Transaction) /\ \A i \in 1 .. Len(txs') : txs'[i].from \in Senders
  BY <1>3, <1>5, TailOfTxs
<1>9. LedgerInv'
  <2>1. phase' = "apply" /\ frames' = <<>> /\ account' \in Object /\ txGas' \in Int
        /\ processed' \in Seq(Nat \X Nat)
    BY <1>3, <1>5, IdleType DEF LedgerInv
  <2> QED
    BY <1>1, <1>6, <1>7, <1>8, <2>1 DEF LedgerInv
<1>10. AccountInv'
  <2>1. Len(state'.heap) \in Nat /\ account'.store = 0
    BY <1>2, <1>3, StateParts DEF Good, Idle
  <2> QED
    BY <2>1 DEF AccountInv
<1> QED
  BY <1>2, <1>4, <1>9, <1>10 DEF TypeInv

-----------------------------------------------------------------------------
(* A transaction up to its first instruction, and the rewards.             *)

\* The nonce a state knows an account by.
Nonce(trie, a) == IF a \in DOMAIN trie THEN trie[a].nonce ELSE 0

\* t has the nonces of st, but for that of one account.
NonceSet(st, t, addr, nonce) ==
    \A a : Nonce(t.trie, a) = IF a = addr THEN nonce ELSE Nonce(st.trie, a)

\* Writing an object back sets the nonce of its address and no other.
LEMMA UpdateNonce ==
  ASSUME NEW st, Good(st), NEW obj \in Object, obj.store \in 0 .. Len(st.heap), NEW t,
         t = UpdateStateObject(st, obj)
  PROVE  NonceSet(st, t, obj.addr, obj.nonce)
<1>1. /\ DOMAIN t.trie = DOMAIN st.trie \cup {obj.addr}
      /\ \A a \in DOMAIN t.trie :
            t.trie[a].nonce = IF a = obj.addr THEN obj.nonce ELSE st.trie[a].nonce
  BY UpdateGood
<1> QED
  BY <1>1 DEF NonceSet, Nonce

\* Credits leave every nonce as it was, zero where there was no object.
LEMMA CreditsNonce ==
  ASSUME NEW st, NEW t, Credits(st, t)
  PROVE  \A a : Nonce(t.trie, a) = Nonce(st.trie, a)
BY DEF Credits, Nonce

\* A nonce is natural.
LEMMA NonceType ==
  ASSUME NEW st, Good(st), NEW a
  PROVE  Nonce(st.trie, a) \in Nat
<1>1. \A b \in DOMAIN st.trie : st.trie[b].nonce \in Nat
  BY StateParts DEF Good, Stored
<1> QED
  BY <1>1 DEF Nonce

\* The bounds a store has stay good where storage is added.
LEMMA StoreKept ==
  ASSUME NEW st, Good(st), NEW t, Good(t), Wider(st, t), NEW k
  PROVE  /\ k \in 0 .. Len(st.heap) => k \in 0 .. Len(t.heap)
         /\ k \in 1 .. Len(st.heap) => k \in 1 .. Len(t.heap)
<1>1. Len(st.heap) \in Nat /\ Len(t.heap) \in Nat
  BY StateParts DEF Good
<1> QED
  BY <1>1 DEF Wider

\* What ProcessTransaction may do: nothing but count gas, or move the value
\* and the sender's nonce by one.
Processed(st, tx, p) ==
    /\ Good(p.state) /\ Wider(st, p.state) /\ p.gas \in Int
    /\ \/ p.err \in {"nonce", "funds"} /\ \A a : Nonce(p.state.trie, a) = Nonce(st.trie, a)
       \/ /\ p.err = "none" /\ tx.nonce = Nonce(st.trie, tx.from)
          /\ tx.from \in DOMAIN p.state.trie
          /\ \A a : Nonce(p.state.trie, a) = IF a = tx.from THEN tx.nonce + 1
                                             ELSE Nonce(st.trie, a)

\* ProcessTransaction yields a state; where there is no error the sender
\* had the nonce of the transaction and has the next one, and no other
\* nonce is changed.
LEMMA ProcessTransactionType ==
  ASSUME NEW st, Good(st), NEW tx \in Transaction
  PROVE  Processed(st, tx, ProcessTransaction(st, tx))
<1> DEFINE p == ProcessTransaction(st, tx)
           sender == GetAccount(st, tx.from)
           st1 == AfterGet(st, tx.from)
           receiver == GetAccount(st1, tx.to)
           st2 == AfterGet(st1, tx.to)
           paid(n) == [sender EXCEPT !.amount = @ - n, !.nonce = @ + 1]
           fee == GasTx * tx.price
           given == AddAmount(receiver, tx.value)
           st3 == UpdateStateObject(st2, given)
           data == DataGas(tx)
<1>1. /\ tx.from \in Nat /\ tx.to \in Nat /\ tx.value \in Nat /\ tx.price \in Nat
      /\ tx.gas \in Nat /\ tx.nonce \in Nat /\ tx.data \in Seq(Byte) /\ Len(tx.data) \in Nat
  BY LenProperties DEF Transaction
<1>2. data \in Int /\ fee \in Int /\ Total(tx) \in Int
  <2>1. Len(tx.data) \div 32 \in Int
    BY <1>1
  <2>2. data \in Int
    BY <2>1 DEF DataGas
  <2>3. fee \in Int
    BY <1>1 DEF GasTx
  <2>4. tx.gas * tx.price \in Int
    BY <1>1
  <2> QED
    BY <1>1, <2>2, <2>3, <2>4 DEF Total, GasCost
<1>3. /\ WrongNonce(sender, tx) => p = [state |-> st1, gas |-> 0, err |-> "nonce"]
      /\ ~WrongNonce(sender, tx) /\ sender.amount < Total(tx)
            => p = [state |-> st1, gas |-> data, err |-> "funds"]
      /\ ~WrongNonce(sender, tx) /\ ~(sender.amount < Total(tx)) /\ tx.to = tx.from
            => p = [state |-> UpdateStateObject(st2, paid(fee)), gas |-> data + GasTx,
                    err |-> "none"]
      /\ ~WrongNonce(sender, tx) /\ ~(sender.amount < Total(tx)) /\ tx.to # tx.from
            => p = [state |-> UpdateStateObject(st3, paid(Total(tx))), gas |-> data + 0,
                    err |-> "none"]
  BY Zenon DEF ProcessTransaction
<1>4. Good(st1) /\ st1.trie = st.trie /\ Extends(st, st1)
  BY AfterGetGood
<1>5. /\ sender \in Object /\ sender.addr = tx.from
      /\ sender.nonce = Nonce(st.trie, tx.from) /\ sender.store \in 0 .. Len(st1.heap)
  BY <1>1, GetAccountType DEF Nonce, Exists
<1> HIDE DEF p, sender, st1, data, fee
<1>6. Good(st2) /\ st2.trie = st1.trie /\ Extends(st1, st2)
  BY <1>4, AfterGetGood
<1>7. /\ receiver \in Object /\ receiver.addr = tx.to
      /\ receiver.nonce = Nonce(st1.trie, tx.to) /\ receiver.store \in 0 .. Len(st2.heap)
  BY <1>1, <1>4, GetAccountType DEF Nonce, Exists
<1> HIDE DEF st2, receiver
<1>8. /\ given \in Object /\ given.addr = tx.to /\ given.nonce = Nonce(st1.trie, tx.to)
      /\ given.store \in 0 .. Len(st2.heap)
  <2>1. tx.value \in Int
    BY <1>1
  <2> QED
    BY <1>7, <2>1, AddAmountKeeps
<1> HIDE DEF given
<1>9. Good(st3) /\ st3.heap = st2.heap
  BY <1>6, <1>8, UpdateGood
<1>10. NonceSet(st2, st3, given.addr, given.nonce)
  BY <1>6, <1>8, UpdateNonce
<1> HIDE DEF st3
<1>11. ASSUME NEW n \in Int
       PROVE  /\ paid(n) \in Object /\ paid(n).addr = tx.from
              /\ paid(n).nonce = Nonce(st.trie, tx.from) + 1 /\ paid(n).store = sender.store
  <2>1. sender.amount - n \in Int /\ sender.nonce + 1 \in Nat
    BY <1>5 DEF Object
  <2> QED
    BY <1>5, <2>1 DEF Object
<1>12. ASSUME NEW u, Good(u), u.heap = st2.heap,
              \A a : Nonce(u.trie, a) = Nonce(st.trie, a), NEW n \in Int, NEW t,
              t = UpdateStateObject(u, paid(n))
       PROVE  /\ Good(t) /\ Wider(st, t) /\ tx.from \in DOMAIN t.trie
              /\ \A a : Nonce(t.trie, a) = IF a = tx.from THEN Nonce(st.trie, tx.from) + 1
                                           ELSE Nonce(st.trie, a)
  <2> DEFINE o == paid(n)
  <2>1. /\ o \in Object /\ o.addr = tx.from /\ o.nonce = Nonce(st.trie, tx.from) + 1
        /\ o.store = sender.store
    BY <1>11
  <2> HIDE DEF o
  <2>2. o.store \in 0 .. Len(u.heap)
    BY <1>4, <1>5, <1>6, <1>12, <2>1, StoreKept DEF Extends
  <2>3. t = UpdateStateObject(u, o)
    BY <1>12 DEF o
  <2>4. Good(t) /\ t.heap = u.heap /\ DOMAIN t.trie = DOMAIN u.trie \cup {o.addr}
    BY <1>12, <2>1, <2>2, <2>3, UpdateGood
  <2>5. NonceSet(u, t, o.addr, o.nonce)
    BY <1>12, <2>1, <2>2, <2>3, UpdateNonce
  <2>6. Wider(st, t)
    <3>1. Extends(st, st2)
      BY <1>4, <1>6, ExtendsTrans
    <3> QED
      BY <1>12, <2>4, <3>1 DEF Extends, Wider
  <2> QED
    BY <1>12, <2>1, <2>4, <2>5, <2>6 DEF NonceSet
<1> HIDE DEF paid
<1>13. Wider(st, st1) /\ \A a : Nonce(st1.trie, a) = Nonce(st.trie, a)
  BY <1>4 DEF Extends
<1>14. CASE WrongNonce(sender, tx)
  BY <1>3, <1>4, <1>13, <1>14 DEF Processed, p
<1>15. CASE ~WrongNonce(sender, tx) /\ sender.amount < Total(tx)
  BY <1>2, <1>3, <1>4, <1>13, <1>15 DEF Processed, p
<1>16. CASE ~WrongNonce(sender, tx) /\ ~(sender.amount < Total(tx))
  <2>1. tx.nonce = Nonce(st.trie, tx.from)
    BY <1>5, <1>16 DEF WrongNonce
  <2>2. CASE tx.to = tx.from
    <3> DEFINE t == UpdateStateObject(st2, paid(fee))
    <3>1. \A a : Nonce(st2.trie, a) = Nonce(st.trie, a)
      BY <1>4, <1>6
    <3>2. /\ Good(t) /\ Wider(st, t) /\ tx.from \in DOMAIN t.trie
          /\ \A a : Nonce(t.trie, a) = IF a = tx.from THEN Nonce(st.trie, tx.from) + 1
                                       ELSE Nonce(st.trie, a)
      BY <1>2, <1>6, <1>12, <3>1
    <3> HIDE DEF t
    <3>3. p = [state |-> t, gas |-> data + GasTx, err |-> "none"]
      BY <1>3, <1>16, <2>2 DEF t
    <3>4. data + GasTx \in Int
      BY <1>2 DEF GasTx
    <3>5. p.state = t /\ p.gas \in Int /\ p.err = "none"
      BY <3>3, <3>4
    <3>6. Processed(st, tx, p)
      BY <2>1, <3>2, <3>5 DEF Processed
    <3> QED
      BY <3>6 DEF p
  <2>3. CASE tx.to # tx.from
    <3> DEFINE t == UpdateStateObject(st3, paid(Total(tx)))
    <3>1. \A a : Nonce(st3.trie, a) = Nonce(st.trie, a)
      BY <1>4, <1>6, <1>8, <1>10 DEF NonceSet
    <3>2. /\ Good(t) /\ Wider(st, t) /\ tx.from \in DOMAIN t.trie
          /\ \A a : Nonce(t.trie, a) = IF a = tx.from THEN Nonce(st.trie, tx.from) + 1
                                       ELSE Nonce(st.trie, a)
      BY <1>2, <1>9, <1>12, <3>1
    <3> HIDE DEF t
    <3>3. p = [state |-> t, gas |-> data + 0, err |-> "none"]
      BY <1>3, <1>16, <2>3 DEF t
    <3>4. data + 0 \in Int
      BY <1>2
    <3>5. p.state = t /\ p.gas \in Int /\ p.err = "none"
      BY <3>3, <3>4
    <3>6. Processed(st, tx, p)
      BY <2>1, <3>2, <3>5 DEF Processed
    <3> QED
      BY <3>6 DEF p
  <2> QED
    BY <2>2, <2>3
<1> QED
  BY <1>14, <1>15, <1>16

\* The contract a transaction makes: its storage is the one the state names
\* for its address.
LEMMA MakeStateObjectType ==
  ASSUME NEW st, Good(st), NEW tx \in Transaction, AddressesAreNumbers,
         NEW made, made = MakeStateObject(st, tx)
  PROVE  /\ Good(made.state) /\ Wider(st, made.state) /\ made.object \in Object
         /\ made.object.store \in 1 .. Len(made.state.heap)
         /\ made.object.addr = CreateAddress(tx.from, tx.nonce)
         /\ NonceSet(st, made.state, made.object.addr, 0)
<1> DEFINE a == CreateAddress(tx.from, tx.nonce)
           contract == NewContract(st, a, tx.value)
           st0 == WithStore(st, NoItems)
           st1 == UpdateStateObject(st0, contract)
           states == With(st1.states, contract.addr, contract.store)
           st2 == [st1 EXCEPT !.states = states]
<1>1. made = [state |-> st2, object |-> contract]
  BY Zenon DEF MakeStateObject
<1>2. tx.from \in Nat /\ tx.nonce \in Nat /\ tx.value \in Int
  BY DEF Transaction
<1>3. a \in Nat
  BY <1>2 DEF AddressesAreNumbers
<1> HIDE DEF a
<1>4. /\ contract \in Object /\ contract.addr = a /\ contract.nonce = 0
      /\ contract.store = Len(st.heap) + 1
  BY <1>2, <1>3, NewContractType
<1>5. Good(st0) /\ st0.trie = st.trie /\ Extends(st, st0) /\ Len(st0.heap) = Len(st.heap) + 1
  BY NoItemsType, WithStoreGood
<1> HIDE DEF contract, st0
<1>6. contract.store \in 0 .. Len(st0.heap) /\ contract.store \in 1 .. Len(st0.heap)
  <2>1. Len(st.heap) \in Nat
    BY StateParts DEF Good
  <2> QED
    BY <1>4, <1>5, <2>1
<1>7. Good(st1) /\ st1.heap = st0.heap
  BY <1>4, <1>5, <1>6, UpdateGood
<1>8. NonceSet(st0, st1, contract.addr, contract.nonce)
  BY <1>4, <1>5, <1>6, UpdateNonce
<1> HIDE DEF st1
<1>9. /\ states \in Partial(Nat) /\ DOMAIN states = DOMAIN st1.states \cup {contract.addr}
      /\ \A b \in DOMAIN st1.states \cup {contract.addr} :
            states[b] = IF b = contract.addr THEN contract.store ELSE st1.states[b]
  <2>1. st1.states \in Partial(Nat) /\ contract.addr \in Nat /\ contract.store \in Nat
    BY <1>4, <1>7, StateParts DEF Good, Object
  <2>2. With(st1.states, contract.addr, contract.store) \in Partial(Nat)
    BY <2>1, WithPartial
  <2> QED
    BY <2>2 DEF With, states
<1> HIDE DEF states
<1>10. /\ st2 \in State /\ st2.states = states /\ st2.heap = st1.heap /\ st2.trie = st1.trie
  BY <1>7, <1>9 DEF Good, State
<1> HIDE DEF st2
<1>11. Good(st2)
  <2>1. IsFiniteSet(DOMAIN states)
    BY <1>7, <1>9, FS_AddElement DEF Good
  <2>2. \A b \in DOMAIN states : states[b] \in 1 .. Len(st2.heap)
    BY <1>6, <1>7, <1>9, <1>10 DEF Good
  <2> QED
    BY <1>10, <2>1, <2>2 DEF Good
<1>12. Wider(st, st2) /\ contract.store \in 1 .. Len(st2.heap)
  BY <1>5, <1>6, <1>7, <1>10 DEF Extends, Wider
<1>13. NonceSet(st, st2, a, 0)
  BY <1>4, <1>5, <1>8, <1>10 DEF NonceSet
<1> QED
  BY <1>1, <1>4, <1>11, <1>12, <1>13 DEF a

\* The first closure of a transaction, in the state st.
Starts(f, tx, st) ==
    /\ f \in Closure /\ f.kind = "tx" /\ f.callee = 0 /\ f.resume = [tx |-> tx]
    /\ f.object.store \in 1 .. Len(st.heap)
    /\ f.gas = tx.gas /\ f.limit = tx.gas /\ f.used = 0
    /\ f.object.nonce = Nonce(st.trie, f.object.addr)

\* What the transaction does to the nonces: nothing, or it is the next one of
\* its sender and counts.
Counts(tx) ==
    \/ /\ processed' = processed
       /\ \A a \in Senders : Nonce(state'.trie, a) = Nonce(state.trie, a)
    \/ /\ processed' = Append(processed, <<tx.from, tx.nonce>>)
       /\ tx.nonce = Nonce(state.trie, tx.from)
       /\ \A a \in Senders : Nonce(state'.trie, a) = IF a = tx.from THEN tx.nonce + 1
                                                     ELSE Nonce(state.trie, a)

\* A transaction has been looked at: it runs, or it is over.
Applies(tx) ==
    /\ Good(state') /\ Wider(state, state')
    /\ burnt' = 0 /\ returned' = 0 /\ txGas' \in Int
    /\ receipts' \in Seq(ReceiptType) /\ processed' \in Seq(Nat \X Nat)
    /\ NoCollision => Counts(tx)
    /\ \/ /\ phase' = "apply" /\ txs' = Tail(txs) /\ frames' = frames /\ account' = account
       \/ /\ phase' = "crashed" /\ txs' = txs /\ frames' = frames
          /\ account' \in Object /\ account'.store \in 0 .. Len(state'.heap)
       \/ /\ phase' = "run" /\ txs' = txs
          /\ account' \in Object /\ account'.store \in 0 .. Len(state'.heap)
          /\ account'.addr = tx.from /\ account'.nonce = Nonce(state'.trie, tx.from)
          /\ \E f : Starts(f, tx, state') /\ frames' = <<f>>

\* The stack a transaction starts with.
LEMMA StackOfOne ==
  ASSUME NEW f, NEW tx \in Transaction, Starts(f, tx, state'), frames' = <<f>>
  PROVE  /\ StackInv' /\ frames' # <<>> /\ Len(frames') = 1 /\ frames'[1] = f
<1>1. f \in Closure
  BY DEF Starts
<1>2. <<f>> \in Seq(Closure) /\ Len(<<f>>) = 1 /\ <<f>>[1] = f /\ <<f>> # <<>>
  BY <1>1
<1>3. Shape(frames', 1)
  BY <1>2 DEF Starts, Shape, TxResume
<1>4. Housed(frames'[1], state')
  BY <1>2 DEF Starts, Housed
<1> QED
  BY <1>2, <1>3, <1>4 DEF StackInv

\* The transaction at the head of the block.
LEMMA HeadOfTxs ==
  ASSUME LedgerInv, txs # <<>>
  PROVE  Head(txs) \in Transaction /\ Head(txs).from \in Senders
<1>1. txs \in Seq(Transaction) /\ \A i \in 1 .. Len(txs) : txs[i].from \in Senders
  BY DEF LedgerInv
<1>2. Head(txs) \in Transaction /\ Head(txs) = txs[1] /\ 1 \in 1 .. Len(txs)
  <2>1. Len(txs) \in Nat /\ Len(txs) # 0
    BY <1>1, EmptySeq, LenProperties
  <2> QED
    BY <1>1, <2>1, HeadTailProperties
<1> QED
  BY <1>1, <1>2

\* ApplyTransaction, up to the first instruction, does what Applies says:
\* it skips the transaction, stops at the second payment, or starts its
\* closure.
LEMMA ApplyTransactionApplies ==
  ASSUME TypeInv, AddressesAreNumbers, ApplyTransaction
  PROVE  txs # <<>> /\ frames = <<>> /\ Applies(Head(txs))
<1> DEFINE tx == Head(txs)
           p == ProcessTransaction(state, tx)
           st1 == AfterGet(p.state, tx.to)
           made == MakeStateObject(p.state, tx)
           object == IF tx.creates THEN made.object ELSE GetStateObject(p.state, tx.to)
           st == IF tx.creates THEN made.state ELSE st1
           script == IF tx.creates THEN tx.data ELSE object.code
           sender == GetAccount(st, tx.from)
           runs == /\ p.err = "none"
                   /\ tx.creates \/ (Exists(p.state, tx.to) /\ object.code # <<>>)
           paysTwice == GasCost(tx) > sender.amount
           last == AfterGet(st, tx.from)
           left == IF tx.creates THEN p.state ELSE st1
           keeps == p.err = "nonce" /\ ~tx.creates
           charged == [sender EXCEPT !.amount = @ - GasCost(tx)]
           closure == NewClosure("tx", 0, tx.from, object, script, tx.data, tx.gas, [tx |-> tx])
<1>1. /\ phase = "apply" /\ txs # <<>> /\ burnt' = 0 /\ returned' = 0
      /\ processed' = IF p.err = "none"
                      THEN Append(processed, <<tx.from, tx.nonce>>) ELSE processed
      /\ txs' = IF runs THEN txs ELSE Tail(txs)
      /\ phase' = IF ~runs THEN "apply" ELSE IF paysTwice THEN "crashed" ELSE "run"
      /\ state' = IF ~runs THEN left ELSE last
      /\ receipts' = IF runs \/ keeps THEN receipts ELSE Append(receipts, Receipt(tx, p.gas))
      /\ txGas' = IF runs THEN p.gas ELSE 0
      /\ account' = IF runs THEN charged ELSE account
      /\ frames' = IF runs /\ ~paysTwice THEN <<closure>> ELSE frames
  BY Zenon DEF ApplyTransaction
<1>2. /\ frames = <<>> /\ tx \in Transaction /\ tx.from \in Senders
      /\ Good(state) /\ receipts \in Seq(ReceiptType) /\ txs # <<>>
  <2>1. txs # <<>> /\ LedgerInv /\ frames = <<>>
    BY <1>1 DEF TypeInv, LedgerInv
  <2> QED
    BY <2>1, HeadOfTxs DEF TypeInv, LedgerInv
<1> HIDE DEF tx
<1>3. /\ tx.from \in Nat /\ tx.to \in Nat /\ tx.gas \in Nat /\ tx.price \in Nat
      /\ tx.data \in Seq(Byte) /\ tx.creates \in BOOLEAN /\ tx.nonce \in Nat /\ tx.gas \in Int
  BY <1>2 DEF Transaction
<1>4. GasCost(tx) \in Int
  <2>1. tx.gas * tx.price \in Int
    BY <1>3
  <2> QED
    BY <2>1 DEF GasCost
<1>5. Processed(state, tx, p)
  BY <1>2, ProcessTransactionType
<1> HIDE DEF p
<1>6. Good(p.state) /\ Wider(state, p.state) /\ p.gas \in Int /\ p.err \in {"nonce", "funds", "none"}
  BY <1>5 DEF Processed
<1>7. Good(st1) /\ st1.trie = p.state.trie /\ Extends(p.state, st1)
      /\ (Exists(p.state, tx.to) => Len(st1.heap) = Len(p.state.heap) + 1)
  BY <1>6, AfterGetGood
<1>8. /\ Good(made.state) /\ Wider(p.state, made.state) /\ made.object \in Object
      /\ made.object.store \in 1 .. Len(made.state.heap)
      /\ made.object.addr = CreateAddress(tx.from, tx.nonce)
      /\ NonceSet(p.state, made.state, made.object.addr, 0)
      /\ made.object.nonce = 0
  <2>1. made.object.nonce = 0
    BY Zenon DEF MakeStateObject, NewContract
  <2> HIDE DEF made
  <2>2. made = MakeStateObject(p.state, tx)
    BY DEF made
  <2> QED
    BY <1>2, <1>6, <2>1, <2>2, MakeStateObjectType
<1> HIDE DEF made, st1
<1>0. processed' \in Seq(Nat \X Nat)
  <2>1. processed \in Seq(Nat \X Nat) /\ <<tx.from, tx.nonce>> \in Nat \X Nat
    BY <1>3 DEF TypeInv, LedgerInv
  <2>2. Append(processed, <<tx.from, tx.nonce>>) \in Seq(Nat \X Nat)
    BY <2>1, AppendProperties
  <2> QED
    BY <1>1, <2>1, <2>2
<1>9. CASE ~runs
  <2>1. /\ txs' = Tail(txs) /\ phase' = "apply" /\ state' = left /\ txGas' = 0
        /\ account' = account /\ frames' = frames
        /\ receipts' = IF keeps THEN receipts ELSE Append(receipts, Receipt(tx, p.gas))
    BY <1>1, <1>9
  <2> HIDE DEF runs, keeps, script, object, closure, charged, paysTwice, last, st, sender
  <2>2. receipts' \in Seq(ReceiptType)
    <3>1. Receipt(tx, p.gas) \in ReceiptType
      BY <1>2, <1>6, ReceiptGood
    <3> QED
      BY <1>2, <2>1, <3>1, AppendProperties
  <2>3. Good(left) /\ left.trie = p.state.trie /\ Wider(p.state, left)
    <3>1. Wider(p.state, p.state)
      BY <1>6, StateParts DEF Good, Wider
    <3> QED
      BY <1>3, <1>6, <1>7, <3>1 DEF Extends
  <2> HIDE DEF left
  <2>4. Good(state') /\ Wider(state, state') /\ state'.trie = p.state.trie
    <3>1. /\ Len(state.heap) \in Nat /\ Len(p.state.heap) \in Nat /\ Len(left.heap) \in Nat
      BY <1>2, <1>6, <2>3, StateParts DEF Good
    <3> QED
      BY <1>6, <2>1, <2>3, <3>1 DEF Wider
  <2>5. Counts(tx)
    BY <1>1, <1>5, <2>4 DEF Processed, Counts
  <2>6. Applies(tx)
    BY <1>0, <1>1, <2>1, <2>2, <2>4, <2>5 DEF Applies
  <2> QED
    BY <1>2, <2>6 DEF tx
<1>10. CASE runs
  <2>1. /\ p.err = "none"
        /\ tx.creates \/ Exists(p.state, tx.to)
    BY <1>10
  <2>2. /\ txs' = txs /\ state' = last /\ txGas' = p.gas /\ receipts' = receipts
        /\ phase' = IF paysTwice THEN "crashed" ELSE "run"
        /\ account' = charged /\ frames' = IF ~paysTwice THEN <<closure>> ELSE frames
        /\ processed' = Append(processed, <<tx.from, tx.nonce>>)
    BY <1>1, <1>10
  <2> HIDE DEF runs, keeps, left
  <2>3. /\ object \in Object /\ Good(st) /\ Wider(p.state, st)
        /\ object.store \in 1 .. Len(st.heap)
        /\ object.nonce = Nonce(st.trie, object.addr)
        /\ NoCollision => \A a \in Senders : Nonce(st.trie, a) = Nonce(p.state.trie, a)
    <3>1. CASE tx.creates
      <4>1. object = made.object /\ st = made.state
        BY <3>1
      <4>2. NoCollision => made.object.addr \notin Senders
        BY <1>3, <1>8 DEF NoCollision
      <4> HIDE DEF object, st
      <4> QED
        BY <1>8, <4>1, <4>2 DEF NonceSet
    <3>2. CASE ~tx.creates
      <4> DEFINE o == GetStateObject(p.state, tx.to)
      <4>1. object = o /\ st = st1
        BY <3>2
      <4>2. Exists(p.state, tx.to)
        BY <2>1, <3>2
      <4>3. /\ o \in Object /\ o.addr = tx.to /\ o.nonce = p.state.trie[tx.to].nonce
            /\ o.store \in 1 .. Len(p.state.heap) + 1
        BY <1>6, <4>2, GetStateObjectType
      <4> HIDE DEF o, object, st
      <4>4. o.nonce = Nonce(st1.trie, o.addr)
        BY <1>7, <4>2, <4>3 DEF Nonce, Exists
      <4>5. o.store \in 1 .. Len(st1.heap)
        BY <1>7, <4>2, <4>3
      <4> QED
        BY <1>7, <4>1, <4>3, <4>4, <4>5 DEF Extends
    <3> QED
      BY <1>3, <3>1, <3>2
  <2>4. script \in Seq(Byte)
    <3>1. object.code \in Seq(Byte)
      BY <2>3 DEF Object
    <3> HIDE DEF object
    <3> QED
      BY <1>3, <3>1
  <2> HIDE DEF object, st, script
  <2>5. Good(last) /\ last.trie = st.trie /\ Extends(st, last)
    BY <2>3, AfterGetGood
  <2>6. /\ sender \in Object /\ sender.addr = tx.from
        /\ sender.nonce = Nonce(st.trie, tx.from) /\ sender.store \in 0 .. Len(last.heap)
    BY <1>3, <2>3, GetAccountType DEF Nonce, Exists
  <2> HIDE DEF sender, last
  <2>7. /\ charged \in Object /\ charged.addr = tx.from
        /\ charged.nonce = Nonce(st.trie, tx.from) /\ charged.store \in 0 .. Len(last.heap)
    <3>1. sender.amount - GasCost(tx) \in Int
      BY <1>4, <2>6 DEF Object
    <3> QED
      BY <2>6, <3>1 DEF Object
  <2> HIDE DEF charged
  <2>8. Starts(closure, tx, last)
    <3> DEFINE resume == [tx |-> tx]
    <3>1. resume \in TxResume \cup CallResume \cup CreateResume
      BY <1>2 DEF TxResume
    <3> HIDE DEF resume
    <3>2. "tx" \in {"tx", "call", "create"} /\ 0 \in Nat
      OBVIOUS
    <3>3. closure = NewClosure("tx", 0, tx.from, object, script, tx.data, tx.gas, resume)
      BY DEF resume
    <3> HIDE DEF closure
    <3>4. /\ closure \in Closure /\ closure.kind = "tx" /\ closure.callee = 0
          /\ closure.object = object /\ closure.gas = tx.gas /\ closure.used = 0
          /\ closure.limit = tx.gas /\ closure.resume = resume
      BY <1>3, <2>3, <2>4, <3>1, <3>2, <3>3, NewClosureType
    <3>5. object.store \in 1 .. Len(last.heap)
      BY <2>3, <2>5, StoreKept DEF Extends
    <3> QED
      BY <2>3, <2>5, <3>4, <3>5 DEF Starts, resume
  <2> HIDE DEF closure
  <2>9. Good(state') /\ Wider(state, state') /\ state'.trie = st.trie
    <3>1. /\ Len(state.heap) \in Nat /\ Len(p.state.heap) \in Nat /\ Len(st.heap) \in Nat
          /\ Len(last.heap) \in Nat
      BY <1>2, <1>6, <2>3, <2>5, StateParts DEF Good
    <3> QED
      BY <1>6, <2>2, <2>3, <2>5, <3>1 DEF Wider, Extends
  <2>10. NoCollision => Counts(tx)
    <3>1. ASSUME NoCollision
          PROVE  \A a \in Senders : Nonce(state'.trie, a) = Nonce(p.state.trie, a)
      BY <2>3, <2>9, <3>1
    <3>2. /\ tx.nonce = Nonce(state.trie, tx.from)
          /\ \A a : Nonce(p.state.trie, a) = IF a = tx.from THEN tx.nonce + 1
                                              ELSE Nonce(state.trie, a)
      <4>1. p.err = "none"
        BY <2>1
      <4>2. p.err \notin {"nonce", "funds"}
        BY <4>1
      <4> QED
        BY <1>5, <4>2 DEF Processed
    <3>3. ASSUME NoCollision
          PROVE  \A a \in Senders : Nonce(state'.trie, a) =
                                       IF a = tx.from THEN tx.nonce + 1 ELSE Nonce(state.trie, a)
      BY <3>1, <3>2, <3>3
    <3> QED
      BY <2>2, <3>2, <3>3 DEF Counts
  <2>11. /\ account' \in Object /\ account'.store \in 0 .. Len(state'.heap)
         /\ account'.addr = tx.from /\ account'.nonce = Nonce(state'.trie, tx.from)
    BY <2>2, <2>7, <2>9
  <2>12. receipts' \in Seq(ReceiptType) /\ txGas' \in Int
    BY <1>2, <1>6, <2>2
  <2>13. CASE paysTwice
    <3>1. phase' = "crashed" /\ frames' = frames
      BY <2>2, <2>13
    <3> HIDE DEF paysTwice
    <3>2. Applies(tx)
      BY <1>0, <1>1, <2>2, <2>9, <2>10, <2>11, <2>12, <3>1 DEF Applies
    <3> QED
      BY <1>2, <3>2 DEF tx
  <2>14. CASE ~paysTwice
    <3>1. phase' = "run" /\ frames' = <<closure>>
      BY <2>2, <2>14
    <3> HIDE DEF paysTwice
    <3>2. Starts(closure, tx, state')
      BY <2>2, <2>8
    <3>3. Applies(tx)
      BY <1>0, <1>1, <2>2, <2>9, <2>10, <2>11, <2>12, <3>1, <3>2 DEF Applies
    <3> QED
      BY <1>2, <3>3 DEF tx
  <2> QED
    BY <2>13, <2>14
<1> QED
  BY <1>9, <1>10

\* The reward of the coinbase is a number.
LEMMA CalculateBlockRewardType ==
  ASSUME receipts \in Seq(ReceiptType)
  PROVE  CalculateBlockReward \in Int
<1> DEFINE n == Len(receipts)
           first == Len(Uncles) * UncleInclusionReward + BlockReward
           step == [p \in Int \X (1 .. n) |-> p[1] + receipts[p[2]].used + receipts[p[2]].tx.price]
           Def(g) == [i \in 0 .. n |-> IF i = 0 THEN first
                                       ELSE g[i - 1] + receipts[i].used + receipts[i].tx.price]
           G == CHOOSE g : g = Def(g)
<1>1. /\ n \in Nat /\ \A k \in 1 .. n : receipts[k].used \in Int /\ receipts[k].tx.price \in Int
  <2>1. n \in Nat /\ \A k \in 1 .. n : receipts[k] \in ReceiptType
    BY ElementOfSeq, LenProperties
  <2> HIDE DEF n
  <2>2. ASSUME NEW k \in 1 .. n
        PROVE  receipts[k].used \in Int /\ receipts[k].tx.price \in Int
    <3> DEFINE r == receipts[k]
    <3>1. r \in ReceiptType
      BY <2>1
    <3> HIDE DEF r
    <3>2. r.used \in Int /\ r.tx \in Transaction
      BY <3>1 DEF ReceiptType
    <3> DEFINE t == r.tx
    <3>3. t \in Transaction
      BY <3>2
    <3> HIDE DEF t
    <3>4. t.price \in Int
      BY <3>3 DEF Transaction
    <3> QED
      BY <3>2, <3>4 DEF r, t
  <2> QED
    BY <2>1, <2>2
<1>2. first \in Int
  <2>1. Len(Uncles) \in Int /\ UncleInclusionReward \in Int /\ BlockReward \in Int
    BY BlockAssumption, LenProperties
  <2>2. Len(Uncles) * UncleInclusionReward \in Int
    BY <2>1
  <2> QED
    BY <2>1, <2>2
<1> HIDE DEF first
<1>3. step \in [Int \X (1 .. n) -> Int]
  BY <1>1
<1>4. \E g : g = Def(g)
  <2>1. HasRounds(Int, n, first, step)
    <3> HIDE DEF n, step
    <3> QED
      BY <1>1, <1>2, <1>3, RoundsExist
  <2>2. PICK h \in [0 .. n -> Int] : Rounds(h, n, first, step)
    BY <2>1, Zenon DEF HasRounds
  <2>3. ASSUME NEW k \in 0 .. n
        PROVE  h[k] = IF k = 0 THEN first ELSE h[k - 1] + receipts[k].used + receipts[k].tx.price
    <3>1. k # 0 => k \in 1 .. n /\ k - 1 \in 0 .. n
      BY <1>1
    <3> HIDE DEF n
    <3> QED
      BY <2>2, <3>1 DEF Rounds
  <2>4. h = Def(h)
    BY <2>3
  <2> QED
    BY <2>4
<1>5. G = Def(G)
  <2> HIDE DEF Def
  <2> QED
    BY <1>4, Zenon
<1>6. CalculateBlockReward = G[n]
  BY Zenon DEF CalculateBlockReward, Iterate, first
<1> HIDE DEF G, n
<1>7. G[0] = first /\ \A k \in 1 .. n : G[k] = G[k - 1] + receipts[k].used + receipts[k].tx.price
  BY <1>1, <1>5
<1> DEFINE S == {k \in Nat : G[k] \in Int}
<1>8. \A k \in 0 .. n : k \in S
  <2>1. 0 \in S
    BY <1>2, <1>7
  <2>2. ASSUME NEW k \in 1 .. n, k - 1 \in S
        PROVE  k \in S
    <3>1. G[k - 1] \in Int /\ receipts[k].used \in Int /\ receipts[k].tx.price \in Int /\ k \in Nat
      BY <1>1, <2>2
    <3>2. G[k] = G[k - 1] + receipts[k].used + receipts[k].tx.price
      BY <1>7
    <3> QED
      BY <3>1, <3>2
  <2> HIDE DEF S
  <2> QED
    BY <1>1, <2>1, <2>2, PrefixInduction
<1> QED
  BY <1>1, <1>6, <1>8

\* Two credits are one.
LEMMA CreditsTrans ==
  ASSUME NEW st, Good(st), NEW t, NEW u, Credits(st, t), Credits(t, u)
  PROVE  Credits(st, u)
<1>1. /\ Good(t) /\ Good(u) /\ Extends(st, t) /\ Extends(t, u)
      /\ DOMAIN st.trie \subseteq DOMAIN t.trie /\ DOMAIN t.trie \subseteq DOMAIN u.trie
  BY DEF Credits
<1>2. Extends(st, u)
  BY <1>1, ExtendsTrans
<1>3. \A a \in DOMAIN u.trie :
         u.trie[a].nonce = IF a \in DOMAIN st.trie THEN st.trie[a].nonce ELSE 0
  BY <1>1 DEF Credits
<1>4. ASSUME NEW a \in DOMAIN u.states
      PROVE  \/ a \in DOMAIN st.states /\ u.states[a] = st.states[a]
             \/ u.states[a] > Len(st.heap)
  <2>1. \/ a \in DOMAIN t.states /\ u.states[a] = t.states[a]
        \/ u.states[a] > Len(t.heap)
    BY DEF Credits
  <2>2. CASE a \in DOMAIN t.states /\ u.states[a] = t.states[a]
    BY <2>2 DEF Credits
  <2>3. CASE u.states[a] > Len(t.heap)
    <3>1. Len(st.heap) \in Nat /\ Len(t.heap) \in Nat /\ Len(u.heap) \in Nat
      BY <1>1, StateParts DEF Good
    <3>2. u.states[a] \in Nat
      <4>1. u.states[a] \in 1 .. Len(u.heap)
        BY <1>1 DEF Good
      <4> QED
        BY <3>1, <4>1
    <3> QED
      BY <1>1, <2>3, <3>1, <3>2 DEF Extends, Wider
  <2> QED
    BY <2>1, <2>2, <2>3
<1> QED
  BY <1>1, <1>2, <1>3, <1>4 DEF Credits

\* The rewards are paid one after the other.
LEMMA RewardsCredit ==
  ASSUME TypeInv, AccumelateRewards
  PROVE  Credits(state, state')
<1> DEFINE n == Len(Uncles)
           V == {st \in State : Credits(state, st)}
           first == Reward(state, Coinbase, CalculateBlockReward)
           step == [p \in V \X (1 .. n) |-> Reward(p[1], Uncles[p[2]], UncleReward)]
           Def(g) == [i \in 0 .. n |-> IF i = 0 THEN first
                                       ELSE Reward(g[i - 1], Uncles[i], UncleReward)]
           G == CHOOSE g : g = Def(g)
<1>1. n \in Nat /\ \A k \in 1 .. n : Uncles[k] \in Nat
  BY BlockAssumption, ElementOfSeq, LenProperties
<1>2. Good(state) /\ receipts \in Seq(ReceiptType)
  BY DEF TypeInv, LedgerInv
<1>3. first \in V
  <2>1. Coinbase \in Nat /\ CalculateBlockReward \in Int
    BY <1>2, BlockAssumption, CalculateBlockRewardType
  <2>2. Credits(state, first)
    BY <1>2, <2>1, RewardCredits
  <2> HIDE DEF first
  <2> QED
    BY <2>2 DEF Credits, Good
<1> HIDE DEF first
<1>4. ASSUME NEW st \in V, NEW k \in 1 .. n
      PROVE  Reward(st, Uncles[k], UncleReward) \in V
  <2> DEFINE t == Reward(st, Uncles[k], UncleReward)
  <2>1. Credits(state, st) /\ Good(st)
    BY <1>4 DEF Credits
  <2>2. Uncles[k] \in Nat /\ UncleReward \in Int
    BY <1>1, BlockAssumption
  <2>3. Credits(st, t)
    BY <2>1, <2>2, RewardCredits
  <2> HIDE DEF t
  <2>4. Credits(state, t)
    BY <1>2, <2>1, <2>3, CreditsTrans
  <2>5. t \in V
    BY <2>4 DEF Credits, Good
  <2> QED
    BY <2>5 DEF t
<1>5. step \in [V \X (1 .. n) -> V]
  <2> HIDE DEF V, n
  <2> QED
    BY <1>4
<1>6. \E g : g = Def(g)
  <2>1. HasRounds(V, n, first, step)
    <3> HIDE DEF n, step, V
    <3> QED
      BY <1>1, <1>3, <1>5, RoundsExist
  <2>2. PICK h \in [0 .. n -> V] : Rounds(h, n, first, step)
    BY <2>1, Zenon DEF HasRounds
  <2>3. ASSUME NEW k \in 0 .. n
        PROVE  h[k] = IF k = 0 THEN first ELSE Reward(h[k - 1], Uncles[k], UncleReward)
    <3>1. k # 0 => k \in 1 .. n /\ k - 1 \in 0 .. n
      BY <1>1
    <3> HIDE DEF n, V
    <3>2. k # 0 => h[k - 1] \in V
      BY <3>1
    <3> QED
      BY <2>2, <3>1, <3>2 DEF Rounds
  <2> HIDE DEF V
  <2>4. h = Def(h)
    BY <2>3
  <2> QED
    BY <2>4
<1>7. G = Def(G)
  <2> HIDE DEF Def
  <2> QED
    BY <1>6, Zenon
<1>8. state' = G[n]
  BY SMT DEF AccumelateRewards, Iterate, first
<1> HIDE DEF G, n, V
<1>9. G[0] = first /\ \A k \in 1 .. n : G[k] = Reward(G[k - 1], Uncles[k], UncleReward)
  BY <1>1, <1>7
<1> DEFINE S == {k \in Nat : G[k] \in V}
<1>10. \A k \in 0 .. n : k \in S
  <2>1. 0 \in S
    BY <1>3, <1>9
  <2>2. ASSUME NEW k \in 1 .. n, k - 1 \in S
        PROVE  k \in S
    <3>1. G[k - 1] \in V /\ k \in Nat
      BY <1>1, <2>2
    <3>2. G[k] = Reward(G[k - 1], Uncles[k], UncleReward)
      BY <1>9
    <3> QED
      BY <1>4, <3>1, <3>2
  <2> HIDE DEF S
  <2> QED
    BY <1>1, <2>1, <2>2, PrefixInduction
<1>11. state' \in V
  BY <1>1, <1>8, <1>10
<1> QED
  BY <1>11 DEF V

-----------------------------------------------------------------------------
(* The invariant is inductive.                                             *)

Rewarded ==
    /\ frames = <<>> /\ Credits(state, state') /\ phase' = "done"
    /\ UNCHANGED <<txs, txGas, receipts, processed, machine>>

\* What every step of the specification is.
Moves ==
    \/ txs # <<>> /\ frames = <<>> /\ Applies(Head(txs))
    \/ frames # <<>> /\ \E c : Step(c)
    \/ Rewarded
    \/ UNCHANGED vars

\* Every action of the ledger, and stuttering, is one of the moves.
LEMMA NextMoves ==
  ASSUME TypeInv, HashesAreNumbers, AddressesAreNumbers, [Next]_vars
  PROVE  Moves
<1>1. CASE ApplyTransaction
  BY <1>1, ApplyTransactionApplies DEF Moves
<1>2. CASE RunClosure
  BY <1>2, RunClosureSteps DEF Moves
<1>3. CASE AccumelateRewards
  <2>1. Credits(state, state')
    BY <1>3, RewardsCredit
  <2>2. /\ phase = "apply" /\ phase' = "done"
        /\ UNCHANGED <<txs, txGas, receipts, processed, machine>>
    BY <1>3, Zenon DEF AccumelateRewards
  <2>3. frames = <<>>
    BY <2>2 DEF TypeInv, LedgerInv
  <2> QED
    BY <2>1, <2>2, <2>3 DEF Moves, Rewarded
<1>4. CASE UNCHANGED vars
  BY <1>4 DEF Moves
<1> QED
  BY <1>1, <1>2, <1>3, <1>4 DEF Next

\* The state before the block.
LEMMA InitType == Init => TypeInv /\ Solvent
<1> SUFFICES ASSUME Init
             PROVE  TypeInv /\ Solvent
  OBVIOUS
<1>1. /\ state = [trie |-> Genesis, states |-> [a \in {} |-> 0], heap |-> <<>>]
      /\ txs \in Bodies /\ phase = "apply" /\ frames = <<>> /\ account = Idle
      /\ txGas = 0 /\ receipts = <<>> /\ processed = <<>> /\ burnt = 0 /\ returned = 0
  BY DEF Init
<1> DEFINE none == [a \in {} |-> 0]
<1>2. none \in Partial(Nat) /\ DOMAIN none = {}
  <2>1. none \in [{} -> Nat] /\ {} \in SUBSET Nat
    OBVIOUS
  <2> HIDE DEF none
  <2> QED
    BY <2>1, PartialIntro
<1> HIDE DEF none
<1>3. Genesis \in Partial(Stored)
  <2>1. ASSUME NEW a \in DOMAIN Genesis
        PROVE  Genesis[a] \in Stored
    <3> DEFINE g == Genesis[a]
               roots == {Genesis[b].root : b \in DOMAIN Genesis}
    <3>1. g \in [amount : Nat, nonce : Nat, code : Seq(Byte), root : roots]
      BY GenesisAssumption
    <3>2. g.root \in [DOMAIN g.root -> Nat] /\ DOMAIN g.root \in SUBSET Nat
      BY GenesisAssumption
    <3> HIDE DEF g, roots
    <3>3. g.root \in Items
      BY <3>2, PartialIntro DEF Items
    <3>4. g \in Stored
      BY <3>1, <3>3 DEF Stored
    <3> QED
      BY <3>4 DEF g
  <2>2. Genesis \in [DOMAIN Genesis -> Stored] /\ DOMAIN Genesis \in SUBSET Nat
    BY <2>1, GenesisAssumption
  <2> QED
    BY <2>2, PartialIntro
<1>4. <<>> \in Seq(Items) /\ Len(<<>>) = 0
  BY EmptySeq
<1>5. Good(state)
  <2>1. state.states = none /\ state.trie = Genesis /\ state.heap = <<>> /\ state \in State
    BY <1>1, <1>2, <1>3, <1>4 DEF State, none
  <2> QED
    BY <1>2, <2>1, FS_EmptySet DEF Good
<1>6. StackInv /\ Solvent
  BY <1>1, EmptySeq DEF StackInv, Solvent
<1>7. txs \in Seq(Transaction) /\ \A i \in 1 .. Len(txs) : txs[i].from \in Senders
  <2>1. txs \in Seq(Transaction)
    BY <1>1, BodyAssumption
  <2>2. DOMAIN txs = 1 .. Len(txs)
    BY <2>1, LenProperties
  <2> QED
    BY <1>1, <2>1, <2>2 DEF Senders
<1>8. LedgerInv
  <2>1. <<>> \in Seq(ReceiptType) /\ <<>> \in Seq(Nat \X Nat) /\ 0 \in Int /\ 0 \in Nat
    BY EmptySeq
  <2> QED
    BY <1>1, <1>7, <2>1, IdleType DEF LedgerInv
<1>9. AccountInv
  BY <1>1, <1>4 DEF AccountInv, Idle
<1> QED
  BY <1>5, <1>6, <1>8, <1>9 DEF TypeInv

\* Taking up a transaction keeps the types.
LEMMA AppliesType ==
  ASSUME TypeInv, txs # <<>>, frames = <<>>, Applies(Head(txs))
  PROVE  TypeInv'
<1> DEFINE tx == Head(txs)
<1>1. tx \in Transaction /\ LedgerInv /\ StackInv
  BY HeadOfTxs DEF TypeInv
<1>2. Applies(tx)
  OBVIOUS
<1> HIDE DEF tx
<1>3. Good(state') /\ Wider(state, state')
  BY <1>2 DEF Applies
<1>4. CASE /\ phase' = "apply" /\ txs' = Tail(txs) /\ frames' = frames /\ account' = account
  <2>1. StackInv'
    BY <1>4, EmptySeq DEF StackInv
  <2>2. LedgerInv'
    <3>1. txs' \in Seq(Transaction) /\ \A i \in 1 .. Len(txs') : txs'[i].from \in Senders
      BY <1>1, <1>4, TailOfTxs
    <3>2. account' \in Object /\ burnt' \in Int /\ returned' \in Nat
      BY <1>1, <1>2, <1>4 DEF LedgerInv, Applies
    <3> QED
      BY <1>2, <1>4, <3>1, <3>2 DEF LedgerInv, Applies
  <2>3. AccountInv'
    BY <1>3, <1>4, AccountKept
  <2> QED
    BY <1>3, <2>1, <2>2, <2>3 DEF TypeInv
<1>5. CASE /\ phase' = "crashed" /\ txs' = txs /\ frames' = frames
           /\ account' \in Object /\ account'.store \in 0 .. Len(state'.heap)
  <2>1. StackInv'
    BY <1>5, EmptySeq DEF StackInv
  <2>2. burnt' \in Int /\ returned' \in Nat
    BY <1>2 DEF Applies
  <2>3. LedgerInv'
    BY <1>1, <1>2, <1>5, <2>2 DEF LedgerInv, Applies
  <2>4. AccountInv'
    BY <1>5 DEF AccountInv
  <2> QED
    BY <1>3, <2>1, <2>3, <2>4 DEF TypeInv
<1>6. CASE /\ phase' = "run" /\ txs' = txs
           /\ account' \in Object /\ account'.store \in 0 .. Len(state'.heap)
           /\ \E f : Starts(f, tx, state') /\ frames' = <<f>>
  <2>1. StackInv' /\ frames' # <<>>
    BY <1>1, <1>6, StackOfOne
  <2>2. burnt' \in Int /\ returned' \in Nat
    BY <1>2 DEF Applies
  <2>3. LedgerInv'
    BY <1>1, <1>2, <1>6, <2>1, <2>2 DEF LedgerInv, Applies
  <2>4. AccountInv'
    BY <1>6 DEF AccountInv
  <2> QED
    BY <1>3, <2>1, <2>3, <2>4 DEF TypeInv
<1> QED
  BY <1>2, <1>4, <1>5, <1>6 DEF Applies

\* Every move keeps the types: a transaction taken up, the four kinds of
\* steps, the rewards.
LEMMA MovesType ==
  ASSUME TypeInv, Solvent, Moves
  PROVE  TypeInv'
<1>1. CASE txs # <<>> /\ frames = <<>> /\ Applies(Head(txs))
  BY <1>1, AppliesType
<1>2. CASE frames # <<>> /\ \E c : Step(c)
  BY <1>2, StaysType, EntersType, ReturnsType, EndsType DEF Step
<1>3. CASE Rewarded
  <2>1. Good(state') /\ Wider(state, state')
    BY <1>3 DEF Rewarded, Credits, Extends
  <2>2. /\ frames' = frames /\ frames = <<>> /\ account' = account /\ burnt' = burnt
        /\ returned' = returned /\ txs' = txs /\ txGas' = txGas /\ receipts' = receipts
        /\ processed' = processed /\ phase' = "done"
    BY <1>3 DEF Rewarded, machine
  <2>3. StackInv'
    BY <2>2, EmptySeq DEF StackInv
  <2>4. LedgerInv'
    BY <2>2 DEF TypeInv, LedgerInv
  <2>5. AccountInv'
    BY <2>1, <2>2, AccountKept
  <2> QED
    BY <2>1, <2>3, <2>4, <2>5 DEF TypeInv
<1>4. CASE UNCHANGED vars
  BY <1>4 DEF vars, ledger, machine, TypeInv, StackInv, LedgerInv, AccountInv, Inner
<1> QED
  BY <1>1, <1>2, <1>3, <1>4 DEF Moves

\* Solvent, for the frame in place i of a stack.
Sound(fr, i) ==
    /\ fr[i].gas + fr[i].used = fr[i].limit
    /\ fr[i].gas < 0 => /\ i = Len(fr) /\ fr[i].used = 0
                        /\ fr[i].stack = <<>> /\ fr[i].kind = "call"
                        /\ fr[i - 1].gas + fr[i].gas >= 0

\* Solvency, frame by frame.
LEMMA SolventSound ==
  /\ Solvent <=> \A i \in 1 .. Len(frames) : Sound(frames, i)
  /\ Solvent' <=> \A i \in 1 .. Len(frames') : Sound(frames', i)
BY DEF Solvent, Sound

\* All but the innermost closure can pay.
LEMMA BelowSolvent ==
  ASSUME TypeInv, Solvent, frames # <<>>, NEW i \in 1 .. Inner, i # Inner
  PROVE  frames[i].gas \in Int /\ frames[i].gas >= 0
<1>1. Inner = Len(frames) /\ frames[i] \in Closure
  BY TopFrame DEF TypeInv
<1>2. frames[i].gas \in Int
  BY <1>1 DEF Closure
<1>3. ~(frames[i].gas < 0)
  BY <1>1 DEF Solvent
<1> QED
  BY <1>2, <1>3

\* A step that stays in its closure is paid out of its gas.
LEMMA StaysSolvent ==
  ASSUME TypeInv, Solvent, frames # <<>>, NEW c, Pays(Frame, c), Stays(c)
  PROVE  Solvent'
<1>1. /\ frames' \in Seq(Closure) /\ Len(frames') = Inner
      /\ KeepsGas(c, frames'[Inner]) /\ \A i \in 1 .. Inner : i # Inner => frames'[i] = frames[i]
  BY StaysFrames
<1>2. Inner = Len(frames) /\ Frame = frames[Inner] /\ Inner \in 1 .. Inner /\ Inner \in Nat
  BY TopFrame DEF TypeInv
<1> DEFINE f == frames[Inner]
           g == frames'[Inner]
<1>3. /\ g.gas = c.gas /\ g.used = c.used /\ g.limit = f.limit /\ c.gas >= 0
      /\ c.gas + c.used = f.gas + f.used /\ c.gas \in Int
  BY <1>1, <1>2 DEF KeepsGas, Keeps, Pays, Stays, Closure
<1>4. f.gas + f.used = f.limit
  BY <1>2 DEF Solvent
<1>5. ASSUME NEW i \in 1 .. Inner
      PROVE  Sound(frames', i)
  <2>1. CASE i = Inner
    <3>1. g.gas + g.used = g.limit /\ ~(g.gas < 0)
      BY <1>3, <1>4
    <3> QED
      BY <2>1, <3>1 DEF Sound
  <2>2. CASE i # Inner
    <3>1. frames'[i] = frames[i]
      BY <1>1, <2>2
    <3>2. ~(frames[i].gas < 0)
      BY <2>2, BelowSolvent
    <3>3. frames[i].gas + frames[i].used = frames[i].limit
      BY <1>2 DEF Solvent
    <3> QED
      BY <3>1, <3>2, <3>3 DEF Sound
  <2> QED
    BY <2>1, <2>2
<1> QED
  BY <1>1, <1>5, SolventSound

\* What an entered closure has is taken from the one that calls it.
LEMMA EntersGas ==
  ASSUME TypeInv, frames # <<>>, NEW c, Pays(Frame, c), Enters(c)
  PROVE  \E g, e \in Closure :
            /\ frames' = Append([frames EXCEPT ![Inner] = g], e)
            /\ Keeps(c, g) /\ g.gas >= 0 /\ g.gas + e.gas = c.gas
            /\ g.gas + g.used = c.gas + c.used
            /\ e.used = 0 /\ e.limit = e.gas /\ e.stack = <<>>
            /\ e.kind = "call" \/ e.gas >= 0
            /\ c.gas >= 0
<1>1. PICK g \in Closure, e \in Closure, t \in State :
            /\ frames' = Append([frames EXCEPT ![Inner] = g], e)
            /\ Keeps(c, g) /\ g.gas >= 0 /\ g.gas + e.gas = c.gas
            /\ g.gas + g.used = c.gas + c.used
            /\ e.used = 0 /\ e.limit = e.gas /\ e.stack = <<>>
            /\ e.kind = "call" \/ e.gas >= 0
  BY DEF Enters
<1>2. c.gas >= 0
  BY DEF Pays, Enters
<1> QED
  BY <1>1, <1>2

\* A closure is only entered by one that keeps no debt; the debt may be the
\* new one's.
LEMMA EntersSolvent ==
  ASSUME TypeInv, Solvent, frames # <<>>, NEW c, Pays(Frame, c), Enters(c)
  PROVE  Solvent'
<1>1. PICK g \in Closure, e \in Closure :
            /\ frames' = Append([frames EXCEPT ![Inner] = g], e)
            /\ Keeps(c, g) /\ g.gas >= 0 /\ g.gas + e.gas = c.gas
            /\ g.gas + g.used = c.gas + c.used
            /\ e.used = 0 /\ e.limit = e.gas /\ e.stack = <<>>
            /\ e.kind = "call" \/ e.gas >= 0
            /\ c.gas >= 0
  BY EntersGas
<1> DEFINE n == Inner
<1>2. /\ Len(frames') = n + 1 /\ frames'[n + 1] = e /\ frames'[n] = g
      /\ \A i \in 1 .. n : i # n => frames'[i] = frames[i]
  BY <1>1, EntersFrames DEF Pays
<1>3. n = Len(frames) /\ Frame = frames[n] /\ n \in 1 .. n /\ n \in Nat /\ Frame \in Closure
  BY TopFrame DEF TypeInv
<1>4. /\ g.gas \in Int /\ g.used \in Int /\ e.gas \in Int /\ c.gas \in Int
      /\ g.limit = Frame.limit /\ c.gas + c.used = Frame.gas + Frame.used
  BY <1>1 DEF Closure, Keeps, Pays
<1>5. Frame.gas + Frame.used = Frame.limit
  BY <1>3 DEF Solvent
<1> HIDE DEF n
<1>6. Sound(frames', n + 1)
  <2>1. e.gas + e.used = e.limit
    BY <1>1, <1>4
  <2>2. e.gas < 0 => e.kind = "call" /\ g.gas + e.gas >= 0
    BY <1>1, <1>4
  <2>3. (n + 1) - 1 = n
    BY <1>3
  <2> QED
    BY <1>1, <1>2, <2>1, <2>2, <2>3 DEF Sound
<1>7. Sound(frames', n)
  <2>1. g.gas + g.used = g.limit /\ ~(g.gas < 0)
    BY <1>1, <1>4, <1>5
  <2> QED
    BY <1>2, <2>1 DEF Sound
<1>8. ASSUME NEW i \in 1 .. n + 1
      PROVE  Sound(frames', i)
  <2>1. i = n + 1 \/ i = n \/ (i \in 1 .. n /\ i # n)
    BY <1>3
  <2>2. CASE i \in 1 .. n /\ i # n
    <3>1. frames'[i] = frames[i]
      BY <1>2, <2>2
    <3>2. ~(frames[i].gas < 0)
      BY <2>2, BelowSolvent DEF n
    <3>3. frames[i].gas + frames[i].used = frames[i].limit
      BY <1>3, <2>2 DEF Solvent
    <3> QED
      BY <3>1, <3>2, <3>3 DEF Sound
  <2> QED
    BY <1>6, <1>7, <2>1, <2>2
<1> QED
  BY <1>2, <1>8, SolventSound

\* What a closure gives back was part of what it was given.
LEMMA ReturnsSolvent ==
  ASSUME TypeInv, Solvent, frames # <<>>, NEW c, Pays(Frame, c), Returns(c)
  PROVE  Solvent'
<1> DEFINE n == Inner
<1>1. /\ n > 1 /\ Len(frames') = n - 1
      /\ \A i \in 1 .. n - 1 :
          /\ Keeps(frames[i], frames'[i])
          /\ frames'[i].gas = frames[i].gas + Given(c, i)
          /\ frames'[i].used = frames[i].used - Given(c, i)
  BY DEF Returns, Pops
<1>2. /\ n = Len(frames) /\ Frame = frames[n] /\ n \in 1 .. n /\ n \in Nat /\ Frame \in Closure
      /\ Shape(frames, n) /\ \A i \in 1 .. n : frames[i] \in Closure
  BY TopFrame DEF TypeInv
<1>3. c.gas \in Int /\ c.callee = Frame.callee /\ Frame.gas \in Int
  BY <1>2 DEF Pays, Keeps, Closure
<1> HIDE DEF n
<1>4. ASSUME NEW i \in 1 .. n - 1
      PROVE  Sound(frames', i)
  <2>1. i \in 1 .. n /\ i # n
    BY <1>2
  <2>2. frames[i].gas \in Int /\ frames[i].used \in Int /\ frames[i].gas >= 0
    <3>1. frames[i] \in Closure
      BY <1>2, <2>1
    <3> QED
      BY <2>1, <3>1, BelowSolvent DEF n, Closure
  <2>3. Given(c, i) \in Int
    BY <1>3 DEF Given
  <2>4. frames[i].gas + frames[i].used = frames[i].limit /\ frames'[i].limit = frames[i].limit
    BY <1>1, <1>2, <2>1 DEF Solvent, Keeps
  <2>5. frames'[i].gas + frames'[i].used = frames'[i].limit
    BY <1>1, <2>2, <2>3, <2>4
  <2>6. frames[i].gas + Given(c, i) >= 0
    <3>1. CASE i # c.callee \/ c.gas >= 0
      BY <1>3, <2>2, <3>1 DEF Given
    <3>2. CASE i = c.callee /\ ~(c.gas >= 0)
      <4>1. Frame.gas < 0
        BY <1>3, <3>2 DEF Pays
      <4>2. /\ Frame.stack = <<>> /\ Frame.kind = "call"
            /\ frames[n - 1].gas + Frame.gas >= 0
        BY <1>2, <4>1 DEF Solvent
      <4>3. c.gas = Frame.gas
        BY <4>1, <4>2 DEF Pays
      <4>4. Frame.callee = n - 1
        BY <1>2, <4>2 DEF Shape
      <4> QED
        BY <1>3, <3>2, <4>2, <4>3, <4>4 DEF Given
    <3> QED
      BY <3>1, <3>2
  <2>7. ~(frames'[i].gas < 0)
    BY <1>1, <2>2, <2>3, <2>6
  <2> QED
    BY <2>5, <2>7 DEF Sound
<1> QED
  BY <1>1, <1>4, SolventSound

\* Every move keeps every closure solvent: what it has left and what it has
\* used are what it got, and only the innermost one may have got less than
\* nothing, and then makes no step.
LEMMA MovesSolvent ==
  ASSUME TypeInv, Solvent, Moves
  PROVE  Solvent'
<1>1. CASE txs # <<>> /\ frames = <<>> /\ Applies(Head(txs))
  <2> DEFINE tx == Head(txs)
  <2>1. tx \in Transaction /\ Applies(tx)
    BY <1>1, HeadOfTxs DEF TypeInv
  <2> HIDE DEF tx
  <2>2. CASE frames' = frames
    BY <1>1, <2>2, EmptySeq DEF Solvent
  <2>3. CASE \E f : Starts(f, tx, state') /\ frames' = <<f>>
    <3>1. PICK f : Starts(f, tx, state') /\ frames' = <<f>>
      BY <2>3
    <3>2. Len(frames') = 1 /\ frames'[1] = f
      BY <2>1, <3>1, StackOfOne
    <3>3. tx.gas \in Nat
      BY <2>1 DEF Transaction
    <3>4. f.gas + f.used = f.limit /\ ~(f.gas < 0)
      BY <3>1, <3>3 DEF Starts
    <3>5. Sound(frames', 1)
      BY <3>2, <3>4 DEF Sound
    <3>6. \A i \in 1 .. Len(frames') : i = 1
      BY <3>2
    <3> QED
      BY <3>5, <3>6, SolventSound
  <2> QED
    BY <2>1, <2>2, <2>3 DEF Applies
<1>2. CASE frames # <<>> /\ \E c : Step(c)
  <2>1. PICK c : Step(c)
    BY <1>2
  <2>2. CASE Ends(c)
    BY <2>2, EmptySeq DEF Ends, Solvent
  <2> QED
    BY <1>2, <2>1, <2>2, StaysSolvent, EntersSolvent, ReturnsSolvent DEF Step
<1>3. CASE Rewarded
  <2>1. frames' = frames
    BY <1>3 DEF Rewarded, machine
  <2> QED
    BY <2>1 DEF Solvent
<1>4. CASE UNCHANGED vars
  BY <1>4 DEF vars, machine, Solvent
<1> QED
  BY <1>1, <1>2, <1>3, <1>4 DEF Moves

\* The type invariant of the ledger, whatever the contracts, the bodies and
\* the genesis: no account is stored with a negative amount, callees lie
\* below their callers, every storage a running closure holds is there.  By
\* induction over the moves, with TypeInv and Solvent as the inductive
\* invariant.
THEOREM TypeCorrect ==
  ASSUME HashesAreNumbers, AddressesAreNumbers
  PROVE  Spec => []TypeOK
<1>1. Init => TypeInv /\ Solvent
  BY InitType
<1>2. TypeInv /\ Solvent /\ [Next]_vars => (TypeInv /\ Solvent)'
  BY NextMoves, MovesType, MovesSolvent
<1>3. TypeInv => TypeOK
  <2> SUFFICES ASSUME TypeInv
               PROVE  TypeOK
    OBVIOUS
  <2>1. Good(state) /\ LedgerInv /\ StackInv
    BY DEF TypeInv
  <2>2. \A a \in DOMAIN state.trie : state.trie[a].amount \in Nat /\ state.trie[a].nonce \in Nat
    BY <2>1, StateParts DEF Good, Stored
  <2>3. DOMAIN state.heap = 1 .. Len(state.heap)
    BY <2>1, StateParts DEF Good
  <2>4. \A a \in DOMAIN state.states : state.states[a] \in DOMAIN state.heap
    BY <2>1, <2>3 DEF Good
  <2>5. \A i \in 1 .. Inner : frames[i].callee \in 0 .. i - 1
                              /\ frames[i].object.store \in DOMAIN state.heap
    BY <2>1, <2>3 DEF StackInv, Inner, Shape, Housed
  <2> QED
    BY <2>1, <2>2, <2>4, <2>5 DEF TypeOK, LedgerInv
<1> QED
  BY <1>1, <1>2, <1>3, PTL DEF Spec

-----------------------------------------------------------------------------
(* Gas.                                                                    *)

\* h counts the gas of the frames up from what is not in any of them.
Counting(h, fr, base) ==
    /\ h \in [0 .. Len(fr) -> Int] /\ h[0] = base
    /\ \A k \in 1 .. Len(fr) : h[k] = h[k - 1] + fr[k].gas

\* All the gas of the transaction, wherever it is.
Balanced ==
    frames # <<>> =>
        \E h : Counting(h, frames, burnt + returned) /\ h[Len(frames)] = frames[1].limit

\* A step that stays in its closure burns what it takes from its gas.
LEMMA StaysBalanced ==
  ASSUME TypeInv, Balanced, frames # <<>>, NEW c, Step(c), Stays(c)
  PROVE  Balanced'
<1> DEFINE n == Inner
           d == Frame.gas - c.gas
<1>1. PICK h : Counting(h, frames, burnt + returned) /\ h[Len(frames)] = frames[1].limit
  BY DEF Balanced
<1>2. /\ n = Len(frames) /\ Frame = frames[n] /\ n \in Nat /\ n >= 1
      /\ \A i \in 1 .. n : frames[i] \in Closure
      /\ 1 \in 1 .. n /\ n \in 1 .. n
  BY TopFrame DEF TypeInv
<1>3. /\ Len(frames') = n /\ KeepsGas(c, frames'[n]) /\ Keeps(frames[n], frames'[n])
      /\ \A i \in 1 .. n : i # n => frames'[i] = frames[i]
  BY StaysFrames DEF Step
<1>4. /\ burnt' = burnt + Frame.gas - c.gas /\ returned' = returned
      /\ burnt \in Int /\ returned \in Int /\ Frame.gas \in Int /\ c.gas \in Int
  BY <1>2 DEF Step, Stays, TypeInv, LedgerInv, Pays, Keeps, Closure
<1>5. /\ h \in [0 .. n -> Int] /\ h[0] = burnt + returned
      /\ \A k \in 1 .. n : h[k] = h[k - 1] + frames[k].gas
      /\ h[n] = frames[1].limit
  BY <1>1, <1>2 DEF Counting
<1>6. d \in Int /\ burnt' + returned' = h[0] + d /\ Frame.gas = d + c.gas
  BY <1>4, <1>5
<1>7. /\ frames'[n].gas = c.gas /\ frames'[1].limit = frames[1].limit
  <2>1. frames'[n].gas = c.gas /\ frames'[n].limit = frames[n].limit
    BY <1>3 DEF KeepsGas, Keeps
  <2>2. CASE n = 1
    BY <2>1, <2>2
  <2>3. CASE n # 1
    BY <1>2, <1>3, <2>1, <2>3
  <2> QED
    BY <2>2, <2>3
<1> HIDE DEF n, d
<1> DEFINE g == [k \in 0 .. n |-> IF k < n THEN h[k] + d ELSE h[k]]
<1>8. g \in [0 .. n -> Int] /\ g[n] = h[n] /\ g[0] = h[0] + d
  BY <1>2, <1>5, <1>6
<1>9. ASSUME NEW k \in 1 .. n
      PROVE  g[k] = g[k - 1] + frames'[k].gas
  <2>0. frames[k].gas \in Int
    BY <1>2 DEF Closure
  <2>1. /\ k - 1 \in 0 .. n /\ k \in 0 .. n /\ k - 1 < n /\ h[k] = h[k - 1] + frames[k].gas
        /\ h[k - 1] \in Int /\ frames[k].gas \in Int
    BY <1>2, <1>5, <2>0
  <2>2. g[k - 1] = h[k - 1] + d
    BY <2>1
  <2>3. CASE k = n
    <3>1. g[k] = h[k] /\ frames'[k].gas = c.gas /\ frames[k].gas = d + c.gas
      BY <1>2, <1>6, <1>7, <1>8, <2>3
    <3> HIDE DEF g
    <3> QED
      BY <1>4, <1>6, <2>1, <2>2, <3>1
  <2>4. CASE k # n
    <3>1. g[k] = h[k] + d
      BY <1>2, <2>1, <2>4
    <3>2. frames'[k].gas = frames[k].gas
      BY <1>3, <2>4
    <3> HIDE DEF g
    <3> QED
      BY <1>6, <2>1, <2>2, <3>1, <3>2
  <2> QED
    BY <2>3, <2>4
<1> HIDE DEF g
<1>10. Counting(g, frames', burnt' + returned') /\ g[Len(frames')] = frames'[1].limit
  BY <1>3, <1>5, <1>6, <1>7, <1>8, <1>9 DEF Counting
<1> QED
  BY <1>10 DEF Balanced

\* Entering splits the gas of one frame over two.
LEMMA EntersBalanced ==
  ASSUME TypeInv, Balanced, frames # <<>>, NEW c, Step(c), Enters(c)
  PROVE  Balanced'
<1> DEFINE n == Inner
           d == Frame.gas - c.gas
<1>1. PICK h : Counting(h, frames, burnt + returned) /\ h[Len(frames)] = frames[1].limit
  BY DEF Balanced
<1>2. /\ n = Len(frames) /\ Frame = frames[n] /\ n \in Nat /\ n >= 1
      /\ \A i \in 1 .. n : frames[i] \in Closure
      /\ 1 \in 1 .. n /\ n \in 1 .. n
  BY TopFrame DEF TypeInv
<1>3. PICK a \in Closure, e \in Closure :
            /\ frames' = Append([frames EXCEPT ![Inner] = a], e)
            /\ Keeps(c, a) /\ a.gas + e.gas = c.gas
  BY EntersGas DEF Step
<1> DEFINE x == e.gas
<1>4. /\ Len(frames') = n + 1 /\ frames'[n + 1] = e /\ frames'[n] = a
      /\ \A i \in 1 .. n : i # n => frames'[i] = frames[i]
      /\ \A i \in 1 .. n : Keeps(frames[i], frames'[i])
  BY <1>3, EntersFrames DEF Step, Pays
<1>5. /\ burnt' = burnt + Frame.gas - c.gas /\ returned' = returned
      /\ burnt \in Int /\ returned \in Int /\ Frame.gas \in Int /\ c.gas \in Int
      /\ a.gas \in Int /\ x \in Int /\ a.gas + x = c.gas
  <2>1. Frame.gas \in Int /\ c.gas \in Int
    BY <1>2 DEF Step, Pays, Keeps, Closure
  <2>2. a.gas \in Int /\ x \in Int
    BY DEF Closure
  <2>3. a.gas + x = c.gas
    BY <1>3
  <2>4. burnt' = burnt + Frame.gas - c.gas /\ returned' = returned
    BY DEF Step, Enters
  <2>5. burnt \in Int /\ returned \in Int
    BY DEF TypeInv, LedgerInv
  <2> QED
    BY <2>1, <2>2, <2>3, <2>4, <2>5
<1>6. /\ h \in [0 .. n -> Int] /\ h[0] = burnt + returned
      /\ \A k \in 1 .. n : h[k] = h[k - 1] + frames[k].gas
      /\ h[n] = frames[1].limit
  BY <1>1, <1>2 DEF Counting
<1>7. d \in Int /\ burnt' + returned' = h[0] + d /\ Frame.gas = d + a.gas + x
  <2> HIDE DEF x
  <2>1. d \in Int /\ burnt' + returned' = h[0] + d
    <3>1. h[0] = burnt + returned
      BY <1>6
    <3> QED
      BY <1>5, <3>1
  <2>2. Frame.gas = d + a.gas + x
    BY <1>5
  <2> QED
    BY <2>1, <2>2
<1>8. frames'[1].limit = frames[1].limit
  BY <1>2, <1>4 DEF Keeps
<1> HIDE DEF n, d
<1>12. frames'[n + 1].gas = x
  BY <1>4
<1> HIDE DEF x
<1> DEFINE g == [k \in 0 .. n + 1 |-> IF k < n THEN h[k] + d
                                      ELSE IF k = n THEN h[n] - x ELSE h[n]]
<1>9. g \in [0 .. n + 1 -> Int] /\ g[n] = h[n] - x /\ g[n + 1] = h[n] /\ g[0] = h[0] + d
  <2>1. n \in Nat /\ n >= 1 /\ x \in Int /\ d \in Int /\ h \in [0 .. n -> Int]
    BY <1>2, <1>5, <1>6, <1>7
  <2>2. \A k \in 0 .. n : h[k] \in Int
    BY <2>1
  <2>3. h[n] - x \in Int /\ h[n] \in Int
    BY <2>1, <2>2
  <2>4. g \in [0 .. n + 1 -> Int]
    <3>1. ASSUME NEW k \in 0 .. n + 1
          PROVE  (IF k < n THEN h[k] + d ELSE IF k = n THEN h[n] - x ELSE h[n]) \in Int
      <4>1. CASE k < n
        BY <2>1, <2>2, <4>1
      <4>2. CASE ~(k < n)
        BY <2>3, <4>2
      <4> QED
        BY <4>1, <4>2
    <3> QED
      BY <3>1
  <2>5. g[n] = h[n] - x /\ g[n + 1] = h[n]
    BY <2>1
  <2>6. g[0] = h[0] + d
    BY <2>1
  <2> QED
    BY <2>4, <2>5, <2>6
<1>10. ASSUME NEW k \in 1 .. n + 1
       PROVE  g[k] = g[k - 1] + frames'[k].gas
  <2>1. CASE k = n + 1
    <3>1. k - 1 = n /\ h[n] \in Int
      BY <1>2, <1>6, <2>1
    <3>2. g[k] = h[n] /\ g[k - 1] = h[n] - x /\ frames'[k].gas = x
      BY <1>9, <1>12, <2>1, <3>1
    <3> HIDE DEF g
    <3> QED
      BY <1>5, <3>1, <3>2
  <2>2. CASE k # n + 1
    <3>1. /\ k \in 1 .. n /\ k - 1 \in 0 .. n /\ k \in 0 .. n /\ k - 1 < n
          /\ h[k] = h[k - 1] + frames[k].gas
          /\ h[k - 1] \in Int /\ frames[k].gas \in Int /\ k - 1 \in 0 .. n + 1
      <4>1. k \in 1 .. n
        BY <1>2, <2>2
      <4>2. frames[k].gas \in Int
        BY <1>2, <4>1 DEF Closure
      <4> QED
        BY <1>2, <1>6, <4>1, <4>2
    <3>2. g[k - 1] = h[k - 1] + d
      BY <3>1
    <3>3. CASE k = n
      <4>1. g[k] = h[n] - x /\ frames'[k].gas = a.gas /\ frames[k].gas = d + a.gas + x
        BY <1>2, <1>4, <1>7, <1>9, <3>3
      <4>2. h[n] = h[k - 1] + frames[k].gas /\ h[k - 1] \in Int /\ a.gas \in Int /\ x \in Int
            /\ d \in Int
        BY <1>5, <1>7, <3>1, <3>3
      <4> HIDE DEF g
      <4>3. g[k] = h[k - 1] + d + a.gas
        BY <4>1, <4>2
      <4> QED
        BY <1>4, <3>2, <3>3, <4>2, <4>3
    <3>4. CASE k # n
      <4>1. g[k] = h[k] + d
        BY <1>2, <3>1, <3>4
      <4>2. frames'[k].gas = frames[k].gas
        BY <1>4, <3>1, <3>4
      <4> HIDE DEF g
      <4> QED
        BY <1>7, <3>1, <3>2, <4>1, <4>2
    <3> QED
      BY <3>3, <3>4
  <2> QED
    BY <2>1, <2>2
<1> HIDE DEF g
<1>11. Counting(g, frames', burnt' + returned') /\ g[Len(frames')] = frames'[1].limit
  BY <1>4, <1>6, <1>7, <1>8, <1>9, <1>10 DEF Counting
<1> QED
  BY <1>11 DEF Balanced

\* Returning moves the gas of the frame that goes to its callee, or to the
\* account.
LEMMA ReturnsBalanced ==
  ASSUME TypeInv, Balanced, frames # <<>>, NEW c, Step(c), Returns(c)
  PROVE  Balanced'
<1> DEFINE n == Inner
           j == c.callee
           d == Frame.gas - c.gas
           r == IF j = 0 THEN c.gas ELSE 0
<1>1. PICK h : Counting(h, frames, burnt + returned) /\ h[Len(frames)] = frames[1].limit
  BY DEF Balanced
<1>2. /\ n = Len(frames) /\ Frame = frames[n] /\ n \in Nat /\ n >= 1
      /\ \A i \in 1 .. n : frames[i] \in Closure
      /\ 1 \in 1 .. n /\ n \in 1 .. n /\ Shape(frames, n)
  BY TopFrame DEF TypeInv
<1>3. /\ n > 1 /\ Len(frames') = n - 1
      /\ \A i \in 1 .. n - 1 : /\ Keeps(frames[i], frames'[i])
                               /\ frames'[i].gas = frames[i].gas + Given(c, i)
  BY DEF Returns, Pops
<1>4. Frame.gas \in Int /\ c.gas \in Int /\ j \in 0 .. n - 1
  BY <1>2 DEF Step, Pays, Keeps, Closure, Shape
<1>5. /\ h \in [0 .. n -> Int] /\ h[0] = burnt + returned
      /\ \A k \in 1 .. n : h[k] = h[k - 1] + frames[k].gas
      /\ h[n] = frames[1].limit
  BY <1>1, <1>2 DEF Counting
<1>6. d \in Int /\ Frame.gas = d + c.gas /\ r \in Int
  BY <1>4
<1>7. burnt' + returned' = h[0] + d + r
  <2>1. burnt' = burnt + Frame.gas - c.gas /\ returned' = returned + r
    BY DEF Step, Returns, Refund
  <2>2. burnt \in Int /\ returned \in Int
    BY DEF TypeInv, LedgerInv
  <2>3. h[0] = burnt + returned
    BY <1>5
  <2> HIDE DEF r
  <2> QED
    BY <1>4, <1>6, <2>1, <2>2, <2>3
<1>8. frames'[1].limit = frames[1].limit /\ frames' # <<>>
  <2>1. 1 \in 1 .. n - 1
    BY <1>2, <1>3
  <2>2. frames'[1].limit = frames[1].limit
    BY <1>3, <2>1 DEF Keeps
  <2> QED
    BY <1>2, <1>3, <2>2, EmptySeq
<1> DEFINE x == c.gas
           late == [k \in 0 .. n |-> IF k >= j THEN x ELSE 0]
           g == [k \in 0 .. n - 1 |-> h[k] + d + late[k]]
<1>9. /\ x \in Int /\ x = c.gas /\ Frame.gas = d + x /\ j \in Nat /\ j <= n - 1
      /\ j = 0 => r = x
      /\ j # 0 => r = 0
  BY <1>2, <1>4, <1>6
<1>10. /\ \A i \in 1 .. n - 1 : Given(c, i) = IF i = j THEN x ELSE 0
  BY DEF Given
<1> HIDE DEF n, d, x, r, j
<1>11. /\ late \in [0 .. n -> Int] /\ late[0] = r /\ late[n - 1] = x
       /\ \A k \in 1 .. n - 1 : late[k] = late[k - 1] + Given(c, k)
  <2>1. late \in [0 .. n -> Int]
    BY <1>9
  <2>2. late[0] = r
    BY <1>2, <1>9
  <2>3. late[n - 1] = x
    BY <1>2, <1>9
  <2>4. ASSUME NEW k \in 1 .. n - 1
        PROVE  late[k] = late[k - 1] + Given(c, k)
    <3>1. k \in 0 .. n /\ k - 1 \in 0 .. n
      BY <1>2
    <3>2. late[k] = IF k >= j THEN x ELSE 0
      BY <3>1
    <3>3. late[k - 1] = IF k - 1 >= j THEN x ELSE 0
      BY <3>1
    <3>4. Given(c, k) = IF k = j THEN x ELSE 0
      BY <1>10
    <3> HIDE DEF late
    <3> QED
      BY <1>9, <3>2, <3>3, <3>4
  <2> QED
    BY <2>1, <2>2, <2>3, <2>4
<1> HIDE DEF late
<1>12. \A k \in 0 .. n - 1 : h[k] \in Int /\ late[k] \in Int
  BY <1>2, <1>5, <1>11
<1>13. g \in [0 .. n - 1 -> Int] /\ g[0] = h[0] + d + r /\ g[n - 1] = h[n]
  <2>1. g \in [0 .. n - 1 -> Int]
    BY <1>6, <1>12
  <2>2. 0 \in 0 .. n - 1 /\ n - 1 \in 0 .. n - 1
    BY <1>2, <1>3
  <2>3. g[0] = h[0] + d + r
    BY <1>11, <2>2
  <2>4. g[n - 1] = h[n - 1] + d + x
    BY <1>11, <2>2
  <2>5. h[n] = h[n - 1] + Frame.gas
    BY <1>2, <1>5
  <2>6. h[n - 1] \in Int
    BY <1>12, <2>2
  <2> HIDE DEF g
  <2>7. g[n - 1] = h[n]
    BY <1>6, <1>9, <2>4, <2>5, <2>6
  <2> QED
    BY <2>1, <2>3, <2>7
<1>14. ASSUME NEW k \in 1 .. n - 1
       PROVE  g[k] = g[k - 1] + frames'[k].gas
  <2>1. k \in 0 .. n - 1 /\ k - 1 \in 0 .. n - 1 /\ k \in 1 .. n
    BY <1>2
  <2>2. g[k] = h[k] + d + late[k] /\ g[k - 1] = h[k - 1] + d + late[k - 1]
    BY <2>1
  <2>3. late[k] = late[k - 1] + Given(c, k)
    BY <1>11
  <2>4. h[k] = h[k - 1] + frames[k].gas
    BY <1>5, <2>1
  <2>5. frames'[k].gas = frames[k].gas + Given(c, k)
    BY <1>3
  <2>6. h[k - 1] \in Int /\ late[k - 1] \in Int
    BY <1>12, <2>1
  <2>7. frames[k].gas \in Int
    BY <1>2, <2>1 DEF Closure
  <2>8. Given(c, k) \in Int
    BY <1>9, <1>10
  <2> HIDE DEF g
  <2> QED
    BY <1>6, <2>2, <2>3, <2>4, <2>5, <2>6, <2>7, <2>8
<1> HIDE DEF g
<1>15. Counting(g, frames', burnt' + returned') /\ g[Len(frames')] = frames'[1].limit
  BY <1>3, <1>5, <1>7, <1>8, <1>13, <1>14 DEF Counting
<1> QED
  BY <1>15 DEF Balanced

\* Every move keeps the sum of the gas: burnt, returned and in the frames.
LEMMA MovesBalanced ==
  ASSUME TypeInv, Balanced, Moves
  PROVE  Balanced'
<1>1. CASE txs # <<>> /\ frames = <<>> /\ Applies(Head(txs))
  <2> DEFINE tx == Head(txs)
  <2>1. tx \in Transaction /\ Applies(tx)
    BY <1>1, HeadOfTxs DEF TypeInv
  <2> HIDE DEF tx
  <2>2. CASE frames' = frames
    BY <1>1, <2>2 DEF Balanced
  <2>3. CASE \E f : Starts(f, tx, state') /\ frames' = <<f>>
    <3>1. PICK f : Starts(f, tx, state') /\ frames' = <<f>>
      BY <2>3
    <3>2. Len(frames') = 1 /\ frames'[1] = f
      BY <2>1, <3>1, StackOfOne
    <3>3. tx.gas \in Nat /\ f.gas = tx.gas /\ f.limit = tx.gas
      BY <2>1, <3>1 DEF Transaction, Starts
    <3>4. burnt' + returned' = 0
      BY <2>1 DEF Applies
    <3> DEFINE gas == tx.gas
               h == [k \in 0 .. 1 |-> IF k = 0 THEN 0 ELSE gas]
    <3>5. gas \in Int /\ gas = f.gas
      BY <3>3
    <3> HIDE DEF gas
    <3>6. h \in [0 .. 1 -> Int] /\ h[0] = 0 /\ h[1] = gas
      BY <3>5
    <3> HIDE DEF h
    <3>7. ASSUME NEW k \in 1 .. 1
          PROVE  h[k] = h[k - 1] + frames'[k].gas
      <4>1. k = 1 /\ k - 1 = 0
        OBVIOUS
      <4>2. h[1] = h[0] + frames'[1].gas
        BY <3>2, <3>5, <3>6
      <4> QED
        BY <4>1, <4>2
    <3>8. Counting(h, frames', burnt' + returned') /\ h[Len(frames')] = frames'[1].limit
      BY <3>2, <3>3, <3>4, <3>5, <3>6, <3>7 DEF Counting
    <3> QED
      BY <3>8 DEF Balanced
  <2> QED
    BY <2>1, <2>2, <2>3 DEF Applies
<1>2. CASE frames # <<>> /\ \E c : Step(c)
  <2>1. PICK c : Step(c)
    BY <1>2
  <2>2. CASE Ends(c)
    BY <2>2 DEF Ends, Balanced
  <2> QED
    BY <1>2, <2>1, <2>2, StaysBalanced, EntersBalanced, ReturnsBalanced DEF Step
<1>3. CASE Rewarded
  <2>1. frames' = frames /\ frames = <<>>
    BY <1>3 DEF Rewarded, machine
  <2> QED
    BY <2>1 DEF Balanced
<1>4. CASE UNCHANGED vars
  BY <1>4 DEF vars, machine, Balanced
<1> QED
  BY <1>1, <1>2, <1>3, <1>4 DEF Moves

\* The sum GasConserved speaks of is the count.
LEMMA CountIsSum ==
  ASSUME NEW fr, NEW base \in Int, NEW h, Len(fr) \in Nat, Counting(h, fr, base)
  PROVE  Iterate(Len(fr), base, LAMBDA m, i : m + fr[i].gas) = h[Len(fr)]
<1> DEFINE n == Len(fr)
           Def(g) == [i \in 0 .. n |-> IF i = 0 THEN base ELSE g[i - 1] + fr[i].gas]
           G == CHOOSE g : g = Def(g)
<1>1. /\ h \in [0 .. n -> Int] /\ h[0] = base
      /\ \A k \in 1 .. n : h[k] = h[k - 1] + fr[k].gas
  BY DEF Counting
<1>2. \E g : g = Def(g)
  <2>1. ASSUME NEW k \in 0 .. n
        PROVE  h[k] = IF k = 0 THEN base ELSE h[k - 1] + fr[k].gas
    <3>1. k # 0 => k \in 1 .. n
      OBVIOUS
    <3> HIDE DEF n
    <3> QED
      BY <1>1, <3>1
  <2>2. h = Def(h)
    BY <1>1, <2>1
  <2> QED
    BY <2>2
<1>3. G = Def(G)
  <2> HIDE DEF Def
  <2> QED
    BY <1>2, Zenon
<1>4. Iterate(Len(fr), base, LAMBDA m, i : m + fr[i].gas) = G[n]
  BY Zenon DEF Iterate
<1> HIDE DEF G, n
<1>5. G[0] = base /\ \A k \in 1 .. n : G[k] = G[k - 1] + fr[k].gas
  BY <1>3 DEF n
<1> DEFINE S == {k \in Nat : G[k] = h[k]}
<1>6. \A k \in 0 .. n : k \in S
  <2>1. 0 \in S
    BY <1>1, <1>5
  <2>2. ASSUME NEW k \in 1 .. n, k - 1 \in S
        PROVE  k \in S
    BY <1>1, <1>5, <2>2
  <2>3. n \in Nat
    BY DEF n
  <2> HIDE DEF S
  <2> QED
    BY <2>1, <2>2, <2>3, PrefixInduction
<1>7. n \in 0 .. n
  BY DEF n
<1>8. G[n] = h[n]
  BY <1>6, <1>7
<1> QED
  BY <1>4, <1>8 DEF n

\* The gas a transaction was started with is, at every moment of its
\* execution, in one of its running closures, charged for a step or back at
\* the account: whatever closure.go's UseGas and ReturnGas and the prepaid
\* gas of CALL and CREATE do, nested to any depth and failing anywhere.
\* Balanced is the inductive form of the sum.
THEOREM GasIsConserved ==
  ASSUME HashesAreNumbers, AddressesAreNumbers
  PROVE  Spec => []GasConserved
<1>1. Init => TypeInv /\ Solvent /\ Balanced
  BY InitType DEF Init, Balanced
<1>2. TypeInv /\ Solvent /\ Balanced /\ [Next]_vars => (TypeInv /\ Solvent /\ Balanced)'
  BY NextMoves, MovesType, MovesSolvent, MovesBalanced
<1>3. TypeInv /\ Solvent /\ Balanced => GasConserved
  <2> SUFFICES ASSUME TypeInv, Solvent, Balanced, phase = "run"
               PROVE  /\ Iterate(Inner, burnt + returned, LAMBDA n, i : n + frames[i].gas)
                            = frames[1].limit
                      /\ \A i \in 1 .. Inner :
                            /\ frames[i].gas + frames[i].used = frames[i].limit
                            /\ frames[i].gas < 0 => i = Inner /\ frames[i].used = 0
    BY Zenon DEF GasConserved
  <2>1. frames # <<>>
    BY DEF TypeInv, LedgerInv
  <2>2. Inner = Len(frames) /\ Inner \in Nat
    BY <2>1, TopFrame DEF TypeInv
  <2>3. PICK h : Counting(h, frames, burnt + returned) /\ h[Len(frames)] = frames[1].limit
    BY <2>1 DEF Balanced
  <2>4. burnt + returned \in Int
    BY DEF TypeInv, LedgerInv
  <2>5. Iterate(Len(frames), burnt + returned, LAMBDA n, i : n + frames[i].gas)
           = h[Len(frames)]
    BY <2>2, <2>3, <2>4, CountIsSum
  <2>6. Iterate(Inner, burnt + returned, LAMBDA n, i : n + frames[i].gas) = frames[1].limit
    BY <2>3, <2>5 DEF Inner
  <2>7. \A i \in 1 .. Inner :
           /\ frames[i].gas + frames[i].used = frames[i].limit
           /\ frames[i].gas < 0 => i = Inner /\ frames[i].used = 0
    BY <2>2 DEF Solvent
  <2> QED
    BY <2>6, <2>7
<1> QED
  BY <1>1, <1>2, <1>3, PTL DEF Spec

-----------------------------------------------------------------------------
(* No transaction moves funds twice.                                       *)

\* Every nonce that has counted is below the one that the account has, in a
\* trie or as an object.
SpentTrie(done, trie) ==
    \A i \in 1 .. Len(done) : done[i][2] < Nonce(trie, done[i][1])
SpentObject(done, obj) ==
    \A i \in 1 .. Len(done) : done[i][1] = obj.addr => done[i][2] < obj.nonce
SpentFrame(done, f) ==
    /\ SpentObject(done, f.object)
    /\ f.kind # "tx" => SpentTrie(done, f.resume.snapshot.trie)

ReplayInv ==
    /\ \A i \in 1 .. Len(processed) : processed[i][1] \in Senders
    /\ SpentTrie(processed, state.trie)
    /\ frames # <<>> => SpentObject(processed, account)
    /\ \A i \in 1 .. Len(frames) : SpentFrame(processed, frames[i])
    /\ NoReplay

\* Writing back an object that knows of every processed transaction of its
\* address keeps them spent.
LEMMA SpentUpdate ==
  ASSUME NEW st, Good(st), NEW obj \in Object, obj.store \in 0 .. Len(st.heap), NEW t,
         t = UpdateStateObject(st, obj), NEW done, SpentTrie(done, st.trie),
         SpentObject(done, obj)
  PROVE  SpentTrie(done, t.trie)
<1>1. NonceSet(st, t, obj.addr, obj.nonce)
  BY UpdateNonce
<1> QED
  BY <1>1 DEF NonceSet, SpentTrie, SpentObject

\* Only the nonces of the senders matter.
LEMMA SpentSame ==
  ASSUME NEW t, NEW u, \A a \in Senders : Nonce(u, a) = Nonce(t, a),
         NEW done, \A i \in 1 .. Len(done) : done[i][1] \in Senders, SpentTrie(done, t)
  PROVE  SpentTrie(done, u)
BY DEF SpentTrie

\* Credits make nothing unspent.
LEMMA SpentCredits ==
  ASSUME NEW st, NEW t, Credits(st, t), NEW done, SpentTrie(done, st.trie)
  PROVE  SpentTrie(done, t.trie)
<1>1. \A a : Nonce(t.trie, a) = Nonce(st.trie, a)
  BY DEF Credits, Nonce
<1> QED
  BY <1>1 DEF SpentTrie

\* A contract is at nobody's address.
LEMMA SpentContract ==
  ASSUME TypeInv, NoCollision, ReplayInv, frames # <<>>, NEW c, Pays(Frame, c),
         c.kind = "create"
  PROVE  SpentObject(processed, c.resume.contract)
<1>1. Shape(frames, Inner) /\ c.resume = frames[Inner].resume /\ c.kind = frames[Inner].kind
  BY TopFrame DEF TypeInv, Pays, Keeps
<1>2. \E a, n \in Nat : c.resume.contract.addr = CreateAddress(a, n)
  BY <1>1 DEF Shape
<1>3. c.resume.contract.addr \notin Senders
  BY <1>2 DEF NoCollision
<1> QED
  BY <1>3 DEF SpentObject, ReplayInv

\* What is left of ReplayInv when nothing new has been processed.
LEMMA ReplayKept ==
  ASSUME ReplayInv, processed' = processed, SpentTrie(processed, state'.trie),
         frames' # <<>> => SpentObject(processed, account'),
         \A i \in 1 .. Len(frames') : SpentFrame(processed, frames'[i])
  PROVE  ReplayInv'
BY DEF ReplayInv, NoReplay

\* A frame that keeps its identity keeps its copy and its snapshot.
LEMMA SpentKept ==
  ASSUME NEW f, NEW g, Keeps(f, g), NEW done, SpentFrame(done, f)
  PROVE  SpentFrame(done, g)
BY DEF Keeps, SpentFrame

\* A step that stays in its closure changes no nonce anywhere.
LEMMA StaysReplay ==
  ASSUME TypeInv, ReplayInv, frames # <<>>, NEW c, Pays(Frame, c), Stays(c)
  PROVE  ReplayInv'
<1>1. /\ Len(frames') = Inner /\ Keeps(frames[Inner], frames'[Inner])
      /\ \A i \in 1 .. Inner : i # Inner => frames'[i] = frames[i]
  BY StaysFrames
<1>2. Inner = Len(frames)
  BY TopFrame DEF TypeInv
<1>3. \A i \in 1 .. Inner : SpentFrame(processed, frames[i])
  BY <1>2 DEF ReplayInv
<1>4. \A i \in 1 .. Len(frames') : SpentFrame(processed, frames'[i])
  BY <1>1, <1>3, SpentKept
<1>5. SpentTrie(processed, state'.trie)
  BY StaysState DEF ReplayInv
<1>6. processed' = processed /\ account' = account
  BY DEF Stays, ledger
<1>7. SpentObject(processed, account')
  BY <1>6 DEF ReplayInv
<1> QED
  BY <1>4, <1>5, <1>6, <1>7, ReplayKept

\* A new closure takes its object, and its snapshot, from a state in which
\* all is spent.
LEMMA EntersReplay ==
  ASSUME TypeInv, ReplayInv, NoCollision, frames # <<>>, NEW c, Pays(Frame, c), Enters(c)
  PROVE  ReplayInv'
<1>1. PICK g \in Closure, e \in Closure, t \in State :
          /\ frames' = Append([frames EXCEPT ![Inner] = g], e)
          /\ Keeps(c, g)
          /\ IsCopy(e.resume.snapshot, state, t)
          /\ state'.trie = state.trie
          /\ \/ /\ e.kind = "call"
                /\ Exists(state, e.object.addr)
                /\ e.object.nonce = state.trie[e.object.addr].nonce
             \/ e.kind = "create" /\ e.object = c.object
  BY DEF Enters
<1> DEFINE n == Inner
<1>2. /\ Len(frames') = n + 1 /\ frames'[n + 1] = e
      /\ \A i \in 1 .. n : Keeps(frames[i], frames'[i])
  BY <1>1, EntersFrames DEF Pays
<1>3. n = Len(frames) /\ n \in Nat /\ n \in 1 .. n /\ Frame = frames[n]
  BY TopFrame DEF TypeInv
<1>4. \A i \in 1 .. n : SpentFrame(processed, frames[i])
  BY <1>3 DEF ReplayInv
<1>5. SpentTrie(processed, state.trie) /\ SpentTrie(processed, e.resume.snapshot.trie)
  BY <1>1 DEF ReplayInv, IsCopy
<1>6. SpentObject(processed, e.object)
  <2>1. CASE e.object = c.object
    <3>1. c.object = frames[n].object
      BY <1>3 DEF Pays, Keeps
    <3> QED
      BY <1>3, <1>4, <2>1, <3>1 DEF SpentFrame
  <2>2. CASE /\ Exists(state, e.object.addr)
             /\ e.object.nonce = state.trie[e.object.addr].nonce
    <3>1. e.object.nonce = Nonce(state.trie, e.object.addr)
      BY <2>2 DEF Nonce, Exists
    <3> QED
      BY <1>5, <3>1 DEF SpentTrie, SpentObject
  <2> QED
    BY <1>1, <2>1, <2>2
<1> HIDE DEF n
<1>7. SpentFrame(processed, e)
  BY <1>5, <1>6 DEF SpentFrame
<1>8. \A i \in 1 .. n : SpentFrame(processed, frames'[i])
  BY <1>2, <1>4, SpentKept
<1>9. \A i \in 1 .. n + 1 : i \in 1 .. n \/ i = n + 1
  BY <1>3
<1>10. \A i \in 1 .. Len(frames') : SpentFrame(processed, frames'[i])
  BY <1>2, <1>7, <1>8, <1>9
<1>11. processed' = processed /\ account' = account
  BY DEF Enters, ledger
<1>12. SpentTrie(processed, state'.trie) /\ SpentObject(processed, account')
  BY <1>1, <1>5, <1>11 DEF ReplayInv
<1> QED
  BY <1>10, <1>11, <1>12, ReplayKept

\* What a return puts in place, a snapshot or an object, is spent.
LEMMA ReturnsReplay ==
  ASSUME TypeInv, Solvent, ReplayInv, NoCollision, frames # <<>>, NEW c, Pays(Frame, c),
         Returns(c)
  PROVE  ReplayInv'
<1> DEFINE n == Inner
<1>1. /\ n = Len(frames) /\ n \in Nat /\ n \in 1 .. n /\ Frame = frames[n] /\ n > 1
      /\ Shape(frames, n)
  BY TopFrame DEF TypeInv, Returns
<1>2. Len(frames') = n - 1 /\ \A i \in 1 .. n - 1 : Keeps(frames[i], frames'[i])
  BY DEF Returns, Pops
<1>3. \A i \in 1 .. n : SpentFrame(processed, frames[i])
  BY <1>1 DEF ReplayInv
<1>4. \A i \in 1 .. Len(frames') : SpentFrame(processed, frames'[i])
  <2>1. \A i \in 1 .. n - 1 : i \in 1 .. n
    BY <1>1
  <2> QED
    BY <1>2, <1>3, <2>1, SpentKept
<1>5. processed' = processed /\ account' = Paid(c)
  BY DEF Returns, ledger
<1>6. SpentObject(processed, account')
  <2>1. account'.addr = account.addr /\ account'.nonce = account.nonce
    BY <1>5, PaidType
  <2> QED
    BY <2>1 DEF ReplayInv, SpentObject
<1>7. c.kind # "tx" /\ SpentFrame(processed, c)
  <2>1. Keeps(frames[n], c)
    BY <1>1 DEF Pays
  <2>2. SpentFrame(processed, c)
    BY <1>1, <1>3, <2>1, SpentKept
  <2>3. c.kind = frames[n].kind
    BY <2>1 DEF Keeps
  <2> QED
    BY <1>1, <2>2, <2>3 DEF Shape
<1>8. CASE state' = Revert(state, c.resume.snapshot)
  <2>1. state'.trie = c.resume.snapshot.trie
    BY <1>7, <1>8, ObjectHanded, RevertGood DEF TypeInv
  <2>2. SpentTrie(processed, state'.trie)
    BY <1>7, <2>1 DEF SpentFrame
  <2> QED
    BY <1>4, <1>5, <1>6, <2>2, ReplayKept
<1>9. CASE \E st : /\ Leaves(st)
                   /\ state' = UpdateStateObject(st, IF c.kind = "call" THEN c.object
                                                     ELSE c.resume.contract)
  <2> DEFINE o == IF c.kind = "call" THEN c.object ELSE c.resume.contract
  <2>1. PICK st : Leaves(st) /\ state' = UpdateStateObject(st, o)
    BY <1>9
  <2>2. o \in Object /\ o.store \in 1 .. Len(state.heap) /\ SpentObject(processed, o)
    <3>1. c.kind \in {"tx", "call", "create"}
      BY DEF Pays, Keeps, Closure
    <3>2. CASE c.kind = "call"
      BY <1>7, <3>2, ObjectHanded DEF SpentFrame
    <3>3. CASE c.kind = "create"
      BY <3>3, ObjectHanded, SpentContract
    <3> QED
      BY <1>7, <3>1, <3>2, <3>3
  <2> HIDE DEF o
  <2>3. Credits(state, st) /\ Good(st) /\ Extends(state, st) /\ Good(state)
    BY <2>1, LeavesCredits DEF Credits, TypeInv
  <2>4. o.store \in 0 .. Len(st.heap)
    BY <2>2, <2>3, CellStays
  <2>5. SpentTrie(processed, st.trie)
    BY <2>3, SpentCredits DEF ReplayInv
  <2>6. SpentTrie(processed, state'.trie)
    BY <2>1, <2>2, <2>3, <2>4, <2>5, SpentUpdate
  <2> QED
    BY <1>4, <1>5, <1>6, <2>6, ReplayKept
<1> QED
  BY <1>8, <1>9 DEF Returns

\* The copies of the sender and of the object that EvalScript writes back
\* are spent.
LEMMA EndsReplay ==
  ASSUME TypeInv, Solvent, ReplayInv, frames # <<>>, NEW c, Pays(Frame, c), Ends(c)
  PROVE  ReplayInv'
<1>1. PICK st, st1 :
         /\ Leaves(st)
         /\ st1 = UpdateStateObject(UpdateStateObject(st, Paid(c)), c.object)
         /\ \/ state' = st1
            \/ \E ret \in Seq(Byte) :
                  state' = UpdateStateObject(st1, [c.object EXCEPT !.code = ret])
  BY DEF Ends
<1> DEFINE p == Paid(c)
           u == UpdateStateObject(st, p)
<1>2. Good(state) /\ Good(st) /\ Extends(state, st) /\ Credits(state, st)
  BY <1>1, LeavesCredits DEF TypeInv, Credits
<1>3. /\ p \in Object /\ p.store = account.store /\ p.addr = account.addr
      /\ p.nonce = account.nonce
  BY PaidType
<1>4. /\ c.object \in Object /\ c.object.store \in 1 .. Len(state.heap)
      /\ SpentObject(processed, c.object)
  <2>1. c.object = frames[Inner].object /\ Inner \in 1 .. Len(frames)
    BY TopFrame DEF TypeInv, Pays, Keeps
  <2>2. SpentObject(processed, c.object)
    BY <2>1 DEF ReplayInv, SpentFrame
  <2> QED
    BY <2>2, ObjectHanded
<1>5. SpentObject(processed, p)
  BY <1>3 DEF ReplayInv, SpentObject
<1> HIDE DEF p
<1>6. p.store \in 0 .. Len(st.heap) /\ c.object.store \in 0 .. Len(st.heap)
  <2>1. p.store \in 0 .. Len(state.heap)
    BY <1>3 DEF TypeInv, AccountInv
  <2> QED
    BY <1>2, <1>4, <2>1, StoreKept, CellStays DEF Extends
<1>7. Good(u) /\ u.heap = st.heap /\ SpentTrie(processed, u.trie)
  <2>1. SpentTrie(processed, st.trie)
    BY <1>2, SpentCredits DEF ReplayInv
  <2>2. SpentTrie(processed, u.trie)
    BY <1>2, <1>3, <1>5, <1>6, <2>1, SpentUpdate
  <2> QED
    BY <1>2, <1>3, <1>6, <2>2, UpdateGood
<1> HIDE DEF u
<1>8. st1 = UpdateStateObject(u, c.object)
  BY <1>1 DEF u, p
<1>9. Good(st1) /\ st1.heap = st.heap /\ SpentTrie(processed, st1.trie)
  <2>1. c.object.store \in 0 .. Len(u.heap)
    BY <1>6, <1>7
  <2>2. SpentTrie(processed, st1.trie)
    BY <1>4, <1>7, <1>8, <2>1, SpentUpdate
  <2> QED
    BY <1>4, <1>7, <1>8, <2>1, <2>2, UpdateGood
<1>10. ASSUME NEW ret \in Seq(Byte), state' = UpdateStateObject(st1, [c.object EXCEPT !.code = ret])
       PROVE  SpentTrie(processed, state'.trie)
  <2> DEFINE o == [c.object EXCEPT !.code = ret]
  <2>1. o \in Object /\ o.store = c.object.store /\ o.addr = c.object.addr
        /\ o.nonce = c.object.nonce
    BY <1>4 DEF Object
  <2> HIDE DEF o
  <2>2. SpentObject(processed, o) /\ o.store \in 0 .. Len(st1.heap)
    BY <1>4, <1>6, <1>9, <2>1 DEF SpentObject
  <2> QED
    BY <1>9, <1>10, <2>1, <2>2, SpentUpdate DEF o
<1>11. SpentTrie(processed, state'.trie)
  BY <1>1, <1>9, <1>10
<1>12. processed' = processed /\ frames' = <<>>
  BY DEF Ends
<1>13. \A i \in 1 .. Len(frames') : SpentFrame(processed, frames'[i])
  BY <1>12, EmptySeq
<1> QED
  BY <1>11, <1>12, <1>13, ReplayKept

\* The history is one of senders and nonces.
LEMMA PairsType ==
  ASSUME NEW done \in Seq(Nat \X Nat), NEW i \in 1 .. Len(done)
  PROVE  done[i] \in Nat \X Nat /\ done[i][1] \in Nat /\ done[i][2] \in Nat
BY ElementOfSeq

\* The transaction that counts has a nonce of its own.
LEMMA CountsSpent ==
  ASSUME TypeInv, ReplayInv, NEW tx \in Transaction, tx.from \in Senders, Counts(tx)
  PROVE  /\ \A i \in 1 .. Len(processed') : processed'[i][1] \in Senders
         /\ SpentTrie(processed', state'.trie) /\ NoReplay'
<1>1. /\ processed \in Seq(Nat \X Nat) /\ Good(state)
      /\ \A i \in 1 .. Len(processed) : processed[i][1] \in Senders
      /\ SpentTrie(processed, state.trie) /\ NoReplay
  BY DEF TypeInv, LedgerInv, ReplayInv
<1>2. CASE /\ processed' = processed
           /\ \A a \in Senders : Nonce(state'.trie, a) = Nonce(state.trie, a)
  <2>1. SpentTrie(processed, state'.trie)
    BY <1>1, <1>2, SpentSame
  <2> QED
    BY <1>1, <1>2, <2>1 DEF NoReplay
<1>3. CASE /\ processed' = Append(processed, <<tx.from, tx.nonce>>)
           /\ tx.nonce = Nonce(state.trie, tx.from)
           /\ \A a \in Senders : Nonce(state'.trie, a) = IF a = tx.from THEN tx.nonce + 1
                                                         ELSE Nonce(state.trie, a)
  <2> DEFINE n == Len(processed)
             pair == <<tx.from, tx.nonce>>
  <2>1. tx.from \in Nat /\ tx.nonce \in Nat /\ pair \in Nat \X Nat
    BY DEF Transaction
  <2>2. n \in Nat
    BY <1>1, LenProperties
  <2>3. /\ processed' \in Seq(Nat \X Nat) /\ Len(processed') = n + 1
        /\ processed'[n + 1] = pair /\ \A i \in 1 .. n : processed'[i] = processed[i]
    BY <1>1, <1>3, <2>1, AppendProperties
  <2>4. DOMAIN processed' = 1 .. n + 1 /\ DOMAIN processed = 1 .. n
    BY <1>1, <2>3, LenProperties
  <2>5. pair[1] = tx.from /\ pair[2] = tx.nonce
    OBVIOUS
  <2> HIDE DEF n, pair
  <2>6. \A i \in 1 .. n + 1 : i \in 1 .. n \/ i = n + 1
    BY <2>2
  <2>7. ASSUME NEW i \in 1 .. n
        PROVE  /\ processed[i][1] \in Senders /\ processed[i][2] \in Nat
               /\ processed[i][2] < Nonce(state.trie, processed[i][1])
    BY <1>1, PairsType DEF n, SpentTrie
  <2>8. \A i \in 1 .. Len(processed') : processed'[i][1] \in Senders
    BY <2>3, <2>5, <2>6, <2>7
  <2>9. ASSUME NEW i \in 1 .. n
        PROVE  processed[i][2] < Nonce(state'.trie, processed[i][1])
    <3>1. CASE processed[i][1] = tx.from
      <4>1. processed[i][2] < tx.nonce /\ processed[i][2] \in Nat
        BY <1>3, <2>7, <3>1
      <4>2. Nonce(state'.trie, processed[i][1]) = tx.nonce + 1
        BY <1>3, <2>7, <3>1
      <4> QED
        BY <2>1, <4>1, <4>2
    <3>2. CASE processed[i][1] # tx.from
      BY <1>3, <2>7, <3>2
    <3> QED
      BY <3>1, <3>2
  <2>10. pair[2] < Nonce(state'.trie, pair[1])
    BY <1>3, <2>1, <2>5
  <2>11. SpentTrie(processed', state'.trie)
    BY <2>3, <2>6, <2>9, <2>10 DEF SpentTrie
  <2>12. \A i \in 1 .. n : processed[i] # pair
    <3> SUFFICES ASSUME NEW i \in 1 .. n, processed[i] = pair
                 PROVE  FALSE
      OBVIOUS
    <3>1. tx.nonce < tx.nonce
      BY <1>3, <2>5, <2>7
    <3> QED
      BY <2>1, <3>1
  <2>13. \A i, j \in 1 .. n : processed[i] = processed[j] => i = j
    BY <1>1, <2>4 DEF NoReplay, IsInjective
  <2>14. \A i, j \in 1 .. n + 1 : processed'[i] = processed'[j] => i = j
    BY <2>3, <2>6, <2>12, <2>13
  <2>15. NoReplay'
    BY <2>4, <2>14 DEF NoReplay, IsInjective
  <2> QED
    BY <2>8, <2>11, <2>15
<1> QED
  BY <1>2, <1>3 DEF Counts

\* ProcessTransaction moves only what is not spent, and spends it.
LEMMA AppliesReplay ==
  ASSUME TypeInv, ReplayInv, NoCollision, txs # <<>>, frames = <<>>, Applies(Head(txs))
  PROVE  ReplayInv'
<1> DEFINE tx == Head(txs)
<1>1. tx \in Transaction /\ tx.from \in Senders /\ Applies(tx)
  BY HeadOfTxs DEF TypeInv
<1> HIDE DEF tx
<1>2. /\ \A i \in 1 .. Len(processed') : processed'[i][1] \in Senders
      /\ SpentTrie(processed', state'.trie) /\ NoReplay'
  BY <1>1, CountsSpent DEF Applies
<1>3. CASE frames' = frames
  BY <1>2, <1>3, EmptySeq DEF ReplayInv
<1>4. CASE /\ account'.addr = tx.from /\ account'.nonce = Nonce(state'.trie, tx.from)
           /\ \E f : Starts(f, tx, state') /\ frames' = <<f>>
  <2>1. PICK f : Starts(f, tx, state') /\ frames' = <<f>>
    BY <1>4
  <2>2. Len(frames') = 1 /\ frames'[1] = f
    BY <1>1, <2>1, StackOfOne
  <2>3. f.object.nonce = Nonce(state'.trie, f.object.addr) /\ f.kind = "tx"
    BY <2>1 DEF Starts
  <2>4. SpentFrame(processed', f)
    BY <1>2, <2>3 DEF SpentFrame, SpentObject, SpentTrie
  <2>5. SpentObject(processed', account')
    BY <1>2, <1>4 DEF SpentObject, SpentTrie
  <2>6. \A i \in 1 .. Len(frames') : SpentFrame(processed', frames'[i])
    BY <2>2, <2>4
  <2> QED
    BY <1>2, <2>5, <2>6 DEF ReplayInv
<1> QED
  BY <1>1, <1>3, <1>4 DEF Applies

\* Every move leaves what is processed spent: in the trie, and in every
\* copy of an account or a trie that may yet be written back.
LEMMA MovesReplay ==
  ASSUME TypeInv, Solvent, ReplayInv, NoCollision, Moves
  PROVE  ReplayInv'
<1>1. CASE txs # <<>> /\ frames = <<>> /\ Applies(Head(txs))
  BY <1>1, AppliesReplay
<1>2. CASE frames # <<>> /\ \E c : Step(c)
  BY <1>2, StaysReplay, EntersReplay, ReturnsReplay, EndsReplay DEF Step
<1>3. CASE Rewarded
  <2>1. /\ frames' = frames /\ frames = <<>> /\ processed' = processed
        /\ Credits(state, state')
    BY <1>3 DEF Rewarded, machine
  <2>2. SpentTrie(processed, state'.trie)
    BY <2>1, SpentCredits DEF ReplayInv
  <2>3. \A i \in 1 .. Len(frames') : SpentFrame(processed, frames'[i])
    BY <2>1, EmptySeq
  <2> QED
    BY <2>1, <2>2, <2>3, ReplayKept
<1>4. CASE UNCHANGED vars
  BY <1>4 DEF vars, ledger, machine, ReplayInv, NoReplay
<1> QED
  BY <1>1, <1>2, <1>3, <1>4 DEF Moves

\* No transaction is processed twice, however often a block holds it and
\* whatever its contracts do in between (WrongNonce in ProcessTransaction).
\* ReplayInv is needed because the nonces of the trie alone are not
\* inductive: reverts and stale copies write old ones back.
THEOREM NothingIsReplayed ==
  ASSUME HashesAreNumbers, AddressesAreNumbers, NoCollision
  PROVE  Spec => []NoReplay
<1>1. Init => TypeInv /\ Solvent /\ ReplayInv
  <2> SUFFICES ASSUME Init
               PROVE  ReplayInv
    BY InitType
  <2>1. processed = <<>> /\ frames = <<>>
    BY DEF Init
  <2>2. DOMAIN processed = {}
    BY <2>1, EmptySeq
  <2> QED
    BY <2>1, <2>2, EmptySeq DEF ReplayInv, SpentTrie, NoReplay, IsInjective
<1>2. TypeInv /\ Solvent /\ ReplayInv /\ [Next]_vars => (TypeInv /\ Solvent /\ ReplayInv)'
  BY NextMoves, MovesType, MovesSolvent, MovesReplay
<1>3. ReplayInv => NoReplay
  BY DEF ReplayInv
<1> QED
  BY <1>1, <1>2, <1>3, PTL DEF Spec

-----------------------------------------------------------------------------
(* What a failed closure leaves behind.                                    *)

Apart(X, Y) == \A k \in X : k \notin Y

\* The storages: that the state caches, that a closure writes to or hands to
\* the state, that it goes back to.
Cached(st) == {st.states[a] : a \in DOMAIN st.states}
Held(f)    == {f.object.store} \cup
              IF f.kind = "create" THEN {f.resume.contract.store} ELSE {}
Spare(f)   == IF f.kind = "tx" THEN {}
              ELSE {f.resume.snapshot.states[a] : a \in DOMAIN f.resume.snapshot.states}

\* With the snapshot of f the state st is again what f was started in.
Recalls(f, st) ==
    f.kind # "tx" =>
        /\ f.resume.snapshot.trie = f.resume.before.trie
        /\ DOMAIN f.resume.snapshot.states = DOMAIN f.resume.before.storage
        /\ \A a \in DOMAIN f.resume.snapshot.states :
              st.heap[f.resume.snapshot.states[a]] = f.resume.before.storage[a]

\* The storages the first n frames go back to are written by nobody and
\* belong to one frame each.
Clear(fr, st, n) ==
    \A i \in 1 .. n :
        /\ Recalls(fr[i], st) /\ Apart(Spare(fr[i]), Cached(st))
        /\ \A j \in 1 .. n : /\ Apart(Spare(fr[i]), Held(fr[j]))
                             /\ j # i => Apart(Spare(fr[i]), Spare(fr[j]))

SpareInv == Clear(frames, state, Len(frames))

\* A frame that keeps its identity keeps its storages.
LEMMA KeepsStorages ==
  ASSUME NEW f, NEW g, Keeps(f, g)
  PROVE  /\ Spare(g) = Spare(f) /\ Held(g) = Held(f)
         /\ \A st : Recalls(f, st) => Recalls(g, st)
BY DEF Keeps, Spare, Held, Recalls

\* A frame goes back to what it was started in as long as its spare
\* storages are not written.
LEMMA RecallsKept ==
  ASSUME NEW f, NEW st, NEW t, Recalls(f, st),
         \A k \in Spare(f) : t.heap[k] = st.heap[k]
  PROVE  Recalls(f, t)
<1>1. CASE f.kind = "tx"
  BY <1>1 DEF Recalls
<1>2. CASE f.kind # "tx"
  <2>1. \A a \in DOMAIN f.resume.snapshot.states : f.resume.snapshot.states[a] \in Spare(f)
    BY <1>2 DEF Spare
  <2> QED
    BY <1>2, <2>1 DEF Recalls
<1> QED
  BY <1>1, <1>2

\* All these storages are there.
LEMMA StoragesThere ==
  ASSUME TypeInv, NEW i \in 1 .. Len(frames)
  PROVE  /\ \A k \in Spare(frames[i]) : k \in 1 .. Len(state.heap)
         /\ \A k \in Held(frames[i]) : k \in 1 .. Len(state.heap)
         /\ \A k \in Cached(state) : k \in 1 .. Len(state.heap)
<1>1. Housed(frames[i], state)
  BY DEF TypeInv, StackInv
<1>2. \A k \in Spare(frames[i]) : k \in 1 .. Len(state.heap)
  BY <1>1 DEF Housed, Spare, GoodSnapshot
<1>3. \A k \in Held(frames[i]) : k \in 1 .. Len(state.heap)
  BY <1>1 DEF Housed, Held
<1>4. \A k \in Cached(state) : k \in 1 .. Len(state.heap)
  BY DEF TypeInv, Good, Cached
<1> QED
  BY <1>2, <1>3, <1>4

\* A step that leaves the storages of the first n frames alone, and lets the
\* state cache none of them, keeps them clear.
LEMMA ClearKept ==
  ASSUME SpareInv, NEW n \in Nat, Len(frames) \in Nat, n <= Len(frames),
         \A i \in 1 .. n : /\ Keeps(frames[i], frames'[i])
                           /\ Apart(Spare(frames[i]), Cached(state'))
                           /\ \A k \in Spare(frames[i]) : state'.heap[k] = state.heap[k]
  PROVE  Clear(frames', state', n)
<1>1. \A i \in 1 .. n : i \in 1 .. Len(frames)
  OBVIOUS
<1>2. ASSUME NEW i \in 1 .. n
      PROVE  /\ Recalls(frames'[i], state') /\ Apart(Spare(frames'[i]), Cached(state'))
             /\ Spare(frames'[i]) = Spare(frames[i]) /\ Held(frames'[i]) = Held(frames[i])
  <2>1. /\ Spare(frames'[i]) = Spare(frames[i]) /\ Held(frames'[i]) = Held(frames[i])
        /\ \A st : Recalls(frames[i], st) => Recalls(frames'[i], st)
    BY KeepsStorages
  <2>2. Recalls(frames[i], state)
    BY <1>1 DEF SpareInv, Clear
  <2>3. Recalls(frames[i], state')
    BY <2>2, RecallsKept
  <2> QED
    BY <2>1, <2>3
<1>3. ASSUME NEW i \in 1 .. n, NEW j \in 1 .. n
      PROVE  /\ Apart(Spare(frames'[i]), Held(frames'[j]))
             /\ j # i => Apart(Spare(frames'[i]), Spare(frames'[j]))
  <2>1. /\ Apart(Spare(frames[i]), Held(frames[j]))
        /\ j # i => Apart(Spare(frames[i]), Spare(frames[j]))
    BY <1>1 DEF SpareInv, Clear
  <2> QED
    BY <1>2, <2>1
<1> QED
  BY <1>2, <1>3 DEF Clear

\* SSTORE writes to the storage of the running object, which is nobody's
\* spare one.
LEMMA StaysClear ==
  ASSUME TypeInv, SpareInv, frames # <<>>, NEW c, Pays(Frame, c), Stays(c)
  PROVE  SpareInv'
<1> DEFINE n == Inner
<1>1. /\ n \in Nat /\ n = Len(frames) /\ Frame = frames[n] /\ n \in 1 .. n
      /\ \A i \in 1 .. n : frames[i] \in Closure
  BY TopFrame DEF TypeInv
<1>2. /\ Len(frames') = n /\ Keeps(frames[n], frames'[n])
      /\ \A i \in 1 .. n : i # n => frames'[i] = frames[i]
  BY StaysFrames
<1>3. /\ state'.states = state.states
      /\ \A k \in 1 .. Len(state.heap) :
            k # c.object.store => state'.heap[k] = state.heap[k]
  BY StaysState
<1>4. c.object.store \in Held(frames[n])
  BY <1>1 DEF Pays, Keeps, Held
<1> HIDE DEF n
<1>5. ASSUME NEW i \in 1 .. n
      PROVE  /\ Keeps(frames[i], frames'[i])
             /\ Apart(Spare(frames[i]), Cached(state'))
             /\ \A k \in Spare(frames[i]) : state'.heap[k] = state.heap[k]
  <2>1. Keeps(frames[i], frames'[i])
    BY <1>1, <1>2, KeepsSelf
  <2>2. Apart(Spare(frames[i]), Cached(state')) /\ Apart(Spare(frames[i]), Held(frames[n]))
    BY <1>1, <1>3 DEF SpareInv, Clear, Cached
  <2>3. \A k \in Spare(frames[i]) : k \in 1 .. Len(state.heap)
    BY <1>1, StoragesThere
  <2> QED
    BY <1>3, <1>4, <2>1, <2>2, <2>3 DEF Apart
<1>6. Clear(frames', state', n)
  <2>1. n <= Len(frames) /\ Len(frames) \in Nat
    BY <1>1
  <2> QED
    BY <1>1, <1>5, <2>1, ClearKept
<1> QED
  BY <1>2, <1>6 DEF SpareInv

\* What the copy that a closure goes back to recalls is the view of the state
\* it was taken of.
LEMMA CopyRecalls ==
  ASSUME NEW st, Good(st), NEW t, Good(t), NEW u, Good(u), Extends(t, u), NEW e,
         IsCopy(e.resume.snapshot, st, t), e.resume.before = View(st)
  PROVE  Recalls(e, u)
<1> DEFINE s == e.resume.snapshot
           v == e.resume.before
<1>1. /\ GoodSnapshot(s, t) /\ s.trie = st.trie /\ DOMAIN s.states = DOMAIN st.states
      /\ \A a \in DOMAIN st.states : t.heap[s.states[a]] = st.heap[st.states[a]]
  BY DEF IsCopy
<1>2. /\ v.trie = st.trie /\ DOMAIN v.storage = DOMAIN st.states
      /\ \A a \in DOMAIN st.states : v.storage[a] = st.heap[st.states[a]]
  BY DEF View
<1>3. ASSUME NEW a \in DOMAIN s.states
      PROVE  u.heap[s.states[a]] = t.heap[s.states[a]]
  <2>1. s.states[a] \in 1 .. Len(t.heap)
    BY <1>1 DEF GoodSnapshot
  <2> HIDE DEF s
  <2> QED
    BY <2>1 DEF Extends
<1> QED
  BY <1>1, <1>2, <1>3 DEF Recalls

\* The copies Snapshot makes for a new closure are nobody else's.
LEMMA EntersClear ==
  ASSUME TypeInv, SpareInv, frames # <<>>, NEW c, Pays(Frame, c), Enters(c)
  PROVE  SpareInv'
<1>1. PICK g \in Closure, e \in Closure, t \in State :
          /\ frames' = Append([frames EXCEPT ![Inner] = g], e)
          /\ Keeps(c, g)
          /\ IsCopy(e.resume.snapshot, state, t) /\ e.resume.before = View(state)
          /\ Extends(state, t) /\ Extends(t, state') /\ Good(t) /\ Good(state')
          /\ state'.states = state.states
          /\ \/ /\ e.kind = "call"
                /\ \/ \E a \in DOMAIN state.states : e.object.store = state.states[a]
                   \/ e.object.store = Len(t.heap) + 1
             \/ /\ e.kind = "create" /\ e.object = c.object
                /\ e.resume.contract.store = Len(t.heap) + 1
  BY DEF Enters
<1> DEFINE n == Inner
           L == Len(state.heap)
           M == Len(t.heap)
<1>2. /\ Len(frames') = n + 1 /\ frames'[n + 1] = e
      /\ \A i \in 1 .. n : Keeps(frames[i], frames'[i])
  BY <1>1, EntersFrames DEF Pays
<1>3. /\ Good(state) /\ Extends(state, state') /\ L \in Nat /\ M \in Nat /\ L <= M
  <2>1. Good(state) /\ Good(t) /\ Good(state')
    BY <1>1 DEF TypeInv
  <2>2. Extends(state, state')
    BY <1>1, <2>1, ExtendsTrans
  <2> QED
    BY <1>1, <2>1, <2>2, StateParts DEF Good, Extends, Wider
<1>4. /\ n \in Nat /\ n >= 1 /\ n = Len(frames) /\ Frame = frames[n] /\ n \in 1 .. n
  BY TopFrame DEF TypeInv
<1>5. c.object.store \in Held(frames[n])
  BY <1>4 DEF Pays, Keeps, Held
<1>6. \A a \in DOMAIN state.states : state.states[a] \in Cached(state)
  BY DEF Cached
<1>7. \A k \in Spare(e) : k > L /\ k <= M /\ k \in Nat
  <2>1. e.kind # "tx"
    BY <1>1
  <2>2. /\ \A a \in DOMAIN state.states : /\ e.resume.snapshot.states[a] > L
                                          /\ e.resume.snapshot.states[a] \in 1 .. M
        /\ DOMAIN e.resume.snapshot.states = DOMAIN state.states
    BY <1>1 DEF IsCopy, GoodSnapshot
  <2>3. ASSUME NEW k \in Spare(e)
        PROVE  k > L /\ k \in 1 .. M
    <3>1. PICK a \in DOMAIN e.resume.snapshot.states : k = e.resume.snapshot.states[a]
      BY <2>1 DEF Spare
    <3> QED
      BY <2>2, <3>1
  <2> HIDE DEF L, M
  <2> QED
    BY <1>3, <2>3
<1>8. \A k \in Held(e) : k \in Cached(state) \/ k \in Held(frames[n]) \/ k = M + 1
  <2>1. Held(e) = {e.object.store} \cup
                  IF e.kind = "create" THEN {e.resume.contract.store} ELSE {}
    BY DEF Held
  <2>2. CASE e.kind = "call"
    BY <1>1, <1>6, <2>1, <2>2
  <2>3. CASE e.kind = "create"
    BY <1>1, <1>5, <2>1, <2>3
  <2> QED
    BY <1>1, <2>2, <2>3
<1> HIDE DEF n, L, M
<1>9. ASSUME NEW i \in 1 .. n
      PROVE  /\ \A k \in Spare(frames[i]) : k \in 1 .. L
             /\ \A k \in Held(frames[i]) : k \in 1 .. L
             /\ \A k \in Cached(state) : k \in 1 .. L
             /\ Spare(frames'[i]) = Spare(frames[i]) /\ Held(frames'[i]) = Held(frames[i])
             /\ Apart(Spare(frames[i]), Cached(state))
             /\ Apart(Spare(frames[i]), Held(frames[n]))
  <2>1. i \in 1 .. Len(frames)
    BY <1>4
  <2>2. /\ \A k \in Spare(frames[i]) : k \in 1 .. L
        /\ \A k \in Held(frames[i]) : k \in 1 .. L
        /\ \A k \in Cached(state) : k \in 1 .. L
    BY <2>1, StoragesThere DEF L
  <2>3. Spare(frames'[i]) = Spare(frames[i]) /\ Held(frames'[i]) = Held(frames[i])
    BY <1>2, KeepsStorages
  <2>4. Apart(Spare(frames[i]), Cached(state)) /\ Apart(Spare(frames[i]), Held(frames[n]))
    BY <1>4, <2>1 DEF SpareInv, Clear
  <2> QED
    BY <2>2, <2>3, <2>4
<1>10. Cached(state') = Cached(state)
  BY <1>1 DEF Cached
<1>11. Clear(frames', state', n)
  <2>1. ASSUME NEW i \in 1 .. n
        PROVE  /\ Keeps(frames[i], frames'[i])
               /\ Apart(Spare(frames[i]), Cached(state'))
               /\ \A k \in Spare(frames[i]) : state'.heap[k] = state.heap[k]
    <3>1. \A k \in 1 .. L : state'.heap[k] = state.heap[k]
      BY <1>3 DEF Extends, L
    <3> QED
      BY <1>2, <1>9, <1>10, <3>1
  <2>2. n \in Nat /\ n <= Len(frames) /\ Len(frames) \in Nat
    BY <1>4
  <2> QED
    BY <2>1, <2>2, ClearKept
<1>12. /\ Recalls(e, state') /\ Apart(Spare(e), Cached(state'))
       /\ Apart(Spare(e), Held(e))
  <2>1. Recalls(e, state')
    BY <1>1, <1>3, CopyRecalls
  <2>2. \A k \in Cached(state) : k \in 1 .. L
    BY <1>4, <1>9
  <2>3. \A k \in Held(frames[n]) : k \in 1 .. L
    BY <1>4, <1>9
  <2>4. \A k \in Spare(e) : k \notin 1 .. L /\ k # M + 1
    BY <1>3, <1>7
  <2> QED
    BY <1>8, <1>10, <2>1, <2>2, <2>3, <2>4 DEF Apart
<1>13. ASSUME NEW i \in 1 .. n
       PROVE  /\ Apart(Spare(e), Held(frames'[i])) /\ Apart(Spare(e), Spare(frames'[i]))
              /\ Apart(Spare(frames'[i]), Spare(e)) /\ Apart(Spare(frames'[i]), Held(e))
  <2>1. \A k \in Spare(e) : k \notin 1 .. L
    BY <1>3, <1>7
  <2>2. M + 1 \notin 1 .. L
    BY <1>3
  <2>3. Apart(Spare(e), Held(frames'[i])) /\ Apart(Spare(e), Spare(frames'[i]))
        /\ Apart(Spare(frames'[i]), Spare(e))
    BY <1>9, <2>1 DEF Apart
  <2>4. Apart(Spare(frames'[i]), Held(e))
    BY <1>8, <1>9, <2>2 DEF Apart
  <2> QED
    BY <2>3, <2>4
<1>14. Clear(frames', state', n + 1)
  <2>1. \A i \in 1 .. n + 1 : i \in 1 .. n \/ i = n + 1
    BY <1>4
  <2>2. \A i \in 1 .. n : i # n + 1
    BY <1>4
  <2> QED
    BY <1>2, <1>11, <1>12, <1>13, <2>1, <2>2 DEF Clear
<1> QED
  BY <1>2, <1>14 DEF SpareInv

\* Closing the innermost frame puts its own copy in place, or hands its
\* storage to the state.
LEMMA ReturnsCached ==
  ASSUME TypeInv, SpareInv, frames # <<>>, NEW c, Pays(Frame, c), Returns(c)
  PROVE  /\ \A k \in Cached(state') : \/ k \in Cached(state) \/ k > Len(state.heap)
                                      \/ k \in Held(Frame) \/ k \in Spare(Frame)
         /\ Extends(state, state')
<1>1. Good(state) /\ Len(state.heap) \in Nat
  BY StateParts DEF TypeInv, Good
<1>2. c.kind # "tx" /\ c.kind = Frame.kind
  <2>1. Shape(frames, Inner) /\ c.kind = frames[Inner].kind /\ Inner > 1
        /\ Frame = frames[Inner]
    BY TopFrame DEF TypeInv, Pays, Keeps, Returns
  <2> QED
    BY <2>1 DEF Shape
<1>3. /\ c.kind \in {"tx", "call", "create"} /\ Keeps(Frame, c)
      /\ Held(c) = Held(Frame) /\ Spare(c) = Spare(Frame)
  BY KeepsStorages DEF Pays, Keeps, Closure
<1>4. CASE state' = Revert(state, c.resume.snapshot)
  <2>1. /\ state'.heap = state.heap /\ state'.states = c.resume.snapshot.states
    BY <1>1, <1>2, <1>4, ObjectHanded, RevertGood
  <2>2. Cached(state') = Spare(c)
    BY <1>2, <2>1 DEF Cached, Spare
  <2> QED
    BY <1>1, <1>3, <2>1, <2>2 DEF Extends, Wider
<1>5. CASE \E st : /\ Leaves(st)
                   /\ state' = UpdateStateObject(st, IF c.kind = "call" THEN c.object
                                                     ELSE c.resume.contract)
  <2> DEFINE o == IF c.kind = "call" THEN c.object ELSE c.resume.contract
  <2>1. PICK st : Leaves(st) /\ state' = UpdateStateObject(st, o)
    BY <1>5
  <2>2. o \in Object /\ o.store \in 1 .. Len(state.heap) /\ o.store \in Held(c)
    BY <1>2, <1>3, ObjectHanded DEF Held
  <2> HIDE DEF o
  <2>3. /\ Good(st) /\ Extends(state, st)
        /\ \A a \in DOMAIN st.states : \/ a \in DOMAIN state.states
                                          /\ st.states[a] = state.states[a]
                                       \/ st.states[a] > Len(state.heap)
    BY <1>1, <2>1, LeavesCredits DEF Credits
  <2>4. o.store \in 0 .. Len(st.heap)
    BY <1>1, <2>2, <2>3, CellStays
  <2>5. /\ state'.heap = st.heap
        /\ \A a \in DOMAIN state'.states :
              \/ a \in DOMAIN st.states /\ state'.states[a] = st.states[a]
              \/ state'.states[a] = o.store
    BY <2>1, <2>2, <2>3, <2>4, UpdateGood
  <2>6. ASSUME NEW k \in Cached(state')
        PROVE  k \in Cached(state) \/ k > Len(state.heap) \/ k \in Held(Frame)
    <3>1. PICK a \in DOMAIN state'.states : k = state'.states[a]
      BY DEF Cached
    <3>2. CASE state'.states[a] = o.store
      BY <1>3, <2>2, <3>1, <3>2
    <3>3. CASE a \in DOMAIN st.states /\ state'.states[a] = st.states[a]
      BY <2>3, <3>1, <3>3 DEF Cached
    <3> QED
      BY <2>5, <3>2, <3>3
  <2> QED
    BY <2>3, <2>5, <2>6 DEF Extends, Wider
<1> QED
  BY <1>4, <1>5 DEF Returns

\* A closure that returns puts its own copies in the state, or the storage
\* it worked on, never the spare storages of one below.
LEMMA ReturnsClear ==
  ASSUME TypeInv, SpareInv, frames # <<>>, NEW c, Pays(Frame, c), Returns(c)
  PROVE  SpareInv'
<1> DEFINE n == Inner
           m == Inner - 1
<1>1. /\ n \in Nat /\ n = Len(frames) /\ Frame = frames[n] /\ n \in 1 .. n /\ n > 1
  BY TopFrame DEF TypeInv, Returns
<1>2. Len(frames') = m /\ \A i \in 1 .. m : Keeps(frames[i], frames'[i])
  BY DEF Returns, Pops
<1>3. /\ \A k \in Cached(state') : \/ k \in Cached(state) \/ k > Len(state.heap)
                                   \/ k \in Held(Frame) \/ k \in Spare(Frame)
      /\ \A k \in 1 .. Len(state.heap) : state'.heap[k] = state.heap[k]
  BY ReturnsCached DEF Extends
<1>4. m \in Nat /\ \A i \in 1 .. m : i \in 1 .. Len(frames) /\ i # n
  BY <1>1
<1>5. Len(state.heap) \in Nat
  BY StateParts DEF TypeInv, Good
<1> HIDE DEF n, m
<1>6. ASSUME NEW i \in 1 .. m
      PROVE  /\ Keeps(frames[i], frames'[i])
             /\ Apart(Spare(frames[i]), Cached(state'))
             /\ \A k \in Spare(frames[i]) : state'.heap[k] = state.heap[k]
  <2>1. i \in 1 .. Len(frames) /\ i # n /\ n \in 1 .. Len(frames)
    BY <1>1, <1>4
  <2>2. /\ Apart(Spare(frames[i]), Cached(state)) /\ Apart(Spare(frames[i]), Held(frames[n]))
        /\ Apart(Spare(frames[i]), Spare(frames[n]))
    BY <2>1 DEF SpareInv, Clear
  <2>3. \A k \in Spare(frames[i]) : k \in 1 .. Len(state.heap)
    BY <2>1, StoragesThere
  <2>4. \A k \in Spare(frames[i]) : ~(k > Len(state.heap))
    BY <1>5, <2>3
  <2> QED
    BY <1>1, <1>2, <1>3, <2>2, <2>3, <2>4 DEF Apart
<1>7. Clear(frames', state', m)
  <2>1. m <= Len(frames) /\ Len(frames) \in Nat
    BY <1>1 DEF m, n
  <2> QED
    BY <1>4, <1>6, <2>1, ClearKept
<1> QED
  BY <1>2, <1>7 DEF SpareInv

\* A block, and a transaction, has nothing to go back to.
LEMMA NothingToClear ==
  ASSUME frames' = <<>> \/ \E f : f.kind = "tx" /\ frames' = <<f>>
  PROVE  SpareInv'
<1>1. CASE frames' = <<>>
  BY <1>1, EmptySeq DEF SpareInv, Clear
<1>2. CASE \E f : f.kind = "tx" /\ frames' = <<f>>
  <2>1. Len(frames') = 1 /\ frames'[1].kind = "tx"
    BY <1>2
  <2>2. Spare(frames'[1]) = {} /\ Recalls(frames'[1], state')
    BY <2>1 DEF Spare, Recalls
  <2>3. \A i \in 1 .. 1 : i = 1
    OBVIOUS
  <2> QED
    BY <2>1, <2>2, <2>3 DEF SpareInv, Clear, Apart
<1> QED
  BY <1>1, <1>2

\* Every move keeps the spare storages of the running closures apart from
\* all that is written.
LEMMA MovesClear ==
  ASSUME TypeInv, SpareInv, Moves
  PROVE  SpareInv'
<1>1. CASE txs # <<>> /\ frames = <<>> /\ Applies(Head(txs))
  <2> DEFINE tx == Head(txs)
  <2>1. Applies(tx)
    BY <1>1
  <2> HIDE DEF tx
  <2>2. frames' = <<>> \/ \E f : f.kind = "tx" /\ frames' = <<f>>
    BY <1>1, <2>1 DEF Applies, Starts
  <2> QED
    BY <2>2, NothingToClear
<1>2. CASE frames # <<>> /\ \E c : Step(c)
  <2>1. PICK c : Step(c)
    BY <1>2
  <2>2. CASE Ends(c)
    BY <2>2, NothingToClear DEF Ends
  <2> QED
    BY <1>2, <2>1, <2>2, StaysClear, EntersClear, ReturnsClear DEF Step
<1>3. CASE Rewarded
  BY <1>3, NothingToClear DEF Rewarded, machine
<1>4. CASE UNCHANGED vars
  BY <1>4 DEF vars, machine, SpareInv
<1> QED
  BY <1>1, <1>2, <1>3, <1>4 DEF Moves

\* Of the steps that leave a closure below with a zero on its stack, all
\* restore the view.
LEMMA FailureReverts ==
  ASSUME TypeInv, SpareInv, Moves, Len(frames) > Len(frames'), frames' # <<>>,
         Last(frames'[Len(frames')].stack) = 0
  PROVE  View(state') = Frame.resume.before
<1>1. frames # <<>>
  <2>1. CASE frames = <<>>
    <3>1. Len(frames) = 0
      BY <2>1, EmptySeq
    <3>2. frames' = frames \/ \E f : frames' = <<f>>
      BY <2>1 DEF Moves, Applies, Rewarded, machine, vars
    <3>3. Len(frames') >= 0
      BY <3>1, <3>2
    <3> QED
      BY <3>1, <3>3
  <2> QED
    BY <2>1
<1>2. /\ Inner = Len(frames) /\ Inner \in Nat /\ Frame = frames[Inner]
      /\ Shape(frames, Inner) /\ Inner \in 1 .. Inner
  BY <1>1, TopFrame DEF TypeInv
<1>3. PICK c : Step(c)
  <2>1. ~(UNCHANGED vars)
    BY <1>2 DEF vars, machine
  <2> QED
    BY <1>1, <2>1 DEF Moves, Rewarded
<1>4. Pays(Frame, c) /\ Keeps(Frame, c)
  BY <1>3 DEF Step, Pays
<1>5. ~Stays(c)
  BY <1>1, <1>2, <1>4, StaysFrames
<1>6. ~Enters(c)
  <2>1. ASSUME Enters(c)
        PROVE  Len(frames') = Inner + 1
    BY <1>1, <1>4, <2>1, EntersFrames DEF Enters
  <2> QED
    BY <1>2, <2>1
<1>7. Returns(c)
  BY <1>3, <1>5, <1>6 DEF Step, Ends
<1>8. state' = Revert(state, c.resume.snapshot)
  <2>1. Len(frames') = Inner - 1
    BY <1>7 DEF Returns, Pops
  <2> QED
    BY <1>7, <2>1 DEF Returns
<1>9. Frame.kind # "tx" /\ c.kind = Frame.kind /\ c.resume = Frame.resume
  <2>1. Inner > 1
    BY <1>7 DEF Returns
  <2> QED
    BY <1>2, <1>4, <2>1 DEF Shape, Keeps
<1>10. /\ Frame.resume.snapshot.trie = Frame.resume.before.trie
       /\ DOMAIN Frame.resume.snapshot.states = DOMAIN Frame.resume.before.storage
       /\ \A a \in DOMAIN Frame.resume.snapshot.states :
             state.heap[Frame.resume.snapshot.states[a]] = Frame.resume.before.storage[a]
  BY <1>2, <1>9 DEF SpareInv, Clear, Recalls
<1>11. View(state') = [trie |-> c.resume.snapshot.trie,
                       storage |-> [a \in DOMAIN c.resume.snapshot.states |->
                                       state.heap[c.resume.snapshot.states[a]]]]
  BY <1>1, <1>4, <1>8, <1>9, ObjectHanded, RevertGood DEF TypeInv
<1>12. Frame.resume.before \in Views
  <2>1. Inner > 1
    BY <1>7 DEF Returns
  <2> QED
    BY <1>2, <2>1 DEF Shape, CallResume, CreateResume
<1> DEFINE v == Frame.resume.before
           s == Frame.resume.snapshot
<1>13. /\ v = [trie |-> v.trie, storage |-> v.storage]
       /\ v.storage = [a \in DOMAIN v.storage |-> v.storage[a]]
  <2>1. v \in [trie : Partial(Stored), storage : Partial(Items)]
    BY <1>12 DEF Views
  <2> HIDE DEF v
  <2>2. v = [trie |-> v.trie, storage |-> v.storage] /\ v.storage \in Partial(Items)
    BY <2>1
  <2>3. v.storage \in [DOMAIN v.storage -> Items]
    BY <2>2, PartialMember
  <2> QED
    BY <2>2, <2>3
<1>14. View(state') = [trie |-> v.trie,
                       storage |-> [a \in DOMAIN v.storage |-> v.storage[a]]]
  BY <1>9, <1>10, <1>11
<1> HIDE DEF v, s
<1> QED
  BY <1>13, <1>14 DEF v

\* A closure that fails leaves nothing behind, however deep it is nested
\* and whatever the closures it called have done: the state its caller goes
\* on with reads as it did at the call (State.Snapshot, Copy and Revert).
\* SpareInv says that the copies cannot be reached before they are put in
\* place.
THEOREM FailuresLeaveNothing ==
  ASSUME HashesAreNumbers, AddressesAreNumbers
  PROVE  Spec => FailedCallReverts
<1> DEFINE Inv == TypeInv /\ Solvent /\ SpareInv
           Fails == Len(frames) > Len(frames') /\ frames' # <<>>
                    /\ Last(frames'[Len(frames')].stack) = 0
<1>1. Init => Inv
  <2>1. ASSUME Init
        PROVE  SpareInv
    BY <2>1, EmptySeq DEF Init, SpareInv, Clear
  <2> QED
    BY <2>1, InitType
<1>2. Inv /\ [Next]_vars => Inv'
  BY NextMoves, MovesType, MovesSolvent, MovesClear
<1>3. Inv /\ [Next]_vars => [Fails => View(state') = Frame.resume.before]_vars
  BY NextMoves, FailureReverts
<1> QED
  BY <1>1, <1>2, <1>3, PTL DEF Spec, FailedCallReverts

-----------------------------------------------------------------------------
(* Instructions and data.                                                  *)

\* Where the disassembler looks for the next instruction.
After(script, pc) ==
    IF script[pc + 1] \in Pushes THEN pc + 1 + PushLen(script[pc + 1]) ELSE pc + 1

\* What is asked of the recursive function Disassemble takes its places from.
Follows(script, f) ==
    \A pc \in 0 .. Len(script) + 32 :
       f[pc] = IF pc >= Len(script) THEN {} ELSE {pc} \cup f[After(script, pc)]

\* The next instruction is behind the last, and no further than a PUSH32 is
\* long.
LEMMA AfterType ==
  ASSUME NEW script \in Seq(Byte), NEW pc \in 0 .. Len(script) + 32, ~(pc >= Len(script))
  PROVE  After(script, pc) \in pc + 1 .. Len(script) + 32
<1>1. Len(script) \in Nat /\ pc + 1 \in 1 .. Len(script)
  BY LenProperties
<1>2. script[pc + 1] \in Byte
  BY <1>1, ElementOfSeq
<1> DEFINE op == script[pc + 1]
<1>3. op \in Pushes => PushLen(op) \in 1 .. 32
  <2> HIDE DEF op
  <2> QED
    BY Opcodes DEF Pushes, PushLen
<1>4. After(script, pc) = IF op \in Pushes THEN pc + 1 + PushLen(op) ELSE pc + 1
  BY DEF After
<1> DEFINE n == Len(script)
           k == PushLen(op)
           a == After(script, pc)
<1>5. n \in Nat /\ pc \in Nat /\ pc + 1 \in 1 .. n /\ (op \in Pushes => k \in 1 .. 32)
      /\ a = IF op \in Pushes THEN pc + 1 + k ELSE pc + 1
  BY <1>1, <1>3, <1>4
<1> HIDE DEF op, n, k, a
<1>6. a \in pc + 1 .. n + 32
  <2>1. CASE op \in Pushes
    <3>1. k \in 1 .. 32 /\ a = pc + 1 + k
      BY <1>5, <2>1
    <3> QED
      BY <1>5, <3>1
  <2>2. CASE op \notin Pushes
    BY <1>5, <2>2
  <2> QED
    BY <2>1, <2>2
<1> QED
  BY <1>6 DEF n, a

\* Disassemble takes its places from such a function.
LEMMA DisassembleFollows ==
  ASSUME NEW script \in Seq(Byte)
  PROVE  \E f : Follows(script, f) /\ Disassemble(script) = f[0]
<1> DEFINE n == Len(script)
           S == 0 .. n + 32
           V == SUBSET Nat
           rank == [pc \in S |-> n + 32 - pc]
           Def == [q \in [S -> V] \X S |->
                      IF q[2] >= n THEN {} ELSE {q[2]} \cup q[1][After(script, q[2])]]
           Rule(g) == [pc \in S |->
                          IF pc >= n THEN {}
                          ELSE LET op == script[pc + 1]
                               IN  {pc} \cup g[IF op \in Pushes THEN pc + 1 + PushLen(op)
                                               ELSE pc + 1]]
           G == CHOOSE g : g = Rule(g)
<1>1. n \in Nat /\ {} \in V
  BY LenProperties
<1>2. rank \in [S -> Nat]
  BY <1>1
<1>3. \A pc \in S : ~(pc >= n) => After(script, pc) \in S /\ rank[After(script, pc)] < rank[pc]
  <2> SUFFICES ASSUME NEW pc \in S, ~(pc >= n)
               PROVE  After(script, pc) \in S /\ rank[After(script, pc)] < rank[pc]
    OBVIOUS
  <2> DEFINE a == After(script, pc)
  <2>1. a \in pc + 1 .. n + 32
    BY AfterType
  <2> HIDE DEF a, n
  <2>2. a \in S /\ n + 32 - a < n + 32 - pc
    BY <1>1, <2>1
  <2> QED
    BY <2>2 DEF a
<1>4. Def \in [[S -> V] \X S -> V]
  <2> SUFFICES ASSUME NEW g \in [S -> V], NEW pc \in S
               PROVE  (IF pc >= n THEN {} ELSE {pc} \cup g[After(script, pc)]) \in V
    OBVIOUS
  <2>1. ~(pc >= n) => g[After(script, pc)] \in V
    BY <1>3
  <2>2. pc \in Nat
    BY <1>1
  <2> QED
    BY <2>1, <2>2
<1>5. UsesLowerRanks(S, V, rank, Def)
  <2> SUFFICES ASSUME NEW g \in [S -> V], NEW h \in [S -> V], NEW pc \in S,
                      \A y \in S : rank[y] < rank[pc] => g[y] = h[y]
               PROVE  Def[<<g, pc>>] = Def[<<h, pc>>]
    <3> HIDE DEF Def, S, rank
    <3> QED
      BY Zenon DEF UsesLowerRanks
  <2>1. ~(pc >= n) => g[After(script, pc)] = h[After(script, pc)]
    BY <1>3
  <2> HIDE DEF S, rank, n
  <2> QED
    BY <2>1
<1>6. PICK f \in [S -> V] : \A pc \in S : f[pc] = Def[<<f, pc>>]
  <2> HIDE DEF Def, S, V, rank
  <2>1. Solvable(S, V, Def)
    BY <1>1, <1>2, <1>4, <1>5, RankRecursion, Zenon
  <2> QED
    BY <2>1, Zenon DEF Solvable
<1>7. \A pc \in S : f[pc] = IF pc >= n THEN {} ELSE {pc} \cup f[After(script, pc)]
  <2> SUFFICES ASSUME NEW pc \in S
               PROVE  f[pc] = IF pc >= n THEN {} ELSE {pc} \cup f[After(script, pc)]
    OBVIOUS
  <2>1. Def[<<f, pc>>] = IF pc >= n THEN {} ELSE {pc} \cup f[After(script, pc)]
    OBVIOUS
  <2> HIDE DEF Def
  <2> QED
    BY <1>6, <2>1
<1>8. \A g : Rule(g) = [pc \in S |-> IF pc >= n THEN {} ELSE {pc} \cup g[After(script, pc)]]
  BY DEF After
<1>9. f = Rule(f)
  <2>1. f = [pc \in S |-> IF pc >= n THEN {} ELSE {pc} \cup f[After(script, pc)]]
    BY <1>7
  <2> HIDE DEF Rule
  <2> QED
    BY <1>8, <2>1, Zenon
<1>10. G = Rule(G)
  <2> HIDE DEF Rule
  <2> QED
    BY <1>9, Zenon
<1>11. Disassemble(script) = G[0]
  BY Zenon DEF Disassemble
<1>12. Follows(script, G)
  <2>1. G = [pc \in S |-> IF pc >= n THEN {} ELSE {pc} \cup G[After(script, pc)]]
    <3> HIDE DEF Rule, G
    <3> QED
      BY <1>8, <1>10
  <2> HIDE DEF G
  <2> QED
    BY <2>1 DEF Follows
<1> QED
  BY <1>11, <1>12

\* The places are the first one and, after each, the next, up to the end of
\* the script.
LEMMA DisassembleProperties ==
  ASSUME NEW script \in Seq(Byte)
  PROVE  /\ Len(script) = 0 \/ 0 \in Disassemble(script)
         /\ \A pc \in Disassemble(script) :
               /\ pc \in 0 .. Len(script) - 1
               /\ After(script, pc) >= Len(script) \/ After(script, pc) \in Disassemble(script)
<1>1. PICK f : Follows(script, f) /\ Disassemble(script) = f[0]
  BY DisassembleFollows
<1> DEFINE n == Len(script)
           m == n + 32
           Places(a) == \A pc \in f[a] : /\ pc \in 0 .. n - 1
                                         /\ After(script, pc) >= n \/ After(script, pc) \in f[a]
           S == {k \in Nat : \A a \in 0 .. m : a >= m - k => Places(a)}
<1>2. n \in Nat /\ m \in Nat /\ m >= n
  BY LenProperties
<1>3. \A a \in 0 .. m : f[a] = IF a >= n THEN {} ELSE {a} \cup f[After(script, a)]
  BY <1>1 DEF Follows
<1>4. 0 \in S
  <2>1. f[m] = {}
    <3>1. m \in 0 .. m /\ m >= n
      BY <1>2
    <3> HIDE DEF m, n
    <3> QED
      BY <1>3, <3>1
  <2>2. \A a \in 0 .. m : a >= m - 0 => a = m
    BY <1>2
  <2> QED
    BY <2>1, <2>2
<1>5. ASSUME NEW k \in 1 .. m, k - 1 \in S
      PROVE  k \in S
  <2> SUFFICES ASSUME NEW a \in 0 .. m, a >= m - k
               PROVE  Places(a)
    BY <1>2
  <2>1. CASE a >= n
    BY <1>3, <2>1
  <2>2. CASE ~(a >= n)
    <3> DEFINE b == After(script, a)
    <3>1. b \in a + 1 .. m
      BY <2>2, AfterType
    <3> HIDE DEF b
    <3>2. b \in 0 .. m /\ b >= m - (k - 1)
      <4> HIDE DEF m
      <4> QED
        BY <1>2, <3>1
    <3>3. Places(b)
      BY <1>5, <3>2
    <3>4. f[a] = {a} \cup f[b]
      BY <1>3, <2>2 DEF b
    <3>5. b >= n \/ b \in f[b]
      BY <1>2, <1>3, <3>2
    <3>6. a \in 0 .. n - 1
      BY <1>2, <2>2
    <3> QED
      BY <3>3, <3>4, <3>5, <3>6 DEF b
  <2> QED
    BY <2>1, <2>2
<1>6. \A k \in 0 .. m : k \in S
  <2> HIDE DEF S, m
  <2> QED
    BY <1>2, <1>4, <1>5, PrefixInduction
<1>7. Places(0)
  <2>1. m \in S
    <3> HIDE DEF S
    <3> QED
      BY <1>2, <1>6
  <2>2. 0 \in 0 .. m /\ 0 >= m - m
    BY <1>2
  <2> QED
    BY <2>1, <2>2
<1>8. n = 0 \/ 0 \in f[0]
  <2>1. 0 \in 0 .. m /\ (n = 0 \/ ~(0 >= n))
    BY <1>2
  <2> HIDE DEF m, n
  <2> QED
    BY <1>3, <2>1
<1> QED
  BY <1>1, <1>7, <1>8

\* A closure stands on an instruction of its script, or has left it.
Reads(f) == f.pc >= Len(f.script) \/ f.pc \in Disassemble(f.script)

\* The jump a closure is about to make, if any, ends on an instruction or
\* leaves the script.
Lands(f) ==
    OpOf(f) = Op.JUMP \/ (OpOf(f) = Op.JUMPI /\ Top(f, 2) = 1) =>
        Top(f, 1) >= Len(f.script) \/ Top(f, 1) \in Disassemble(f.script)

\* A closure at the same place of the same script reads as well.
LEMMA SamePlace ==
  ASSUME NEW f, NEW g, Reads(f), g.pc = f.pc, g.script = f.script
  PROVE  Reads(g)
BY DEF Reads

\* A closure begins with the first instruction.
LEMMA FirstPlace ==
  ASSUME NEW f \in Closure, f.pc = 0
  PROVE  Reads(f)
<1>1. f.script \in Seq(Byte)
  BY DEF Closure
<1> QED
  BY <1>1, DisassembleProperties DEF Reads

\* What is fetched stands in the script.
LEMMA Fetched ==
  ASSUME NEW f \in Closure, OpOf(f) # Op.STOP
  PROVE  f.pc \in 0 .. Len(f.script) - 1 /\ f.script[f.pc + 1] = OpOf(f)
<1> DEFINE s == f.script
           pc == f.pc
<1>1. s \in Seq(Byte) /\ pc \in Int /\ Len(s) \in Nat
  BY LenProperties DEF Closure
<1>2. ~(pc < 0)
  BY DEF OpOf
<1>3. Gets(s, pc, 1) # <<>> /\ OpOf(f) = Gets(s, pc, 1)[1]
  BY <1>2 DEF OpOf
<1>4. ~(pc >= Len(s)) /\ Gets(s, pc, 1) = SubSeq(s, pc + 1, pc + 1)
  BY <1>3 DEF Gets
<1> HIDE DEF s, pc
<1>5. pc + 1 \in 1 .. Len(s) /\ pc \in 0 .. Len(s) - 1
  BY <1>1, <1>2, <1>4
<1>6. SubSeq(s, pc + 1, pc + 1)[1] = s[pc + 1]
  BY <1>1, <1>5
<1> QED
  BY <1>3, <1>4, <1>5, <1>6 DEF s, pc

\* Going on from an instruction that is no PUSH, or past the bytes of one,
\* leads to an instruction.
LEMMA NextPlace ==
  ASSUME NEW f \in Closure, Reads(f), OpOf(f) # Op.STOP, NEW g, g.script = f.script,
         g.pc = IF OpOf(f) \in Pushes THEN f.pc + 1 + PushLen(OpOf(f)) ELSE f.pc + 1
  PROVE  Reads(g)
<1>1. f.pc \in 0 .. Len(f.script) - 1 /\ f.script[f.pc + 1] = OpOf(f) /\ f.script \in Seq(Byte)
  BY Fetched DEF Closure
<1>2. f.pc \in Disassemble(f.script)
  BY <1>1, LenProperties DEF Reads
<1>3. g.pc = After(f.script, f.pc)
  BY <1>1 DEF After
<1> QED
  BY <1>1, <1>2, <1>3, DisassembleProperties DEF Reads

\* None of the instructions that stay in a closure is STOP, and a PUSH is no
\* jump.
LEMMA LocalGoesOn ==
  ASSUME NEW op \in LocalOps
  PROVE  op # Op.STOP
<1>1. CASE op \in BinaryOps
  BY <1>1, Opcodes DEF BinaryOps
<1>2. CASE op \in EnvironmentOps
  BY <1>2, Opcodes DEF EnvironmentOps, BlockOps
<1>3. CASE op \in Pushes
  BY <1>3, Opcodes DEF Pushes
<1>4. CASE op \notin BinaryOps \cup EnvironmentOps \cup Pushes
  BY <1>4, Opcodes, LocalNumbers
<1> QED
  BY <1>1, <1>2, <1>3, <1>4

\* MSTORE and MSTORE8 go on or panic.
LEMMA StoredPlace ==
  ASSUME NEW f \in Closure, NEW offset, NEW n
  PROVE  StoreWord(f, offset, n).pc \in {f.pc, f.pc + 1}
<1> DEFINE m == MemSet(Drop(f, 2).mem, offset, WordBytes, BigToBytes(n))
<1>1. StoreWord(f, offset, n) = IF offset < 0 THEN Panic(f)
                                ELSE Next1([Drop(f, 2) EXCEPT !.mem = m])
  BY DEF StoreWord
<1> HIDE DEF m
<1>2. Panic(f).pc = f.pc /\ Next1([Drop(f, 2) EXCEPT !.mem = m]).pc = f.pc + 1
  BY DEF Panic, Next1, Drop, Closure
<1> QED
  BY <1>1, <1>2

\* A local instruction stays where it is, when it panics, goes on, past its
\* bytes if it is a PUSH, or jumps.
LEMMA LocalReads ==
  ASSUME NEW f \in Closure, OpOf(f) \in LocalOps, Len(f.stack) >= Requires(OpOf(f)),
         NEW env \in [BlockOps -> Int], HashesAreNumbers, Reads(f), Lands(f)
  PROVE  Reads(Local(f, OpOf(f), env))
<1> DEFINE op == OpOf(f)
           g == Local(f, op, env)
           On == op \notin Pushes /\ g.pc = f.pc + 1
<1>1. g.script = f.script
  BY LocalKeeps DEF KeepsGas, Keeps
<1>2. op # Op.STOP
  BY LocalGoesOn
<1>3. /\ Panic(f).pc = f.pc /\ Next1(f).pc = f.pc + 1
      /\ \A n, x : /\ Next1(Drop(f, n)).pc = f.pc + 1
                   /\ Next1(Push(f, x)).pc = f.pc + 1
                   /\ Next1(Push(Drop(f, n), x)).pc = f.pc + 1
                   /\ [Drop(f, n) EXCEPT !.pc = x].pc = x
                   /\ [Push(f, x) EXCEPT !.pc = @ + 1 + n].pc = f.pc + 1 + n
      /\ \A n, x, y : Next1(Push(Push(Drop(f, n), x), y)).pc = f.pc + 1
      /\ \A n, m : Next1([Drop(f, n) EXCEPT !.mem = m]).pc = f.pc + 1
  BY DEF Panic, Next1, Push, Drop, Closure
<1>4. CASE op \in BinaryOps
  <2>1. op \notin EnvironmentOps \cup Pushes /\ ~Single(op)
    BY <1>4, BinaryAlone
  <2>2. g = IF op \in Op.DIV .. Op.SMOD /\ Top(f, 1) = 0 THEN Panic(f)
            ELSE Next1(Push(Drop(f, 2), Binary(op, Top(f, 2), Top(f, 1))))
    BY <1>4, <2>1 DEF Local, Single
  <2> HIDE DEF g, op
  <2>3. g.pc = f.pc \/ On
    BY <1>3, <2>1, <2>2
  <2> QED
    BY <1>1, <1>2, <2>3, SamePlace, NextPlace DEF op, g
<1>5. CASE op \in EnvironmentOps
  <2>1. op \notin BinaryOps \cup Pushes /\ ~Single(op)
    BY <1>5, EnvironmentAlone
  <2>2. g = Next1(Push(f, Environment(f, op, env)))
    BY <1>5, <2>1 DEF Local, Single
  <2> HIDE DEF g, op
  <2>3. On
    BY <1>3, <2>1, <2>2
  <2> QED
    BY <1>1, <1>2, <2>3, NextPlace DEF op, g
<1>6. CASE op \in Pushes
  <2> DEFINE n == PushLen(op)
             x == BigD(Gets(f.script, f.pc + 1, n))
  <2>1. op \notin BinaryOps \cup EnvironmentOps /\ ~Single(op)
    BY <1>6, PushAlone
  <2>2. g = IF CanGet(f.script, f.pc + 1, n) THEN [Push(f, x) EXCEPT !.pc = @ + 1 + n]
            ELSE Panic(f)
    BY <1>6, <2>1 DEF Local, Single
  <2> HIDE DEF g, n, x
  <2>3. g.pc = f.pc \/ g.pc = f.pc + 1 + n
    BY <1>3, <2>2
  <2> QED
    BY <1>1, <1>2, <1>6, <2>3, SamePlace, NextPlace DEF g, n
<1>7. CASE op \notin BinaryOps \cup EnvironmentOps \cup Pushes
  <2>1. Single(op)
    BY <1>7, LocalNumbers, Opcodes DEF Single
  <2>2. CASE op = Op.JUMP
    <3>1. g = [Drop(f, 1) EXCEPT !.pc = Top(f, 1)]
      BY <1>7, <2>2, Opcodes DEF Local
    <3>2. g.pc = Top(f, 1)
      BY <1>3, <3>1
    <3> QED
      BY <1>1, <2>2, <3>2 DEF Lands, Reads
  <2>3. CASE op = Op.JUMPI
    <3>1. g = IF Top(f, 2) = 1 THEN [Drop(f, 2) EXCEPT !.pc = Top(f, 1)] ELSE Next1(Drop(f, 2))
      BY <1>7, <2>3, Opcodes DEF Local
    <3>2. CASE Top(f, 2) = 1
      <4>1. g.pc = Top(f, 1)
        BY <1>3, <3>1, <3>2
      <4> QED
        BY <1>1, <2>3, <3>2, <4>1 DEF Lands, Reads
    <3>3. CASE Top(f, 2) # 1
      <4>1. On
        BY <1>3, <1>7, <3>1, <3>3
      <4> QED
        BY <1>1, <1>2, <4>1, NextPlace
    <3> QED
      BY <3>2, <3>3
  <2>4. CASE op # Op.JUMP /\ op # Op.JUMPI
    <3>1. g.pc \in {f.pc, f.pc + 1}
      <4>1. CASE op = Op.NEG
        <5>1. g = Next1(Push(Drop(f, 1), Pow256 - Top(f, 1)))
          BY <1>7, <4>1, Opcodes DEF Local
        <5> HIDE DEF g, op
        <5> QED
          BY <1>3, <5>1
      <4>2. CASE op = Op.NOT
        <5>1. g = Next1(Push(Drop(f, 1), Truth(Top(f, 1) = 0)))
          BY <1>7, <4>2, Opcodes DEF Local
        <5> HIDE DEF g, op
        <5> QED
          BY <1>3, <5>1
      <4>3. CASE op = Op.CALLDATALOAD
        <5>1. g = IF Top(f, 1) < 0 THEN Panic(f)
                ELSE Next1(Push(Drop(f, 1), CallData(f, Top(f, 1))))
          BY <1>7, <4>3, Opcodes DEF Local
        <5> HIDE DEF g, op
        <5> QED
          BY <1>3, <5>1
      <4>4. CASE op = Op.LOG
        <5>1. g = Next1(f)
          BY <1>7, <4>4, Opcodes DEF Local
        <5> HIDE DEF g, op
        <5> QED
          BY <1>3, <5>1
      <4>5. CASE op = Op.SHA3
        <5>1. g = IF CanRead(f.mem, Top(f, 1), Top(f, 2))
                THEN Next1(Push(Drop(f, 2), Sha3(MemGet(f.mem, Top(f, 1), Top(f, 2)))))
                ELSE Panic(f)
          BY <1>7, <4>5, Opcodes DEF Local
        <5> HIDE DEF g, op
        <5> QED
          BY <1>3, <5>1
      <4>6. CASE op = Op.POP
        <5>1. g = Next1(Drop(f, 1))
          BY <1>7, <4>6, Opcodes DEF Local
        <5> HIDE DEF g, op
        <5> QED
          BY <1>3, <5>1
      <4>7. CASE op = Op.DUP
        <5>1. g = Next1(Push(f, Top(f, 1)))
          BY <1>7, <4>7, Opcodes DEF Local
        <5> HIDE DEF g, op
        <5> QED
          BY <1>3, <5>1
      <4>8. CASE op = Op.SWAP
        <5>1. g = Next1(Push(Push(Drop(f, 2), Top(f, 1)), Top(f, 2)))
          BY <1>7, <4>8, Opcodes DEF Local
        <5> HIDE DEF g, op
        <5> QED
          BY <1>3, <5>1
      <4>9. CASE op = Op.MLOAD
        <5>1. g = IF CanRead(f.mem, Top(f, 1), WordBytes)
                THEN Next1(Push(Drop(f, 1), BigD(MemGet(f.mem, Top(f, 1), WordBytes))))
                ELSE Panic(f)
          BY <1>7, <4>9, Opcodes DEF Local
        <5> HIDE DEF g, op
        <5> QED
          BY <1>3, <5>1
      <4>10. CASE op = Op.MSTORE
        <5>1. g = StoreWord(f, Top(f, 1), Top(f, 2))
          BY <1>7, <4>10, Opcodes DEF Local
        <5> HIDE DEF g, op
        <5> QED
          BY <1>3, <5>1, StoredPlace
      <4>11. CASE op = Op.MSTORE8
        <5>1. g = StoreWord(f, Top(f, 1), Top(f, 2) % 256)
          BY <1>7, <4>11, Opcodes DEF Local
        <5> HIDE DEF g, op
        <5> QED
          BY <1>3, <5>1, StoredPlace
      <4> QED
        BY <2>1, <2>4, <4>1, <4>2, <4>3, <4>4, <4>5, <4>6, <4>7, <4>8, <4>9, <4>10, <4>11
           DEF Single
    <3>2. g.pc = f.pc \/ On
      BY <1>7, <3>1
    <3> HIDE DEF g, op
    <3> QED
      BY <1>1, <1>2, <3>2, SamePlace, NextPlace DEF op, g
  <2> QED
    BY <2>2, <2>3, <2>4
<1> QED
  BY <1>4, <1>5, <1>6, <1>7

\* Every closure on the call stack stands on an instruction.
PlacesInv == \A i \in 1 .. Len(frames) : Reads(frames[i])

\* No closure is about to jump into data.
JumpsLand ==
    frames # <<>> /\ Len(Frame.stack) >= Requires(OpOf(Frame)) => Lands(Frame)

\* The instructions that leave the closure, or read and write its storage, are
\* none of the local ones.
LEMMA Outside ==
  ASSUME NEW op \in {Op.SLOAD, Op.SSTORE, Op.CALL, Op.CREATE}
  PROVE  op \in Known \ (LocalOps \cup {Op.STOP})
BY Opcodes DEF Known, LocalOps, BinaryOps, EnvironmentOps, BlockOps, Pushes

\* A closure that has gone on by one instruction that is no PUSH.
LEMMA GoesOn ==
  ASSUME NEW f \in Closure, Reads(f), OpOf(f) \in Known \ (LocalOps \cup {Op.STOP}),
         NEW g, g.script = f.script, g.pc = f.pc + 1
  PROVE  Reads(g)
<1>1. OpOf(f) \notin Pushes /\ OpOf(f) # Op.STOP
  BY DEF LocalOps
<1> QED
  BY <1>1, NextPlace

\* The innermost closure has gone on to an instruction.
LEMMA ContinuesPlaces ==
  ASSUME StackInv, frames # <<>>, PlacesInv, NEW g, Reads(g), Continue(g)
  PROVE  PlacesInv'
<1> DEFINE S == Closure \cup {g}
<1>1. frames \in [1 .. Inner -> Closure] /\ Inner = Len(frames) /\ Inner # 0
  BY TopFrame, LenProperties DEF StackInv, Inner
<1>2. frames \in Seq(S)
  <2>1. frames \in [1 .. Inner -> S] /\ Inner \in Nat
    BY <1>1, TopFrame
  <2> HIDE DEF S
  <2> QED
    BY <2>1, FunctionIsSeq
<1>3. g \in S /\ frames' = [frames EXCEPT ![Inner] = g]
  BY DEF Continue
<1> HIDE DEF S
<1>4. /\ Len(frames') = Inner /\ frames'[Inner] = g
      /\ \A i \in 1 .. Inner : i # Inner => frames'[i] = frames[i]
  <2>1. Inner = Len(frames) /\ Inner # 0
    BY <1>1
  <2> QED
    BY <1>2, <1>3, <2>1, ReplaceTop
<1> QED
  BY <1>1, <1>4 DEF PlacesInv

\* The innermost closure has gone on and started another one, which stands
\* on the first instruction of its script.
LEMMA EntersPlaces ==
  ASSUME StackInv, StackInv', frames # <<>>, PlacesInv, NEW g, Reads(g), NEW e, e.pc = 0,
         frames' = Append([frames EXCEPT ![Inner] = g], e)
  PROVE  PlacesInv'
<1> DEFINE S == Closure \cup {g, e}
           fr == [frames EXCEPT ![Inner] = g]
<1>1. frames \in [1 .. Inner -> Closure] /\ Inner = Len(frames) /\ Inner # 0
  BY TopFrame, LenProperties DEF StackInv, Inner
<1>2. frames \in Seq(S)
  <2>1. frames \in [1 .. Inner -> S] /\ Inner \in Nat
    BY <1>1, TopFrame
  <2> HIDE DEF S
  <2> QED
    BY <2>1, FunctionIsSeq
<1>3. g \in S /\ e \in S /\ Inner \in Nat
  BY TopFrame
<1> HIDE DEF S
<1>4. /\ fr \in Seq(S) /\ Len(fr) = Inner /\ fr[Inner] = g
      /\ \A i \in 1 .. Inner : i # Inner => fr[i] = frames[i]
  <2>1. Inner = Len(frames) /\ Inner # 0
    BY <1>1
  <2> QED
    BY <1>2, <1>3, <2>1, ReplaceTop
<1> HIDE DEF fr
<1>5. /\ Len(frames') = Inner + 1 /\ frames'[Inner + 1] = e
      /\ \A i \in 1 .. Inner : frames'[i] = fr[i]
  BY <1>3, <1>4, AppendProperties DEF fr
<1>6. Reads(e)
  <2>1. frames' \in Seq(Closure) /\ Inner + 1 \in 1 .. Len(frames')
    BY <1>3, <1>5 DEF StackInv
  <2>2. e \in Closure
    BY <1>5, <2>1, ElementOfSeq
  <2> QED
    BY <2>2, FirstPlace
<1>7. ASSUME NEW i \in 1 .. Inner + 1
      PROVE  Reads(frames'[i])
  <2>1. CASE i = Inner + 1
    BY <1>5, <1>6, <2>1
  <2>2. CASE i = Inner
    BY <1>3, <1>4, <1>5, <2>2
  <2>3. CASE i # Inner + 1 /\ i # Inner
    <3>1. i \in 1 .. Inner
      BY <1>3, <2>3
    <3>2. frames'[i] = frames[i]
      BY <1>4, <1>5, <2>3, <3>1
    <3> QED
      BY <1>1, <3>1, <3>2 DEF PlacesInv
  <2> QED
    BY <2>1, <2>2, <2>3
<1> QED
  BY <1>5, <1>7 DEF PlacesInv

\* Giving gas back leaves a closure where it is.
LEMMA RepaidPlace ==
  ASSUME NEW p \in Closure, NEW n
  PROVE  ReturnGas(p, n).pc = p.pc /\ ReturnGas(p, n).script = p.script
BY DEF ReturnGas, Closure

\* Pushing a result leaves a closure where it is.
LEMMA PushedPlace ==
  ASSUME NEW p \in Closure, NEW n
  PROVE  Push(p, n).pc = p.pc /\ Push(p, n).script = p.script
BY DEF Push, Closure

\* Writing what a CALL returned leaves the caller where it is.
LEMMA ResumedPlace ==
  ASSUME NEW c, NEW p \in Closure, NEW ret
  PROVE  ResumeCall(c, p, ret).pc = p.pc /\ ResumeCall(c, p, ret).script = p.script
<1> DEFINE q == Push(p, 1)
           m == MemSet(q.mem, c.resume.offset, c.resume.size, ret)
<1>1. ResumeCall(c, p, ret) = IF c.resume.offset < 0 \/ c.resume.size < 0 THEN Panic(q)
                              ELSE [q EXCEPT !.mem = m]
  BY DEF ResumeCall
<1> HIDE DEF m
<1>2. /\ Panic(q).pc = p.pc /\ Panic(q).script = p.script
      /\ [q EXCEPT !.mem = m].pc = p.pc /\ [q EXCEPT !.mem = m].script = p.script
  BY DEF Panic, Push, Closure
<1> QED
  BY <1>1, <1>2

\* The end of a closure leaves those below it where they are.
LEMMA LeavesPlaces ==
  ASSUME TypeInv, frames # <<>>, PlacesInv, NEW c, Keeps(Frame, c),
         NEW ret, NEW err, NEW st, Leave(c, ret, err, st)
  PROVE  PlacesInv'
<1>1. Inner \in Nat /\ Inner >= 1 /\ Inner = Len(frames)
      /\ \A i \in 1 .. Inner : frames[i] \in Closure
  BY TopFrame DEF TypeInv
<1>2. CASE Inner = 1
  <2>1. frames' = <<>>
    BY <1>2 DEF Leave, EvalScriptEnd
  <2> QED
    BY <2>1, EmptySeq DEF PlacesInv
<1>3. CASE Inner > 1
  <2> DEFINE below == Below(c)
             n == Inner - 1
             p == below[n]
             object == IF c.kind = "call" THEN c.object ELSE c.resume.contract
             g == IF err THEN Push(p, 0)
                  ELSE IF c.kind = "call" THEN ResumeCall(c, p, ret)
                  ELSE Push(p, object.addr)
             S == Closure \cup {g}
  <2>1. frames' = [below EXCEPT ![n] = g]
    <3>1. Resume(c, ret, err, st)
      BY <1>3 DEF Leave
    <3> QED
      BY <3>1, Zenon DEF Resume
  <2>2. /\ below \in Seq(Closure) /\ Len(below) = n
        /\ below \in [1 .. n -> Closure]
    <3>1. below \in Seq(Closure) /\ Len(below) = n
      BY <1>3, BelowGets
    <3> HIDE DEF below, n
    <3> QED
      BY <3>1, LenProperties
  <2>3. \A i \in 1 .. n : below[i].pc = frames[i].pc /\ below[i].script = frames[i].script
    <3>1. \A i \in 1 .. n : below[i] = IF i = c.callee THEN ReturnGas(frames[i], c.gas)
                                       ELSE frames[i]
      BY DEF Below
    <3>2. \A i \in 1 .. n : frames[i] \in Closure
      BY <1>1
    <3> HIDE DEF below, n
    <3> QED
      BY <3>1, <3>2, RepaidPlace
  <2>4. n \in Nat /\ n # 0 /\ n \in 1 .. n
    BY <1>1, <1>3
  <2> HIDE DEF below, n
  <2>5. p \in Closure
    BY <2>2, <2>4
  <2> HIDE DEF object
  <2>6. g.pc = p.pc /\ g.script = p.script
    <3> HIDE DEF p
    <3> QED
      BY <2>5, PushedPlace, ResumedPlace
  <2>7. g \in S /\ below \in Seq(S)
    <3>1. below \in [1 .. n -> S]
      BY <2>2
    <3>2. g \in S
      OBVIOUS
    <3> HIDE DEF S
    <3> QED
      BY <2>4, <3>1, <3>2, FunctionIsSeq
  <2> HIDE DEF g, S
  <2>8. /\ Len(frames') = n /\ frames'[n] = g
        /\ \A i \in 1 .. n : i # n => frames'[i] = below[i]
    BY <2>1, <2>2, <2>4, <2>7, ReplaceTop
  <2>9. \A i \in 1 .. n : frames'[i].pc = frames[i].pc /\ frames'[i].script = frames[i].script
    BY <2>3, <2>4, <2>6, <2>8
  <2>10. \A i \in 1 .. n : Reads(frames[i])
    <3>1. \A i \in 1 .. n : i \in 1 .. Len(frames)
      BY <1>1 DEF n
    <3> QED
      BY <3>1 DEF PlacesInv
  <2>11. \A i \in 1 .. n : Reads(frames'[i])
    BY <2>9, <2>10, SamePlace
  <2> QED
    BY <2>8, <2>11 DEF PlacesInv
<1> QED
  BY <1>1, <1>2, <1>3

\* A local instruction, SLOAD and SSTORE go on to an instruction.
LEMMA StaysPlaces ==
  ASSUME TypeInv, frames # <<>>, HashesAreNumbers, PlacesInv, JumpsLand,
         NEW c, Pays(Frame, c), Reads(c), LocalStep(c) \/ StorageStep(c)
  PROVE  PlacesInv'
<1>1. c \in Closure /\ StackInv
  BY DEF Pays, Keeps, TypeInv
<1>2. CASE LocalStep(c)
  <2>1. c.ok /\ OpOf(c) \in LocalOps /\ Len(c.stack) >= Requires(OpOf(c))
    BY <1>2 DEF LocalStep, Pays
  <2>2. Lands(c)
    <3>1. /\ c.pc = Frame.pc /\ c.script = Frame.script /\ c.stack = Frame.stack
          /\ OpOf(c) = OpOf(Frame)
      BY OpOfSame DEF Pays, Keeps
    <3>2. Lands(Frame)
      BY <2>1, <3>1 DEF JumpsLand
    <3> QED
      BY <3>1, <3>2 DEF Lands, Top
  <2>3. Reads(Local(c, OpOf(c), Env))
    BY <1>1, <2>1, <2>2, EnvType, LocalReads
  <2>4. Continue(Local(c, OpOf(c), Env))
    BY <1>2 DEF LocalStep
  <2> QED
    BY <1>1, <2>3, <2>4, ContinuesPlaces
<1>3. CASE StorageStep(c)
  <2>1. OpOf(c) \in {Op.SLOAD, Op.SSTORE}
    BY <1>3 DEF StorageStep
  <2>2. OpOf(c) \in Known \ (LocalOps \cup {Op.STOP})
    BY <2>1, Outside
  <2>3. PICK g : /\ Continue(g)
                 /\ \/ \E v : g = Next1(Push(Drop(c, 1), v))
                    \/ g = Next1(Drop(c, 2))
    BY <1>3 DEF StorageStep
  <2>4. g.pc = c.pc + 1 /\ g.script = c.script
    BY <1>1, <2>3 DEF Next1, Push, Drop, Closure
  <2>5. Reads(g)
    BY <1>1, <2>2, <2>4, GoesOn
  <2> QED
    BY <1>1, <2>3, <2>5, ContinuesPlaces
<1> QED
  BY <1>2, <1>3

\* CALL panics, is answered at once or starts another closure; the caller
\* stands behind the CALL then.
LEMMA CallPlaces ==
  ASSUME TypeInv, TypeInv', frames # <<>>, PlacesInv, NEW c, Pays(Frame, c), Reads(c), Call(c)
  PROVE  PlacesInv'
<1> DEFINE d == Next1(Drop(c, 7))
           addr == Abs(Top(c, 1))
           gas == IF Top(c, 3) = 0 THEN c.gas ELSE Top(c, 3)
           contract == AddAmount(GetStateObject(Copied(state), addr), Top(c, 2))
           resume == [snapshot |-> Snapshot(state), before |-> View(state),
                      offset |-> Top(c, 6), size |-> Top(c, 7)]
           e == NewClosure("call", Inner, c.object.addr, contract, contract.code,
                           MemGet(c.mem, Top(c, 4), Top(c, 5)), gas, resume)
           g == UseGas(d, gas)
<1>1. c \in Closure /\ StackInv /\ StackInv' /\ OpOf(c) = Op.CALL
  BY DEF Pays, Keeps, TypeInv, Call
<1>2. OpOf(c) \in Known \ (LocalOps \cup {Op.STOP})
  BY <1>1, Outside
<1>3. \/ Continue(Push(d, 0)) \/ Continue(Panic(c))
      \/ frames' = Append([frames EXCEPT ![Inner] = g], e)
  BY Zenon DEF Call
<1>4. /\ Push(d, 0).pc = c.pc + 1 /\ Push(d, 0).script = c.script
      /\ Panic(c).pc = c.pc /\ Panic(c).script = c.script
  BY <1>1 DEF Push, Next1, Drop, Panic, Closure
<1>5. g.pc = c.pc + 1 /\ g.script = c.script
  <2> HIDE DEF gas
  <2> QED
    BY <1>1 DEF UseGas, Next1, Drop, Closure
<1>6. e.pc = 0
  <2> HIDE DEF contract, gas, resume
  <2> QED
    BY DEF NewClosure
<1> HIDE DEF d, e, g
<1>7. Reads(Push(d, 0)) /\ Reads(Panic(c)) /\ Reads(g)
  BY <1>1, <1>2, <1>4, <1>5, SamePlace, GoesOn
<1> QED
  BY <1>1, <1>3, <1>6, <1>7, ContinuesPlaces, EntersPlaces

\* CREATE panics or starts the init script.
LEMMA CreatePlaces ==
  ASSUME TypeInv, TypeInv', frames # <<>>, PlacesInv, NEW c, Pays(Frame, c), Reads(c), Create(c)
  PROVE  PlacesInv'
<1> DEFINE d == Next1(Drop(c, 3))
           nonce == IF c.callee = 0 THEN account.nonce ELSE frames[c.callee].object.nonce
           contract == NewContract(Copied(state), CreateAddress(c.caller, nonce), Top(c, 1))
           resume == [snapshot |-> Snapshot(state), before |-> View(state),
                      contract |-> contract]
           e == NewClosure("create", c.callee, c.caller, c.object,
                           MemGet(c.mem, Top(c, 2), Top(c, 3)), <<>>, c.gas, resume)
           g == UseGas(d, c.gas)
<1>1. c \in Closure /\ StackInv /\ StackInv' /\ OpOf(c) = Op.CREATE
  BY DEF Pays, Keeps, TypeInv, Create
<1>2. OpOf(c) \in Known \ (LocalOps \cup {Op.STOP})
  BY <1>1, Outside
<1>3. Continue(Panic(c)) \/ frames' = Append([frames EXCEPT ![Inner] = g], e)
  BY Zenon DEF Create
<1>4. Panic(c).pc = c.pc /\ Panic(c).script = c.script
  BY <1>1 DEF Panic, Closure
<1>5. g.pc = c.pc + 1 /\ g.script = c.script
  BY <1>1 DEF UseGas, Next1, Drop, Closure
<1>6. e.pc = 0
  <2> HIDE DEF contract, resume
  <2> QED
    BY DEF NewClosure
<1> HIDE DEF d, e, g
<1>7. Reads(Panic(c)) /\ Reads(g)
  BY <1>1, <1>2, <1>4, <1>5, SamePlace, GoesOn
<1> QED
  BY <1>1, <1>3, <1>6, <1>7, ContinuesPlaces, EntersPlaces

\* A transaction that runs starts one closure, on its first instruction.
LEMMA AppliesPlaces ==
  ASSUME TypeInv, TypeInv', AddressesAreNumbers, PlacesInv, ApplyTransaction
  PROVE  PlacesInv'
<1>1. frames = <<>>
  BY ApplyTransactionApplies
<1>2. frames' = frames \/ \E f : f.pc = 0 /\ frames' = <<f>>
  <2>1. \/ frames' = frames
        \/ \E kind, callee, caller, object, script, args, gas, resume :
              frames' = <<NewClosure(kind, callee, caller, object, script, args, gas, resume)>>
    BY Zenon DEF ApplyTransaction
  <2>2. \A kind, callee, caller, object, script, args, gas, resume :
           NewClosure(kind, callee, caller, object, script, args, gas, resume).pc = 0
    BY DEF NewClosure
  <2> QED
    BY <2>1, <2>2, Zenon
<1>3. CASE frames' = frames
  BY <1>1, <1>3, EmptySeq DEF PlacesInv
<1>4. CASE \E f : f.pc = 0 /\ frames' = <<f>>
  <2>1. PICK f : f.pc = 0 /\ frames' = <<f>>
    BY <1>4
  <2>2. frames' \in Seq(Closure) /\ Len(frames') = 1 /\ frames'[1] = f
    BY <2>1 DEF TypeInv, StackInv
  <2>3. f \in Closure
    BY <2>2, ElementOfSeq
  <2> QED
    BY <2>1, <2>2, <2>3, FirstPlace DEF PlacesInv
<1> QED
  BY <1>2, <1>3, <1>4

\* Every step leaves every closure on an instruction, if no closure jumps
\* into data.
LEMMA NextPlaces ==
  ASSUME TypeInv, TypeInv', HashesAreNumbers, AddressesAreNumbers, PlacesInv, JumpsLand,
         [Next]_vars
  PROVE  PlacesInv'
<1>1. CASE ApplyTransaction
  BY <1>1, AppliesPlaces
<1>2. CASE RunClosure
  <2> DEFINE c == Charged(Frame)
  <2>1. frames # <<>>
    BY <1>2 DEF TypeInv, LedgerInv, RunClosure
  <2>2. Pays(Frame, c)
    BY <2>1, TopFrame, ChargedPays DEF TypeInv
  <2>3. \/ LocalStep(c) \/ StorageStep(c) \/ Call(c) \/ Create(c)
        \/ Return(c) \/ Stop(c) \/ Suicide(c) \/ Fail(c)
    BY <1>2 DEF RunClosure
  <2> HIDE DEF c
  <2>4. Reads(c)
    <3>1. Reads(Frame)
      BY <2>1, TopFrame DEF TypeInv, PlacesInv
    <3> QED
      BY <2>2, <3>1, SamePlace DEF Pays, Keeps
  <2>5. CASE LocalStep(c) \/ StorageStep(c)
    BY <2>1, <2>2, <2>4, <2>5, StaysPlaces
  <2>6. CASE Call(c)
    BY <2>1, <2>2, <2>4, <2>6, CallPlaces
  <2>7. CASE Create(c)
    BY <2>1, <2>2, <2>4, <2>7, CreatePlaces
  <2>8. CASE Return(c) \/ Stop(c) \/ Suicide(c) \/ Fail(c)
    <3>1. \E ret, err, st : Leave(c, ret, err, st)
      BY <2>8, Zenon DEF Return, Stop, Suicide, Fail
    <3> QED
      BY <2>1, <2>2, <3>1, LeavesPlaces DEF Pays
  <2> QED
    BY <2>3, <2>5, <2>6, <2>7, <2>8
<1>3. CASE AccumelateRewards
  <2>1. frames' = frames
    BY <1>3, Zenon DEF AccumelateRewards, machine
  <2> QED
    BY <2>1 DEF PlacesInv
<1>4. CASE UNCHANGED vars
  BY <1>4 DEF vars, machine, PlacesInv
<1> QED
  BY <1>1, <1>2, <1>3, <1>4 DEF Next

\* Where no closure ever jumps into data, whatever the contracts and the
\* transactions, the machine only executes what the disassembler lists.
\* JumpsLand is what a contract owes; that fetching, PUSHes, calls and returns
\* keep in step with the disassembler is what the machine owes.
THEOREM OnlyInstructionsExecuted ==
  ASSUME HashesAreNumbers, AddressesAreNumbers
  PROVE  Spec /\ []JumpsLand => []ExecutesInstructions
<1>1. Init => TypeInv /\ Solvent /\ PlacesInv
  <2>1. Init => PlacesInv
    BY EmptySeq DEF Init, PlacesInv
  <2> QED
    BY <2>1, InitType
<1>2. TypeInv /\ Solvent /\ [Next]_vars => (TypeInv /\ Solvent)'
  BY NextMoves, MovesType, MovesSolvent
<1>3. TypeInv /\ TypeInv' /\ PlacesInv /\ JumpsLand /\ [Next]_vars => PlacesInv'
  BY NextPlaces
<1>4. TypeInv /\ PlacesInv => ExecutesInstructions
  <2> SUFFICES ASSUME TypeInv, PlacesInv, frames # <<>>, Frame.pc < Len(Frame.script)
               PROVE  Frame.pc \in Disassemble(Frame.script)
    BY DEF ExecutesInstructions
  <2>1. Reads(Frame) /\ Frame \in Closure
    BY TopFrame DEF TypeInv, PlacesInv
  <2>2. Frame.pc \in Int /\ Len(Frame.script) \in Nat
    BY <2>1, LenProperties DEF Closure
  <2> QED
    BY <2>1, <2>2 DEF Reads
<1> QED
  BY <1>1, <1>2, <1>3, <1>4, PTL DEF Spec
=============================================================================
