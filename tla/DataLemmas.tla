----------------------------- MODULE DataLemmas -----------------------------
(***************************************************************************)
(* Facts about the data the models are built from: recursive functions,    *)
(* folds and sums, and the operations of container/list the models take    *)
(* for sequences (the transaction pool and the list of peers are such      *)
(* lists).                                                                 *)
(*                                                                         *)
(* An induction theorem that takes a predicate as an operator cannot be    *)
(* instantiated by the provers at hand.  The lemmas here take sets and     *)
(* functions instead; they rest on the well-foundedness of < on the        *)
(* naturals.  With them what a loop of the program computes, as a fold or  *)
(* a recursive function of the models, is proved for lists and sets of any *)
(* size.                                                                   *)
(***************************************************************************)
EXTENDS Integers, SequencesExt, FiniteSetTheorems, SequenceTheorems, TLAPS

(* A set of naturals has a least element, as FiniteSetsExt!Min returns it. *)
LEMMA LeastNatural ==
  ASSUME NEW T \in SUBSET Nat, T # {}
  PROVE  \E n \in T : \A m \in T : n <= m
<1> DEFINE R == {ss \in Nat \X Nat : ss[1] < ss[2]}
<1>1. IsWellFoundedOn(R, Nat)
  BY NatLessThanWellFounded DEF OpToRel
<1>2. \A x, y \in Nat : y < x => <<y, x>> \in R
  OBVIOUS
<1> HIDE DEF R
<1>3. PICK x \in T : \A y \in T : ~(<<y, x>> \in R)
  BY <1>1, WFMin
<1>4. ASSUME NEW y \in T
      PROVE  x <= y
  <2>1. x \in Nat /\ y \in Nat /\ ~(y < x)
    BY <1>2, <1>3
  <2> QED
    BY <2>1
<1> QED
  BY <1>4

(* Induction with a set for the predicate.                                 *)
LEMMA NatSetInduction ==
  ASSUME NEW S, 0 \in S, \A n \in Nat : n \in S => n + 1 \in S
  PROVE  \A n \in Nat : n \in S
<1> SUFFICES ASSUME NEW k \in Nat, k \notin S
             PROVE  FALSE
  OBVIOUS
<1> DEFINE T == {n \in Nat : n \notin S}
<1>1. PICK n \in T : \A m \in T : n <= m
  <2>1. T # {} /\ T \in SUBSET Nat
    OBVIOUS
  <2> HIDE DEF T
  <2> QED
    BY <2>1, LeastNatural
<1>2. n # 0 /\ n - 1 \in Nat /\ n - 1 \in S
  BY <1>1
<1> QED
  BY <1>1, <1>2

(* Def[<<g, x>>] depends on the values of g at points of lower rank only.   *)
UsesLowerRanks(S, V, rank, Def) ==
    \A g, h \in [S -> V] : \A x \in S :
        (\A y \in S : rank[y] < rank[x] => g[y] = h[y]) => Def[<<g, x>>] = Def[<<h, x>>]

(* The recursive equation f[x] = Def[<<f, x>>] has a solution.              *)
Solvable(S, V, Def) == \E f \in [S -> V] : \A x \in S : f[x] = Def[<<f, x>>]

(* A function defined by recursion on a rank exists, so that CHOOSE, which *)
(* recursive functions and folds stand for, yields a solution of their     *)
(* equation.                                                               *)
LEMMA RankRecursion ==
  ASSUME NEW S, NEW V, NEW v \in V, NEW rank \in [S -> Nat],
         NEW Def \in [[S -> V] \X S -> V], UsesLowerRanks(S, V, rank, Def)
  PROVE  Solvable(S, V, Def)
<1> USE DEF UsesLowerRanks, Solvable
<1> DEFINE Good(g, n) == \A x \in S : rank[x] < n => g[x] = Def[<<g, x>>]
           N == {n \in Nat : \A g, h \in [S -> V] : Good(g, n) /\ Good(h, n) =>
                     \A x \in S : rank[x] < n => g[x] = h[x]}
           E == {n \in Nat : \E g \in [S -> V] : Good(g, n)}
<1>1. \A n \in Nat : n \in N
  <2>1. 0 \in N
    OBVIOUS
  <2>2. ASSUME NEW n \in Nat, n \in N
        PROVE  n + 1 \in N
    <3>1. ASSUME NEW g \in [S -> V], NEW h \in [S -> V], Good(g, n + 1), Good(h, n + 1),
                 NEW x \in S, rank[x] < n + 1
          PROVE  g[x] = h[x]
      <4>1. Good(g, n) /\ Good(h, n)
        BY <3>1
      <4>2. \A y \in S : rank[y] < n => g[y] = h[y]
        BY <2>2, <4>1
      <4>3. \A y \in S : rank[y] < rank[x] => g[y] = h[y]
        BY <3>1, <4>2
      <4>4. Def[<<g, x>>] = Def[<<h, x>>]
        BY <4>3
      <4> QED
        BY <3>1, <4>4
    <3> HIDE DEF Good
    <3> QED
      BY <3>1
  <2> HIDE DEF N
  <2> QED
    BY <2>1, <2>2, NatSetInduction
<1>2. \A n \in Nat : n \in E
  <2>1. 0 \in E
    <3>2. [x \in S |-> v] \in [S -> V]
      OBVIOUS
    <3>3. Good([x \in S |-> v], 0)
      OBVIOUS
    <3> QED
      BY <3>2, <3>3
  <2>2. ASSUME NEW n \in Nat, n \in E
        PROVE  n + 1 \in E
    <3>1. PICK g \in [S -> V] : Good(g, n)
      BY <2>2
    <3> DEFINE h == [x \in S |-> Def[<<g, x>>]]
    <3>2. h \in [S -> V]
      OBVIOUS
    <3>3. \A x \in S : rank[x] < n => h[x] = g[x]
      BY <3>1
    <3>4. Good(h, n + 1)
      <4> SUFFICES ASSUME NEW x \in S, rank[x] < n + 1
                   PROVE  h[x] = Def[<<h, x>>]
        OBVIOUS
      <4>1. \A y \in S : rank[y] < rank[x] => g[y] = h[y]
        BY <3>3
      <4>2. h[x] = Def[<<g, x>>]
        OBVIOUS
      <4> HIDE DEF h
      <4> QED
        BY <3>2, <4>1, <4>2
    <3> HIDE DEF h
    <3> QED
      BY <3>2, <3>4
  <2> HIDE DEF E
  <2> QED
    BY <2>1, <2>2, NatSetInduction
<1> DEFINE G(n) == CHOOSE g \in [S -> V] : Good(g, n)
           f == [x \in S |-> G(rank[x] + 1)[x]]
<1>3. \A n \in Nat : G(n) \in [S -> V] /\ Good(G(n), n)
  BY <1>2
<1> HIDE DEF G
<1>4. f \in [S -> V]
  BY <1>3
<1>5. \A n \in Nat : \A y \in S : rank[y] < n => G(n)[y] = f[y]
  <2> SUFFICES ASSUME NEW n \in Nat, NEW y \in S, rank[y] < n
               PROVE  G(n)[y] = f[y]
    OBVIOUS
  <2> DEFINE k == rank[y] + 1
  <2>1. k \in Nat /\ k <= n /\ rank[y] < k
    OBVIOUS
  <2>2. Good(G(n), k) /\ Good(G(k), k)
    <3>1. Good(G(n), n) /\ Good(G(k), k)
      BY <1>3, <2>1
    <3>2. \A x \in S : rank[x] < k => rank[x] < n
      BY <2>1
    <3> HIDE DEF k
    <3> QED
      BY <3>1, <3>2
  <2>3. k \in N /\ G(k) \in [S -> V] /\ G(n) \in [S -> V]
    BY <1>1, <1>3, <2>1
  <2>4. f[y] = G(k)[y]
    OBVIOUS
  <2> HIDE DEF f, k, Good
  <2>5. G(n)[y] = G(k)[y]
    BY <2>1, <2>2, <2>3
  <2> QED
    BY <2>4, <2>5
<1>6. ASSUME NEW x \in S
      PROVE  f[x] = Def[<<f, x>>]
  <2> DEFINE k == rank[x] + 1
             g == G(k)
  <2>1. k \in Nat /\ rank[x] < k
    OBVIOUS
  <2>2. f[x] = g[x]
    OBVIOUS
  <2>3. \A y \in S : rank[y] < rank[x] => rank[y] < k
    BY <2>1
  <2> HIDE DEF f, k
  <2>4. \A y \in S : rank[y] < rank[x] => g[y] = f[y]
    BY <1>5, <2>1, <2>3
  <2>5. g \in [S -> V] /\ Good(g, k)
    BY <1>3, <2>1
  <2>6. g[x] = Def[<<g, x>>]
    BY <2>1, <2>5
  <2> HIDE DEF g, Good
  <2>7. Def[<<g, x>>] = Def[<<f, x>>]
    BY <1>4, <2>4, <2>5
  <2> QED
    BY <2>2, <2>6, <2>7
<1> QED
  BY <1>4, <1>6

-----------------------------------------------------------------------------

(* Induction along a list, up to its length.                               *)
LEMMA PrefixInduction ==
  ASSUME NEW S, NEW n \in Nat, 0 \in S, \A k \in 1 .. n : k - 1 \in S => k \in S
  PROVE  \A k \in 0 .. n : k \in S
<1> DEFINE T == {k \in Nat : k <= n => k \in S}
<1>1. 0 \in T
  OBVIOUS
<1>2. ASSUME NEW k \in Nat, k \in T
      PROVE  k + 1 \in T
  <2>1. CASE k + 1 <= n
    <3>1. k + 1 \in 1 .. n /\ (k + 1) - 1 = k /\ k <= n
      BY <2>1
    <3>2. k \in S
      BY <1>2, <3>1
    <3>3. k + 1 \in S
      BY <3>1, <3>2
    <3> QED
      BY <3>3
  <2>2. CASE ~(k + 1 <= n)
    BY <2>2
  <2> QED
    BY <2>1, <2>2
<1>3. \A k \in Nat : k \in T
  <2> HIDE DEF T
  <2> QED
    BY <1>1, <1>2, NatSetInduction
<1> QED
  BY <1>3

(* after[k] is what k rounds of a loop make of its first value.            *)
Rounds(after, n, first, step) ==
    after[0] = first /\ \A k \in 1 .. n : after[k] = step[<<after[k - 1], k>>]
HasRounds(V, n, first, step) == \E after \in [0 .. n -> V] : Rounds(after, n, first, step)

(* A loop of n rounds has its values.                                      *)
LEMMA RoundsExist ==
  ASSUME NEW V, NEW n \in Nat, NEW first \in V, NEW step \in [V \X (1 .. n) -> V]
  PROVE  HasRounds(V, n, first, step)
<1> DEFINE S == 0 .. n
           rank == [k \in S |-> k]
           Def == [p \in [S -> V] \X S |->
                     IF p[2] = 0 THEN first ELSE step[<<p[1][p[2] - 1], p[2]>>]]
<1>1. rank \in [S -> Nat]
  OBVIOUS
<1>2. \A k \in S : k # 0 => k - 1 \in S /\ k \in 1 .. n /\ rank[k - 1] < rank[k]
  OBVIOUS
<1>3. Def \in [[S -> V] \X S -> V]
  <2> SUFFICES ASSUME NEW g \in [S -> V], NEW k \in S
               PROVE  (IF k = 0 THEN first ELSE step[<<g[k - 1], k>>]) \in V
    OBVIOUS
  <2> HIDE DEF S
  <2> QED
    BY <1>2
<1>4. UsesLowerRanks(S, V, rank, Def)
  <2> SUFFICES ASSUME NEW g \in [S -> V], NEW h \in [S -> V], NEW k \in S,
                      \A y \in S : rank[y] < rank[k] => g[y] = h[y]
               PROVE  Def[<<g, k>>] = Def[<<h, k>>]
    <3> HIDE DEF S, rank, Def
    <3> QED
      BY Zenon DEF UsesLowerRanks
  <2>1. k # 0 => g[k - 1] = h[k - 1]
    <3> HIDE DEF S, rank
    <3> QED
      BY <1>2
  <2> HIDE DEF S, rank
  <2> QED
    BY <2>1
<1>5. PICK g \in [S -> V] : \A k \in S : g[k] = Def[<<g, k>>]
  <2> HIDE DEF S, rank, Def
  <2>1. Solvable(S, V, Def)
    BY <1>1, <1>3, <1>4, RankRecursion, Zenon
  <2> QED
    BY <2>1, Zenon DEF Solvable
<1>6. \A k \in S : g[k] = IF k = 0 THEN first ELSE step[<<g[k - 1], k>>]
  <2> HIDE DEF S
  <2> QED
    BY <1>5
<1>7. 0 \in S /\ \A k \in 1 .. n : k \in S /\ k # 0
  OBVIOUS
<1>8. Rounds(g, n, first, step)
  <2> HIDE DEF S
  <2> QED
    BY <1>6, <1>7 DEF Rounds
<1>9. g \in [0 .. n -> V]
  OBVIOUS
<1> QED
  BY <1>8, <1>9 DEF HasRounds

(* Max, by which FoldLeft takes the last index first.                      *)
LEMMA MaxProperties ==
  ASSUME NEW n \in Nat, NEW T \in SUBSET (1 .. n), T # {}
  PROVE  Max(T) \in T /\ \A y \in T : y <= Max(T)
<1> DEFINE U == {n - x : x \in T}
<1>1. U \in SUBSET Nat /\ U # {}
  <2>1. \A x \in T : n - x \in Nat
    OBVIOUS
  <2>2. PICK x \in T : TRUE
    OBVIOUS
  <2>3. n - x \in U
    OBVIOUS
  <2> QED
    BY <2>1, <2>3
<1>2. PICK u \in U : \A w \in U : u <= w
  <2> HIDE DEF U
  <2> QED
    BY <1>1, LeastNatural
<1>3. PICK x \in T : u = n - x
  BY <1>2
<1>4. \A y \in T : y <= x
  <2> SUFFICES ASSUME NEW y \in T
               PROVE  y <= x
    OBVIOUS
  <2>1. n - y \in U
    OBVIOUS
  <2>2. u <= n - y
    BY <1>2, <2>1
  <2> QED
    BY <1>3, <2>2
<1>5. \A y \in T : x >= y
  BY <1>4
<1>6. Max(T) \in T /\ \A y \in T : Max(T) >= y
  BY <1>5 DEF Max
<1> QED
  BY <1>6

(* The prefix without its last index is the prefix one shorter.            *)
LEMMA MaxOfPrefix ==
  ASSUME NEW n \in Nat \ {0}
  PROVE  Max(1 .. n) = n /\ (1 .. n) \ {n} = 1 .. (n - 1)
<1>1. 1 .. n \in SUBSET (1 .. n) /\ n \in 1 .. n
  OBVIOUS
<1>2. Max(1 .. n) \in 1 .. n /\ n <= Max(1 .. n)
  BY <1>1, MaxProperties
<1> QED
  BY <1>2

(* A left fold of step over s, as a function of the prefixes of s.         *)
HasFold(V, b, n, s, step) ==
    \E g \in [SUBSET (1 .. n) -> V] : \A T \in SUBSET (1 .. n) :
        g[T] = IF T = {} THEN b ELSE step[<<g[T \ {Max(T)}], s[Max(T)]>>]

(* A fold over a list exists; the equation is that of MapThenFoldSet.      *)
LEMMA PrefixFold ==
  ASSUME NEW V, NEW b \in V, NEW E, NEW n \in Nat, NEW s \in [1 .. n -> E],
         NEW step \in [V \X E -> V]
  PROVE  HasFold(V, b, n, s, step)
<1> DEFINE S == SUBSET (1 .. n)
           rank == [T \in S |-> Cardinality(T)]
           Def == [p \in [S -> V] \X S |->
                     IF p[2] = {} THEN b
                     ELSE step[<<p[1][p[2] \ {Max(p[2])}], s[Max(p[2])]>>]]
<1>1. \A T \in S : IsFiniteSet(T) /\ Cardinality(T) \in Nat
  <2>1. 0 \in Int /\ 1 \in Int /\ n \in Int
    OBVIOUS
  <2>2. IsFiniteSet(1 .. n)
    BY <2>1, FS_Interval
  <2>3. \A T \in S : IsFiniteSet(T)
    BY <2>2, FS_Subset
  <2> QED
    BY <2>3, FS_CardinalityType
<1>2. rank \in [S -> Nat]
  BY <1>1
<1>3. \A T \in S : T # {} => /\ Max(T) \in T /\ Max(T) \in 1 .. n
                            /\ T \ {Max(T)} \in S
                            /\ rank[T \ {Max(T)}] < rank[T]
  <2> SUFFICES ASSUME NEW T \in S, T # {}
               PROVE  /\ Max(T) \in T /\ Max(T) \in 1 .. n
                      /\ T \ {Max(T)} \in S
                      /\ rank[T \ {Max(T)}] < rank[T]
    OBVIOUS
  <2>1. Max(T) \in T
    BY MaxProperties
  <2>2. Cardinality(T \ {Max(T)}) = Cardinality(T) - 1
    BY <1>1, <2>1, FS_RemoveElement
  <2>3. T \ {Max(T)} \in S /\ Cardinality(T) \in Nat /\ T \in SUBSET (1 .. n)
    BY <1>1
  <2>4. rank[T] = Cardinality(T) /\ rank[T \ {Max(T)}] = Cardinality(T \ {Max(T)})
    BY <2>3
  <2>5. rank[T \ {Max(T)}] < rank[T]
    <3> HIDE DEF S, rank
    <3> QED
      BY <2>2, <2>3, <2>4
  <2>6. Max(T) \in 1 .. n
    BY <2>1, <2>3
  <2> HIDE DEF S, rank
  <2> QED
    BY <2>1, <2>3, <2>5, <2>6
<1>4. Def \in [[S -> V] \X S -> V]
  <2> SUFFICES ASSUME NEW g \in [S -> V], NEW T \in S
               PROVE  (IF T = {} THEN b ELSE step[<<g[T \ {Max(T)}], s[Max(T)]>>]) \in V
    OBVIOUS
  <2> HIDE DEF S
  <2> QED
    BY <1>3
<1>5. UsesLowerRanks(S, V, rank, Def)
  <2> SUFFICES ASSUME NEW g \in [S -> V], NEW h \in [S -> V], NEW T \in S,
                      \A y \in S : rank[y] < rank[T] => g[y] = h[y]
               PROVE  Def[<<g, T>>] = Def[<<h, T>>]
    <3> HIDE DEF S, rank, Def
    <3> QED
      BY Zenon DEF UsesLowerRanks
  <2>1. T # {} => g[T \ {Max(T)}] = h[T \ {Max(T)}]
    <3> HIDE DEF S, rank
    <3> QED
      BY <1>3
  <2> HIDE DEF S, rank
  <2> QED
    BY <2>1
<1>6. PICK g \in [S -> V] : \A T \in S : g[T] = Def[<<g, T>>]
  <2> HIDE DEF S, rank, Def
  <2>1. Solvable(S, V, Def)
    BY <1>2, <1>4, <1>5, RankRecursion, Zenon
  <2> QED
    BY <2>1, Zenon DEF Solvable
<1>7. \A T \in S : g[T] = IF T = {} THEN b ELSE step[<<g[T \ {Max(T)}], s[Max(T)]>>]
  <2> HIDE DEF S
  <2> QED
    BY <1>6
<1> QED
  BY <1>6, <1>7 DEF HasFold

-----------------------------------------------------------------------------
(* Sums over finite sets, the solutions of the equation of MapThenSumSet.  *)

(* The element MapThenSumSet takes next.                                   *)
First(T) == CHOOSE x \in T : TRUE

(* g sums w over each subset of S.                                         *)
IsSum(w, S, g) ==
    g = [T \in SUBSET S |-> IF T = {} THEN 0 ELSE w[First(T)] + g[T \ {First(T)}]]

HasSum(w, S) == \E g : IsSum(w, S, g)

(* A subset of a finite set has a size, which an element taken away        *)
(* diminishes by one.                                                      *)
LEMMA SubsetSizes ==
  ASSUME NEW S, IsFiniteSet(S)
  PROVE  /\ \A T \in SUBSET S : IsFiniteSet(T) /\ Cardinality(T) \in Nat
         /\ \A T \in SUBSET S : \A x \in T : Cardinality(T \ {x}) = Cardinality(T) - 1
         /\ \A T \in SUBSET S : Cardinality(T) = 0 => T = {}
<1>1. \A T \in SUBSET S : IsFiniteSet(T)
  BY FS_Subset
<1>2. \A T \in SUBSET S : Cardinality(T) \in Nat
  BY <1>1, FS_CardinalityType
<1>3. \A T \in SUBSET S : \A x \in T : Cardinality(T \ {x}) = Cardinality(T) - 1
  BY <1>1, FS_RemoveElement
<1>4. \A T \in SUBSET S : Cardinality(T) = 0 => T = {}
  BY <1>1, FS_EmptySet
<1> QED
  BY <1>1, <1>2, <1>3, <1>4

(* The sum over a finite set exists.                                       *)
LEMMA SumExists ==
  ASSUME NEW U, NEW w \in [U -> Int], NEW S \in SUBSET U, IsFiniteSet(S)
  PROVE  HasSum(w, S)
<1> DEFINE D == SUBSET S
           rank == [T \in D |-> Cardinality(T)]
           Def == [p \in [D -> Int] \X D |->
                     IF p[2] = {} THEN 0 ELSE w[First(p[2])] + p[1][p[2] \ {First(p[2])}]]
<1>1. rank \in [D -> Nat]
  BY SubsetSizes
<1>2. \A T \in D : T # {} => /\ First(T) \in T /\ w[First(T)] \in Int
                            /\ T \ {First(T)} \in D
                            /\ rank[T \ {First(T)}] < rank[T]
  <2> SUFFICES ASSUME NEW T \in D, T # {}
               PROVE  /\ First(T) \in T /\ w[First(T)] \in Int
                      /\ T \ {First(T)} \in D
                      /\ rank[T \ {First(T)}] < rank[T]
    OBVIOUS
  <2>1. First(T) \in T
    BY DEF First
  <2>2. w[First(T)] \in Int /\ T \ {First(T)} \in D
    BY <2>1
  <2>3. rank[T] = Cardinality(T) /\ rank[T \ {First(T)}] = Cardinality(T \ {First(T)})
    BY <2>2
  <2>4. Cardinality(T) \in Nat /\ Cardinality(T \ {First(T)}) = Cardinality(T) - 1
    BY <2>1, SubsetSizes
  <2> HIDE DEF rank, D
  <2> QED
    BY <2>1, <2>2, <2>3, <2>4
<1>3. Def \in [[D -> Int] \X D -> Int]
  <2> SUFFICES ASSUME NEW g \in [D -> Int], NEW T \in D
               PROVE  (IF T = {} THEN 0 ELSE w[First(T)] + g[T \ {First(T)}]) \in Int
    OBVIOUS
  <2> HIDE DEF D
  <2>1. T # {} => w[First(T)] \in Int /\ g[T \ {First(T)}] \in Int
    BY <1>2
  <2> QED
    BY <2>1
<1>4. UsesLowerRanks(D, Int, rank, Def)
  <2> SUFFICES ASSUME NEW g \in [D -> Int], NEW h \in [D -> Int], NEW T \in D,
                      \A y \in D : rank[y] < rank[T] => g[y] = h[y]
               PROVE  Def[<<g, T>>] = Def[<<h, T>>]
    <3> HIDE DEF D, rank, Def
    <3> QED
      BY Zenon DEF UsesLowerRanks
  <2>1. T # {} => g[T \ {First(T)}] = h[T \ {First(T)}]
    <3> HIDE DEF D, rank
    <3> QED
      BY <1>2
  <2> HIDE DEF D, rank
  <2> QED
    BY <2>1
<1>5. PICK g \in [D -> Int] : \A T \in D : g[T] = Def[<<g, T>>]
  <2>1. 0 \in Int
    OBVIOUS
  <2> HIDE DEF D, rank, Def
  <2>2. Solvable(D, Int, Def)
    BY <1>1, <1>3, <1>4, <2>1, RankRecursion, Zenon
  <2> QED
    BY <2>2, Zenon DEF Solvable
<1>6. \A T \in D : g[T] = IF T = {} THEN 0 ELSE w[First(T)] + g[T \ {First(T)}]
  <2> HIDE DEF D
  <2> QED
    BY <1>5
<1>7. IsSum(w, S, g)
  BY <1>5, <1>6 DEF IsSum
<1> QED
  BY <1>7 DEF HasSum

(* A sum takes the elements of its set one after the other.                *)
LEMMA SumEquation ==
  ASSUME NEW w, NEW S, NEW g, IsSum(w, S, g)
  PROVE  /\ g[{}] = 0
         /\ \A T \in SUBSET S : T # {} =>
               /\ First(T) \in T
               /\ g[T] = w[First(T)] + g[T \ {First(T)}]
<1>1. g[{}] = 0
  BY DEF IsSum
<1>2. ASSUME NEW T \in SUBSET S, T # {}
      PROVE  First(T) \in T /\ g[T] = w[First(T)] + g[T \ {First(T)}]
  <2>1. First(T) \in T
    BY <1>2 DEF First
  <2>2. g[T] = IF T = {} THEN 0 ELSE w[First(T)] + g[T \ {First(T)}]
    BY Zenon DEF IsSum
  <2> QED
    BY <1>2, <2>1, <2>2
<1> QED
  BY <1>1, <1>2

(* Sums of naturals are naturals.                                          *)
LEMMA SumIsNat ==
  ASSUME NEW U, NEW w \in [U -> Nat], NEW S \in SUBSET U, IsFiniteSet(S),
         NEW g, IsSum(w, S, g)
  PROVE  \A T \in SUBSET S : g[T] \in Nat
<1> DEFINE P == {n \in Nat : \A T \in SUBSET S : Cardinality(T) = n => g[T] \in Nat}
<1>1. 0 \in P
  <2>1. g[{}] = 0
    BY SumEquation
  <2>2. \A T \in SUBSET S : Cardinality(T) = 0 => g[T] = 0
    BY <2>1, SubsetSizes, Zenon
  <2> QED
    BY <2>2
<1>2. ASSUME NEW n \in Nat, n \in P
      PROVE  n + 1 \in P
  <2> SUFFICES ASSUME NEW T \in SUBSET S, Cardinality(T) = n + 1
               PROVE  g[T] \in Nat
    OBVIOUS
  <2>1. T # {}
    BY FS_EmptySet
  <2>2. First(T) \in T /\ g[T] = w[First(T)] + g[T \ {First(T)}]
    BY <2>1, SumEquation
  <2>3. Cardinality(T \ {First(T)}) = n /\ T \ {First(T)} \in SUBSET S
    BY <2>2, SubsetSizes
  <2>4. g[T \ {First(T)}] \in Nat /\ w[First(T)] \in Nat
    BY <1>2, <2>2, <2>3
  <2> QED
    BY <2>2, <2>4
<1>3. \A n \in Nat : n \in P
  <2> HIDE DEF P
  <2> QED
    BY <1>1, <1>2, NatSetInduction
<1> QED
  BY <1>3, SubsetSizes

(* The order in which a sum is taken does not matter.                      *)
LEMMA SumAdds ==
  ASSUME NEW U, NEW w \in [U -> Nat], NEW S \in SUBSET U, IsFiniteSet(S),
         NEW g, IsSum(w, S, g)
  PROVE  \A T \in SUBSET S : \A x \in S \ T : g[T \cup {x}] = g[T] + w[x]
<1> DEFINE P == {n \in Nat : \A T \in SUBSET S : \A x \in S \ T :
                     Cardinality(T) < n => g[T \cup {x}] = g[T] + w[x]}
<1>1. 0 \in P
  BY SubsetSizes
<1>2. ASSUME NEW n \in Nat, n \in P
      PROVE  n + 1 \in P
  <2> SUFFICES ASSUME NEW T \in SUBSET S, NEW x \in S \ T, Cardinality(T) < n + 1
               PROVE  g[T \cup {x}] = g[T] + w[x]
    OBVIOUS
  <2> DEFINE Tx == T \cup {x}
             c == First(Tx)
  <2>1. c \in Tx /\ g[Tx] = w[c] + g[Tx \ {c}]
    <3>1. Tx \in SUBSET S /\ Tx # {}
      OBVIOUS
    <3> HIDE DEF Tx
    <3> QED
      BY <3>1, SumEquation
  <2>2. g[T] \in Nat /\ w[x] \in Nat
    BY SumIsNat
  <2> HIDE DEF c
  <2>3. CASE c = x
    <3>1. Tx \ {c} = T
      BY <2>3
    <3>2. g[Tx] = w[x] + g[T]
      BY <2>1, <2>3, <3>1, Zenon
    <3> HIDE DEF Tx
    <3>3. g[Tx] = g[T] + w[x]
      BY <2>2, <3>2
    <3> QED
      BY <3>3 DEF Tx
  <2>4. CASE c # x
    <3>1. /\ c \in T /\ c \in S \ (T \ {c}) /\ x \in S \ (T \ {c})
          /\ T \ {c} \in SUBSET S
      BY <2>1, <2>4
    <3>2. Tx \ {c} = (T \ {c}) \cup {x} /\ (T \ {c}) \cup {c} = T
      BY <2>4, <3>1
    <3>3. Cardinality(T \ {c}) < n
      <4>1. Cardinality(T \ {c}) = Cardinality(T) - 1 /\ Cardinality(T) \in Nat
        BY <3>1, SubsetSizes
      <4> QED
        BY <4>1
    <3>4. g[(T \ {c}) \cup {x}] = g[T \ {c}] + w[x] /\ g[(T \ {c}) \cup {c}] = g[T \ {c}] + w[c]
      BY <1>2, <3>1, <3>3
    <3>5. g[T \ {c}] \in Nat /\ w[c] \in Nat
      BY <3>1, SumIsNat
    <3>6. g[Tx \ {c}] = g[T \ {c}] + w[x] /\ g[T] = g[T \ {c}] + w[c]
      BY <3>2, <3>4, Zenon
    <3> HIDE DEF Tx
    <3>7. g[Tx] = g[T] + w[x]
      BY <2>1, <2>2, <3>5, <3>6
    <3> QED
      BY <3>7 DEF Tx
  <2> QED
    BY <2>3, <2>4
<1>3. \A n \in Nat : n \in P
  <2> HIDE DEF P
  <2> QED
    BY <1>1, <1>2, NatSetInduction
<1>4. ASSUME NEW T \in SUBSET S, NEW x \in S \ T
      PROVE  g[T \cup {x}] = g[T] + w[x]
  <2>1. Cardinality(T) \in Nat
    BY SubsetSizes
  <2>2. Cardinality(T) + 1 \in Nat /\ Cardinality(T) < Cardinality(T) + 1
    BY <2>1
  <2>3. Cardinality(T) + 1 \in P
    BY <1>3, <2>2
  <2> QED
    BY <2>2, <2>3
<1> QED
  BY <1>4

(* Sums over two sets agree on what the sets have in common.               *)
LEMMA SumsAgree ==
  ASSUME NEW w, NEW S, IsFiniteSet(S), NEW R, NEW g, IsSum(w, S, g), NEW h, IsSum(w, R, h)
  PROVE  \A T \in SUBSET (S \cap R) : g[T] = h[T]
<1> DEFINE P == {n \in Nat : \A T \in SUBSET (S \cap R) : Cardinality(T) = n => g[T] = h[T]}
<1>1. 0 \in P
  BY SubsetSizes, SumEquation
<1>2. ASSUME NEW n \in Nat, n \in P
      PROVE  n + 1 \in P
  <2> SUFFICES ASSUME NEW T \in SUBSET (S \cap R), Cardinality(T) = n + 1
               PROVE  g[T] = h[T]
    OBVIOUS
  <2>1. T # {} /\ T \in SUBSET S /\ T \in SUBSET R
    BY FS_EmptySet
  <2>2. First(T) \in T /\ g[T] = w[First(T)] + g[T \ {First(T)}]
    BY <2>1, SumEquation
  <2>3. h[T] = w[First(T)] + h[T \ {First(T)}]
    <3>1. \A Q \in SUBSET R : Q # {} => h[Q] = w[First(Q)] + h[Q \ {First(Q)}]
      BY SumEquation
    <3> QED
      BY <2>1, <3>1
  <2>4. Cardinality(T \ {First(T)}) = n /\ T \ {First(T)} \in SUBSET (S \cap R)
    BY <2>1, <2>2, SubsetSizes
  <2>5. g[T \ {First(T)}] = h[T \ {First(T)}]
    BY <1>2, <2>4
  <2> QED
    BY <2>2, <2>3, <2>5
<1>3. \A n \in Nat : n \in P
  <2> HIDE DEF P
  <2> QED
    BY <1>1, <1>2, NatSetInduction
<1>4. \A T \in SUBSET (S \cap R) : Cardinality(T) \in Nat
  BY SubsetSizes
<1> QED
  BY <1>3, <1>4

-----------------------------------------------------------------------------
(* Lists.                                                                  *)

(* list.Remove, as RemoveAt: the elements behind the removed one move up.  *)
LEMMA RemoveAtProperties ==
  ASSUME NEW S, NEW s \in Seq(S), NEW i \in 1 .. Len(s)
  PROVE  /\ RemoveAt(s, i) \in Seq(S)
         /\ Len(RemoveAt(s, i)) = Len(s) - 1
         /\ \A j \in 1 .. Len(s) - 1 :
               RemoveAt(s, i)[j] = IF j < i THEN s[j] ELSE s[j + 1]
<1> DEFINE left == SubSeq(s, 1, i - 1)  right == SubSeq(s, i + 1, Len(s))
<1>1. /\ left \in Seq(S)
      /\ Len(left) = i - 1
      /\ \A j \in 1 .. i - 1 : left[j] = s[j]
  <2>1. \A j \in 1 .. i - 1 : s[j] \in S
    OBVIOUS
  <2> QED
    BY <2>1, SubSeqProperties
<1>2. /\ right \in Seq(S)
      /\ Len(right) = Len(s) - i
      /\ \A j \in 1 .. Len(s) - i : right[j] = s[i + j]
  <2>1. \A j \in i + 1 .. Len(s) : s[j] \in S
    OBVIOUS
  <2> QED
    BY <2>1, SubSeqProperties
<1> HIDE DEF left, right
<1>3. /\ left \o right \in Seq(S)
      /\ Len(left \o right) = Len(left) + Len(right)
      /\ \A j \in 1 .. Len(left) + Len(right) : (left \o right)[j] =
             IF j <= Len(left) THEN left[j] ELSE right[j - Len(left)]
  BY <1>1, <1>2, ConcatProperties
<1>4. RemoveAt(s, i) = left \o right
  BY DEF RemoveAt, left, right
<1>5. Len(left) + Len(right) = Len(s) - 1
  BY <1>1, <1>2
<1>6. ASSUME NEW j \in 1 .. Len(s) - 1
      PROVE  (left \o right)[j] = IF j < i THEN s[j] ELSE s[j + 1]
  <2>1. CASE j < i
    BY <2>1, <1>1, <1>3, <1>5
  <2>2. CASE ~(j < i)
    <3>1. j - (i - 1) \in 1 .. Len(s) - i /\ i + (j - (i - 1)) = j + 1
      BY <2>2
    <3>2. right[j - (i - 1)] = s[j + 1]
      BY <3>1, <1>2
    <3> QED
      BY <2>2, <3>2, <1>1, <1>3, <1>5
  <2> QED
    BY <2>1, <2>2
<1> QED
  BY <1>3, <1>4, <1>5, <1>6

(* A loop that appends some of the elements of a list to a new one, as the *)
(* filters of the miner do: out[k] is the new list after k elements.       *)
LEMMA KeptProperties ==
  ASSUME NEW S, NEW list \in Seq(S), NEW out \in [0 .. Len(list) -> Seq(S)],
         out[0] = <<>>,
         \A k \in 1 .. Len(list) :
            out[k] = out[k - 1] \/ out[k] = Append(out[k - 1], list[k])
  PROVE  /\ ToSet(out[Len(list)]) \subseteq ToSet(list)
         /\ IsInjective(list) => IsInjective(out[Len(list)])
<1> DEFINE From(k) == \A i \in 1 .. Len(out[k]) : \E j \in 1 .. k : out[k][i] = list[j]
           Once(k) == \A i, j \in 1 .. Len(out[k]) : out[k][i] = out[k][j] => i = j
           P == {k \in 0 .. Len(list) : From(k) /\ (IsInjective(list) => Once(k))}
<1>1. 0 \in P
  OBVIOUS
<1>2. ASSUME NEW k \in 1 .. Len(list), k - 1 \in P
      PROVE  k \in P
  <2>1. out[k - 1] \in Seq(S) /\ list[k] \in S /\ k \in 0 .. Len(list)
    BY <1>2
  <2>2. CASE out[k] = out[k - 1]
    <3>1. From(k)
      BY <1>2, <2>2
    <3>2. IsInjective(list) => Once(k)
      BY <1>2, <2>2
    <3> HIDE DEF From, Once
    <3> QED
      BY <2>1, <3>1, <3>2
  <2>3. CASE out[k] = Append(out[k - 1], list[k])
    <3> DEFINE n == Len(out[k - 1])
    <3>1. /\ n \in Nat /\ Len(out[k]) = n + 1 /\ out[k][n + 1] = list[k]
          /\ \A i \in 1 .. n : out[k][i] = out[k - 1][i]
      BY <2>1, <2>3, AppendProperties
    <3>2. \A i \in 1 .. n : \E j \in 1 .. k - 1 : out[k][i] = list[j]
      BY <1>2, <3>1
    <3> HIDE DEF n
    <3>3. From(k)
      <4> SUFFICES ASSUME NEW i \in 1 .. n + 1
                   PROVE  \E j \in 1 .. k : out[k][i] = list[j]
        BY <3>1
      <4>1. CASE i = n + 1
        BY <3>1, <4>1
      <4>2. CASE i # n + 1
        <5>1. i \in 1 .. n
          BY <3>1, <4>2
        <5>2. PICK j \in 1 .. k - 1 : out[k][i] = list[j]
          BY <3>2, <5>1
        <5> QED
          BY <5>2
      <4> QED
        BY <4>1, <4>2
    <3>4. ASSUME IsInjective(list), NEW i \in 1 .. n + 1, NEW j \in 1 .. n + 1,
                 out[k][i] = out[k][j]
          PROVE  i = j
      <4>1. ASSUME NEW a \in 1 .. n
            PROVE  out[k][a] # list[k]
        <5>1. PICK b \in 1 .. k - 1 : out[k][a] = list[b]
          BY <3>2
        <5>2. b # k /\ b \in DOMAIN list /\ k \in DOMAIN list
          OBVIOUS
        <5> QED
          BY <3>4, <5>1, <5>2 DEF IsInjective
      <4>2. \A a \in 1 .. n + 1 : a = n + 1 \/ a \in 1 .. n
        BY <3>1
      <4>3. CASE i \in 1 .. n /\ j \in 1 .. n
        <5>1. Once(k - 1)
          BY <1>2, <3>4
        <5> QED
          BY <3>1, <3>4, <4>3, <5>1 DEF n
      <4> QED
        BY <3>1, <3>4, <4>1, <4>2, <4>3
    <3>5. IsInjective(list) => Once(k)
      BY <3>1, <3>4
    <3> HIDE DEF From, Once
    <3> QED
      BY <2>1, <3>3, <3>5
  <2> QED
    BY <1>2, <2>2, <2>3
<1>3. Len(list) \in P
  <2>1. Len(list) \in Nat /\ Len(list) \in 0 .. Len(list)
    OBVIOUS
  <2> HIDE DEF P
  <2>2. \A k \in 0 .. Len(list) : k \in P
    BY <1>1, <1>2, <2>1, PrefixInduction
  <2> QED
    BY <2>1, <2>2
<1>4. out[Len(list)] \in Seq(S) /\ DOMAIN list = 1 .. Len(list)
  OBVIOUS
<1>5. DOMAIN out[Len(list)] = 1 .. Len(out[Len(list)])
  BY <1>4
<1>6. From(Len(list)) /\ (IsInjective(list) => Once(Len(list)))
  BY <1>3
<1>7. ToSet(out[Len(list)]) \subseteq ToSet(list)
  BY <1>4, <1>5, <1>6 DEF ToSet
<1>8. IsInjective(list) => IsInjective(out[Len(list)])
  BY <1>5, <1>6 DEF IsInjective
<1> QED
  BY <1>7, <1>8

(* list.PushBack, as Append: the elements of a sequence without duplicates *)
(* stay distinct when a new one is added.                                  *)
LEMMA AppendNew ==
  ASSUME NEW S, NEW s \in Seq(S), NEW e \in S
  PROVE  /\ Append(s, e) \in Seq(S)
         /\ ToSet(Append(s, e)) = ToSet(s) \cup {e}
         /\ IsInjective(s) /\ e \notin ToSet(s) => IsInjective(Append(s, e))
<1> DEFINE t == Append(s, e)  n == Len(s)
<1>1. /\ t \in Seq(S) /\ n \in Nat /\ DOMAIN s = 1 .. n /\ DOMAIN t = 1 .. n + 1
      /\ t[n + 1] = e /\ \A i \in 1 .. n : t[i] = s[i]
  BY AppendProperties
<1> HIDE DEF t, n
<1>2. \A i \in 1 .. n + 1 : i \in 1 .. n \/ i = n + 1
  BY <1>1
<1>3. 1 .. n \subseteq 1 .. n + 1 /\ n + 1 \in 1 .. n + 1
  BY <1>1
<1>4. ToSet(t) = ToSet(s) \cup {e}
  BY <1>1, <1>2, <1>3 DEF ToSet
<1>5. ASSUME IsInjective(s), e \notin ToSet(s)
      PROVE  IsInjective(t)
  <2>1. \A i \in 1 .. n : t[i] # e
    BY <1>1, <1>5 DEF ToSet
  <2>2. \A i, j \in 1 .. n : t[i] = t[j] => i = j
    BY <1>1, <1>5 DEF IsInjective
  <2> QED
    BY <1>1, <1>2, <2>1, <2>2 DEF IsInjective
<1> QED
  BY <1>1, <1>4, <1>5 DEF t

(* list.Remove, as RemoveAt: no new elements, and no duplicates.           *)
LEMMA RemoveAtKeeps ==
  ASSUME NEW S, NEW s \in Seq(S), NEW i \in 1 .. Len(s)
  PROVE  /\ ToSet(RemoveAt(s, i)) \subseteq ToSet(s)
         /\ IsInjective(s) => IsInjective(RemoveAt(s, i))
<1> DEFINE t == RemoveAt(s, i)  n == Len(s)
           at(j) == IF j < i THEN j ELSE j + 1
<1>1. /\ n \in Nat \ {0} /\ DOMAIN s = 1 .. n
      /\ t \in Seq(S) /\ Len(t) = n - 1
      /\ \A j \in 1 .. n - 1 : t[j] = s[at(j)]
  BY RemoveAtProperties
<1>2. DOMAIN t = 1 .. n - 1
  <2> HIDE DEF t, n
  <2> QED
    BY <1>1
<1>3. \A j \in 1 .. n - 1 : at(j) \in 1 .. n
  BY <1>1
<1>4. \A j, k \in 1 .. n - 1 : at(j) = at(k) => j = k
  OBVIOUS
<1> HIDE DEF t, n, at
<1>5. ToSet(t) \subseteq ToSet(s)
  BY <1>1, <1>2, <1>3 DEF ToSet
<1>6. IsInjective(s) => IsInjective(t)
  BY <1>1, <1>2, <1>3, <1>4 DEF IsInjective
<1> QED
  BY <1>5, <1>6 DEF t

(* A list has finitely many elements.                                      *)
LEMMA ToSetFinite ==
  ASSUME NEW S, NEW s \in Seq(S)
  PROVE  IsFiniteSet(ToSet(s)) /\ Cardinality(ToSet(s)) \in Nat
<1>1. Len(s) \in Int /\ 1 \in Int /\ DOMAIN s = 1 .. Len(s)
  OBVIOUS
<1>2. IsFiniteSet(DOMAIN s)
  BY <1>1, FS_Interval
<1>3. s \in Surjection(DOMAIN s, ToSet(s))
  <2>1. s \in [DOMAIN s -> ToSet(s)]
    BY DEF ToSet
  <2>2. \A t \in ToSet(s) : \E i \in DOMAIN s : s[i] = t
    BY DEF ToSet
  <2> QED
    BY <2>1, <2>2 DEF Surjection
<1>4. IsFiniteSet(ToSet(s))
  BY <1>2, <1>3, FS_Surjection
<1> QED
  BY <1>4, FS_CardinalityType
=============================================================================
