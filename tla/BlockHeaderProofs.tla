-------------------------- MODULE BlockHeaderProofs --------------------------
(***************************************************************************)
(* What the blocks of any chain count for: difficulties are sums, positive *)
(* for a block and growing with a set of blocks.                           *)
(***************************************************************************)
EXTENDS BlockHeaders, DataLemmas

(* The uncles of a block add up, so that each block adds to a total.       *)
LEMMA BlockTDPositive == \A b \in Block : CalculateBlockTD(b) \in Nat \ {0}
<1> SUFFICES ASSUME NEW b \in Block
             PROVE  CalculateBlockTD(b) \in Nat \ {0}
  OBVIOUS
<1> DEFINE S == Uncles[b]
           Def(g) == [T \in SUBSET S |->
                         IF T = {} THEN 0
                         ELSE Difficulty[CHOOSE x \in T : TRUE] + g[T \ {CHOOSE x \in T : TRUE}]]
           G == CHOOSE g : g = Def(g)
<1>1. /\ S \in SUBSET Block /\ IsFiniteSet(S)
      /\ Difficulty[b] \in Nat \ {0} /\ Difficulty \in [Block -> Nat]
      /\ Difficulty \in [Block -> Int]
  BY HeaderAssumption
<1>2. \A g : IsSum(Difficulty, S, g) <=> g = Def(g)
  BY DEF IsSum, First
<1>3. \E g : g = Def(g)
  <2> HIDE DEF S, Def
  <2>1. HasSum(Difficulty, S)
    BY <1>1, SumExists
  <2> QED
    BY <1>2, <2>1 DEF HasSum
<1>4. IsSum(Difficulty, S, G)
  <2> HIDE DEF Def, S
  <2> QED
    BY <1>2, <1>3
<1>5. CalculateBlockTD(b) = Difficulty[b] + G[S]
  BY Zenon DEF CalculateBlockTD, MapThenSumSet, MapThenFoldSet
<1> HIDE DEF G, S
<1>6. G[S] \in Nat
  BY <1>1, <1>4, SumIsNat
<1> QED
  BY <1>1, <1>5, <1>6

(* The difficulty of a set of blocks and their uncles.                     *)
Total(S) == MapThenSumSet(CalculateBlockTD, S)

BlockTD == [b \in Block |-> CalculateBlockTD(b)]

(* The total of a set is the sum over its blocks.                          *)
LEMMA TotalIsSum ==
  ASSUME NEW S \in SUBSET Block, IsFiniteSet(S)
  PROVE  \E g : IsSum(BlockTD, S, g) /\ Total(S) = g[S]
<1> DEFINE Def(g) == [T \in SUBSET S |->
                         IF T = {} THEN 0
                         ELSE CalculateBlockTD(CHOOSE x \in T : TRUE) + g[T \ {CHOOSE x \in T : TRUE}]]
           G == CHOOSE g : g = Def(g)
<1>1. BlockTD \in [Block -> Int]
  BY BlockTDPositive DEF BlockTD
<1>2. ASSUME NEW g
      PROVE  IsSum(BlockTD, S, g) <=> g = Def(g)
  <2> DEFINE Sum == [T \in SUBSET S |->
                        IF T = {} THEN 0 ELSE BlockTD[First(T)] + g[T \ {First(T)}]]
  <2>1. \A T \in SUBSET S : T # {} => BlockTD[First(T)] = CalculateBlockTD(First(T))
    <3>1. \A T \in SUBSET S : T # {} => First(T) \in Block
      BY DEF First
    <3> QED
      BY <3>1 DEF BlockTD
  <2>2. \A T \in SUBSET S : Sum[T] = Def(g)[T]
    BY <2>1 DEF First
  <2>3. Sum = Def(g)
    <3>1. \A T \in SUBSET S :
             (IF T = {} THEN 0 ELSE BlockTD[First(T)] + g[T \ {First(T)}]) =
             (IF T = {} THEN 0
              ELSE CalculateBlockTD(CHOOSE x \in T : TRUE) + g[T \ {CHOOSE x \in T : TRUE}])
      BY <2>1 DEF First
    <3> QED
      BY <3>1, Zenon
  <2> HIDE DEF Def
  <2> QED
    BY <2>3, Zenon DEF IsSum
<1>3. \E g : g = Def(g)
  <2> HIDE DEF Def
  <2>1. HasSum(BlockTD, S)
    BY <1>1, SumExists
  <2> QED
    BY <1>2, <2>1 DEF HasSum
<1>4. IsSum(BlockTD, S, G)
  <2> HIDE DEF Def
  <2> QED
    BY <1>2, <1>3
<1>5. Total(S) = G[S]
  BY Zenon DEF Total, MapThenSumSet, MapThenFoldSet
<1> QED
  BY <1>4, <1>5

(* Totals are naturals; a block more adds what it counts for.              *)
LEMMA TotalGrows ==
  ASSUME NEW S \in SUBSET Block, IsFiniteSet(S)
  PROVE  /\ Total(S) \in Nat
         /\ \A x \in Block \ S : Total(S \cup {x}) = Total(S) + CalculateBlockTD(x)
<1>1. BlockTD \in [Block -> Nat]
  BY BlockTDPositive DEF BlockTD
<1>2. PICK g : IsSum(BlockTD, S, g) /\ Total(S) = g[S]
  BY TotalIsSum
<1>3. Total(S) \in Nat
  <2>1. S \in SUBSET S
    OBVIOUS
  <2> QED
    BY <1>1, <1>2, <2>1, SumIsNat
<1>4. ASSUME NEW x \in Block \ S
      PROVE  Total(S \cup {x}) = Total(S) + CalculateBlockTD(x)
  <2> DEFINE R == S \cup {x}
  <2>1. R \in SUBSET Block /\ IsFiniteSet(R)
    BY FS_AddElement
  <2>2. x \in R \ S /\ S \in SUBSET R /\ S \in SUBSET (S \cap R) /\ S \cup {x} = R
    OBVIOUS
  <2> HIDE DEF R
  <2>3. PICK h : IsSum(BlockTD, R, h) /\ Total(R) = h[R]
    BY <2>1, TotalIsSum
  <2>4. h[R] = h[S] + BlockTD[x]
    BY <1>1, <2>1, <2>2, <2>3, SumAdds
  <2>5. g[S] = h[S]
    BY <1>2, <2>2, <2>3, SumsAgree
  <2>6. BlockTD[x] = CalculateBlockTD(x)
    BY DEF BlockTD
  <2> QED
    BY <1>2, <2>2, <2>3, <2>4, <2>5, <2>6
<1> QED
  BY <1>3, <1>4

(* Blocks fewer never count for more.                                      *)
LEMMA TotalShrinks ==
  ASSUME NEW S \in SUBSET Block, IsFiniteSet(S), NEW x
  PROVE  Total(S \ {x}) <= Total(S)
<1>1. CASE x \in S
  <2>1. S \ {x} \in SUBSET Block /\ IsFiniteSet(S \ {x}) /\ x \in Block \ (S \ {x})
    BY <1>1, FS_RemoveElement
  <2>2. (S \ {x}) \cup {x} = S
    BY <1>1
  <2>3. Total(S) = Total(S \ {x}) + CalculateBlockTD(x) /\ Total(S \ {x}) \in Nat
    BY <2>1, <2>2, TotalGrows
  <2>4. CalculateBlockTD(x) \in Nat
    BY <1>1, BlockTDPositive
  <2> QED
    BY <2>3, <2>4
<1>2. CASE x \notin S
  <2>1. S \ {x} = S
    BY <1>2
  <2>2. Total(S) \in Nat
    BY TotalGrows
  <2> QED
    BY <2>1, <2>2
<1> QED
  BY <1>1, <1>2
=============================================================================
