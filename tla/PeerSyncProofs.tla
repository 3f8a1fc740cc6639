--------------------------- MODULE PeerSyncProofs ---------------------------
(***************************************************************************)
(* Theorems about PeerSync for any set of blocks, any headers, any two     *)
(* nodes to begin with and any limits.                                     *)
(***************************************************************************)
EXTENDS PeerSync, BlockHeaderProofs

(* Induction along the chain: what holds of the genesis block and of every *)
(* block whose parent it holds of holds of all.                            *)
LEMMA HeaderInduction ==
  ASSUME NEW S,
         \A b \in Block : b = Genesis \/ PrevHash[b] \in S => b \in S
  PROVE  \A b \in Block : b \in S
<1> SUFFICES ASSUME NEW a \in Block, a \notin S
             PROVE  FALSE
  OBVIOUS
<1> DEFINE T == {b \in Block : b \notin S}
<1>1. T \in (SUBSET Block) \ {{}}
  OBVIOUS
<1>2. PICK b \in T : b = Genesis \/ PrevHash[b] \notin T
  <2> HIDE DEF T
  <2> QED
    BY <1>1, AncestryAssumption
<1>3. b \in Block /\ b \notin S /\ (b # Genesis => PrevHash[b] \in Block)
  BY HeaderAssumption
<1> QED
  BY <1>2, <1>3

(* A set of blocks that holds their parents.                               *)
Closed(S) == S \subseteq Block /\ \A b \in S : b # Genesis => PrevHash[b] \in S

(* The blocks every closed set with b has.                                 *)
Line(b) == {x \in Block : \A S \in SUBSET Block : Closed(S) /\ b \in S => x \in S}

(* Line(b) is the least set that holds b and is closed.                    *)
LEMMA LineProperties ==
  ASSUME NEW b \in Block
  PROVE  /\ Line(b) \in SUBSET Block /\ b \in Line(b) /\ Closed(Line(b))
         /\ \A S \in SUBSET Block : Closed(S) /\ b \in S => Line(b) \subseteq S
<1>1. Line(b) \in SUBSET Block /\ b \in Line(b)
  BY DEF Line
<1>2. \A S \in SUBSET Block : Closed(S) /\ b \in S => Line(b) \subseteq S
  BY DEF Line
<1>3. ASSUME NEW x \in Line(b), x # Genesis
      PROVE  PrevHash[x] \in Line(b)
  <2>1. x \in Block /\ PrevHash[x] \in Block
    BY <1>1, <1>3, HeaderAssumption
  <2>2. \A S \in SUBSET Block : Closed(S) /\ b \in S => PrevHash[x] \in S
    BY <1>2, <1>3 DEF Closed
  <2> QED
    BY <2>1, <2>2 DEF Line
<1> QED
  BY <1>1, <1>2, <1>3 DEF Closed

(* The line of a block is its parent's, which lacks it, and the block.     *)
LEMMA LineOfParent ==
  ASSUME NEW b \in Block, b # Genesis
  PROVE  /\ PrevHash[b] \in Block
         /\ Line(PrevHash[b]) \subseteq Line(b)
         /\ b \notin Line(PrevHash[b])
<1> DEFINE p == PrevHash[b]
<1>1. p \in Block
  BY HeaderAssumption
<1>2. Line(p) \subseteq Line(b)
  <2>1. p \in Line(b) /\ Closed(Line(b)) /\ Line(b) \in SUBSET Block
    BY LineProperties DEF Closed
  <2> QED
    BY <1>1, <2>1, LineProperties
<1>3. ASSUME b \in Line(p)
      PROVE  FALSE
  <2> DEFINE T == {x \in Line(p) : b \in Line(x)}
  <2>1. T \in (SUBSET Block) \ {{}}
    <3>1. p \in T
      BY <1>1, <1>3, LineProperties
    <3>2. T \subseteq Block
      BY <1>1, LineProperties
    <3> HIDE DEF T
    <3> QED
      BY <3>1, <3>2
  <2>2. PICK x \in T : x = Genesis \/ PrevHash[x] \notin T
    <3> HIDE DEF T
    <3> QED
      BY <2>1, AncestryAssumption
  <2>3. x \in Block /\ x \in Line(p) /\ b \in Line(x)
    BY <1>1, LineProperties
  <2>4. x # Genesis
    <3>1. Closed({Genesis}) /\ {Genesis} \in SUBSET Block
      BY HeaderAssumption DEF Closed
    <3>2. x = Genesis => Line(x) \subseteq {Genesis}
      BY <2>3, <3>1, LineProperties
    <3> QED
      BY <2>3, <3>2
  <2>5. PrevHash[x] \in Line(p) /\ PrevHash[x] \in Block
    BY <1>1, <2>3, <2>4, LineProperties, HeaderAssumption DEF Closed
  <2>6. CASE x = b
    BY <1>3, <2>2, <2>4, <2>5, <2>6
  <2>7. CASE x # b
    <3> DEFINE S == {x} \cup Line(PrevHash[x])
    <3>1. S \in SUBSET Block /\ x \in S
      BY <2>3, <2>5, LineProperties
    <3>2. Closed(S)
      <4>1. PrevHash[x] \in Line(PrevHash[x]) /\ Closed(Line(PrevHash[x]))
        BY <2>5, LineProperties
      <4> QED
        BY <3>1, <4>1 DEF Closed
    <3>3. Line(x) \subseteq S
      <4> HIDE DEF S
      <4> QED
        BY <2>3, <3>1, <3>2, LineProperties
    <3>4. b \in Line(PrevHash[x])
      BY <2>3, <2>7, <3>3
    <3> QED
      BY <2>2, <2>4, <2>5, <3>4
  <2> QED
    BY <2>6, <2>7
<1> QED
  BY <1>1, <1>2, <1>3

(* The depth of a block below which no recursion along the chain goes.     *)
Height == [b \in Block |-> Cardinality(Line(b))]

(* Every block but the genesis block is higher than its parent.            *)
LEMMA HeightProperties ==
  /\ Height \in [Block -> Nat]
  /\ \A b \in Block \ {Genesis} : PrevHash[b] \in Block /\ Height[PrevHash[b]] < Height[b]
<1>1. \A b \in Block : IsFiniteSet(Line(b)) /\ Cardinality(Line(b)) \in Nat
  BY LineProperties, AncestryAssumption, FS_Subset, FS_CardinalityType
<1>2. ASSUME NEW b \in Block \ {Genesis}
      PROVE  PrevHash[b] \in Block /\ Height[PrevHash[b]] < Height[b]
  <2> DEFINE p == PrevHash[b]
  <2>1. p \in Block /\ Line(p) \subseteq Line(b) \ {b} /\ b \in Line(b)
    BY LineOfParent, LineProperties
  <2>2. IsFiniteSet(Line(b) \ {b}) /\ Cardinality(Line(b) \ {b}) = Cardinality(Line(b)) - 1
    BY <1>1, <2>1, FS_RemoveElement
  <2>3. Cardinality(Line(p)) <= Cardinality(Line(b) \ {b})
    BY <2>1, <2>2, FS_Subset
  <2>4. Height[p] = Cardinality(Line(p)) /\ Height[b] = Cardinality(Line(b))
    BY <2>1 DEF Height
  <2> HIDE DEF p
  <2>5. Height[p] < Height[b]
    BY <1>1, <2>1, <2>2, <2>3, <2>4
  <2> QED
    BY <2>1, <2>5 DEF p
<1> QED
  BY <1>1, <1>2 DEF Height

(* f goes on from a block of R to its parent.                              *)
AlongChain(f, R, base, step) ==
    \A b \in Block : f[b] = IF b \in R THEN step[<<b, f[PrevHash[b]]>>] ELSE base[b]
HasAlongChain(V, R, base, step) == \E f \in [Block -> V] : AlongChain(f, R, base, step)

(* A function defined by recursion along the chain exists.                 *)
LEMMA ChainRecursion ==
  ASSUME NEW V, NEW R \in SUBSET (Block \ {Genesis}),
         NEW base \in [Block -> V], NEW step \in [Block \X V -> V]
  PROVE  HasAlongChain(V, R, base, step)
<1> DEFINE Def == [q \in [Block -> V] \X Block |->
                     IF q[2] \in R THEN step[<<q[2], q[1][PrevHash[q[2]]]>>] ELSE base[q[2]]]
<1>1. /\ Height \in [Block -> Nat]
      /\ \A b \in R : PrevHash[b] \in Block /\ Height[PrevHash[b]] < Height[b]
  BY HeightProperties
<1>2. base[Genesis] \in V
  BY HeaderAssumption
<1>3. Def \in [[Block -> V] \X Block -> V]
  <2> SUFFICES ASSUME NEW g \in [Block -> V], NEW b \in Block
               PROVE  (IF b \in R THEN step[<<b, g[PrevHash[b]]>>] ELSE base[b]) \in V
    OBVIOUS
  <2>1. b \in R => g[PrevHash[b]] \in V
    BY <1>1
  <2> QED
    BY <2>1
<1>4. UsesLowerRanks(Block, V, Height, Def)
  <2> SUFFICES ASSUME NEW g \in [Block -> V], NEW h \in [Block -> V], NEW b \in Block,
                      \A y \in Block : Height[y] < Height[b] => g[y] = h[y]
               PROVE  Def[<<g, b>>] = Def[<<h, b>>]
    <3> HIDE DEF Def
    <3> QED
      BY Zenon DEF UsesLowerRanks
  <2>1. b \in R => g[PrevHash[b]] = h[PrevHash[b]]
    BY <1>1
  <2> QED
    BY <2>1
<1>5. PICK f \in [Block -> V] : \A b \in Block : f[b] = Def[<<f, b>>]
  <2> HIDE DEF Def
  <2>1. Solvable(Block, V, Def)
    BY <1>1, <1>2, <1>3, <1>4, RankRecursion, Zenon
  <2> QED
    BY <2>1, Zenon DEF Solvable
<1>6. \A b \in Block :
         Def[<<f, b>>] = IF b \in R THEN step[<<b, f[PrevHash[b]]>>] ELSE base[b]
  OBVIOUS
<1> HIDE DEF Def
<1>7. AlongChain(f, R, base, step)
  BY <1>5, <1>6 DEF AlongChain
<1> QED
  BY <1>7 DEF HasAlongChain

-----------------------------------------------------------------------------
(* Ancestors and what they count for.                                      *)

(* The ancestors of a block are itself and those of its parent.            *)
LEMMA AncestryEquation ==
  /\ Ancestry \in [Block -> SUBSET Block]
  /\ \A b \in Block :
        Ancestry[b] = IF b = Genesis THEN {b} ELSE {b} \cup Ancestry[PrevHash[b]]
<1> DEFINE V == SUBSET Block
           R == Block \ {Genesis}
           base == [b \in Block |-> {b}]
           step == [q \in Block \X V |-> {q[1]} \cup q[2]]
           Def(g) == [b \in Block |-> IF b = Genesis THEN {b} ELSE {b} \cup g[PrevHash[b]]]
<1>1. base \in [Block -> V] /\ step \in [Block \X V -> V] /\ R \in SUBSET (Block \ {Genesis})
  OBVIOUS
<1>2. \A b \in R : PrevHash[b] \in Block
  BY HeaderAssumption
<1>3. PICK f \in [Block -> V] : AlongChain(f, R, base, step)
  <2> HIDE DEF R, V, base, step
  <2>1. HasAlongChain(V, R, base, step)
    BY <1>1, ChainRecursion
  <2> QED
    BY <2>1, Zenon DEF HasAlongChain
<1>4. \A b \in Block : f[b] = IF b = Genesis THEN {b} ELSE {b} \cup f[PrevHash[b]]
  <2> SUFFICES ASSUME NEW b \in Block
               PROVE  f[b] = IF b = Genesis THEN {b} ELSE {b} \cup f[PrevHash[b]]
    OBVIOUS
  <2>1. b # Genesis => f[PrevHash[b]] \in V
    BY <1>2
  <2>2. b # Genesis => step[<<b, f[PrevHash[b]]>>] = {b} \cup f[PrevHash[b]]
    BY <2>1
  <2> QED
    BY <1>3, <2>2 DEF AlongChain
<1>5. f = Def(f)
  BY <1>4
<1>6. Ancestry = Def(Ancestry)
  <2> HIDE DEF Def
  <2>1. Ancestry = CHOOSE g : g = Def(g)
    BY Zenon DEF Ancestry, Def
  <2> QED
    BY <1>5, <2>1, Zenon
<1>7. \A b \in Block :
         Ancestry[b] = IF b = Genesis THEN {b} ELSE {b} \cup Ancestry[PrevHash[b]]
  <2> HIDE DEF Ancestry
  <2> QED
    BY <1>6
<1>8. \A b \in Block : Ancestry[b] \in SUBSET Block
  <2> DEFINE S == {b \in Block : Ancestry[b] \in SUBSET Block}
  <2>1. \A b \in Block : b = Genesis \/ PrevHash[b] \in S => b \in S
    <3> SUFFICES ASSUME NEW b \in Block, b = Genesis \/ PrevHash[b] \in S
                 PROVE  Ancestry[b] \in SUBSET Block
      OBVIOUS
    <3>1. b # Genesis => Ancestry[PrevHash[b]] \in SUBSET Block
      OBVIOUS
    <3>2. Ancestry[b] = IF b = Genesis THEN {b} ELSE {b} \cup Ancestry[PrevHash[b]]
      BY <1>7
    <3> HIDE DEF S, Ancestry
    <3> QED
      BY <3>1, <3>2
  <2>2. \A b \in Block : b \in S
    <3> HIDE DEF S
    <3> QED
      BY <2>1, HeaderInduction
  <2> QED
    BY <2>2
<1>9. Ancestry \in [Block -> SUBSET Block]
  <2>1. \E h : Ancestry = [b \in Block |-> h[b]]
    <3> HIDE DEF Ancestry
    <3>1. Ancestry = [b \in Block |-> Ancestry[b]]
      BY <1>6
    <3> QED
      BY <3>1
  <2> HIDE DEF Ancestry
  <2> QED
    BY <1>8, <2>1
<1> QED
  BY <1>7, <1>9

(* A block is an ancestor of itself and of none of its ancestors.          *)
LEMMA AncestryOfParent ==
  /\ \A b \in Block : b \in Ancestry[b] /\ Genesis \in Ancestry[b] /\ IsFiniteSet(Ancestry[b])
  /\ \A b \in Block \ {Genesis} : b \notin Ancestry[PrevHash[b]]
<1> USE AncestryEquation
<1> DEFINE S == {b \in Block : /\ Genesis \in Ancestry[b]
                               /\ \A x \in Ancestry[b] : Height[x] <= Height[b]}
<1>1. \A b \in Block : b = Genesis \/ PrevHash[b] \in S => b \in S
  <2> SUFFICES ASSUME NEW b \in Block, b = Genesis \/ PrevHash[b] \in S
               PROVE  b \in S
    OBVIOUS
  <2>1. CASE b = Genesis
    BY <2>1, HeightProperties
  <2>2. CASE b # Genesis
    <3>1. PrevHash[b] \in S /\ Height[PrevHash[b]] < Height[b] /\ PrevHash[b] \in Block
      BY <2>2, HeightProperties
    <3>2. \A x \in Ancestry[PrevHash[b]] : x \in Block /\ Height[x] \in Nat
      BY <3>1, HeightProperties
    <3>3. Height[b] \in Nat /\ Height[PrevHash[b]] \in Nat
      BY <3>1, HeightProperties
    <3>4. Ancestry[b] = {b} \cup Ancestry[PrevHash[b]]
      BY <2>2
    <3> QED
      BY <3>1, <3>2, <3>3, <3>4
  <2> QED
    BY <2>1, <2>2
<1>2. \A b \in Block : b \in S
  <2> HIDE DEF S
  <2> QED
    BY <1>1, HeaderInduction
<1>3. \A b \in Block : b \in Ancestry[b] /\ IsFiniteSet(Ancestry[b])
  BY AncestryAssumption, FS_Subset
<1>4. ASSUME NEW b \in Block \ {Genesis}
      PROVE  b \notin Ancestry[PrevHash[b]]
  <2>1. PrevHash[b] \in S /\ PrevHash[b] \in Block /\ Height[PrevHash[b]] < Height[b]
    BY <1>2, HeightProperties
  <2>2. Height[b] \in Nat /\ Height[PrevHash[b]] \in Nat
    BY <2>1, HeightProperties
  <2> QED
    BY <2>1, <2>2
<1> QED
  BY <1>2, <1>3, <1>4

(* The total of a chain is its parent's and the block's.                   *)
LEMMA ChainTDStep ==
  /\ \A b \in Block : ChainTD[b] \in Nat
  /\ \A b \in Block \ {Genesis} :
        /\ PrevHash[b] \in Block
        /\ ChainTD[b] = ChainTD[PrevHash[b]] + CalculateBlockTD(b)
<1>1. \A b \in Block : ChainTD[b] = Total(Ancestry[b] \ {Genesis})
  BY Zenon DEF ChainTD, Total
<1>2. \A b \in Block : /\ Ancestry[b] \ {Genesis} \in SUBSET Block
                       /\ IsFiniteSet(Ancestry[b] \ {Genesis})
  BY AncestryEquation, AncestryOfParent, FS_RemoveElement
<1>3. \A b \in Block : ChainTD[b] \in Nat
  BY <1>1, <1>2, TotalGrows
<1>4. ASSUME NEW b \in Block \ {Genesis}
      PROVE  /\ PrevHash[b] \in Block
             /\ ChainTD[b] = ChainTD[PrevHash[b]] + CalculateBlockTD(b)
  <2> DEFINE S == Ancestry[PrevHash[b]] \ {Genesis}
  <2>1. PrevHash[b] \in Block
    BY HeaderAssumption
  <2>2. b \in Block \ S /\ Ancestry[b] \ {Genesis} = S \cup {b}
    BY AncestryEquation, AncestryOfParent
  <2>3. S \in SUBSET Block /\ IsFiniteSet(S)
    BY <1>2, <2>1
  <2>4. Total(S \cup {b}) = Total(S) + CalculateBlockTD(b)
    <3> HIDE DEF S
    <3> QED
      BY <2>2, <2>3, TotalGrows
  <2> QED
    BY <1>1, <2>1, <2>2, <2>4
<1> QED
  BY <1>3, <1>4

-----------------------------------------------------------------------------
(* The inductive invariant: every block message holds a piece of a chain,  *)
(* newest block first, and every node stands on a block it stores.         *)

Letter ==
    {m \in [type : {"handshake", "block", "getChain", "notInChain"}, blocks : Seq(Block)] :
        m.type = "block" => Consecutive(m.blocks)}

Peer ==
    [known : SUBSET Block, head : Block, up : BOOLEAN, versionKnown : BOOLEAN,
     catchingUp : BOOLEAN, diverted : BOOLEAN, out : Seq(Letter),
     blocksRequested : 0 .. MaxRequested]

Good == {p \in Peer : p.head \in p.known}

IInv ==
    /\ node \in [Node -> Good]
    /\ net \in [Node -> Seq(Letter)]
    /\ faults \in 0 .. MaxFaults

-----------------------------------------------------------------------------
(* The queries of the chain.                                               *)

IsBelow(p, f) ==
    \A b \in Block : f[b] = IF PrevHash[b] \in p.known THEN {b} \cup f[PrevHash[b]] ELSE {b}

(* CurrentChain is the value, at the head, of a function that walks down.  *)
LEMMA CurrentChainOf ==
  ASSUME NEW p \in Good
  PROVE  \E f \in [Block -> SUBSET Block] : IsBelow(p, f) /\ CurrentChain(p) = f[p.head]
<1> DEFINE V == SUBSET Block
           R == {b \in Block : PrevHash[b] \in p.known}
           base == [b \in Block |-> {b}]
           step == [q \in Block \X V |-> {q[1]} \cup q[2]]
           Def(g) == [b \in Block |->
                         IF PrevHash[b] \in p.known THEN {b} \cup g[PrevHash[b]] ELSE {b}]
           G == CHOOSE g : g = Def(g)
<1>1. p.known \in SUBSET Block
  BY DEF Good, Peer
<1>2. base \in [Block -> V] /\ step \in [Block \X V -> V] /\ R \in SUBSET (Block \ {Genesis})
  BY <1>1, HeaderAssumption
<1>3. PICK f \in [Block -> V] : AlongChain(f, R, base, step)
  <2> HIDE DEF R, V, base, step
  <2>1. HasAlongChain(V, R, base, step)
    BY <1>2, ChainRecursion
  <2> QED
    BY <2>1, Zenon DEF HasAlongChain
<1>4. IsBelow(p, f)
  <2> SUFFICES ASSUME NEW b \in Block
               PROVE  f[b] = IF PrevHash[b] \in p.known THEN {b} \cup f[PrevHash[b]] ELSE {b}
    BY DEF IsBelow
  <2>1. b \in R => f[PrevHash[b]] \in V
    BY <1>1
  <2>2. b \in R => step[<<b, f[PrevHash[b]]>>] = {b} \cup f[PrevHash[b]]
    BY <2>1
  <2> QED
    BY <1>3, <2>2 DEF AlongChain
<1>5. f = Def(f)
  BY <1>4 DEF IsBelow
<1>6. G = Def(G)
  <2> HIDE DEF Def
  <2> QED
    BY <1>5, Zenon
<1>7. CurrentChain(p) = G[p.head]
  BY Zenon DEF CurrentChain
<1> HIDE DEF G
<1>8. IsBelow(p, G)
  BY <1>6 DEF IsBelow
<1>9. \A b \in Block : G[b] \in SUBSET Block
  <2> DEFINE S == {b \in Block : G[b] \in SUBSET Block}
  <2>1. \A b \in Block : b = Genesis \/ PrevHash[b] \in S => b \in S
    <3> SUFFICES ASSUME NEW b \in Block, b = Genesis \/ PrevHash[b] \in S
                 PROVE  G[b] \in SUBSET Block
      OBVIOUS
    <3>1. PrevHash[b] \in p.known => PrevHash[b] \in S
      BY <1>1, HeaderAssumption
    <3>2. G[b] = IF PrevHash[b] \in p.known THEN {b} \cup G[PrevHash[b]] ELSE {b}
      BY <1>8 DEF IsBelow
    <3> QED
      BY <3>1, <3>2
  <2>2. \A b \in Block : b \in S
    <3> HIDE DEF S
    <3> QED
      BY <2>1, HeaderInduction
  <2> QED
    BY <2>2
<1>10. G \in [Block -> SUBSET Block]
  <2>1. DOMAIN G = Block /\ G = [b \in Block |-> G[b]]
    BY <1>6
  <2> QED
    BY <1>9, <2>1
<1> QED
  BY <1>7, <1>8, <1>10

IsCurSum(p, common, f) ==
    \A b \in Block : f[b] = IF b = common \/ ~HasBlock(p, PrevHash[b]) THEN 0
                            ELSE CalculateBlockTD(b) + f[PrevHash[b]]

(* So is CurChainDifficulty.                                               *)
LEMMA CurChainDifficultyOf ==
  ASSUME NEW p \in Good, NEW common
  PROVE  \E f : IsCurSum(p, common, f) /\ CurChainDifficulty(p, common) = f[p.head]
<1> DEFINE R == {b \in Block : b # common /\ HasBlock(p, PrevHash[b])}
           base == [b \in Block |-> 0]
           step == [q \in Block \X Nat |-> CalculateBlockTD(q[1]) + q[2]]
           Def(g) == [b \in Block |->
                         IF b = common \/ ~HasBlock(p, PrevHash[b]) THEN 0
                         ELSE CalculateBlockTD(b) + g[PrevHash[b]]]
           G == CHOOSE g : g = Def(g)
<1>1. p.known \in SUBSET Block
  BY DEF Good, Peer
<1>2. base \in [Block -> Nat] /\ R \in SUBSET (Block \ {Genesis})
  BY <1>1, HeaderAssumption DEF HasBlock
<1>3. step \in [Block \X Nat -> Nat]
  <2>1. \A b \in Block, k \in Nat : CalculateBlockTD(b) + k \in Nat
    BY BlockTDPositive
  <2> QED
    BY <2>1
<1>4. PICK f \in [Block -> Nat] : AlongChain(f, R, base, step)
  <2> HIDE DEF R, base, step
  <2>1. HasAlongChain(Nat, R, base, step)
    BY <1>2, <1>3, ChainRecursion
  <2> QED
    BY <2>1, Zenon DEF HasAlongChain
<1>5. IsCurSum(p, common, f)
  <2> SUFFICES ASSUME NEW b \in Block
               PROVE  f[b] = IF b = common \/ ~HasBlock(p, PrevHash[b]) THEN 0
                             ELSE CalculateBlockTD(b) + f[PrevHash[b]]
    BY DEF IsCurSum
  <2>1. b \in R => f[PrevHash[b]] \in Nat
    BY <1>1 DEF HasBlock
  <2>2. b \in R => step[<<b, f[PrevHash[b]]>>] = CalculateBlockTD(b) + f[PrevHash[b]]
    BY <2>1
  <2> QED
    BY <1>4, <2>2 DEF AlongChain
<1>6. f = Def(f)
  BY <1>5 DEF IsCurSum
<1>7. G = Def(G)
  <2> HIDE DEF Def
  <2> QED
    BY <1>6, Zenon
<1>8. CurChainDifficulty(p, common) = G[p.head]
  BY Zenon DEF CurChainDifficulty
<1> HIDE DEF G
<1>9. IsCurSum(p, common, G)
  BY <1>7 DEF IsCurSum
<1> QED
  BY <1>8, <1>9

(* A block of the current chain whose parent is stored: the parent is not  *)
(* the head, and FindCanonicalChain counts what the chain adds to the      *)
(* total of that parent.                                                   *)
LEMMA CurrentChainCounts ==
  ASSUME NEW p \in Good, NEW common \in p.known, HasBlockWithPrevHash(p, common)
  PROVE  /\ common # p.head
         /\ CurChainDifficulty(p, common) = ChainTD[p.head] - ChainTD[common]
<1>1. PICK f \in [Block -> SUBSET Block] : IsBelow(p, f) /\ CurrentChain(p) = f[p.head]
  BY CurrentChainOf
<1>2. PICK g : IsCurSum(p, common, g) /\ CurChainDifficulty(p, common) = g[p.head]
  BY CurChainDifficultyOf
<1>3. /\ p.known \in SUBSET Block /\ p.head \in Block /\ common \in Block
      /\ PrevHash[Genesis] \notin p.known
  BY HeaderAssumption DEF Good, Peer
<1>4. PICK c \in f[p.head] : PrevHash[c] = common
  BY <1>1 DEF HasBlockWithPrevHash
<1> DEFINE Over(b) == c \in f[b] => /\ Height[common] < Height[b]
                                    /\ g[b] = ChainTD[b] - ChainTD[common]
           S == {b \in Block : Over(b)}
<1>5. \A b \in Block : b = Genesis \/ PrevHash[b] \in S => b \in S
  <2> SUFFICES ASSUME NEW b \in Block, b = Genesis \/ PrevHash[b] \in S, c \in f[b]
               PROVE  Height[common] < Height[b] /\ g[b] = ChainTD[b] - ChainTD[common]
    OBVIOUS
  <2>1. PrevHash[b] \in p.known /\ b # Genesis
    <3>1. f[b] = IF PrevHash[b] \in p.known THEN {b} \cup f[PrevHash[b]] ELSE {b}
      BY <1>1 DEF IsBelow
    <3> QED
      BY <1>3, <1>4, <3>1
  <2>2. c = b \/ c \in f[PrevHash[b]]
    BY <1>1, <2>1 DEF IsBelow
  <2>3. /\ Height[PrevHash[b]] < Height[b]
        /\ Height[PrevHash[b]] \in Nat /\ Height[b] \in Nat /\ Height[common] \in Nat
        /\ ChainTD[b] = ChainTD[PrevHash[b]] + CalculateBlockTD(b)
        /\ ChainTD[PrevHash[b]] \in Nat /\ ChainTD[common] \in Nat
        /\ CalculateBlockTD(b) \in Nat
    BY <1>3, <2>1, HeightProperties, ChainTDStep, BlockTDPositive
  <2>4. Height[common] < Height[b]
    <3>1. c = b => Height[common] < Height[b]
      BY <1>4, <2>3
    <3>2. c \in f[PrevHash[b]] => Height[common] < Height[PrevHash[b]]
      BY <2>1
    <3> QED
      BY <2>2, <2>3, <3>1, <3>2
  <2>5. g[b] = CalculateBlockTD(b) + g[PrevHash[b]]
    <3>1. b # common
      BY <2>3, <2>4
    <3> QED
      BY <1>2, <2>1, <3>1 DEF IsCurSum, HasBlock
  <2>6. g[PrevHash[b]] = ChainTD[PrevHash[b]] - ChainTD[common]
    <3>1. CASE c = b
      <4>1. g[common] = 0
        BY <1>2, <1>3 DEF IsCurSum
      <4> QED
        BY <1>4, <2>3, <3>1, <4>1
    <3>2. CASE c \in f[PrevHash[b]]
      BY <2>1, <3>2
    <3> QED
      BY <2>2, <3>1, <3>2
  <2> HIDE DEF S
  <2> QED
    BY <2>3, <2>4, <2>5, <2>6
<1>6. p.head \in S
  <2> HIDE DEF S
  <2> QED
    BY <1>3, <1>5, HeaderInduction
<1>7. Height[common] < Height[p.head] /\ Height[p.head] \in Nat
  BY <1>3, <1>4, <1>6, HeightProperties
<1> QED
  BY <1>2, <1>4, <1>6, <1>7

-----------------------------------------------------------------------------
(* Loops over a message, which begin with its oldest block, the last one.  *)

FromLast(f, n, last, step) ==
    \A i \in 1 .. n : f[i] = IF i = n THEN last ELSE step[<<i, f[i + 1]>>]
HasFromLast(V, n, last, step) == \E f \in [1 .. n -> V] : FromLast(f, n, last, step)

(* What is computed from the end of a list to its front has a value.       *)
LEMMA FromLastExists ==
  ASSUME NEW V, NEW n \in Nat, NEW last \in V, NEW step \in [(1 .. n) \X V -> V]
  PROVE  HasFromLast(V, n, last, step)
<1> DEFINE S == 1 .. n
           rank == [i \in S |-> n - i]
           Def == [q \in [S -> V] \X S |->
                     IF q[2] = n THEN last ELSE step[<<q[2], q[1][q[2] + 1]>>]]
<1>1. rank \in [S -> Nat]
  OBVIOUS
<1>2. \A i \in S : i # n => i + 1 \in S /\ rank[i + 1] < rank[i]
  OBVIOUS
<1>3. Def \in [[S -> V] \X S -> V]
  <2> SUFFICES ASSUME NEW g \in [S -> V], NEW i \in S
               PROVE  (IF i = n THEN last ELSE step[<<i, g[i + 1]>>]) \in V
    OBVIOUS
  <2>1. i # n => g[i + 1] \in V
    BY <1>2
  <2> HIDE DEF S
  <2> QED
    BY <2>1 DEF S
<1>4. UsesLowerRanks(S, V, rank, Def)
  <2> SUFFICES ASSUME NEW g \in [S -> V], NEW h \in [S -> V], NEW i \in S,
                      \A y \in S : rank[y] < rank[i] => g[y] = h[y]
               PROVE  Def[<<g, i>>] = Def[<<h, i>>]
    <3> HIDE DEF Def, S, rank
    <3> QED
      BY Zenon DEF UsesLowerRanks
  <2>1. i # n => g[i + 1] = h[i + 1]
    BY <1>2
  <2> HIDE DEF S, rank
  <2> QED
    BY <2>1
<1>5. PICK f \in [S -> V] : \A i \in S : f[i] = Def[<<f, i>>]
  <2> HIDE DEF Def, S, rank
  <2>1. Solvable(S, V, Def)
    BY <1>1, <1>3, <1>4, RankRecursion, Zenon
  <2> QED
    BY <2>1, Zenon DEF Solvable
<1>6. \A i \in S : Def[<<f, i>>] = IF i = n THEN last ELSE step[<<i, f[i + 1]>>]
  OBVIOUS
<1> HIDE DEF Def
<1>7. FromLast(f, n, last, step)
  BY <1>5, <1>6 DEF FromLast
<1> QED
  BY <1>7 DEF HasFromLast

(* Induction from the last block of a message to the first.                *)
LEMMA FromLastInduction ==
  ASSUME NEW S, NEW n \in Nat, n \in S, \A i \in 1 .. n - 1 : i + 1 \in S => i \in S
  PROVE  \A i \in 1 .. n : i \in S
<1> DEFINE T == {k \in Nat : k < n => n - k \in S}
<1>1. 0 \in T
  OBVIOUS
<1>2. \A k \in Nat : k \in T => k + 1 \in T
  <2> SUFFICES ASSUME NEW k \in Nat, k \in T, k + 1 < n
               PROVE  n - (k + 1) \in S
    OBVIOUS
  <2>1. n - (k + 1) \in 1 .. n - 1 /\ (n - (k + 1)) + 1 = n - k
    OBVIOUS
  <2>2. n - k \in S
    OBVIOUS
  <2> HIDE DEF T
  <2> QED
    BY <2>1, <2>2
<1>3. \A k \in Nat : k \in T
  <2> HIDE DEF T
  <2> QED
    BY <1>1, <1>2, NatSetInduction
<1> SUFFICES ASSUME NEW i \in 1 .. n
             PROVE  i \in S
  OBVIOUS
<1>4. n - i \in Nat /\ n - i < n /\ n - (n - i) = i
  OBVIOUS
<1>5. n - i \in T
  BY <1>3, <1>4
<1> QED
  BY <1>4, <1>5

IsChainSum(chain, common, f) ==
    \A i \in 1 .. Len(chain) :
        f[i] = IF i = Len(chain) \/ chain[i] = common THEN 0
               ELSE CalculateBlockTD(chain[i]) + f[i + 1]

(* ChainDifficulty is the value, at the front, of such a function.         *)
LEMMA ChainDifficultyOf ==
  ASSUME NEW chain \in Seq(Block), chain # <<>>, NEW common
  PROVE  \E f : IsChainSum(chain, common, f) /\ ChainDifficulty(chain, common) = f[1]
<1> DEFINE n == Len(chain)
           step == [q \in (1 .. n) \X Nat |->
                       IF chain[q[1]] = common THEN 0 ELSE CalculateBlockTD(chain[q[1]]) + q[2]]
           Def(g) == [i \in 1 .. n |-> IF i = n \/ chain[i] = common THEN 0
                                       ELSE CalculateBlockTD(chain[i]) + g[i + 1]]
           G == CHOOSE g : g = Def(g)
<1>1. n \in Nat /\ \A i \in 1 .. n : chain[i] \in Block
  OBVIOUS
<1>2. \A i \in 1 .. n, k \in Nat : CalculateBlockTD(chain[i]) + k \in Nat
  BY <1>1, BlockTDPositive
<1>3. step \in [(1 .. n) \X Nat -> Nat]
  <2> HIDE DEF n
  <2> QED
    BY <1>2
<1>4. PICK f \in [1 .. n -> Nat] : FromLast(f, n, 0, step)
  <2> HIDE DEF step, n
  <2>1. HasFromLast(Nat, n, 0, step)
    BY <1>1, <1>3, FromLastExists
  <2> QED
    BY <2>1, Zenon DEF HasFromLast
<1>5. IsChainSum(chain, common, f)
  <2> SUFFICES ASSUME NEW i \in 1 .. n
               PROVE  f[i] = IF i = n \/ chain[i] = common THEN 0
                             ELSE CalculateBlockTD(chain[i]) + f[i + 1]
    BY DEF IsChainSum
  <2>1. i # n => f[i + 1] \in Nat
    BY <1>1
  <2> HIDE DEF n
  <2> QED
    BY <1>4, <2>1 DEF FromLast
<1>6. f = Def(f)
  BY <1>5 DEF IsChainSum
<1>7. G = Def(G)
  <2> HIDE DEF Def
  <2> QED
    BY <1>6, Zenon
<1>8. ChainDifficulty(chain, common) = G[1]
  BY Zenon DEF ChainDifficulty
<1> HIDE DEF G
<1>9. IsChainSum(chain, common, G)
  BY <1>7 DEF IsChainSum
<1> QED
  BY <1>8, <1>9

(* FindCanonicalChain counts no more of a message than its newest block    *)
(* has over the common block.                                              *)
LEMMA MessageCounts ==
  ASSUME NEW chain \in Seq(Block), Consecutive(chain),
         NEW i \in 1 .. Len(chain), PrevHash[chain[i]] \in Block
  PROVE  /\ ChainDifficulty(chain, PrevHash[chain[i]]) \in Nat
         /\ ChainDifficulty(chain, PrevHash[chain[i]]) <=
               ChainTD[chain[1]] - ChainTD[PrevHash[chain[i]]]
<1> DEFINE n == Len(chain)
           common == PrevHash[chain[i]]
<1>1. n \in Nat /\ i <= n /\ chain # <<>> /\ \A j \in 1 .. n : chain[j] \in Block
  OBVIOUS
<1>2. PICK f : IsChainSum(chain, common, f) /\ ChainDifficulty(chain, common) = f[1]
  BY <1>1, ChainDifficultyOf
<1> DEFINE Bounded(j) == f[j] \in Nat /\ f[j] <= ChainTD[chain[j]] - ChainTD[common]
           S == {j \in 1 .. i : Bounded(j)}
<1>3. \A j \in 1 .. n : /\ CalculateBlockTD(chain[j]) \in Nat /\ ChainTD[chain[j]] \in Nat
                        /\ PrevHash[chain[j]] \in Block =>
                              ChainTD[chain[j]] = ChainTD[PrevHash[chain[j]]]
                                                    + CalculateBlockTD(chain[j])
  BY <1>1, BlockTDPositive, ChainTDStep, HeaderAssumption
<1>4. ChainTD[common] \in Nat
  BY ChainTDStep
<1>5. i \in S
  <2>1. CASE i = n
    <3>1. f[i] = 0
      BY <1>2, <2>1 DEF IsChainSum
    <3> QED
      BY <1>3, <1>4, <3>1
  <2>2. CASE i # n
    <3>1. i + 1 \in 1 .. n /\ chain[i + 1] = common
      BY <1>1, <2>2 DEF Consecutive
    <3>2. f[i + 1] = 0
      BY <1>2, <3>1 DEF IsChainSum
    <3>3. f[i] = IF chain[i] = common THEN 0 ELSE CalculateBlockTD(chain[i]) + f[i + 1]
      BY <1>2, <2>2 DEF IsChainSum
    <3> HIDE DEF n
    <3> QED
      BY <1>1, <1>3, <1>4, <3>2, <3>3
  <2> QED
    BY <2>1, <2>2
<1>6. ASSUME NEW j \in 1 .. i - 1, j + 1 \in S
      PROVE  j \in S
  <2>1. j \in 1 .. n /\ j + 1 \in 1 .. n /\ j # n /\ j \in 1 .. n - 1
    BY <1>1
  <2>2. chain[j + 1] = PrevHash[chain[j]]
    BY <2>1 DEF Consecutive
  <2>3. f[j] = IF chain[j] = common THEN 0 ELSE CalculateBlockTD(chain[j]) + f[j + 1]
    BY <1>2, <2>1 DEF IsChainSum
  <2>4. ChainTD[chain[j]] = ChainTD[chain[j + 1]] + CalculateBlockTD(chain[j])
    BY <1>1, <1>3, <2>1, <2>2
  <2>5. f[j + 1] \in Nat /\ f[j + 1] <= ChainTD[chain[j + 1]] - ChainTD[common]
    BY <1>6
  <2>6. CalculateBlockTD(chain[j]) \in Nat /\ ChainTD[chain[j]] \in Nat /\ ChainTD[chain[j + 1]] \in Nat
    BY <1>3, <2>1
  <2> HIDE DEF n, common
  <2>7. CASE chain[j] = common
    BY <1>4, <2>3, <2>7
  <2>8. CASE chain[j] # common
    <3>1. f[j] = CalculateBlockTD(chain[j]) + f[j + 1]
      BY <2>3, <2>8
    <3> DEFINE t == CalculateBlockTD(chain[j])  x == f[j + 1]  y == ChainTD[chain[j + 1]]
               z == ChainTD[common]  u == ChainTD[chain[j]]
    <3>2. t \in Nat /\ x \in Nat /\ y \in Nat /\ z \in Nat /\ u = y + t /\ x <= y - z
      BY <1>4, <2>4, <2>5, <2>6
    <3>3. t + x \in Nat /\ t + x <= u - z
      <4> HIDE DEF t, x, y, z, u
      <4> QED
        BY <3>2
    <3>4. j \in 1 .. i
      BY <1>1
    <3> HIDE DEF S
    <3>5. Bounded(j)
      BY <3>1, <3>3
    <3> QED
      BY <3>4, <3>5 DEF S
  <2> QED
    BY <2>7, <2>8
<1>7. i \in Nat /\ 1 \in 1 .. i
  OBVIOUS
<1>8. 1 \in S
  <2> HIDE DEF S
  <2> QED
    BY <1>5, <1>6, <1>7, FromLastInduction
<1> QED
  BY <1>2, <1>8

(* A chain that beats ours ends in a block of more total difficulty.       *)
LEMMA BeatsHeavier ==
  ASSUME NEW p \in Good, NEW chain \in Seq(Block), Consecutive(chain),
         NEW i \in Splits(p, chain), PrevHash[chain[i]] \in p.known,
         Beats(p, chain, PrevHash[chain[i]])
  PROVE  /\ PrevHash[chain[i]] # p.head
         /\ \E b \in Range(chain) : ChainTD[b] > ChainTD[p.head]
<1> DEFINE common == PrevHash[chain[i]]
<1>1. i \in 1 .. Len(chain) /\ HasBlockWithPrevHash(p, common)
  BY DEF Splits
<1>2. common \in p.known /\ p.known \in SUBSET Block /\ p.head \in Block
  BY DEF Good, Peer
<1>3. /\ common # p.head
      /\ CurChainDifficulty(p, common) = ChainTD[p.head] - ChainTD[common]
  BY <1>1, <1>2, CurrentChainCounts
<1>4. /\ ChainDifficulty(chain, common) \in Nat
      /\ ChainDifficulty(chain, common) <= ChainTD[chain[1]] - ChainTD[common]
  BY <1>1, <1>2, MessageCounts
<1>5. 1 \in DOMAIN chain /\ chain[1] \in Block /\ chain[1] \in Range(chain)
  BY <1>1 DEF Range
<1>6. ChainTD[chain[1]] \in Nat /\ ChainTD[p.head] \in Nat /\ ChainTD[common] \in Nat
  BY <1>2, <1>5, ChainTDStep
<1>7. ChainDifficulty(chain, common) > CurChainDifficulty(p, common)
  BY DEF Beats
<1> HIDE DEF common
<1>8. ChainTD[chain[1]] > ChainTD[p.head]
  BY <1>3, <1>4, <1>6, <1>7
<1> QED
  BY <1>3, <1>5, <1>8 DEF common

-----------------------------------------------------------------------------
(* The replies: what GetChain and GetChainFromHash make of the chain.      *)

(* A list lengthened by what is below a stored block is of stored blocks.  *)
LEMMA LengthenedType ==
  ASSUME NEW p \in Good, NEW list \in Seq(p.known), NEW b
  PROVE  Lengthened(p, list, Below(p, list, b)) \in Seq(p.known)
<1> DEFINE c == Below(p, list, b)
<1>1. c \in p.known => Append(list, c) \in Seq(p.known)
  <2> HIDE DEF c
  <2> QED
    OBVIOUS
<1> QED
  BY <1>1 DEF Lengthened, HasBlock

(* Ancestors lists stored blocks only, however many are asked for.         *)
LEMMA AncestorsType ==
  ASSUME NEW p \in Good, NEW b, NEW k \in Nat
  PROVE  Ancestors(p, b, k) \in Seq(p.known)
<1> DEFINE V == Seq(p.known)
           Round(l) == Lengthened(p, l, Below(p, l, b))
           step == [q \in V \X (1 .. k) |-> Round(q[1])]
           Def(g) == [i \in 0 .. k |-> IF i = 0 THEN <<>> ELSE The({Round(l) : l \in {g[i - 1]}})]
           G == CHOOSE g : g = Def(g)
<1>1. <<>> \in V /\ \A l \in V : Round(l) \in V
  BY LengthenedType
<1> HIDE DEF V, Round
<1>2. step \in [V \X (1 .. k) -> V]
  BY <1>1
<1>3. PICK f \in [0 .. k -> V] : Rounds(f, k, <<>>, step)
  <2> HIDE DEF step
  <2>1. HasRounds(V, k, <<>>, step)
    BY <1>1, <1>2, RoundsExist
  <2> QED
    BY <2>1, Zenon DEF HasRounds
<1>4. \A x : The({Round(l) : l \in {x}}) = Round(x)
  BY Zenon DEF The
<1>5. \A i \in 0 .. k : f[i] = IF i = 0 THEN <<>> ELSE The({Round(l) : l \in {f[i - 1]}})
  <2> SUFFICES ASSUME NEW i \in 0 .. k, i # 0
               PROVE  f[i] = Round(f[i - 1])
    BY <1>3, <1>4 DEF Rounds
  <2>1. i \in 1 .. k /\ i - 1 \in 0 .. k
    OBVIOUS
  <2>2. f[i - 1] \in V
    BY <2>1
  <2>3. step[<<f[i - 1], i>>] = Round(f[i - 1])
    BY <2>1, <2>2
  <2> QED
    BY <1>3, <2>1, <2>3 DEF Rounds
<1>6. f = Def(f)
  BY <1>5
<1>7. G = Def(G)
  <2> HIDE DEF Def
  <2> QED
    BY <1>6, Zenon
<1>8. Ancestors(p, b, k) = G[k]
  BY Zenon DEF Ancestors, Repeat, Round
<1> HIDE DEF G
<1>9. \A i \in 0 .. k : G[i] = IF i = 0 THEN <<>> ELSE Round(G[i - 1])
  BY <1>4, <1>7
<1> DEFINE S == {i \in Nat : G[i] \in V}
<1>10. \A i \in 0 .. k : i \in S
  <2>1. 0 \in S
    BY <1>1, <1>9
  <2>2. \A i \in 1 .. k : i - 1 \in S => i \in S
    BY <1>1, <1>9
  <2> HIDE DEF S
  <2> QED
    BY <2>1, <2>2, PrefixInduction
<1> QED
  BY <1>8, <1>10 DEF V

(* What a reply may be: a piece of a chain, newest block first, or a list  *)
(* with a nil block, on which the node panics.                             *)
Piece(p) ==
    {list \in Seq(p.known \cup {NoBlock}) : NoBlock \in Range(list) \/ Consecutive(list)}

(* A piece of the chain lengthened by one block is one, or holds a nil.    *)
LEMMA LengthenedToType ==
  ASSUME NEW p \in Good, NEW list \in Piece(p), NEW first, NEW h
  PROVE  LengthenedTo(p, list, Below(p, list, first), h) \in Piece(p)
<1> DEFINE b == Below(p, list, first)
           c == IF HasBlock(p, b) THEN b ELSE NoBlock
           more == Append(list, c)
           V == p.known \cup {NoBlock}
<1>1. c \in V /\ list \in Seq(V) /\ p.known \in SUBSET Block /\ NoBlock \notin p.known
  BY HeaderAssumption DEF HasBlock, Piece, Good, Peer
<1> HIDE DEF c, V
<1>2. /\ more \in Seq(V) /\ Len(more) = Len(list) + 1 /\ more[Len(list) + 1] = c
      /\ \A i \in 1 .. Len(list) : more[i] = list[i]
      /\ DOMAIN more = 1 .. Len(list) + 1 /\ DOMAIN list = 1 .. Len(list)
      /\ Len(list) \in Nat
  BY <1>1
<1> HIDE DEF more
<1>3. c = NoBlock \/ NoBlock \in Range(list) => NoBlock \in Range(more)
  BY <1>2 DEF Range
<1>4. ASSUME c # NoBlock, NoBlock \notin Range(list)
      PROVE  Consecutive(more)
  <2>1. Consecutive(list)
    BY <1>4 DEF Piece
  <2>2. ASSUME NEW i \in 1 .. Len(more) - 1
        PROVE  more[i + 1] = PrevHash[more[i]]
    <3>1. CASE i = Len(list)
      <4>1. list # <<>> /\ Last(list) = list[i] /\ i \in DOMAIN list
        BY <1>2, <2>2, <3>1 DEF Last
      <4>2. list[i] \in p.known
        BY <1>1, <1>2, <1>4, <4>1 DEF Range, V
      <4>3. b = PrevHash[list[i]] /\ c = b
        BY <1>4, <4>1, <4>2 DEF Below, Parent, HasBlock, c
      <4> QED
        BY <1>2, <2>2, <3>1, <4>3
    <3>2. CASE i # Len(list)
      <4>1. i \in 1 .. Len(list) - 1 /\ i + 1 \in 1 .. Len(list) /\ i \in 1 .. Len(list)
        <5> DEFINE n == Len(list)
        <5>1. n \in Nat /\ i \in 1 .. (n + 1) - 1 /\ i # n
          BY <1>2, <2>2, <3>2
        <5> HIDE DEF n
        <5>2. i \in 1 .. n - 1 /\ i + 1 \in 1 .. n /\ i \in 1 .. n
          BY <5>1
        <5> QED
          BY <5>2 DEF n
      <4> QED
        BY <1>2, <2>1, <4>1 DEF Consecutive
    <3> QED
      BY <3>1, <3>2
  <2> QED
    BY <2>2 DEF Consecutive
<1>5. more \in Piece(p)
  BY <1>2, <1>3, <1>4 DEF Piece, V
<1> QED
  BY <1>5 DEF LengthenedTo, c, more

(* GetChainFromHash answers with a piece of the chain, newest first.       *)
LEMMA GetChainFromHashType ==
  ASSUME NEW p \in Good, NEW h \in Block
  PROVE  GetChainFromHash(p, h) \in Piece(p)
<1> DEFINE V == Piece(p)
           k == Span(p, h)
           first == Skipped(p, Number[p.head] - Number[h] - Span(p, h))
           Round(l) == LengthenedTo(p, l, Below(p, l, first), h)
           step == [q \in V \X (1 .. k) |-> Round(q[1])]
           Def(g) == [i \in 0 .. k |-> IF i = 0 THEN <<>> ELSE The({Round(l) : l \in {g[i - 1]}})]
           G == CHOOSE g : g = Def(g)
<1>1. <<>> \in V /\ \A l \in V : Round(l) \in V
  <2>1. <<>> \in V
    BY DEF Piece, Consecutive
  <2> QED
    BY <2>1, LengthenedToType
<1>2. k \in Nat
  BY HeaderAssumption, LimitAssumption DEF Span, SmallerOf, Good, Peer
<1> HIDE DEF V, Round, k
<1>3. step \in [V \X (1 .. k) -> V]
  BY <1>1
<1>4. PICK f \in [0 .. k -> V] : Rounds(f, k, <<>>, step)
  <2> HIDE DEF step
  <2>1. HasRounds(V, k, <<>>, step)
    BY <1>1, <1>2, <1>3, RoundsExist
  <2> QED
    BY <2>1, Zenon DEF HasRounds
<1>5. \A x : The({Round(l) : l \in {x}}) = Round(x)
  BY Zenon DEF The
<1>6. \A i \in 0 .. k : f[i] = IF i = 0 THEN <<>> ELSE The({Round(l) : l \in {f[i - 1]}})
  <2> SUFFICES ASSUME NEW i \in 0 .. k, i # 0
               PROVE  f[i] = Round(f[i - 1])
    BY <1>4, <1>5 DEF Rounds
  <2>1. i \in 1 .. k /\ i - 1 \in 0 .. k
    BY <1>2
  <2>2. f[i - 1] \in V
    BY <2>1
  <2>3. step[<<f[i - 1], i>>] = Round(f[i - 1])
    BY <2>1, <2>2
  <2> QED
    BY <1>4, <2>1, <2>3 DEF Rounds
<1>7. f = Def(f)
  BY <1>6
<1>8. G = Def(G)
  <2> HIDE DEF Def
  <2> QED
    BY <1>7, Zenon
<1>9. GetChainFromHash(p, h) = G[k]
  BY Zenon DEF GetChainFromHash, Repeat, Round, k
<1> HIDE DEF G
<1>10. \A i \in 0 .. k : G[i] = IF i = 0 THEN <<>> ELSE Round(G[i - 1])
  BY <1>5, <1>8
<1> DEFINE S == {i \in Nat : G[i] \in V}
<1>11. \A i \in 0 .. k : i \in S
  <2>1. 0 \in S
    BY <1>1, <1>2, <1>10
  <2>2. \A i \in 1 .. k : i - 1 \in S => i \in S
    BY <1>1, <1>2, <1>10
  <2> HIDE DEF S
  <2> QED
    BY <1>2, <2>1, <2>2, PrefixInduction
<1> QED
  BY <1>2, <1>9, <1>11 DEF V

-----------------------------------------------------------------------------
(* What the handlers call keeps a node good.                               *)

SameChain(p, q) == q.known = p.known /\ q.head = p.head

(* Queueing a message leaves the chain alone.                              *)
LEMMA QueueMessageKeeps ==
  ASSUME NEW p \in Good, NEW msg \in Letter
  PROVE  QueueMessage(p, msg) \in Good /\ SameChain(p, QueueMessage(p, msg))
<1>1. p \in Peer /\ p.head \in p.known /\ Append(p.out, msg) \in Seq(Letter)
  BY DEF Good, Peer
<1>2. QueueMessage(p, msg) \in Peer
  BY <1>1 DEF QueueMessage, Peer
<1>3. SameChain(p, QueueMessage(p, msg))
  BY <1>1 DEF QueueMessage, SameChain, Peer
<1> QED
  BY <1>1, <1>2, <1>3 DEF Good, SameChain

(* The flags of a Peer and its blocksRequested leave its chain alone.      *)
LEMMA FlagsKeep ==
  ASSUME NEW p \in Good
  PROVE  /\ \A v \in BOOLEAN :
               /\ [p EXCEPT !.catchingUp = v] \in Good
               /\ SameChain(p, [p EXCEPT !.catchingUp = v])
               /\ [p EXCEPT !.diverted = v] \in Good
               /\ SameChain(p, [p EXCEPT !.diverted = v])
               /\ [p EXCEPT !.versionKnown = v] \in Good
               /\ SameChain(p, [p EXCEPT !.versionKnown = v])
               /\ [p EXCEPT !.up = v] \in Good
               /\ SameChain(p, [p EXCEPT !.up = v])
         /\ \A k \in 0 .. MaxRequested :
               /\ [p EXCEPT !.blocksRequested = k] \in Good
               /\ SameChain(p, [p EXCEPT !.blocksRequested = k])
BY DEF Good, Peer, SameChain

(* Asking for more blocks leaves the chain alone.                          *)
LEMMA CatchupKeeps ==
  ASSUME NEW p \in Good
  PROVE  CatchupWithPeer(p) \in Good /\ SameChain(p, CatchupWithPeer(p))
<1> DEFINE q == [p EXCEPT !.catchingUp = TRUE]
<1>1. q \in Good /\ SameChain(p, q)
  BY FlagsKeep
<1>2. GetChain(<<p.head>>) \in Letter
  BY DEF GetChain, Letter, Good, Peer
<1>3. QueueMessage(q, GetChain(<<p.head>>)) \in Good
      /\ SameChain(q, QueueMessage(q, GetChain(<<p.head>>)))
  <2> HIDE DEF q
  <2> QED
    BY <1>1, <1>2, QueueMessageKeeps
<1>4. SameChain(p, QueueMessage(q, GetChain(<<p.head>>)))
  <2> HIDE DEF q
  <2> QED
    BY <1>1, <1>3 DEF SameChain
<1> QED
  BY <1>3, <1>4 DEF CatchupWithPeer, SameChain

(* Asking for the last known blocks leaves the chain alone.                *)
LEMMA SyncKeeps ==
  ASSUME NEW p \in Good
  PROVE  SyncWithPeerToLastKnown(p) \in Good /\ SameChain(p, SyncWithPeerToLastKnown(p))
<1> DEFINE q == [p EXCEPT !.catchingUp = FALSE]
<1>1. q \in Good /\ SameChain(p, q)
  BY FlagsKeep
<1> HIDE DEF q
<1>2. CatchupWithPeer(q) \in Good /\ SameChain(q, CatchupWithPeer(q))
  BY <1>1, CatchupKeeps
<1> QED
  BY <1>1, <1>2 DEF SyncWithPeerToLastKnown, SameChain, q

(* Looking for a common ancestor leaves the chain alone.                   *)
LEMMA FindCommonKeeps ==
  ASSUME NEW p \in Good
  PROVE  FindCommonParentBlock(p) \in Good /\ SameChain(p, FindCommonParentBlock(p))
<1> DEFINE n == IF p.blocksRequested = 0 THEN RequestedZero ELSE p.blocksRequested
           q == [p EXCEPT !.catchingUp = TRUE, !.blocksRequested = n]
           hashes == Reverse(Ancestors(p, p.head, n))
<1>1. n \in 0 .. MaxRequested /\ n \in Nat
  BY LimitAssumption DEF Good, Peer
<1> HIDE DEF n
<1>2. q \in Good /\ SameChain(p, q)
  BY <1>1 DEF Good, Peer, SameChain
<1>3. hashes \in Seq(Block)
  <2> DEFINE list == Ancestors(p, p.head, n)
  <2>1. list \in Seq(Block)
    <3>1. list \in Seq(p.known) /\ p.known \in SUBSET Block
      BY <1>1, AncestorsType DEF Good, Peer
    <3> HIDE DEF list
    <3> QED
      BY <3>1
  <2> HIDE DEF list
  <2>2. Reverse(list) \in Seq(Block)
    BY <2>1 DEF Reverse
  <2> QED
    BY <2>2 DEF list
<1>4. GetChain(hashes) \in Letter
  <2> HIDE DEF hashes
  <2> QED
    BY <1>3 DEF GetChain, Letter
<1>5. /\ QueueMessage(q, GetChain(hashes)) \in Good
      /\ SameChain(q, QueueMessage(q, GetChain(hashes)))
  <2> HIDE DEF q, hashes
  <2> QED
    BY <1>2, <1>4, QueueMessageKeeps
<1>6. FindCommonParentBlock(p) = IF p.catchingUp THEN p ELSE QueueMessage(q, GetChain(hashes))
  BY Zenon DEF FindCommonParentBlock, n
<1> HIDE DEF q, hashes
<1> QED
  BY <1>2, <1>5, <1>6 DEF SameChain

(* Doubling the number of hashes asked for leaves the chain alone.         *)
LEMMA DoubledKeeps ==
  ASSUME NEW p \in Good
  PROVE  Doubled(p) \in Good /\ SameChain(p, Doubled(p))
<1>1. SmallerOf(2 * p.blocksRequested, MaxRequested) \in 0 .. MaxRequested
  BY LimitAssumption DEF SmallerOf, Good, Peer
<1> QED
  BY <1>1, FlagsKeep DEF Doubled

(* A node that processes a message stores what it stored before.           *)
LEMMA ProcessKeeps ==
  ASSUME NEW p \in Good, NEW b \in Block
  PROVE  /\ Process(p, b) \in Good
         /\ p.known \subseteq Process(p, b).known
         /\ Verdict(p, b) \in {"ok", "parent", "validation"}
<1> DEFINE q == [p EXCEPT !.known = @ \cup {b}, !.head = b]
<1>1. q \in Good /\ p.known \subseteq q.known
  BY DEF Good, Peer
<1>2. Blocks(<<b>>) \in Letter
  BY DEF Blocks, Letter, Consecutive
<1>3. QueueMessage(q, Blocks(<<b>>)) \in Good /\ SameChain(q, QueueMessage(q, Blocks(<<b>>)))
  <2> HIDE DEF q
  <2> QED
    BY <1>1, <1>2, QueueMessageKeeps
<1>4. Process(p, b) = p \/ Process(p, b) = QueueMessage(q, Blocks(<<b>>))
  BY DEF Process
<1> HIDE DEF q
<1> QED
  BY <1>1, <1>3, <1>4 DEF SameChain, Verdict

Processed(p) == [p : {q \in Good : p.known \subseteq q.known},
                 err : {"ok", "parent", "validation"}]

(* Processing a list loses no block, and the head stays a stored one.      *)
LEMMA ProcessAllType ==
  ASSUME NEW p \in Good, NEW chain \in Seq(Block)
  PROVE  ProcessAll(p, chain) \in Processed(p)
<1> DEFINE V == Processed(p)
           n == Len(chain) + 1
           Step(q, b) == IF q.err # "ok" THEN q
                         ELSE [p |-> Process(q.p, b), err |-> Verdict(q.p, b)]
           last == [p |-> p, err |-> "ok"]
           step == [x \in (1 .. n) \X V |-> IF x[1] = n THEN last ELSE Step(x[2], chain[x[1]])]
           Def(g) == [i \in 1 .. n |->
                         IF i = n THEN last ELSE The({Step(q, chain[i]) : q \in {g[i + 1]}})]
           G == CHOOSE g : g = Def(g)
<1>1. n \in Nat /\ 1 \in 1 .. n /\ \A i \in 1 .. n : i # n => chain[i] \in Block /\ i + 1 \in 1 .. n
  OBVIOUS
<1>2. last \in V
  BY DEF Processed
<1>3. ASSUME NEW q \in V, NEW b \in Block
      PROVE  Step(q, b) \in V
  <2>1. q.p \in Good /\ p.known \subseteq q.p.known
    BY DEF Processed
  <2>2. /\ Process(q.p, b) \in Good /\ p.known \subseteq Process(q.p, b).known
        /\ Verdict(q.p, b) \in {"ok", "parent", "validation"}
    BY <2>1, ProcessKeeps
  <2> QED
    BY <2>2 DEF Processed
<1> HIDE DEF V, Step, last, n
<1>4. step \in [(1 .. n) \X V -> V]
  BY <1>1, <1>2, <1>3
<1>5. PICK f \in [1 .. n -> V] : FromLast(f, n, last, step)
  <2> HIDE DEF step
  <2>1. HasFromLast(V, n, last, step)
    BY <1>1, <1>2, <1>4, FromLastExists
  <2> QED
    BY <2>1, Zenon DEF HasFromLast
<1>6. \A x, b : The({Step(q, b) : q \in {x}}) = Step(x, b)
  BY Zenon DEF The
<1>7. ASSUME NEW i \in 1 .. n
      PROVE  f[i] = IF i = n THEN last ELSE The({Step(q, chain[i]) : q \in {f[i + 1]}})
  <2>1. CASE i = n
    BY <1>5, <2>1 DEF FromLast
  <2>2. CASE i # n
    <3>1. f[i + 1] \in V
      BY <1>1, <2>2
    <3>2. step[<<i, f[i + 1]>>] = Step(f[i + 1], chain[i])
      BY <2>2, <3>1
    <3>3. f[i] = Step(f[i + 1], chain[i])
      BY <1>5, <2>2, <3>2 DEF FromLast
    <3>4. The({Step(q, chain[i]) : q \in {f[i + 1]}}) = Step(f[i + 1], chain[i])
      BY <1>6, Zenon
    <3> QED
      BY <2>2, <3>3, <3>4, Zenon
  <2> QED
    BY <2>1, <2>2
<1>8. f = Def(f)
  BY <1>7
<1>9. G = Def(G)
  <2> HIDE DEF Def
  <2> QED
    BY <1>8, Zenon
<1>10. ProcessAll(p, chain) = G[1]
  BY Zenon DEF ProcessAll, Step, last, n
<1> HIDE DEF G
<1>11. \A i \in 1 .. n : G[i] = IF i = n THEN last ELSE Step(G[i + 1], chain[i])
  BY <1>6, <1>9
<1> DEFINE S == {i \in Nat : G[i] \in V}
<1>12. \A i \in 1 .. n : i \in S
  <2>1. n \in S
    BY <1>1, <1>2, <1>11
  <2>2. \A i \in 1 .. n - 1 : i + 1 \in S => i \in S
    <3> SUFFICES ASSUME NEW i \in 1 .. n - 1, i + 1 \in S
                 PROVE  i \in S
      OBVIOUS
    <3>1. i \in Nat /\ i \in 1 .. n /\ i # n
      BY <1>1
    <3>2. G[i + 1] \in V /\ chain[i] \in Block
      BY <1>1, <3>1
    <3> QED
      BY <1>3, <1>11, <3>1, <3>2
  <2> HIDE DEF S
  <2> QED
    BY <1>1, <2>1, <2>2, FromLastInduction
<1> QED
  BY <1>1, <1>10, <1>12 DEF V

(* Processing blocks loses none.                                           *)
LEMMA ProcessBlocksKeeps ==
  ASSUME NEW p \in Good, NEW chain \in Seq(Block)
  PROVE  ProcessBlocks(p, chain) \in Good /\ p.known \subseteq ProcessBlocks(p, chain).known
<1> DEFINE r == ProcessAll(p, chain)
           q == r.p
<1>1. q \in Good /\ p.known \subseteq q.known /\ r.err \in {"ok", "parent", "validation"}
  BY ProcessAllType DEF Processed
<1>2. ProcessBlocks(p, chain) = Continue(q, r.err, chain)
  BY Zenon DEF ProcessBlocks, The
<1> HIDE DEF q
<1>3. \/ Continue(q, r.err, chain) = q
      \/ Continue(q, r.err, chain) = SyncWithPeerToLastKnown(q)
      \/ Continue(q, r.err, chain) = [q EXCEPT !.catchingUp = FALSE]
  BY <1>1 DEF Continue
<1>4. SyncWithPeerToLastKnown(q) \in Good /\ SameChain(q, SyncWithPeerToLastKnown(q))
  BY <1>1, SyncKeeps
<1>5. [q EXCEPT !.catchingUp = FALSE] \in Good /\ SameChain(q, [q EXCEPT !.catchingUp = FALSE])
  BY <1>1, FlagsKeep
<1> QED
  BY <1>1, <1>2, <1>3, <1>4, <1>5 DEF SameChain

(* Looking deeper for the common ancestor loses no block.                  *)
LEMMA DeeperKeeps ==
  ASSUME NEW p \in Good, NEW chain \in Seq(Block)
  PROVE  Deeper(p, chain) \in Good /\ p.known \subseteq Deeper(p, chain).known
<1> DEFINE q == [Doubled(p) EXCEPT !.catchingUp = FALSE]
<1>1. Doubled(p) \in Good /\ SameChain(p, Doubled(p))
  BY DoubledKeeps
<1>2. q \in Good /\ SameChain(Doubled(p), q)
  BY <1>1, FlagsKeep
<1> HIDE DEF q
<1>3. FindCommonParentBlock(q) \in Good /\ SameChain(q, FindCommonParentBlock(q))
  BY <1>2, FindCommonKeeps
<1>4. ProcessBlocks(p, chain) \in Good /\ p.known \subseteq ProcessBlocks(p, chain).known
  BY ProcessBlocksKeeps
<1> QED
  BY <1>1, <1>2, <1>3, <1>4 DEF Deeper, SameChain, q

(* A NotInChain message leaves the chain alone.                            *)
LEMMA NotInChainKeeps ==
  ASSUME NEW p \in Good
  PROVE  handleNotInChain(p) \in Good /\ SameChain(p, handleNotInChain(p))
<1> DEFINE d == IF p.diverted THEN Doubled(p) ELSE p
           q == [d EXCEPT !.diverted = TRUE, !.catchingUp = FALSE]
<1>1. d \in Good /\ SameChain(p, d)
  BY DoubledKeeps DEF SameChain
<1> HIDE DEF d
<1>2. q \in Good /\ SameChain(d, q)
  BY <1>1 DEF Good, Peer, SameChain
<1> HIDE DEF q
<1>3. FindCommonParentBlock(q) \in Good /\ SameChain(q, FindCommonParentBlock(q))
  BY <1>2, FindCommonKeeps
<1> QED
  BY <1>1, <1>2, <1>3, Zenon DEF handleNotInChain, SameChain, q, d

(* Answering a GetChain message leaves the chain alone.                    *)
LEMMA GetChainKeeps ==
  ASSUME NEW p \in Good, NEW hashes \in Seq(Block)
  PROVE  handleGetChain(p, hashes) \in Good /\ SameChain(p, handleGetChain(p, hashes))
<1> DEFINE ours == {i \in DOMAIN hashes : HasBlock(p, hashes[i])}
           c == GetChainFromHash(p, hashes[Min(ours)])
<1>1. ASSUME ours # {}
      PROVE  hashes[Min(ours)] \in Block
  <2>1. ours \in SUBSET Nat /\ \A i \in ours : hashes[i] \in Block
    OBVIOUS
  <2> HIDE DEF ours
  <2>2. \E i \in ours : \A j \in ours : i <= j
    BY <1>1, <2>1, LeastNatural
  <2>3. Min(ours) \in ours
    BY <2>2 DEF Min
  <2> QED
    BY <2>1, <2>3
<1>2. NotInChain \in Letter
  BY DEF NotInChain, Letter
<1>3. QueueMessage(p, NotInChain) \in Good /\ SameChain(p, QueueMessage(p, NotInChain))
  BY <1>2, QueueMessageKeeps
<1>4. ASSUME ours # {}
      PROVE  Reply(p, c) \in Good /\ SameChain(p, Reply(p, c))
  <2>1. c \in Piece(p) /\ p.known \in SUBSET Block
    BY <1>1, <1>4, GetChainFromHashType DEF Good, Peer
  <2> HIDE DEF c, ours
  <2>2. CASE NoBlock \in Range(c)
    BY <2>2, FlagsKeep DEF Reply, Panic
  <2>3. CASE NoBlock \notin Range(c)
    <3>1. c \in Seq(Block) /\ Consecutive(c)
      BY <2>1, <2>3 DEF Piece, Range
    <3>2. Blocks(c) \in Letter
      BY <3>1 DEF Blocks, Letter
    <3> QED
      BY <2>3, <3>2, QueueMessageKeeps DEF Reply
  <2> QED
    BY <2>2, <2>3
<1>5. handleGetChain(p, hashes) =
         IF hashes = <<>> THEN p
         ELSE IF ours = {} THEN QueueMessage(p, NotInChain) ELSE Reply(p, c)
  BY Zenon DEF handleGetChain, The
<1>6. SameChain(p, p)
  BY DEF SameChain
<1> HIDE DEF ours, c
<1> QED
  BY <1>3, <1>4, <1>5, <1>6

-----------------------------------------------------------------------------
(* The handlers: a node loses blocks only to a message with a heavier one. *)

Heavier(p, chain) == \E b \in Range(chain) : ChainTD[b] > ChainTD[p.head]

(* Weighing the branch received against the own one loses blocks only     *)
(* where the branch is heavier.                                            *)
LEMMA WeighKeeps ==
  ASSUME NEW p \in Good, NEW chain \in Seq(Block), Consecutive(chain),
         NEW i \in Splits(p, chain)
  PROVE  /\ Weigh(p, chain, PrevHash[chain[i]]) \in Good
         /\ \/ p.known \subseteq Weigh(p, chain, PrevHash[chain[i]]).known
            \/ Heavier(p, chain)
<1> DEFINE common == PrevHash[chain[i]]
           q == ResetTillBlockHash(p, common)
<1>1. CASE ~Beats(p, chain, common)
  BY <1>1 DEF Weigh
<1>2. CASE ~HasBlock(p, common)
  <2>1. Panic(p) \in Good /\ SameChain(p, Panic(p))
    BY FlagsKeep DEF Panic
  <2> HIDE DEF common
  <2> QED
    BY <1>2, <2>1 DEF Weigh, SameChain, common
<1>3. CASE Beats(p, chain, common) /\ HasBlock(p, common)
  <2>1. common # p.head /\ Heavier(p, chain)
    BY <1>3, BeatsHeavier DEF HasBlock, Heavier
  <2> HIDE DEF common
  <2>2. q \in Good
    BY <1>3, <2>1 DEF ResetTillBlockHash, HasBlock, Good, Peer
  <2> HIDE DEF q
  <2>3. SyncWithPeerToLastKnown(q) \in Good
    BY <2>2, SyncKeeps
  <2> QED
    BY <1>3, <2>1, <2>3, Zenon DEF Weigh, common, q
<1> QED
  BY <1>1, <1>2, <1>3

(* Looking for the place where a list parts loses blocks only if the list  *)
(* holds a heavier one.                                                    *)
LEMMA DivertKeeps ==
  ASSUME NEW p \in Good, NEW chain \in Seq(Block), Consecutive(chain)
  PROVE  /\ Divert(p, chain) \in Good
         /\ p.known \subseteq Divert(p, chain).known \/ Heavier(p, chain)
<1> DEFINE q == [p EXCEPT !.diverted = FALSE]
           i == Max(Splits(p, chain))
           common == PrevHash[chain[i]]
<1>1. q \in Good /\ SameChain(p, q)
  BY FlagsKeep
<1>2. Splits(q, chain) = Splits(p, chain)
  <2> HIDE DEF q
  <2>1. CurrentChain(q) = CurrentChain(p)
    BY <1>1 DEF CurrentChain, SameChain
  <2> QED
    BY <1>1, <2>1 DEF Splits, HasBlock, HasBlockWithPrevHash, SameChain
<1>3. CASE Splits(p, chain) = {}
  BY <1>3 DEF Divert
<1>4. CASE Splits(p, chain) # {}
  <2>1. Splits(p, chain) \in SUBSET (1 .. Len(chain)) /\ Len(chain) \in Nat
    BY DEF Splits
  <2>2. i \in Splits(q, chain)
    <3> DEFINE T == Splits(p, chain)
               n == Len(chain)
    <3> HIDE DEF T, n
    <3>1. Max(T) \in T
      BY <1>4, <2>1, MaxProperties DEF T, n
    <3> QED
      BY <1>2, <3>1 DEF T
  <2> HIDE DEF q, i
  <2>3. /\ Weigh(q, chain, common) \in Good
        /\ q.known \subseteq Weigh(q, chain, common).known \/ Heavier(q, chain)
    BY <1>1, <2>2, WeighKeeps
  <2>4. Divert(p, chain) = Weigh(q, chain, common)
    BY <1>4, Zenon DEF Divert, The, q, i
  <2> QED
    BY <1>1, <2>3, <2>4 DEF SameChain, Heavier
<1> QED
  BY <1>3, <1>4

(* So does any list of blocks.                                             *)
LEMMA BlocksKeep ==
  ASSUME NEW p \in Good, NEW chain \in Seq(Block), Consecutive(chain)
  PROVE  /\ handleBlocks(p, chain) \in Good
         /\ p.known \subseteq handleBlocks(p, chain).known \/ Heavier(p, chain)
<1> DEFINE q == Divert(p, chain)
<1>1. q \in Good /\ (p.known \subseteq q.known \/ Heavier(p, chain))
  BY DivertKeeps
<1> HIDE DEF q
<1>2. Deeper(q, chain) \in Good /\ q.known \subseteq Deeper(q, chain).known
  BY <1>1, DeeperKeeps
<1>3. ProcessBlocks(p, chain) \in Good /\ p.known \subseteq ProcessBlocks(p, chain).known
  BY ProcessBlocksKeeps
<1>4. \/ handleBlocks(p, chain) = Deeper(q, chain)
      \/ handleBlocks(p, chain) = ProcessBlocks(p, chain)
  BY Zenon DEF handleBlocks, The, q
<1> QED
  BY <1>1, <1>2, <1>3, <1>4

(* Only a list of blocks with a heavier one makes a node lose blocks.      *)
LEMMA HandledKeeps ==
  ASSUME NEW p \in Good, NEW msg \in Letter
  PROVE  /\ Handled(p, msg) \in Good
         /\ p.known \subseteq Handled(p, msg).known \/ Heavier(p, msg.blocks)
<1>1. /\ msg.type \in {"handshake", "block", "getChain", "notInChain"}
      /\ msg.blocks \in Seq(Block)
      /\ msg.type = "block" => Consecutive(msg.blocks)
  BY DEF Letter
<1>2. CASE msg.type = "handshake"
  <2> DEFINE q == [p EXCEPT !.versionKnown = TRUE]
  <2>1. q \in Good /\ SameChain(p, q)
    BY FlagsKeep
  <2> HIDE DEF q
  <2>2. SyncWithPeerToLastKnown(q) \in Good /\ SameChain(q, SyncWithPeerToLastKnown(q))
    BY <2>1, SyncKeeps
  <2>3. Handled(p, msg) = SyncWithPeerToLastKnown(q)
    BY <1>2 DEF Handled, handleHandshake, q
  <2> QED
    BY <2>1, <2>2, <2>3 DEF SameChain
<1>3. CASE msg.type = "block"
  BY <1>1, <1>3, BlocksKeep DEF Handled
<1>4. CASE msg.type = "getChain"
  BY <1>1, <1>4, GetChainKeeps DEF Handled, SameChain
<1>5. CASE msg.type = "notInChain"
  BY <1>5, NotInChainKeeps DEF Handled, SameChain
<1> QED
  BY <1>1, <1>2, <1>3, <1>4, <1>5

-----------------------------------------------------------------------------
(* A connection begins with a good node and a handshake.                   *)
LEMMA NewPeerGood ==
  ASSUME NEW n \in Node, NEW chain, chain.known \in SUBSET Block, chain.head \in chain.known
  PROVE  NewPeer(n, chain) \in Good
<1>1. (IF n = Dialer THEN 0 ELSE Requested) \in 0 .. MaxRequested
  BY LimitAssumption
<1>2. <<>> \in Seq(Letter) /\ chain.head \in Block
  OBVIOUS
<1>3. NewPeer(n, chain) \in Peer
  BY <1>1, <1>2 DEF NewPeer, Peer
<1> QED
  BY <1>3 DEF Good, NewPeer

(* What is under way at first are letters.                                 *)
LEMMA HandshakeSent == [n \in Node |-> <<Handshake>>] \in [Node -> Seq(Letter)]
<1>1. Handshake \in Letter
  BY DEF Handshake, Letter
<1> QED
  BY <1>1

(* Handing the queued messages to the connection leaves the chain alone.   *)
LEMMA Sent ==
  ASSUME NEW p \in Good
  PROVE  [p EXCEPT !.out = <<>>] \in Good /\ SameChain(p, [p EXCEPT !.out = <<>>])
<1>1. \A none \in Seq(Letter) : /\ [p EXCEPT !.out = none] \in Good
                                /\ SameChain(p, [p EXCEPT !.out = none])
  BY DEF Good, Peer, SameChain
<1>2. <<>> \in Seq(Letter)
  OBVIOUS
<1> QED
  BY <1>1, <1>2

(* The invariant holds of the nodes as they connect.                       *)
LEMMA InitInvariant == Init => IInv
<1> SUFFICES ASSUME Init
             PROVE  IInv
  OBVIOUS
<1>1. PICK s \in Start : node = [n \in Node |-> NewPeer(n, s[n])]
  BY DEF Init
<1>2. ASSUME NEW n \in Node
      PROVE  NewPeer(n, s[n]) \in Good
  <2>1. s[n].known \in SUBSET Block /\ s[n].head \in s[n].known
    BY StartAssumption
  <2> QED
    BY <2>1, NewPeerGood
<1>3. node \in [Node -> Good]
  BY <1>1, <1>2
<1> QED
  BY <1>3, HandshakeSent, LimitAssumption DEF Init, IInv

(* What a node sends is added to the messages for the other.               *)
LEMMA HandleInboundInvariant ==
  ASSUME IInv, NEW n \in Node, HandleInbound(n)
  PROVE  IInv' /\ (node[n].known \subseteq node'[n].known
                      \/ Heavier(node[n], Head(net[n]).blocks))
<1> DEFINE msg == Head(net[n])
           p == Handled(node[n], msg)
<1>1. /\ node \in [Node -> Good] /\ net \in [Node -> Seq(Letter)] /\ net[n] # <<>>
      /\ node' = [node EXCEPT ![n] = [p EXCEPT !.out = <<>>]]
      /\ net' = [m \in Node |-> IF m = n THEN Tail(net[n]) ELSE net[m] \o p.out]
      /\ faults' = faults
  BY DEF HandleInbound, IInv
<1>2. node[n] \in Good /\ net[n] \in Seq(Letter) /\ msg \in Letter
      /\ Tail(net[n]) \in Seq(Letter)
  <2>1. net[n] \in Seq(Letter) /\ net[n] # <<>> /\ node[n] \in Good
    BY <1>1
  <2> QED
    BY <2>1
<1>3. p \in Good /\ (node[n].known \subseteq p.known \/ Heavier(node[n], msg.blocks))
  <2> HIDE DEF msg
  <2> QED
    BY <1>2, HandledKeeps
<1> HIDE DEF p, msg
<1>4. [p EXCEPT !.out = <<>>] \in Good /\ SameChain(p, [p EXCEPT !.out = <<>>])
  BY <1>3, Sent
<1>5. node' \in [Node -> Good] /\ node'[n] = [p EXCEPT !.out = <<>>]
  BY <1>1, <1>4
<1>6. net' \in [Node -> Seq(Letter)]
  <2>1. p.out \in Seq(Letter)
    BY <1>3 DEF Good, Peer
  <2>2. \A m \in Node : net[m] \o p.out \in Seq(Letter)
    BY <1>1, <2>1
  <2> QED
    BY <1>1, <1>2, <2>2
<1>7. IInv'
  BY <1>1, <1>5, <1>6 DEF IInv
<1>8. node'[n].known = p.known
  BY <1>4, <1>5 DEF SameChain
<1> QED
  BY <1>3, <1>7, <1>8 DEF msg

(* A block found is stored, and announced alone.                           *)
LEMMA MineInvariant ==
  ASSUME IInv, NEW n \in Node, NEW b \in Fresh, Mine(n, b)
  PROVE  IInv' /\ node[n].known \subseteq node'[n].known
<1> DEFINE p == Process(node[n], b)
<1>1. /\ node \in [Node -> Good] /\ net \in [Node -> Seq(Letter)]
      /\ node' = [node EXCEPT ![n] = [p EXCEPT !.out = <<>>]]
      /\ \/ net' = [m \in Node |-> IF m = n THEN net[n] ELSE net[m] \o p.out]
         \/ net' = net
      /\ faults' = faults
  BY DEF Mine, IInv
<1>2. p \in Good /\ node[n].known \subseteq p.known
  <2>1. node[n] \in Good /\ b \in Block
    BY <1>1, LimitAssumption
  <2> QED
    BY <2>1, ProcessKeeps
<1> HIDE DEF p
<1>3. [p EXCEPT !.out = <<>>] \in Good /\ SameChain(p, [p EXCEPT !.out = <<>>])
  BY <1>2, Sent
<1>4. node' \in [Node -> Good] /\ node'[n] = [p EXCEPT !.out = <<>>]
  BY <1>1, <1>3
<1>5. net' \in [Node -> Seq(Letter)]
  <2>1. p.out \in Seq(Letter)
    BY <1>2 DEF Good, Peer
  <2>2. \A m \in Node : net[m] \o p.out \in Seq(Letter)
    BY <1>1, <2>1
  <2> QED
    BY <1>1, <2>2
<1> QED
  BY <1>1, <1>2, <1>3, <1>4, <1>5 DEF IInv, SameChain

(* Losing the connection loses messages only.                              *)
LEMMA LoseInvariant ==
  ASSUME IInv, NEW n \in Node, Lose(n)
  PROVE  IInv' /\ UNCHANGED node
<1>1. node' = node /\ faults' = faults + 1 /\ faults < MaxFaults
  BY DEF Lose
<1>2. PICK k \in DOMAIN net[n] : net' = [net EXCEPT ![n] = SubSeq(@, k + 1, Len(@))]
  BY DEF Lose
<1>3. net \in [Node -> Seq(Letter)] /\ net[n] \in Seq(Letter)
  BY DEF IInv
<1>4. SubSeq(net[n], k + 1, Len(net[n])) \in Seq(Letter)
  BY <1>3
<1>5. net' \in [Node -> Seq(Letter)]
  BY <1>2, <1>3, <1>4
<1>6. faults' \in 0 .. MaxFaults
  BY <1>1, LimitAssumption DEF IInv
<1> QED
  BY <1>1, <1>5, <1>6 DEF IInv

(* Connecting again starts the conversation afresh and keeps the chains.   *)
LEMMA ReconnectInvariant ==
  ASSUME IInv, Reconnect
  PROVE  IInv' /\ \A n \in Node : node[n].known = node'[n].known
<1>1. /\ node' = [n \in Node |-> NewPeer(n, node[n])]
      /\ net' = [n \in Node |-> <<Handshake>>]
      /\ faults' = faults + 1 /\ faults < MaxFaults
  BY DEF Reconnect
<1>2. ASSUME NEW n \in Node
      PROVE  NewPeer(n, node[n]) \in Good /\ NewPeer(n, node[n]).known = node[n].known
  <2>1. node[n].known \in SUBSET Block /\ node[n].head \in node[n].known
    BY DEF IInv, Good, Peer
  <2> QED
    BY <2>1, NewPeerGood DEF NewPeer
<1>3. node' \in [Node -> Good] /\ \A n \in Node : node'[n].known = node[n].known
  BY <1>1, <1>2
<1>4. faults' \in 0 .. MaxFaults
  BY <1>1, LimitAssumption DEF IInv
<1>5. net' \in [Node -> Seq(Letter)]
  BY <1>1, HandshakeSent
<1> QED
  BY <1>3, <1>4, <1>5 DEF IInv

(* Every step keeps the invariant, and none takes the current block from a *)
(* node without the message that justifies it.                             *)
LEMMA StepInvariant ==
  ASSUME IInv, [Next]_vars
  PROVE  /\ IInv'
         /\ \A n \in Node : node[n].head \notin node'[n].known =>
               \E b \in Range(Head(net[n]).blocks) : ChainTD[b] > ChainTD[node[n].head]
<1>1. \A n \in Node : node[n].head \in node[n].known
  BY DEF IInv, Good
<1>2. CASE Reconnect
  BY <1>1, <1>2, ReconnectInvariant
<1>3. ASSUME NEW n \in Node, HandleInbound(n)
      PROVE  /\ IInv'
             /\ \A m \in Node : node[m].head \notin node'[m].known =>
                   \E b \in Range(Head(net[m]).blocks) : ChainTD[b] > ChainTD[node[m].head]
  <2>1. /\ IInv'
        /\ \/ node[n].known \subseteq node'[n].known
           \/ Heavier(node[n], Head(net[n]).blocks)
    BY <1>3, HandleInboundInvariant
  <2>2. \A m \in Node : m # n => node'[m] = node[m]
    BY <1>3 DEF HandleInbound, IInv
  <2> QED
    BY <1>1, <2>1, <2>2 DEF Heavier
<1>4. ASSUME NEW n \in Node, Lose(n)
      PROVE  IInv' /\ UNCHANGED node
  BY <1>4, LoseInvariant
<1>5. ASSUME NEW n \in Node, NEW b \in Fresh, Mine(n, b)
      PROVE  IInv' /\ \A m \in Node : node[m].head \in node'[m].known
  <2>1. IInv' /\ node[n].known \subseteq node'[n].known
    BY <1>5, MineInvariant
  <2>2. \A m \in Node : m # n => node'[m] = node[m]
    BY <1>5 DEF Mine, IInv
  <2> QED
    BY <1>1, <2>1, <2>2
<1>6. CASE UNCHANGED vars
  BY <1>1, <1>6 DEF vars, IInv
<1> QED
  BY <1>1, <1>2, <1>3, <1>4, <1>5, <1>6 DEF Next

(* What the invariant says of a state is what TypeOK asks of it.           *)
LEMMA InvariantImpliesTypeOK == IInv => TypeOK
<1> SUFFICES ASSUME IInv
             PROVE  TypeOK
  OBVIOUS
<1>1. ASSUME NEW n \in Node
      PROVE  /\ node[n].known \subseteq Block
             /\ node[n].head \in node[n].known
             /\ {node[n].up, node[n].versionKnown, node[n].catchingUp, node[n].diverted}
                   \subseteq BOOLEAN
             /\ node[n].blocksRequested \in 0 .. MaxRequested
  BY DEF IInv, Good, Peer
<1>2. ASSUME NEW n \in Node, NEW i \in DOMAIN net[n]
      PROVE  MessageOK(net[n][i])
  <2>1. net[n] \in Seq(Letter)
    BY DEF IInv
  <2>2. net[n][i] \in Letter
    BY <2>1
  <2> QED
    BY <2>2 DEF Letter, MessageOK
<1> QED
  BY <1>1, <1>2 DEF TypeOK, IInv

(* The invariant holds in every state.                                     *)
LEMMA SpecInvariant == Spec => []IInv
<1>1. IInv /\ [Next]_vars => IInv'
  BY StepInvariant
<1> QED
  BY InitInvariant, <1>1, PTL DEF Spec

(* Whatever is reset, lost and sent in whatever order, the head of a node  *)
(* is one of the blocks it stores.                                         *)
THEOREM TypeCorrect == Spec => []TypeOK
BY SpecInvariant, InvariantImpliesTypeOK, PTL

(* Whatever the chains, the messages and the limits, ResetTillBlockHash    *)
(* deletes a node's current block only for a message that holds a block of *)
(* more total difficulty: FindCanonicalChain, which leaves a block out on  *)
(* the side of the message, can only err in favour of our own chain.       *)
THEOREM ResetsForHeavier == Spec => ResetOnlyForHeavier
<1>1. IInv /\ [Next]_vars =>
         [\A n \in Node : node[n].head \notin node'[n].known =>
             \E b \in Range(Head(net[n]).blocks) : ChainTD[b] > ChainTD[node[n].head]]_vars
  BY StepInvariant
<1> QED
  BY SpecInvariant, <1>1, PTL DEF Spec, ResetOnlyForHeavier
=============================================================================
