---------------------------- MODULE BlockHeaders ----------------------------
(***************************************************************************)
(* The blocks that exist in the network and the header fields the chain    *)
(* reads (ethchain/block.go, type Block).  A block is identified with its  *)
(* hash, so a block and the key it is stored under are the same value.     *)
(* The header fields are functions of the block: nothing in the code       *)
(* checks Number or Difficulty against the parent, so neither is tied to   *)
(* the other fields here.                                                  *)
(***************************************************************************)
EXTENDS Naturals, FiniteSets, FiniteSetsExt

CONSTANTS
    Block,        \* every block any peer or the miner may hand to this node
    NoBlock,      \* a nil *Block, an absent key, the zero hash
    Genesis,      \* the genesis block with its test net funds
    PrevHash,     \* block.PrevHash
    Number,       \* block.Number
    Difficulty,   \* block.Difficulty
    Time,         \* block.Time, in quarters of an hour
    Uncles,       \* block.Uncles
    Forged        \* blocks whose nonce or whose state root does not verify

(***************************************************************************)
(* The genesis block's PrevHash is the zero hash, which is no block's.  A  *)
(* difficulty is positive: EasyPow.Verify divides by it.                   *)
(***************************************************************************)
ASSUME HeaderAssumption ==
    /\ NoBlock \notin Block
    /\ Genesis \in Block
    /\ PrevHash \in [Block -> Block \cup {NoBlock}]
    /\ PrevHash[Genesis] = NoBlock
    /\ \A b \in Block \ {Genesis} : PrevHash[b] \in Block
    /\ Number \in [Block -> Nat]
    /\ Difficulty \in [Block -> Nat \ {0}]
    /\ Time \in [Block -> Nat]
    /\ Uncles \in [Block -> SUBSET Block]
    /\ \A b \in Block : IsFiniteSet(Uncles[b])
    /\ Forged \subseteq Block \ {Genesis}

BlockOrNone == Block \cup {NoBlock}

(* The difficulty a block adds to a chain: its own and that of its uncles. *)
CalculateBlockTD(b) ==
    Difficulty[b] + MapThenSumSet(LAMBDA u : Difficulty[u], Uncles[b])

(***************************************************************************)
(* ValidateBlock.  FutureLimit is int64(15*time.Minute), a number of       *)
(* nanoseconds, compared with a difference of block times, a number of     *)
(* seconds: 9 * 10^11 seconds are 10^9 quarters of an hour.                *)
(***************************************************************************)
FutureLimit == 1000000000

MismatchedUncle(b) ==
    \E u \in Uncles[b] : PrevHash[u] # PrevHash[PrevHash[b]]

ValidateBlock(b, current) ==
    /\ ~MismatchedUncle(b)
    /\ Time[b] >= Time[current]
    /\ Time[b] - Time[current] <= FutureLimit
    /\ b \notin Forged
=============================================================================
