---------------------------- MODULE MCBlockChain ----------------------------
(***************************************************************************)
(* Two chains that part at the genesis block: a1, a2 and the heavier b1,   *)
(* b2, b3.  b2 counts a1 as its uncle.  b1 carries the time stamp of a2,   *)
(* so a1 comes too late once b1 is current.                                *)
(***************************************************************************)
EXTENDS BlockChain, TLC

CONSTANTS g, a1, a2, b1, b2, b3

MCBlock      == {g, a1, a2, b1, b2, b3}
MCPrevHash   == a1 :> g @@ a2 :> a1 @@ b1 :> g @@ b2 :> b1 @@ b3 :> b2 @@ g :> NoBlock
MCNumber     == g :> 0 @@ a1 :> 1 @@ a2 :> 2 @@ b1 :> 1 @@ b2 :> 2 @@ b3 :> 3
MCDifficulty == g :> 1 @@ a1 :> 1 @@ a2 :> 1 @@ b1 :> 2 @@ b2 :> 2 @@ b3 :> 2
MCTime       == g :> 0 @@ a1 :> 1 @@ a2 :> 2 @@ b1 :> 2 @@ b2 :> 3 @@ b3 :> 4
MCUncles     == [b \in MCBlock |-> IF b = b2 THEN {a1} ELSE {}]
MCReply      == {<<b3, b2, b1>>, <<b2, b1>>}

WorkerSymmetry == Permutations(Worker)
=============================================================================
