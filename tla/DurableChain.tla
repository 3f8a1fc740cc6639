---------------------------- MODULE DurableChain ----------------------------
(***************************************************************************)
(* What the block database promises to a node that restarts from it, as    *)
(* long as the chain is not reset: a tree of blocks that only grows, at    *)
(* its leaves or from the genesis block, and a head that is one of them.   *)
(* There is no crash here: a crash leaves the database as it is.           *)
(***************************************************************************)
EXTENDS BlockHeaders

VARIABLES chain, head

TypeOK == chain \subseteq Block /\ head \in BlockOrNone

Init == chain = {} /\ head = NoBlock

(* A block joins when its parent is there, and before it can be the head.  *)
Grow(b) ==
    /\ b \notin chain
    /\ b = Genesis \/ PrevHash[b] \in chain
    /\ chain' = chain \cup {b}
    /\ UNCHANGED head

(* The head moves to another block of the tree, never back to none.        *)
Advance(b) ==
    /\ b \in chain
    /\ b # head
    /\ head' = b
    /\ UNCHANGED chain

Next == \E b \in Block : Grow(b) \/ Advance(b)

Spec == Init /\ [][Next]_<<chain, head>>
=============================================================================
