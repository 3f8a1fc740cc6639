----------------------------- MODULE MCPeerSync -----------------------------
(***************************************************************************)
(* Two chains that part after block c, three blocks each; three b blocks   *)
(* outweigh three a blocks and two b blocks weigh as much.                 *)
(***************************************************************************)
EXTENDS PeerSync

CONSTANTS g, c, a1, a2, a3, a4, b1, b2, b3, n1, n2

MCBlock      == {g, c, a1, a2, a3, a4, b1, b2, b3}
MCPrevHash   == c :> g @@ a1 :> c @@ a2 :> a1 @@ a3 :> a2 @@ a4 :> a3
                       @@ b1 :> c @@ b2 :> b1 @@ b3 :> b2 @@ g :> NoBlock
MCNumber     == g :> 0 @@ c :> 1 @@ a1 :> 2 @@ a2 :> 3 @@ a3 :> 4 @@ a4 :> 5
                       @@ b1 :> 2 @@ b2 :> 3 @@ b3 :> 4
MCDifficulty == [b \in MCBlock |-> IF b = b2 THEN 4 ELSE IF b = b3 THEN 6 ELSE 2]
MCTime       == MCNumber
MCUncles     == [b \in MCBlock |-> {}]

(* One node ahead of the other; the two forks, either way round; a tie;    *)
(* a node that still stores the block the other one stands on.             *)
Holds(known, head) == [known |-> known, head |-> head]
Nodes(s1, s2)      == n1 :> s1 @@ n2 :> s2

AChain == Holds({g, c, a1, a2, a3}, a3)
BChain == Holds({g, c, b1, b2, b3}, b3)

MCStart ==
    {Nodes(AChain, Holds({g}, g)), Nodes(Holds({g, c}, c), AChain),
     Nodes(AChain, BChain), Nodes(BChain, AChain),
     Nodes(AChain, Holds({g, c, b1, b2}, b2)),
     Nodes(Holds({g, c, a1}, a1), Holds({g, c, a1, b1, b2}, b2))}
=============================================================================
