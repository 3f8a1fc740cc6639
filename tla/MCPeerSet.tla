----------------------------- MODULE MCPeerSet -----------------------------
(* One peer is connected, one more may be accepted and one may be dialled, *)
(* where there is room for one.                                            *)
EXTENDS PeerSet, TLC

CONSTANTS p1, p2, p3, h1, h2

MCEstablished == <<p1>>
MCHost == p1 :> h1 @@ p2 :> h2 @@ p3 :> h2
=============================================================================
