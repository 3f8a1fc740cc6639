------------------------------ MODULE MCTxPool ------------------------------
(***************************************************************************)
(* Two transactions of one sender, with nonces 1 and 2.  A block may raise *)
(* the sender's nonce to 1, and may leave it without the funds for t2.     *)
(***************************************************************************)
EXTENDS TxPool, TLC

CONSTANTS t1, t2, alice

MCHash   == t1 :> 1 @@ t2 :> 2
MCSender == t1 :> alice @@ t2 :> alice
MCNonce  == t1 :> 1 @@ t2 :> 2
MCValue  == t1 :> 1 @@ t2 :> 2
MCState(n, a) == [nonce |-> alice :> n, amount |-> alice :> a]
MCChainState  == {MCState(0, 3), MCState(1, 3), MCState(1, 2)}
=============================================================================
