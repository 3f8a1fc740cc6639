------------------------------ MODULE MCMiner ------------------------------
(* A payment, and a next one that the sender cannot afford.               *)
EXTENDS Miner, TLC

CONSTANTS t0, z1

MCNonce == t0 :> 0 @@ z1 :> 1
MCPooled == <<t0>>
=============================================================================
