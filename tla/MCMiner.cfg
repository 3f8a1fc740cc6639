SPECIFICATION Spec
CONSTANTS
    t0 = t0
    z1 = z1
    Tx = {t0, z1}
    Nonce <- MCNonce
    Poor = {z1}
    Pooled <- MCPooled
    MaxListed = 1
    MaxBlocks = 4
INVARIANT TypeOK
 
 
CHECK_DEADLOCK FALSE
