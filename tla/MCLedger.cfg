SPECIFICATION Spec
CONSTANTS
    WordBytes = 2
    Sha3 <- MCSha3
    Genesis <- MCGenesis
    Bodies <- MCBodies
    NoAddress = 0
    CreateAddress <- MCCreateAddress
    BlockVars <- MCBlockVars
    Coinbase = 2
    Uncles <- MCUncles
    BlockReward = 150
    UncleReward = 112
    UncleInclusionReward = 19
    Gases = {0, 40, 160, 330, 700, 1100}
    PairGases = {400}
INVARIANTS TypeOK GasConserved NoReplay 
  
CHECK_DEADLOCK FALSE
