SPECIFICATION Spec
CONSTANTS
    g = g
    a1 = a1
    a2 = a2
    b1 = b1
    b2 = b2
    b3 = b3
    Main = Main
    NoBlock = NoBlock
    Genesis = g
    Block <- MCBlock
    PrevHash <- MCPrevHash
    Number <- MCNumber
    Difficulty <- MCDifficulty
    Time <- MCTime
    Uncles <- MCUncles
    Forged = {b3}
    Reply <- MCReply
    Worker = {p1, p2}
    MaxCrashes = 0
    MaxResets = 2
SYMMETRY WorkerSymmetry
CHECK_DEADLOCK FALSE
INVARIANT TypeOK
INVARIANT ProcessingIsExclusive
INVARIANT StoredStateIsDurable
INVARIANT NeverProcessedTwice
INVARIANT TotalCoversStore
PROPERTY TotalNeverFalls
