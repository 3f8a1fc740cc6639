SPECIFICATION Spec
CONSTANTS
    g = g
    a1 = a1
    a2 = a2
    b1 = b1
    b2 = b2
    b3 = b3
    Main = Main
    NoBlock = NoBlock
    Genesis = g
    Block <- MCBlock
    PrevHash <- MCPrevHash
    Number <- MCNumber
    Difficulty <- MCDifficulty
    Time <- MCTime
    Uncles <- MCUncles
    Forged = {}
    Reply <- MCReply
    Worker = {p1}
    MaxCrashes = 0
    MaxResets = 1
CHECK_DEADLOCK FALSE
PROPERTY SplitChainIsDeleted
