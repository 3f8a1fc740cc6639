SPECIFICATION LiveSpec
CONSTANTS
    g = g
    c = c
    a1 = a1
    a2 = a2
    a3 = a3
    a4 = a4
    b1 = b1
    b2 = b2
    b3 = b3
    NoBlock = NoBlock
    Genesis = g
    Block <- MCBlock
    PrevHash <- MCPrevHash
    Number <- MCNumber
    Difficulty <- MCDifficulty
    Time <- MCTime
    Uncles <- MCUncles
    Forged = {}
    n1 = n1
    n2 = n2
    Node = {n1, n2}
    Dialer = n1
    Start <- MCStart
    Fresh = {a4, b3}
    Requested = 2
    RequestedZero = 5
    MaxChain = 4
    MaxRequested = 8
    MaxFaults = 1
INVARIANT TypeOK
PROPERTY ResetOnlyForHeavier
 
 
CHECK_DEADLOCK FALSE
