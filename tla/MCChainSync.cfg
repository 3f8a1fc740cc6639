SPECIFICATION SyncLiveSpec
CONSTANTS
    g = g
    a1 = a1
    a2 = a2
    b1 = b1
    b2 = b2
    b3 = b3
    Main = Main
    NoBlock = NoBlock
    Genesis = g
    Block <- MCBlock
    PrevHash <- MCPrevHash
    Number <- MCNumber
    Difficulty <- MCDifficulty
    Time <- MCTime
    Uncles <- MCUncles
    Forged = {b3}
    Reply <- MCReply
    Worker = {p1, p2}
    MaxCrashes = 1
    MaxResets = 0
INVARIANT ParentsAreStored
INVARIANT AnnouncedIsDurable
INVARIANT RestartKeepsHead
PROPERTY ImplementsDurableChain
 
