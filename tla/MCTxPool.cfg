SPECIFICATION LiveSpec
CONSTANTS
    t1 = t1
    t2 = t2
    alice = alice
    Tx = {t1, t2}
    Account = {alice}
    Hash <- MCHash
    Sender <- MCSender
    Nonce <- MCNonce
    Value <- MCValue
    ChainState <- MCChainState
    Fee = 1
    QueueSize = 1
    Caller = {c1}
    Handler = Handler
    Processor = Processor
    Nobody = Nobody
    MaxQueued = 3
    MaxFlushes = 1
    MaxBlocks = 1
CHECK_DEADLOCK FALSE
INVARIANT TypeOK
INVARIANT CopyFits
INVARIANT HandedOutWasBroadcast
INVARIANT NoDuplicatesUnlessSkipped
INVARIANT KeepsArrivalOrder
PROPERTY QueueDrains
PROPERTY CallersReturn
