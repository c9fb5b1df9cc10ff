SPECIFICATION FairSpec
CONSTANTS
    Blocks <- MCBlocks
    Genesis = "g"
    Branch <- MCBranch
    Work <- MCWork
    Time <- MCTime
    NoBlock = NoBlock
    Peers = {p1, p2}
    Serving = {p1}
    NoPeer = NoPeer
    Birth = 1
    AskLimit = 2
    MaxHeaders = 3
    MaxCrashes = 1
INVARIANTS
    TypeOK
    AskedIsExpected
    QueuedOnce
    ProcessedIsDurable
    TrunkCovered
    ParentsFirst

PROPERTY
    QueueDrains
