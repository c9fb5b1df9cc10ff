SPECIFICATION Spec
CONSTANTS
    Blocks <- MCBlocks
    Genesis = "g"
    Branch <- MCBranch
    Work <- MCWork
    Time <- MCTime
    NoBlock = NoBlock
    Peers = {p1}
    Serving = {p1}
    NoPeer = NoPeer
    Birth = 1
    AskLimit = 2
    MaxHeaders = 3
    MaxCrashes = 0
INVARIANT TrunkProcessed
