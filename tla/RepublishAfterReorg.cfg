SPECIFICATION NodeSpec
CONSTANTS
    Blocks <- MCBlocks
    Genesis = "g"
    Branch <- MCBranch
    Work <- MCWork
    Time <- MCTime
    NoBlock = NoBlock
    Peers = {p1}
    Serving = {p1}
    NoPeer = NoPeer
    Birth = 1
    AskLimit = 2
    MaxHeaders = 2
    MaxCrashes = 0
    Ads <- MCAds
    Length <- MCLength
    Proofs = {}
    Fundings <- MCFundings
    Mined <- MCMined
    MAX_TERM = 3
    WeightRange = 4
    StorageLimit = 4
    Sizes = {s1}
    NoRow = NoRow
    NoTable = NoTable
    NoOffer = NoOffer
    MaxKeys = 2
INVARIANT FundedAdStored
