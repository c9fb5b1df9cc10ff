SPECIFICATION FairSpec
CONSTANTS
    Nodes <- MCNodes
    Links <- MCLinks
    Ads <- MCAds
    Author <- MCAuthor
    Opens <- MCOpens
    Closes <- MCLong
    Weight <- MCWeight
    Limit <- MCRoom
    Hashes <- MCHashes
    MaxTip = 0
    MaxKeys = 2
    MaxFaults = 0
    NoPoll = NoPoll
    NoTable = NoTable
PROPERTY
    Replicated
