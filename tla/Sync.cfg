SPECIFICATION AttendedSpec
CONSTANTS
    Nodes <- MCNodes
    Links <- MCLinks
    Ads <- MCAds
    Author <- MCAuthor
    Opens <- MCOpens
    Closes <- MCShort
    Weight <- MCWeight
    Limit <- MCLimit
    Hashes <- MCHashes
    MaxTip = 1
    MaxKeys = 3
    MaxFaults = 1
    NoPoll = NoPoll
    NoTable = NoTable
INVARIANTS
    TypeOK
    RepliesExpected
PROPERTIES
    Converges
    DifferenceComputed
