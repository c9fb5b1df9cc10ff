SPECIFICATION FairSpec
CONSTANTS
    Nodes <- MCNodes
    Addresses <- MCAddresses
    Links <- MCLinks
    Known <- MCKnown
    Hashes <- MCHashes
    MINIMUM_IBLT_SIZE = 1
    MAXIMUM_IBLT_SIZE = 4
    MaxFaults = 2
    MaxChanges = 1
    NoPoll = NoPoll
    NoTable = NoTable
INVARIANTS
    TypeOK
    TablesFit
    ExchangeTimed
PROPERTY
    ExchangesEnd
CHECK_DEADLOCK FALSE
