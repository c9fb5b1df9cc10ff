SPECIFICATION FairSpec
CONSTANTS
    Addresses <- MCAddresses
    Slots = {1, 2}
    Slot <- MCSlot
    Seeds = {"u"}
    Peers = {}
    Learned = {"u", "x"}
    Foreign = {"f"}
    MinConnections = 1
    BackPressure = 1
    BAN_TIME = 1
    OLD_CONNECTION = 2
    Epoch = 3
    MaxTime = 6
    MaxCrashes = 1
    NoRow = NoRow
INVARIANTS
    TypeOK
    PeersRemembered
PROPERTIES
    BanHolds
    EveryAddressTried
