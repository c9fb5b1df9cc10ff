SPECIFICATION FairSpec
CONSTANTS
    Own = {t1}
    Foreign = {f1}
    Peers = {p1, p2}
    Silent = {p2}
    BackPressure = 2
    CacheSize = 1
    MaxFaults = 0
    NoTx = NoTx
    NoPeer = NoPeer
PROPERTY
    FundAnswered
