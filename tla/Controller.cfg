SPECIFICATION Spec
CONSTANTS
    IsLocal = FALSE
    AutoBan = TRUE
    Peers = {p, q}
    Addrs = {a1}
    TotalWorkers = 1
    ReusesAddress = FALSE
    Sockets = {s1}
    NoSocket = NoSocket
    Methods = {16}
    Names = {h}
    Literals = {i}
    NoIP = NoIP
    NoProfile = NoProfile
    MaxEmit = 1
    MaxQueue = 1
    MaxIVs = 3
    MaxLookups = 1
INVARIANT TypeOK
INVARIANT ListensForProfile
PROPERTY StoppedIsQuiet
PROPERTY BannedEverywhere
PROPERTY ActsAsProxy
PROPERTY CallsReturn
CHECK_DEADLOCK FALSE
