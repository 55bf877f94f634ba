SPECIFICATION Spec
CONSTANTS
    IsLocal = FALSE
    AutoBan = TRUE
    Peers = {p}
    Addrs = {a1}
    TotalWorkers = 1
    ReusesAddress = FALSE
    Sockets = {s1}
    NoSocket = NoSocket
    Methods = {16}
    Names = {h}
    Literals = {i}
    NoIP = NoIP
    NoProfile = NoProfile
    MaxEmit = 1
    MaxQueue = 1
    MaxIVs = 3
    MaxLookups = 1
CHECK_DEADLOCK FALSE
INVARIANT AddressOfProfile
