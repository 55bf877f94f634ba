SPECIFICATION Spec
CONSTANTS
    Addrs = {a1, a2}
    Peers = {p, q}
    TotalWorkers = 2
    Bans = TRUE
    ReusesAddress = TRUE
    MaxEmit = 2
    MaxQueue = 3
INVARIANT LiveRelayKept
