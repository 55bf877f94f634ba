SPECIFICATION Spec
CONSTANTS
    Addrs = {a1, a2}
    Peers = {p, q}
    TotalWorkers = 2
    Bans = TRUE
    ReusesAddress = FALSE
    MaxEmit = 3
    MaxQueue = 6
INVARIANT TypeOK
INVARIANT NoOrphan
INVARIANT LiveRelayKept
INVARIANT DestroyedLeavesNothing
PROPERTY LivesAsPromised
PROPERTY BanHolds
PROPERTY FinishedRelayFreed
