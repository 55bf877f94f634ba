SPECIFICATION Spec
CONSTANTS
    IsLocal = TRUE
    AutoBan = FALSE
    MaxUp = 3
    MaxDown = 2
INVARIANT TypeOK
INVARIANT UpstreamIntact
INVARIANT StageMatchesSockets
INVARIANT ClientStreamWellFormed
PROPERTY ClosedToClient
PROPERTY UpstreamChannel
PROPERTY SilentConnectionCloses
\* The relay stops once it has been deleted.
CHECK_DEADLOCK FALSE
