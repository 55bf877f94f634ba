SPECIFICATION Spec
CONSTANTS
    IsLocal = FALSE
    AutoBan = TRUE
    MaxUp = 3
    MaxDown = 2
INVARIANT BannedNeverConnected
INVARIANT ClientStreamWellFormed
PROPERTY LivesAsPromised
PROPERTY SilentConnectionCloses
\* The relay stops once it has been deleted.
CHECK_DEADLOCK FALSE
