SPECIFICATION Spec
CONSTANTS
    Clients = {c1, c2}
    Sockets = {s1, s2, s3}
    NoSocket = null
    Methods = {8, 16}
    AutoBan = TRUE
    MaxIVs = 4
INVARIANT TypeOK
INVARIANT CacheSound
INVARIANT OwnSocket
PROPERTY ClosedIsQuiet
INVARIANT IVUsedOnce
PROPERTY KeepsSessions
\* The program may have been ended by the cipher library.
CHECK_DEADLOCK FALSE
