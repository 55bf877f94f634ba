SPECIFICATION Spec
CONSTANTS
    Clients = {c1}
    Sockets = {s1, s2}
    NoSocket = null
    Methods = {8, 16}
    AutoBan = TRUE
    MaxIVs = 3
INVARIANT IVFits
\* The program may have been ended by the cipher library.
CHECK_DEADLOCK FALSE
