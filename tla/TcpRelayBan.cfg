SPECIFICATION Spec
CONSTANTS
    IsLocal = FALSE
    AutoBan = TRUE
    MaxUp = 1
    MaxDown = 1
INVARIANT BanOnlyMalformed
\* The relay stops once it has been deleted.
CHECK_DEADLOCK FALSE
