SPECIFICATION FairSpec
CONSTANTS
    N = 2
    Clients = {k1, k2}
    Free = Free
    Modes = {"conflict", "unknown"}
    MaxCrashes = 1
    Offered = {"run", "attack", "pause", "resume", "stop", "reset", "false-completion"}
INVARIANT TypeOK DashboardAgrees
PROPERTY ImplementsDurableJob LockIsReleased
