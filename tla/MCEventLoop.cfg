CONSTANTS
    Conns = {c1, c2}
    Eps = {p1}
    NFds = 4
    MaxLag = 1
    MaxUnstripped = 0
SPECIFICATION Spec
SYMMETRY ConnsAlike
INVARIANTS
    TypeOK
    RunningOwnersAlive
    NoStaleReadiness
    WatchedFdsOpen
    OpenFdsWatched
