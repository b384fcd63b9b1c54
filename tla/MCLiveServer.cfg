CONSTANTS
    Sessions = {s1, s2}
    Tracks = {video, audio}
    Conns = {c1, c2}
    NChan = 3
    MaxConn = 2
    Realm = FALSE
    MaxCount = 2
SPECIFICATION Spec
SYMMETRY Symmetric
INVARIANTS
    TypeOK
    ChannelsMatchEndpoints
    NamedSessionsHaveEndpoints
    NoIdleEncoding
    CountCoversPlaying
PROPERTIES
    StopOnlyUnwatched
    DisconnectFreesExactly
