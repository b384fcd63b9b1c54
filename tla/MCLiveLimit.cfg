CONSTANTS
    Sessions = {s1, s2}
    Tracks = {video}
    Conns = {c1}
    NChan = 2
    MaxConn = 1
    Realm = FALSE
    MaxCount = 3
SPECIFICATION Spec
INVARIANT AtMostMaxConnPlay
