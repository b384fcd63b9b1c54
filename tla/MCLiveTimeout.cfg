CONSTANTS
    Sessions = {s1, s2}
    Tracks = {video, audio}
    Conns = {c1}
    NChan = 2
    MaxConn = 2
    Realm = TRUE
    MaxCount = 2
SPECIFICATION LiveSpec
PROPERTY SilentClientReclaimed
