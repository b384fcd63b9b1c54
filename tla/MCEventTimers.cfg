CONSTANTS
    Conns = {c1}
    Eps = {p1, p2}
    NFds = 3
    MaxLag = 2
    MaxUnstripped = 0
SPECIFICATION LiveSpec
PROPERTY LateTimerCalled
