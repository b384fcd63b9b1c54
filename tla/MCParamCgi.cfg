SPECIFICATION Spec
CONSTANTS
    v1 = v1
    v2 = v2
    Missing = Missing
    Lines = 3
    Values <- MCValues
    Requests <- MCRequests
INVARIANT
    WholeOrMissing
PROPERTY
    OnlyRetryLoses
