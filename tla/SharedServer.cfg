SPECIFICATION Spec
CONSTANTS
    Sessions = {s1, s2}
    NoSession = NoSession
    Writers = TRUE
    DiskErrors = TRUE
    ExpectHttp = FALSE
INVARIANTS
    OneLookupAtATime
    IdleHoldsNoLock
    DataAfterHandshake
PROPERTIES
    Served
