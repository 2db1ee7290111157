SPECIFICATION Spec
CONSTANTS
    Sessions = {s1, s2}
    NoSession = NoSession
    Writers = TRUE
    DiskErrors = FALSE
    ExpectHttp = FALSE
INVARIANTS
    ReadyForExecution
