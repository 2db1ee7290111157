SPECIFICATION Spec
CONSTANTS
    W = 16
    Requested <- MCRequested
    Offered <- MCOffered
    Hellos <- MCHellos
    Gaps <- MCGaps
    Endings <- MCEndings
    Cuts <- MCCuts
INVARIANTS
    RequestUnderstood
    CutGetIsRefused
CHECK_DEADLOCK FALSE
