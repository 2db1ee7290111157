SPECIFICATION Spec
CONSTANTS
    Archives <- MCArchives
    MaxMembers = 3
INVARIANTS
    PassedAreDelivered
    EndIsComplete
    WholeIsRead
CHECK_DEADLOCK FALSE
