SPECIFICATION LifeSpec
CONSTANTS
    Clients = {c1, c2, c3}
    Stacks = {"dual", "v6only", "v4only"}
    Blocks = {TRUE, FALSE}
INVARIANTS
    NoListenerOutlives
    SilentOnlyBroken
PROPERTIES
    BothAreServed
CHECK_DEADLOCK FALSE
