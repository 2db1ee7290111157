SPECIFICATION Spec
CONSTANTS
    Statements = {s, t}
    Columns = {c, d}
    Prepared = {p, q, r}
    NoPtr = NoPtr
    MaxRows = 2
SYMMETRY Interchangeable
INVARIANTS
    HandlesCounted
    ExecutionKnown
CHECK_DEADLOCK FALSE
