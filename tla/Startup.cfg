SPECIFICATION StartupSpec
CONSTANTS
    Processes = {p, q}
    Schema <- MCSchema
    FirstTable = "CD"
    FuzzyIndex = "fuzzyid_id_idx"
    UpdaterNeeds <- MCUpdaterNeeds
    ServerNeeds <- MCServerNeeds
INVARIANTS
    TablesComplete
PROPERTIES
    StartEnds
CHECK_DEADLOCK FALSE
