SPECIFICATION Spec
CONSTANTS
    Files <- MCFiles
    Versions <- MCVersions
    MaxKeyLen = 8
    MaxValueLen = 23
    Upper <- MCUpper
    Alpha <- MCAlpha
    Alnum <- MCAlnum
    Ignored <- MCIgnored
    LowerOf <- MCLowerOf
INVARIANTS
    RoundTrip
    CleanupKeepsHash
    CaseVersionsMeet
    RowHasEntropyOfFile
    TextsReadBack
    SimilarTitles
CHECK_DEADLOCK FALSE
