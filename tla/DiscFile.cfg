SPECIFICATION Spec
CONSTANTS
    W = 10000
    Artists <- MCArtists
    Titles <- MCTitles
    Songs <- MCSongs
    Files <- MCFiles
    BadEncoding <- MCBadEncoding
INVARIANTS
    ValidRecord
    FramesAreListed
    SongsInPlace
    FileReadsBack
    DigestsAgree
CHECK_DEADLOCK FALSE
