SPECIFICATION Spec
CONSTANTS
    W = 10000
    Artists <- MCArtists
    Titles <- MCTitles
    Songs <- MCSongs
    Files <- MCFiles
    BadEncoding <- MCBadEncoding
INVARIANT PortableDigests
CHECK_DEADLOCK FALSE
