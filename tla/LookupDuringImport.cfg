SPECIFICATION SystemSpec
CONSTANTS
    BadEntry = BadEntry
    Records <- Discs
    Archives <- MCArchives
    Names <- MCNames
    Songs <- MCSongs
    Genres <- MCGenres
    Hashes <- MCHashes
    DiscIds <- MCDiscIds
    FuzzyIds <- MCFuzzyIds
    MaxImports = 2
    MaxEntries = 2
    Asked <- MCAsked
    MaxTrackDiff = 5
    MaxListed = 2
    NormalizedHash <- MCNormalizedHash
    Entropy <- MCEntropy
    CharCount <- MCCharCount
    EqualLowercase <- MCEqualLowercase
    SimilarTitle <- MCSimilarTitle
    DiscId <- MCDiscId
    FuzzyId <- MCFuzzyId
INVARIANTS
    AnswersMatch
    OfferedCanBeRead
    StableAnswer
    OwnLengthsAnswered
    PublishedIsFound
CHECK_DEADLOCK FALSE
