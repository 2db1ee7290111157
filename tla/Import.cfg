SPECIFICATION Spec
CONSTANTS
    BadEntry = BadEntry
    Records <- AllDiscs
    Archives <- MCArchives
    Names <- MCNames
    Songs <- MCSongs
    Genres <- MCGenres
    Hashes <- MCHashes
    DiscIds <- MCDiscIds
    FuzzyIds <- MCFuzzyIds
    MaxImports = 2
    NormalizedHash <- MCNormalizedHash
    Entropy <- MCEntropy
    CharCount <- MCCharCount
    EqualLowercase <- MCEqualLowercase
    SimilarTitle <- MCSimilarTitle
    DiscId <- MCDiscId
    FuzzyId <- MCFuzzyId
INVARIANTS
    LinksSound
    GenresAgree
    ReportBalances
    UnlinkedHaveTwin
    CommittedWhole
PROPERTIES
    TextsNotPoorer
    StoreSpec
CHECK_DEADLOCK FALSE
