SPECIFICATION StoredSpec
CONSTANTS
    Width = 14
    PerTerm <- MCPerTerm
    PerDigit <- MCPerDigit
    Guards = {15, 16, 300, 16380}
    Moduli = 97
    MaxSafeCount = 24
    MaxSamples = 7
    Draws <- MCDraws
    PiDecimal <- MCPiDecimal
    PiHex <- MCPiHex
    ReferenceDigits = 4
    Requested <- MCRequested
    Results <- MCResults
    MaximumSamples = 2
    Options <- MCOptions
    Seed <- MCSeed
    Contents <- MCContents
    MaxChanges = 2
    None = None
    Damaged = Damaged
    Radix = 4
    MaxPayload = 8
    Plan <- MCPlan
    Ranges <- MCRanges
    Integers3 <- MCIntegers3
    MaxEdits = 2
    Missing = Missing
    Rejected = Rejected
    Chunks <- MCChunks
    ValidChunks = {1, 2}
    Formats = {1, 2}
    Timestamps = {5, 6}
    CountLimit = 3
    MaxVersions = 3
    NoVersion = NoVersion
    Unsaved = Unsaved
INVARIANTS
    WordsAreExact
    SamplesAreSound
    DecodersAreExact
    IndexKeepsVersions
    ManifestIsEvidence
    RecheckIsSound
    CleanRunPublishes
