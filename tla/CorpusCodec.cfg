SPECIFICATION CodecSpec
CONSTANTS
    Corpora <- MCCorpora
    Samples <- MCSamples
    Filter <- MCFilter
INVARIANTS
    CodecTypeOK
    RoundTrip
    FailsOnlyAfterGrowth
    SampleCovers
    SpecialsRendered
CHECK_DEADLOCK FALSE
