SPECIFICATION Spec
CONSTANTS
    NumBytes <- MCNumBytes
    PatternLists <- MCPatternLists
    Texts <- MCTexts
INVARIANTS
    TypeOK
    FailuresLongest
    OutputsComplete
    ScanExact
