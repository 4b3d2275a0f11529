SPECIFICATION FairSpec
CONSTANTS
    Corpora <- MCCorpora
    Thresholds = {0, 2}
    ThresholdDen = 4
    Filter <- MCFilter
    MaxRuns <- MCMaxRuns
INVARIANTS
    AnchorsTypeOK
    AnchorsExact
    TiesGoUpstream
    PostorderSeparates
    ComponentsWhole
    ScratchForgets
PROPERTIES
    EveryRowEnds
CHECK_DEADLOCK FALSE
