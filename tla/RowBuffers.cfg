SPECIFICATION FairSpec
CONSTANTS
    Tokens <- MCTokens
    Lines <- MCLines
    Impure <- MCImpure
    Pieces <- MCPieces
    Modes = {"none", "same", "retok", "full"}
    MaxLines = 2
    MaxWorkers = 2
    RowsPerWorker = 1
    MaxCap = 3
    Blank = Blank
    MaxParses = 2
    NumArrays = 6
INVARIANTS
    TypeOK
    PrimaryExact
    NoDataRace
    PresizeFits
    RichExactUnlessInPlace
PROPERTIES
    EveryParseReturns
CHECK_DEADLOCK FALSE
