SPECIFICATION Spec
CONSTANTS
    Tokens <- MCTokens
    Lines <- MCLines
    Impure <- MCImpure
    Pieces <- MCPieces
    Modes = {"retok"}
    MaxLines = 2
    MaxWorkers = 1
    RowsPerWorker = 1
    MaxCap = 3
    Blank = Blank
    MaxParses = 2
    NumArrays = 6
INVARIANTS
    RichExact
CHECK_DEADLOCK FALSE
