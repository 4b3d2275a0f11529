SPECIFICATION FairSpec
CONSTANTS
    Messages = {1, 2, 3, 4}
    Keys = {0, 1, 2}
    MaxLines = 4
    MaxWorkers = 3
    RowsPerWorker = 1
    MaxParses = 2
    Requests <- MCRequests
INVARIANTS
    TypeOK
    DedupFaithful
    GroupsOrdered
PROPERTIES
    ImplementsClusterSpec
CHECK_DEADLOCK FALSE
