SPECIFICATION Spec
CONSTANTS
    Bytes <- MCBytes
    TemplateLists <- MCFewLists
    Batches <- MCBatches
INVARIANTS
    MissMeansNoFit
