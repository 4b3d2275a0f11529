SPECIFICATION Spec
CONSTANTS
    Bytes <- MCBytes
    TemplateLists <- MCTemplateLists
    Batches <- MCBatches
INVARIANTS
    TypeOK
    BestOfIndexed
    ArgsRebuild
    OnePlaceholderFound
