SPECIFICATION CodecSpec
CONSTANTS
    Corpora <- MCFewCorpora
    Samples <- MCHalf
    Filter <- MCFilter
INVARIANTS
    DecodesExactly
CHECK_DEADLOCK FALSE
