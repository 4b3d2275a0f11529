SPECIFICATION FairSpec
CONSTANTS
    Messages <- MCMessages
    Setups <- MCSetups
    Vector = {TRUE, FALSE}
    SimdMin = 2
    SimdMax = 3
    Punctuation <- MCPunctuation
    UniLetters = {233}
    UniDigits = {}
    UniSpaces = {160}
INVARIANTS
    TypeOK
    NothingLost
    TokensExact
    SplitCounted
    RetokenizeExact
    NoWordMissed
PROPERTIES
    TokenizeReturns
CHECK_DEADLOCK FALSE
