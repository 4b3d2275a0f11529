SPECIFICATION Spec
CONSTANTS
    MaxU32 = 6
    MaxIDs = 2
    MaxRows = 2
INVARIANTS
    Exact
