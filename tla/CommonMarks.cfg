SPECIFICATION Spec
CONSTANTS
    MaxU32 = 6
    MaxIDs = 2
    MaxRows = 6
INVARIANTS
    TypeOK
    ExactUnlessTail
    MarksFollowEpoch
