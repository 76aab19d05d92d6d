SPECIFICATION Spec
CONSTANTS
    MaxU64 = 10
    MaxBlock = 7
    MaxCount = 4
INVARIANTS
    TypeOK
    StopsWhenCovered
    PassIsContiguous
CHECK_DEADLOCK FALSE
