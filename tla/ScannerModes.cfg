SPECIFICATION MCSpec
CONSTANTS
    MaxHeight = 3
    MaxReorgs = 1
    InitialHeight = 2
    Addresses = {a, b}
    Names = {e, f}
    EmptyName = EmptyName
    MaxListeners = 1
INVARIANTS
    TypeOK
    NothingIsZero
    AcceptedIdsResolve
    PhasesMeet
PROPERTY LaterCallsWiden
CHECK_DEADLOCK FALSE
