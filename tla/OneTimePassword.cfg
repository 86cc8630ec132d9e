SPECIFICATION Spec
CONSTANTS
    r1 = r1
    r2 = r2
    r3 = r3
    r4 = r4
    r5 = r5
    Request = {r1, r2, r3, r4, r5}
    Id = {e1, e2}
    NoRow = NoRow
    NoCode = NoCode
    Drift = 1
    LookAhead = 2
    MaxCount = 3
SYMMETRY MCSymmetry
CHECK_DEADLOCK FALSE
INVARIANTS
    TypeOK
    NoReplay
    NeverAhead
PROPERTIES
    EnabledStays
