SPECIFICATION Spec
CONSTANTS
    r1 = r1
    r2 = r2
    r3 = r3
    r4 = r4
    c1 = c1
    c2 = c2
    Request = {r1, r2, r3, r4}
    Earlier = Earlier
    Code = {c1, c2}
    NoSet = NoSet
    NoCode = NoCode
SYMMETRY MCSymmetry
CHECK_DEADLOCK FALSE
INVARIANTS
    TypeOK
    CodesWorkOnce
    OneSetAtATime
PROPERTIES
    UseForgottenOnlyByOverlap
