SPECIFICATION Spec
CONSTANTS
    r1 = r1
    r2 = r2
    r3 = r3
    r4 = r4
    Request = {r1, r2, r3, r4}
    Outdated = Outdated
    NoPassword = NoPassword
    NoRow = NoRow
    NoSession = NoSession
SYMMETRY MCSymmetry
CHECK_DEADLOCK FALSE
PROPERTY RehashIsTransparent
