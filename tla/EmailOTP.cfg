SPECIFICATION Spec
CONSTANTS
    r1 = r1
    r2 = r2
    r3 = r3
    r4 = r4
    s1 = s1
    s2 = s2
    ann = ann
    ben = ben
    c1 = c1
    c2 = c2
    Request = {r1, r2, r3, r4}
    Otp = {o1, o2, o3}
    Session = {s1, s2}
    Email = {ann, ben}
    Code = {c1, c2}
    None = None
    Lifetime = 1
    MaxClock = 1
SYMMETRY MCSymmetry
CHECK_DEADLOCK FALSE
INVARIANTS
    TypeOK
    CodeProvesMailbox
    ReplacedIsGone
PROPERTIES
    OthersUntouched
    ImplementsOneTimeToken
