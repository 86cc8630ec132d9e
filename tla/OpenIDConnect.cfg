SPECIFICATION OIDCSpec
CONSTANTS
    r1 = r1
    r2 = r2
    r3 = r3
    f1 = f1
    f2 = f2
    line = line
    github = github
    k1 = k1
    k2 = k2
    Callback = {r1, r2, r3}
    KeySets = {f1, f2}
    Line = {line}
    GitHub = {github}
    Key = {k1, k2}
    NoneYet = NoneYet
SYMMETRY MCSymmetry
CHECK_DEADLOCK FALSE
INVARIANTS
    OIDCTypeOK
    RefusedOnlyByRotation
