SPECIFICATION Spec
CONSTANTS
    r1 = r1
    r2 = r2
    r3 = r3
    r4 = r4
    alice = alice
    bob = bob
    Request = {r1, r2, r3, r4}
    Id = {s1, s2}
    Identity = {alice, bob}
    NoIdentity = NoIdentity
    NoRow = NoRow
    Lifetime = 4
    Sliding = TRUE
    MaxDelay = 2
    MaxClock = 7
SYMMETRY MCSymmetry
CHECK_DEADLOCK FALSE
INVARIANTS
    TypeOK
    KeptAlive
    UnusedExpires
    RevokedIsGone
PROPERTIES
    ImplementsLifecycle
