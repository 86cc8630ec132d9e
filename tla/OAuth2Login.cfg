SPECIFICATION Spec
CONSTANTS
    r1 = r1
    r2 = r2
    r3 = r3
    r4 = r4
    r5 = r5
    alice = alice
    bob = bob
    Request = {r1, r2, r3, r4, r5}
    State = {s1, s2}
    Link = {k1, k2, k3}
    Account = {a1, a2}
    Identity = {alice, bob}
    Owner <- MCOwner
    Existing = {bob}
    None = None
    Lifetime = 1
    MaxClock = 1
SYMMETRY MCSymmetry
CHECK_DEADLOCK FALSE
INVARIANTS
    TypeOK
    IdentityOwnsAccount
    NoDanglingEnrollment
PROPERTIES
    EnrollmentKeepsIdentity
    ImplementsOneTimeToken
