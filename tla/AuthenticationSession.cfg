SPECIFICATION Spec
CONSTANTS
    r1 = r1
    r2 = r2
    r3 = r3
    a1 = a1
    alice = alice
    bob = bob
    Request = {r1, r2, r3}
    Id = {a1}
    Identity = {alice, bob}
    NoIdentity = NoIdentity
    NoRow = NoRow
    NoProof = NoProof
    Factor <- MCFactor
    AMR <- MCAMR
    Enrollments <- MCEnrollments
    FactorStep <- MCStep
    FactorAMR <- MCFactorAMR
    Lifetime = 1
    MaxClock = 1
    MaxChanges = 1
SYMMETRY MCSymmetry
CHECK_DEADLOCK FALSE
INVARIANTS
    TypeOK
    StepsInOrder
    SessionsAreBacked
    NoFactorPassedOver
    CompletedIsGone
PROPERTIES
    ImplementsLifecycle
