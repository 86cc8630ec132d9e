SPECIFICATION Spec
CONSTANTS
    Boot = Boot
    c1 = c1
    c2 = c2
    Call = {Boot, c1, c2}
    Earlier = Earlier
    Nobody = Nobody
    Refused = Refused
    Undefined = Undefined
    Lifetime = 3
    Origin = 1
    Start = 3
    Span = 1
CHECK_DEADLOCK FALSE
INVARIANTS
    TypeOK
    SignedOutForGood
    LiveSessionReachable
PROPERTIES
    UndisturbedCallAgrees
    PendingEnds
