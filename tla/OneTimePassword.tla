--------------------------- MODULE OneTimePassword ---------------------------
(***************************************************************************)
(* The TOTP and HOTP factors (src/aegistry/factors/totp.py and hotp.py).   *)
(* Their enroll, enable and verify are the same program; they differ only  *)
(* in which codes _verify accepts.  A code stands for its counter: the     *)
(* time step of TOTP, the event counter of HOTP, and the field next of an  *)
(* enrolment is last_verified_time_step + 1 (0 for None) or counter.       *)
(*                                                                         *)
(* One identity; requests are processes, each awaited store call a step.   *)
(* The table has no unique constraint on the identity, so that racing      *)
(* enrolments may leave several rows, of which the store returns any.      *)
(***************************************************************************)
EXTENDS Integers

CONSTANTS
    Request,   \* HTTP requests, each served once
    Id,        \* ids of enrolments; each has a secret of its own
    NoRow,     \* no row, or no enrollment object
    NoCode,    \* no code presented yet
    Drift,     \* drift_tolerance of TOTP, in time steps
    LookAhead, \* look_ahead of HOTP
    MaxCount   \* bound on time steps and counters

ASSUME WindowAssumption == {Drift, LookAhead, MaxCount} \subseteq Nat

VARIABLES
    kind,   \* the factor class, "totp" or "hotp"
    now,    \* the current time step
    rows,   \* the enrolments of the identity
    issued, \* enrolment ids handed out so far
    pc,     \* where each request stands
    snap,   \* the enrollment object each request holds
    code,   \* the code each request presents
    at,     \* history: the time step at which it was checked
    raced   \* history: enrolments two code checks of which overlapped

vars == <<kind, now, rows, issued, pc, snap, code, at, raced>>

Enrollment == [id: Id, enabled: BOOLEAN, next: Nat]
Code == [id: Id, count: Nat]

ASSUME NoneAssumption == NoRow \notin Enrollment /\ NoCode \notin Code

Checking == {"enabling", "verifying"}
Enrolling == {"deleting", "inserting"}
Stage == {"idle", "accepted", "enrolled", "raised"} \cup Checking \cup Enrolling

----------------------------------------------------------------------------
(* _verify *)

\* Mutation of TimeWindow: the step verified last is accepted again.
TimeWindowWithLast(e) ==
    {n \in Nat :
        /\ n >= now - Drift /\ n >= e.next - 1
        /\ n <= now + Drift + 1 \/ n = e.next}

\* The loop tries time steps from now - Drift up, skipping those not above the
\* last verified one; it gives up after a failure at a drift above Drift, so
\* that it tries Drift + 1, and the first step past the skipped ones, too.
TimeWindow(e) ==
    {n \in Nat :
        /\ n >= now - Drift /\ n >= e.next
        /\ n <= now + Drift + 1 \/ n = e.next}

\* Counters from the stored one, look_ahead further at most.
CounterWindow(e) == {n \in Nat : e.next <= n /\ n <= e.next + LookAhead}

Accepts(e, c) ==
    /\ c.id = e.id
    /\ \/ kind = "totp" /\ c.count \in TimeWindow(e)
       \/ kind = "hotp" /\ c.count \in CounterWindow(e)

\* Mutation of Verified: the counter moves past the whole window.
VerifiedToWindowEnd(e, c) == [e EXCEPT !.next = @ + LookAhead + 1]

\* Mutation of Verified: the window reopens one step before the code.
VerifiedBefore(e, c) == [e EXCEPT !.next = c.count - 1]

\* The enrollment object after _verify.
Verified(e, c) == [e EXCEPT !.next = c.count + 1]

----------------------------------------------------------------------------
Init ==
    /\ kind \in {"totp", "hotp"}
    /\ now = Drift
    /\ rows = [id \in Id |-> NoRow]
    /\ issued = {}
    /\ pc = [r \in Request |-> "idle"]
    /\ snap = [r \in Request |-> NoRow]
    /\ code = [r \in Request |-> NoCode]
    /\ at = [r \in Request |-> 0]
    /\ raced = {}

Present == {id \in Id : rows[id] # NoRow}

Raise(r) ==
    /\ pc' = [pc EXCEPT ![r] = "raised"]
    /\ snap' = [snap EXCEPT ![r] = NoRow]
    /\ code' = [code EXCEPT ![r] = NoCode]
    /\ UNCHANGED <<kind, now, rows, issued, at, raced>>

\* Mutation of EnrollLoad: an enabled enrolment is replaced like any other.
EnrollLoadAny(r) ==
    /\ pc[r] = "idle"
    /\ \/ /\ Present = {}
          /\ pc' = [pc EXCEPT ![r] = "inserting"]
          /\ UNCHANGED <<kind, now, rows, issued, snap, code, at, raced>>
       \/ \E id \in Present :
            /\ snap' = [snap EXCEPT ![r] = rows[id]]
            /\ pc' = [pc EXCEPT ![r] = "deleting"]
            /\ UNCHANGED <<kind, now, rows, issued, code, at, raced>>

\* enroll() looks for an enrolment; a disabled one has to go first.
EnrollLoad(r) ==
    /\ pc[r] = "idle"
    /\ \/ /\ Present = {}
          /\ pc' = [pc EXCEPT ![r] = "inserting"]
          /\ UNCHANGED <<kind, now, rows, issued, snap, code, at, raced>>
       \/ \E id \in Present :
            /\ ~rows[id].enabled
            /\ snap' = [snap EXCEPT ![r] = rows[id]]
            /\ pc' = [pc EXCEPT ![r] = "deleting"]
            /\ UNCHANGED <<kind, now, rows, issued, code, at, raced>>

\* enroll() raising AlreadyEnrolled.
EnrollFails(r) ==
    /\ pc[r] = "idle"
    /\ \E id \in Present : rows[id].enabled
    /\ Raise(r)

EnrollDelete(r) ==
    /\ pc[r] = "deleting"
    /\ rows' = [rows EXCEPT ![snap[r].id] = NoRow]
    /\ pc' = [pc EXCEPT ![r] = "inserting"]
    /\ UNCHANGED <<kind, now, issued, snap, code, at, raced>>

\* A fresh secret, disabled until a first code proves it.
EnrollInsert(r) ==
    /\ pc[r] = "inserting"
    /\ \E id \in Id \ issued :
        /\ issued' = issued \cup {id}
        /\ rows' = [rows EXCEPT ![id] =
                        [id |-> id, enabled |-> FALSE, next |-> 0]]
    /\ pc' = [pc EXCEPT ![r] = "enrolled"]
    /\ UNCHANGED <<kind, now, snap, code, at, raced>>

\* Checks of a code against row id that are under way.
UnderWay(id) == {r \in Request : pc[r] \in Checking /\ snap[r].id = id}

\* enable() of a disabled and verify() of an enabled enrolment: load the row,
\* check the code, and keep the object that is to be stored.
Check(r, enabled) ==
    /\ pc[r] = "idle"
    /\ \E id \in Present, c \in [id: Id, count: 0..MaxCount] :
        /\ rows[id].enabled = enabled
        /\ Accepts(rows[id], c)
        /\ snap' = [snap EXCEPT ![r] =
                        [Verified(rows[id], c) EXCEPT !.enabled = TRUE]]
        /\ code' = [code EXCEPT ![r] = c]
        /\ raced' = IF UnderWay(id) = {} THEN raced ELSE raced \cup {id}
    /\ at' = [at EXCEPT ![r] = now]
    /\ pc' = [pc EXCEPT ![r] = IF enabled THEN "verifying" ELSE "enabling"]
    /\ UNCHANGED <<kind, now, rows, issued>>

\* Not enrolled, already or not yet enabled, or a wrong code, which may come at
\* any time: all of them raise before anything is stored.
CheckFails(r) ==
    /\ pc[r] = "idle"
    /\ Raise(r)

\* The UPDATE ... WHERE id that ends enable() and verify().
Store(r) ==
    /\ pc[r] \in Checking
    /\ rows' = IF rows[snap[r].id] = NoRow THEN rows
               ELSE [rows EXCEPT ![snap[r].id] = snap[r]]
    /\ pc' = [pc EXCEPT ![r] = "accepted"]
    /\ UNCHANGED <<kind, now, issued, snap, code, at, raced>>

\* A store call fails, or the client goes away.
Fail(r) ==
    /\ pc[r] \in Checking \cup Enrolling
    /\ Raise(r)

Tick ==
    /\ now < MaxCount
    /\ now' = now + 1
    /\ UNCHANGED <<kind, rows, issued, pc, snap, code, at, raced>>

Handle(r) ==
    \/ EnrollLoad(r)
    \/ EnrollFails(r)
    \/ EnrollDelete(r)
    \/ EnrollInsert(r)
    \/ Check(r, FALSE)
    \/ Check(r, TRUE)
    \/ CheckFails(r)
    \/ Store(r)
    \/ Fail(r)

Next == (\E r \in Request : Handle(r)) \/ Tick

Spec == Init /\ [][Next]_vars

----------------------------------------------------------------------------
(* Properties *)

\* Every variable has the type the code gives it.
TypeOK ==
    /\ kind \in {"totp", "hotp"}
    /\ now \in Nat
    /\ rows \in [Id -> Enrollment \cup {NoRow}]
    /\ issued \subseteq Id
    /\ pc \in [Request -> Stage]
    /\ snap \in [Request -> Enrollment \cup {NoRow}]
    /\ code \in [Request -> Code \cup {NoCode}]
    /\ at \in [Request -> Nat]
    /\ raced \subseteq Id

Accepted == {r \in Request : pc[r] = "accepted"}

\* As long as no two checks of an enrolment overlap, none of its codes is
\* accepted twice, neither by verify after enable nor late or out of order
\* (the replay protection of _verify).
NoReplay ==
    \A r, q \in Accepted :
        r # q /\ code[r].id \notin raced => code[r] # code[q]

\* The stored counter never runs ahead of the codes the user has presented,
\* whichever of several overlapping updates lands last: it stands right after
\* an accepted code, so that the user's next code is not locked out (_verify).
NeverAhead ==
    \A id \in Present :
        rows[id].next = 0 \/
        \E r \in Accepted : code[r] = [id |-> id, count |-> rows[id].next - 1]

Enabled(id) == rows[id] # NoRow /\ rows[id].enabled

\* An enabled factor stays enabled: no stale update disables it, and only an
\* enroll() that found it still disabled can remove it (enroll, enable).
EnabledStays ==
    [][\A id \in Id : Enabled(id) /\ ~Enabled(id)' =>
            \E r \in Request :
                pc[r] = "deleting" /\ snap[r].id = id /\ ~snap[r].enabled]_vars

\* A TOTP code from beyond the drift tolerance is not accepted, as the test
\* test_beyond_drift_tolerance of tests/factors/test_totp.py has it (_verify).
WithinDrift ==
    kind = "totp" => \A r \in Accepted :
        code[r].count \in (at[r] - Drift)..(at[r] + Drift)
=============================================================================
