---------------------------- MODULE PasswordChange ----------------------------
(***************************************************************************)
(* The password factor (src/aegistry/factors/password.py) with the routes  *)
(* that drive it (contrib/fastapi/password.py): login, register and        *)
(* change-password, together with the sessions of the identity that a      *)
(* change revokes.                                                         *)
(*                                                                         *)
(* One identity; requests are processes, each awaited store call a step.   *)
(* A password is named by the request that sets it.  Login after the       *)
(* password is checked is one step: its authentication session is its own  *)
(* (module AuthenticationSession), and a login that needs another factor   *)
(* ends like one that fails.                                               *)
(***************************************************************************)
CONSTANTS
    Request,   \* HTTP requests, each served once
    Outdated,  \* a password hashed before the parameters were raised
    NoPassword,\* no password
    NoRow,     \* no row, or no enrollment object
    NoSession  \* the request presented no session

Password == Request \cup {Outdated}

\* fresh: hashed with the current parameters, no upgrade due.
Enrollment == [password: Password, fresh: BOOLEAN]

\* The request that opened a session, whether its AMR has EMAIL, and the
\* password it rests on.
Session == [by: Request, email: BOOLEAN, password: Password \cup {NoPassword}]

ASSUME NoneAssumption ==
    /\ Outdated \notin Request
    /\ NoPassword \notin Password
    /\ NoRow \notin Enrollment
    /\ NoSession \notin Session

VARIABLES
    row,      \* the password enrolment of the identity
    live,     \* its sessions
    pc,       \* where each request stands
    held,     \* the session a change-password request presented
    copy,     \* the enrollment object each request holds
    proof,    \* the password a request presented, or has set
    retired,  \* history: passwords that a change has replaced
    inFlight, \* history: requests under way when r revoked the sessions
    replaced  \* history: passwords retired when r revoked the sessions

vars == <<row, live, pc, held, copy, proof, retired, inFlight, replaced>>

Running == {"rehashing", "opening", "looking", "authenticating", "loading",
            "storing", "revoking", "renewing", "enrolling", "inserting"}
Stage == {"idle", "done", "raised"} \cup Running

Init ==
    /\ row \in {NoRow, [password |-> Outdated, fresh |-> FALSE]}
    /\ live = {}
    /\ pc = [r \in Request |-> "idle"]
    /\ held = [r \in Request |-> NoSession]
    /\ copy = [r \in Request |-> NoRow]
    /\ proof = [r \in Request |-> NoPassword]
    /\ retired = {}
    /\ inFlight = [r \in Request |-> {}]
    /\ replaced = [r \in Request |-> {}]

----------------------------------------------------------------------------
Goto(r, stage) == pc' = [pc EXCEPT ![r] = stage]

\* Mutation of Authenticate: the hash is stored again at every login.
AuthenticateStoring(r, next) ==
    /\ row # NoRow
    /\ proof' = [proof EXCEPT ![r] = row.password]
    /\ copy' = [copy EXCEPT ![r] = [password |-> row.password, fresh |-> TRUE]]
    /\ Goto(r, "rehashing")
    /\ UNCHANGED <<row, live, held, retired, inFlight, replaced>>

\* authenticate() with the stored password, which then may be re-hashed; next
\* is where the request goes on.
Authenticate(r, next) ==
    /\ row # NoRow
    /\ proof' = [proof EXCEPT ![r] = row.password]
    /\ \/ row.fresh /\ Goto(r, next) /\ UNCHANGED copy
       \/ /\ ~row.fresh
          /\ copy' = [copy EXCEPT ![r] = [password |-> row.password, fresh |-> TRUE]]
          /\ Goto(r, "rehashing")
    /\ UNCHANGED <<row, live, held, retired, inFlight, replaced>>

\* The login route up to the check of the password.
Login(r) ==
    /\ pc[r] = "idle"
    /\ Authenticate(r, "opening")

\* The upgraded hash is stored.
Rehash(r) ==
    /\ pc[r] = "rehashing"
    /\ row' = copy[r]
    /\ Goto(r, IF held[r] = NoSession THEN "opening" ELSE "loading")
    /\ UNCHANGED <<live, held, copy, proof, retired, inFlight, replaced>>

\* The login or register request opens its session.
OpenSession(r) ==
    /\ pc[r] = "opening"
    /\ live' = live \cup {[by |-> r, email |-> FALSE, password |-> proof[r]]}
    /\ Goto(r, "done")
    /\ UNCHANGED <<row, held, copy, proof, retired, inFlight, replaced>>

\* The identity signs in with a code sent by email.
OpenByEmail(r) ==
    /\ pc[r] = "idle"
    /\ live' = live \cup {[by |-> r, email |-> TRUE, password |-> NoPassword]}
    /\ Goto(r, "done")
    /\ UNCHANGED <<row, held, copy, proof, retired, inFlight, replaced>>

\* The register route of an identity without a password.
Register(r) ==
    /\ pc[r] = "idle"
    /\ row = NoRow
    /\ Goto(r, "enrolling")
    /\ UNCHANGED <<row, live, held, copy, proof, retired, inFlight, replaced>>

\* enroll() looks for an enrolment and raises PasswordAlreadyEnrolledException.
Enroll(r) ==
    /\ pc[r] = "enrolling"
    /\ row = NoRow
    /\ Goto(r, "inserting")
    /\ UNCHANGED <<row, live, held, copy, proof, retired, inFlight, replaced>>

\* Mutation of Inserted: the enrolment is built before the password is read.
InsertedEmpty(r) ==
    /\ row' = [password |-> proof[r], fresh |-> TRUE]
    /\ proof' = [proof EXCEPT ![r] = r]
    /\ Goto(r, IF held[r] = NoSession THEN "opening" ELSE "revoking")
    /\ UNCHANGED <<live, held, copy, retired, inFlight, replaced>>

\* The row of a first password, and where its request goes on.
Inserted(r) ==
    /\ row' = [password |-> r, fresh |-> TRUE]
    /\ proof' = [proof EXCEPT ![r] = r]
    /\ Goto(r, IF held[r] = NoSession THEN "opening" ELSE "revoking")
    /\ UNCHANGED <<live, held, copy, retired, inFlight, replaced>>

\* Mutation of EnrollInsert: the table has no unique constraint on the identity.
InsertAgain(r) == pc[r] = "inserting" /\ Inserted(r)

\* The insert; the identity is unique in the table.
EnrollInsert(r) == pc[r] = "inserting" /\ row = NoRow /\ Inserted(r)

\* change-password: the session token is accepted.
BeginChange(r) ==
    /\ pc[r] = "idle"
    /\ \E s \in live : held' = [held EXCEPT ![r] = s]
    /\ Goto(r, "looking")
    /\ UNCHANGED <<row, live, copy, proof, retired, inFlight, replaced>>

\* The route looks for an enrolment: the first password needs no other proof,
\* an EMAIL session may leave the current password out.
ChangeLookup(r) ==
    /\ pc[r] = "looking"
    /\ \/ row = NoRow /\ Goto(r, "enrolling")
       \/ row # NoRow /\ Goto(r, "authenticating")
       \/ row # NoRow /\ held[r].email /\ Goto(r, "loading")
    /\ UNCHANGED <<row, live, held, copy, proof, retired, inFlight, replaced>>

ChangeAuthenticate(r) ==
    /\ pc[r] = "authenticating"
    /\ Authenticate(r, "loading")

\* change() loads the enrolment, which nothing ever deletes, and hashes the new
\* password into it.
ChangeLoad(r) ==
    /\ pc[r] = "loading"
    /\ copy' = [copy EXCEPT ![r] = [password |-> r, fresh |-> TRUE]]
    /\ Goto(r, "storing")
    /\ UNCHANGED <<row, live, held, proof, retired, inFlight, replaced>>

\* change() stores it.
ChangeStore(r) ==
    /\ pc[r] = "storing"
    /\ row' = copy[r]
    /\ retired' = retired \cup {row.password}
    /\ proof' = [proof EXCEPT ![r] = r]
    /\ Goto(r, "revoking")
    /\ UNCHANGED <<live, held, copy, inFlight, replaced>>

\* Mutation of RevokeAll: only the session that was presented is revoked.
RevokeOwn(r) ==
    /\ pc[r] = "revoking"
    /\ live' = live \ {held[r]}
    /\ inFlight' = [inFlight EXCEPT ![r] = {q \in Request : pc[q] \in Running}]
    /\ replaced' = [replaced EXCEPT ![r] = retired]
    /\ Goto(r, "renewing")
    /\ UNCHANGED <<row, held, copy, proof, retired>>

\* revoke_all().
RevokeAll(r) ==
    /\ pc[r] = "revoking"
    /\ live' = {}
    /\ inFlight' = [inFlight EXCEPT ![r] = {q \in Request : pc[q] \in Running}]
    /\ replaced' = [replaced EXCEPT ![r] = retired]
    /\ Goto(r, "renewing")
    /\ UNCHANGED <<row, held, copy, proof, retired>>

\* The fresh session, with the AMR of the one presented.
Renew(r) ==
    /\ pc[r] = "renewing"
    /\ live' = live \cup
            {[by |-> r, email |-> held[r].email, password |-> proof[r]]}
    /\ Goto(r, "done")
    /\ UNCHANGED <<row, held, copy, proof, retired, inFlight, replaced>>

\* A wrong password, an enrolment that exists already, a failing store call, or
\* another factor that is due: the request ends where it stands.
Abandon(r) ==
    /\ pc[r] \in {"idle"} \cup Running
    /\ Goto(r, "raised")
    /\ UNCHANGED <<row, live, held, copy, proof, retired, inFlight, replaced>>

\* The logout route, whose own steps are those of module Session.
Logout ==
    /\ \E s \in live : live' = live \ {s}
    /\ UNCHANGED <<row, pc, held, copy, proof, retired, inFlight, replaced>>

Handle(r) ==
    \/ Login(r)
    \/ Rehash(r)
    \/ OpenSession(r)
    \/ OpenByEmail(r)
    \/ Register(r)
    \/ Enroll(r)
    \/ EnrollInsert(r)
    \/ BeginChange(r)
    \/ ChangeLookup(r)
    \/ ChangeAuthenticate(r)
    \/ ChangeLoad(r)
    \/ ChangeStore(r)
    \/ RevokeAll(r)
    \/ Renew(r)
    \/ Abandon(r)

Next == (\E r \in Request : Handle(r)) \/ Logout

Spec == Init /\ [][Next]_vars

----------------------------------------------------------------------------
(* Properties *)

\* Every variable has the type the code gives it.
TypeOK ==
    /\ row \in Enrollment \cup {NoRow}
    /\ live \subseteq Session
    /\ pc \in [Request -> Stage]
    /\ held \in [Request -> Session \cup {NoSession}]
    /\ copy \in [Request -> Enrollment \cup {NoRow}]
    /\ proof \in [Request -> Password \cup {NoPassword}]
    /\ retired \subseteq Password
    /\ inFlight \in [Request -> SUBSET Request]
    /\ replaced \in [Request -> SUBSET Password]

\* A replaced password never comes back, though logins and changes store the
\* copies they hold in any order, unless its hash was outdated when an
\* overlapping request loaded it (authenticate, change).
RetiredStaysRetired ==
    row # NoRow => row.password \notin retired \ {Outdated}

\* Once a change has revoked the sessions, a session that rests on a password
\* replaced by then was opened by a request that was under way at that moment;
\* none is opened later, or was left behind (change-password, login).
SurvivorsOverlapped ==
    \A r \in Request, s \in live :
        s.password \in replaced[r] \ {Outdated} => s.by \in inFlight[r]

\* Of several requests that set the first password of an identity at once, one
\* succeeds, and the others open no session with theirs: every session rests on
\* the stored password or on one that a change has replaced, unless an upgrade of
\* the outdated hash has undone a change (register, enroll, and the unique
\* constraint of the table).
SessionsRestOnStored ==
    \A s \in live : s.password # NoPassword =>
        /\ row # NoRow
        /\ s.password \in {row.password} \cup retired \/ Outdated \in retired

\* "it is transparently re-hashed": the upgrade of an outdated hash never
\* changes which password is stored (authenticate).
RehashIsTransparent ==
    [][\A r \in Request :
        pc[r] = "rehashing" /\ pc'[r] \notin {"rehashing", "raised"} =>
            row'.password = row.password]_vars
=============================================================================
