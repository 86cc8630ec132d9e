----------------------- MODULE AuthenticationSession -----------------------
(***************************************************************************)
(* The pre-login authentication session of aegistry: the service in        *)
(* src/aegistry/authentication_session.py, driven as the routers drive it  *)
(* (contrib/fastapi/flow.py), on the SQL store of contrib/sqlalchemy.      *)
(*                                                                         *)
(* Concurrent requests are processes.  Every awaited store call is one     *)
(* atomic step, and everything a request computes between two awaits is    *)
(* part of the step of the await that follows or precedes it.  A request   *)
(* works on a copy of the row it loaded; updates and deletes go by id and  *)
(* touch no row when the row is gone.                                      *)
(***************************************************************************)
EXTENDS Naturals, Sequences

CONSTANTS
    Request,      \* HTTP requests, each served once
    Id,           \* ids (and tokens) of authentication sessions
    Identity,     \* identities of the application
    NoIdentity,   \* the None of AuthenticationSession.identity_id
    NoRow,        \* no row, or no session object
    NoProof,      \* no factor presented yet
    Factor,       \* factor services configured on the service
    Enrollments,  \* the enrolments the identities may have to begin with
    AMR,          \* authentication method references
    FactorStep,   \* factor.step of each factor
    FactorAMR,    \* factor.AMR of each factor
    Lifetime,     \* lifetime of an authentication session
    MaxClock,     \* bound on the clock
    MaxChanges    \* bound on the number of enrolment changes

ASSUME FactorAssumption ==
    /\ FactorStep \in [Factor -> Nat]
    /\ FactorAMR \in [Factor -> AMR]
ASSUME EnrollmentAssumption == Enrollments \subseteq [Identity -> SUBSET Factor]
ASSUME BoundAssumption == {Lifetime, MaxClock, MaxChanges} \subseteq Nat

VARIABLES
    now,       \* get_current_timestamp()
    rows,      \* the authentication session table
    issued,    \* ids handed out so far (the database never reuses one)
    enrolled,  \* the factors each identity is enrolled in
    changes,   \* how often an enrolment has changed
    sessions,  \* post-login sessions opened, with the request that did it
    pc,        \* where each request stands
    snap,      \* the session object each request holds in memory
    claim,     \* the factor a request has verified, and for whom; kept as
               \* the record of it when the request is over
    pending,   \* candidates get_available_factors has not looked at yet
    avail,     \* the set get_available_factors is building
    steady     \* history: factors enrolled since the running check began

requestVars == <<pc, snap, claim, pending, avail, steady>>
enrolVars == <<enrolled, changes>>
vars == <<now, rows, issued, enrolVars, sessions, requestVars>>

----------------------------------------------------------------------------
(* Data *)

AuthSession ==
    [id: Id, identity: Identity \cup {NoIdentity}, step: Nat,
     amr: Seq(AMR), used: Seq(Factor), expires: Nat]

Proof == [id: Id, factor: Factor, identity: Identity]

ASSUME NoneAssumption ==
    NoIdentity \notin Identity /\ NoRow \notin AuthSession /\ NoProof \notin Proof

Elements(seq) == {seq[k] : k \in DOMAIN seq}

IsExpired(s) == now >= s.expires

FreshSession(id) ==
    [id |-> id, identity |-> NoIdentity, step |-> 0,
     amr |-> <<>>, used |-> <<>>, expires |-> now + Lifetime]

\* Mutation of Candidates: the step of the factor is not compared.
CandidatesOfAnyStep(s) == {f \in Factor : FactorAMR[f] \notin Elements(s.amr)}

\* The factors that pass the two synchronous tests of get_available_factors.
Candidates(s) ==
    {f \in Factor : FactorAMR[f] \notin Elements(s.amr) /\ FactorStep[f] = s.step}

\* Mutation of Advanced: the factor's name goes where its AMR belongs.
AdvancedWithName(s, p) ==
    [s EXCEPT !.identity = p.identity, !.amr = Append(@, p.factor),
              !.used = Append(@, p.factor), !.step = @ + 1]

\* Mutation of Advanced: the AMR list starts over at every factor.
AdvancedForgettingAMR(s, p) ==
    [s EXCEPT !.identity = p.identity, !.amr = <<FactorAMR[p.factor]>>,
              !.used = Append(@, p.factor), !.step = @ + 1]

\* The session object after advance has recorded a verified factor in it.
Advanced(s, p) ==
    [s EXCEPT !.identity = p.identity,
              !.amr = Append(@, FactorAMR[p.factor]),
              !.used = Append(@, p.factor),
              !.step = @ + 1]

Running == {"advancing", "completing", "deleted"}
Finished == {"raised", "remaining", "completed"}
Stage == {"idle", "held"} \cup Running \cup Finished

----------------------------------------------------------------------------
Init ==
    /\ now = 0
    /\ rows = [id \in Id |-> NoRow]
    /\ issued = {}
    /\ enrolled \in Enrollments
    /\ changes = 0
    /\ sessions = {}
    /\ pc = [r \in Request |-> "idle"]
    /\ snap = [r \in Request |-> NoRow]
    /\ claim = [r \in Request |-> NoProof]
    /\ pending = [r \in Request |-> {}]
    /\ avail = [r \in Request |-> {}]
    /\ steady = [r \in Request |-> {}]

\* The handler returns: what it held in memory is gone, and a factor that was
\* verified but not recorded in the session counts for nothing.
Answer(r, outcome) ==
    /\ pc' = [pc EXCEPT ![r] = outcome]
    /\ snap' = [snap EXCEPT ![r] = NoRow]
    /\ claim' = [claim EXCEPT ![r] = IF pc[r] = "advancing" THEN NoProof ELSE @]
    /\ pending' = [pending EXCEPT ![r] = {}]
    /\ avail' = [avail EXCEPT ![r] = {}]
    /\ steady' = [steady EXCEPT ![r] = {}]

\* start(): insert a fresh row and keep the object.
Start(r) ==
    /\ pc[r] = "idle"
    /\ \E id \in Id \ issued :
        /\ issued' = issued \cup {id}
        /\ rows' = [rows EXCEPT ![id] = FreshSession(id)]
        /\ snap' = [snap EXCEPT ![r] = FreshSession(id)]
    /\ pc' = [pc EXCEPT ![r] = "held"]
    /\ UNCHANGED <<now, enrolVars, sessions, claim, pending, avail, steady>>

\* get_by_token() of a live, unexpired row.
GetByToken(r) ==
    /\ pc[r] = "idle"
    /\ \E id \in Id :
        /\ rows[id] # NoRow
        /\ ~IsExpired(rows[id])
        /\ snap' = [snap EXCEPT ![r] = rows[id]]
    /\ pc' = [pc EXCEPT ![r] = "held"]
    /\ UNCHANGED <<now, rows, issued, enrolVars, sessions, claim, pending,
                   avail, steady>>

\* get_by_token() raising InvalidSessionTokenException or ExpiredSessionException.
GetByTokenFails(r) ==
    /\ pc[r] = "idle"
    /\ \E id \in Id :
        \/ rows[id] = NoRow /\ Answer(r, "raised")
        \/ rows[id] # NoRow /\ IsExpired(rows[id]) /\ Answer(r, "raised")
    /\ UNCHANGED <<now, rows, issued, enrolVars, sessions>>

\* The OAuth2 callback without a cookie takes the session of its state by its
\* hash, expired or not.
GetByTokenHash(r) ==
    /\ pc[r] = "idle"
    /\ \E id \in Id :
        /\ rows[id] # NoRow
        /\ snap' = [snap EXCEPT ![r] = rows[id]]
    /\ pc' = [pc EXCEPT ![r] = "held"]
    /\ UNCHANGED <<now, rows, issued, enrolVars, sessions, claim, pending,
                   avail, steady>>

\* Entering get_available_factors(s): without an identity every candidate is
\* available at once, with one each candidate waits for its get_enrollment.
BeginCheck(r, s) ==
    IF s.identity = NoIdentity
    THEN /\ pending' = [pending EXCEPT ![r] = {}]
         /\ avail' = [avail EXCEPT ![r] = Candidates(s)]
         /\ steady' = [steady EXCEPT ![r] = {}]
    ELSE /\ pending' = [pending EXCEPT ![r] = Candidates(s)]
         /\ avail' = [avail EXCEPT ![r] = {}]
         /\ steady' = [steady EXCEPT ![r] = enrolled[s.identity]]

\* The caller has verified a factor for an identity and calls advance().
BeginAdvance(r) ==
    /\ pc[r] = "held"
    /\ \E f \in Factor, i \in Identity :
        claim' = [claim EXCEPT ![r] =
                    [id |-> snap[r].id, factor |-> f, identity |-> i]]
    /\ BeginCheck(r, snap[r])
    /\ pc' = [pc EXCEPT ![r] = "advancing"]
    /\ UNCHANGED <<now, rows, issued, enrolVars, sessions, snap>>

\* One turn of the loop of get_available_factors: await factor.get_enrollment.
CheckEnrollment(r) ==
    /\ pc[r] \in {"advancing", "completing"}
    /\ \E f \in pending[r] :
        /\ pending' = [pending EXCEPT ![r] = @ \ {f}]
        /\ avail' = [avail EXCEPT ![r] =
                        IF f \in enrolled[snap[r].identity] THEN @ \cup {f} ELSE @]
    /\ UNCHANGED <<now, rows, issued, enrolVars, sessions, pc, snap, claim,
                   steady>>

\* advance() with a factor that is not available.
AdvanceUnavailable(r) ==
    /\ pc[r] = "advancing"
    /\ pending[r] = {}
    /\ claim[r].factor \notin avail[r]
    /\ Answer(r, "raised")
    /\ UNCHANGED <<now, rows, issued, enrolVars, sessions>>

\* Mutation of StoreUpdate: an upsert, as a key-value store would do it.
StoreUpsert(s) == [rows EXCEPT ![s.id] = s]

\* The UPDATE ... WHERE id of the store: no row, nothing to update.
StoreUpdate(s) ==
    IF rows[s.id] = NoRow THEN rows ELSE [rows EXCEPT ![s.id] = s]

\* advance() records the factor and stores it; the flow then calls complete().
AdvanceUpdate(r) ==
    /\ pc[r] = "advancing"
    /\ pending[r] = {}
    /\ claim[r].factor \in avail[r]
    /\ LET s == Advanced(snap[r], claim[r])
       IN  /\ snap' = [snap EXCEPT ![r] = s]
           /\ rows' = StoreUpdate(s)
           /\ BeginCheck(r, s)
    /\ pc' = [pc EXCEPT ![r] = "completing"]
    /\ UNCHANGED <<now, issued, enrolVars, sessions, claim>>

\* complete() called on a session as it was loaded or started.
BeginComplete(r) ==
    /\ pc[r] = "held"
    /\ snap[r].identity # NoIdentity
    /\ BeginCheck(r, snap[r])
    /\ pc' = [pc EXCEPT ![r] = "completing"]
    /\ UNCHANGED <<now, rows, issued, enrolVars, sessions, snap, claim>>

\* complete() raising IdentityNotAttachedException.
CompleteWithoutIdentity(r) ==
    /\ pc[r] = "held"
    /\ snap[r].identity = NoIdentity
    /\ Answer(r, "raised")
    /\ UNCHANGED <<now, rows, issued, enrolVars, sessions>>

\* complete() raising FactorsRemainingException: the row stays for the next factor.
FactorsRemaining(r) ==
    /\ pc[r] = "completing"
    /\ pending[r] = {}
    /\ avail[r] # {}
    /\ Answer(r, "remaining")
    /\ UNCHANGED <<now, rows, issued, enrolVars, sessions>>

\* Mutation of CompleteDelete: the remaining factors are not looked at.
CompleteUnchecked(r) ==
    /\ pc[r] = "completing"
    /\ pending[r] = {}
    /\ rows' = [rows EXCEPT ![snap[r].id] = NoRow]
    /\ pc' = [pc EXCEPT ![r] = "deleted"]
    /\ UNCHANGED <<now, issued, enrolVars, sessions, snap, claim, pending,
                   avail, steady>>

\* Mutation of CompleteDelete: the row is left behind.
CompleteKeepingRow(r) ==
    /\ pc[r] = "completing"
    /\ pending[r] = {}
    /\ avail[r] = {}
    /\ pc' = [pc EXCEPT ![r] = "deleted"]
    /\ UNCHANGED <<now, rows, issued, enrolVars, sessions, snap, claim, pending,
                   avail, steady>>

\* complete() deletes the row.
CompleteDelete(r) ==
    /\ pc[r] = "completing"
    /\ pending[r] = {}
    /\ avail[r] = {}
    /\ rows' = [rows EXCEPT ![snap[r].id] = NoRow]
    /\ pc' = [pc EXCEPT ![r] = "deleted"]
    /\ UNCHANGED <<now, issued, enrolVars, sessions, snap, claim, pending,
                   avail, steady>>

\* The flow opens the post-login session with what complete() returned.
CreateSession(r) ==
    /\ pc[r] = "deleted"
    /\ sessions' = sessions \cup
          {[request |-> r, identity |-> snap[r].identity, amr |-> snap[r].amr]}
    /\ pc' = [pc EXCEPT ![r] = "completed"]
    /\ UNCHANGED <<now, rows, issued, enrolVars, snap, claim, pending, avail, steady>>

\* A store call of a running request fails, or the client goes away.
Fail(r) ==
    /\ pc[r] \in Running
    /\ Answer(r, "raised")
    /\ UNCHANGED <<now, rows, issued, enrolVars, sessions>>

\* Elsewhere in the application an identity enrols in a factor, or leaves it.
Enroll(i, f) ==
    /\ changes < MaxChanges
    /\ f \notin enrolled[i]
    /\ changes' = changes + 1
    /\ enrolled' = [enrolled EXCEPT ![i] = @ \cup {f}]
    /\ UNCHANGED <<now, rows, issued, sessions, requestVars>>

Disenroll(i, f) ==
    /\ changes < MaxChanges
    /\ f \in enrolled[i]
    /\ changes' = changes + 1
    /\ enrolled' = [enrolled EXCEPT ![i] = @ \ {f}]
    /\ steady' = [r \in Request |->
                    IF snap[r] # NoRow /\ snap[r].identity = i
                    THEN steady[r] \ {f} ELSE steady[r]]
    /\ UNCHANGED <<now, rows, issued, sessions, pc, snap, claim, pending,
                   avail>>

Tick ==
    /\ now < MaxClock
    /\ now' = now + 1
    /\ UNCHANGED <<rows, issued, enrolVars, sessions, requestVars>>

----------------------------------------------------------------------------
Handle(r) ==
    \/ Start(r)
    \/ GetByToken(r)
    \/ GetByTokenFails(r)
    \/ GetByTokenHash(r)
    \/ BeginAdvance(r)
    \/ CheckEnrollment(r)
    \/ AdvanceUnavailable(r)
    \/ AdvanceUpdate(r)
    \/ BeginComplete(r)
    \/ CompleteWithoutIdentity(r)
    \/ FactorsRemaining(r)
    \/ CompleteDelete(r)
    \/ CreateSession(r)
    \/ Fail(r)

Next ==
    \/ \E r \in Request : Handle(r)
    \/ \E i \in Identity, f \in Factor : Enroll(i, f) \/ Disenroll(i, f)
    \/ Tick

Spec == Init /\ [][Next]_vars

----------------------------------------------------------------------------
(* Properties *)

\* Every variable has the type the code gives it.
TypeOK ==
    /\ now \in Nat
    /\ rows \in [Id -> AuthSession \cup {NoRow}]
    /\ issued \subseteq Id
    /\ enrolled \in [Identity -> SUBSET Factor]
    /\ changes \in Nat
    /\ sessions \subseteq [request: Request, identity: Identity, amr: Seq(AMR)]
    /\ pc \in [Request -> Stage]
    /\ snap \in [Request -> AuthSession \cup {NoRow}]
    /\ claim \in [Request -> Proof \cup {NoProof}]
    /\ pending \in [Request -> SUBSET Factor]
    /\ avail \in [Request -> SUBSET Factor]
    /\ steady \in [Request -> SUBSET Factor]

\* A session object is a ladder: one factor per step, in the order of the
\* steps, each with its own AMR, and an identity as soon as one factor is in.
Ladder(s) ==
    /\ s.step = Len(s.used)
    /\ Len(s.amr) = Len(s.used)
    /\ \A k \in 1..Len(s.used) :
        /\ FactorStep[s.used[k]] = k - 1
        /\ s.amr[k] = FactorAMR[s.used[k]]
    /\ \A k, l \in 1..Len(s.used) : s.amr[k] = s.amr[l] => k = l
    /\ (s.identity = NoIdentity) <=> (s.used = <<>>)

\* However many requests advance the same authentication session from their
\* own copies, and whichever update wins, the table and every copy hold
\* complete ladders: no step is skipped, done twice or done with a method
\* already used (get_available_factors and advance).
StepsInOrder ==
    /\ \A id \in Id : rows[id] # NoRow => Ladder(rows[id])
    /\ \A r \in Request : snap[r] # NoRow => Ladder(snap[r])

\* A post-login session reports exactly the methods of factors that were each
\* verified within that authentication session, and belongs to the identity
\* of the last one (advance, complete and advance_and_complete).
SessionsAreBacked ==
    \A s \in sessions :
        LET a == snap[s.request]
        IN  /\ a # NoRow
            /\ s.amr # <<>>
            /\ Len(s.amr) = Len(a.used)
            /\ \A k \in 1..Len(s.amr) :
                \E r \in Request :
                    /\ claim[r] # NoProof
                    /\ claim[r].id = a.id
                    /\ FactorAMR[claim[r].factor] = s.amr[k]
                    /\ FactorStep[claim[r].factor] = k - 1
                    /\ k = Len(s.amr) => claim[r].identity = s.identity

\* Login completes only when no required factor remains: a factor of the step
\* the session has reached, with a fresh method, that its identity was
\* enrolled in all through the check of complete() is never passed over,
\* whatever enrolments change meanwhile.
NoFactorPassedOver ==
    \A r \in Request :
        pc[r] = "deleted" => Candidates(snap[r]) \cap steady[r] = {}

\* A request that opened a post-login session leaves no authentication
\* session behind that could be continued, even when another request was
\* still advancing it (complete deletes, update never inserts).
CompletedIsGone ==
    \A s \in sessions : snap[s.request] # NoRow /\ rows[snap[s.request].id] = NoRow

\* The life of each id, seen from outside.
Status == [id \in Id |->
    IF rows[id] # NoRow THEN "live" ELSE IF id \in issued THEN "gone" ELSE "unissued"]

Lifecycle == INSTANCE TokenLifecycle WITH status <- Status

\* The table implements the token life cycle: however updates from stale copies
\* interleave with completions, a deleted authentication session never comes
\* back and no id is used twice (start, update, delete).
ImplementsLifecycle == Lifecycle!Spec
=============================================================================
