------------------------------- MODULE Session -------------------------------
(***************************************************************************)
(* Post-login sessions with sliding expiration: the service in             *)
(* src/aegistry/session.py on the SQL store of contrib/sqlalchemy, driven  *)
(* by the requests of the FastAPI routers: logging in, presenting a token, *)
(* logging out, and the revoke-all that ends a password change.            *)
(*                                                                         *)
(* Each awaited store call is one step.  get_by_token reads the row, and   *)
(* the row with its new expiry is written back in a later step.            *)
(***************************************************************************)
EXTENDS Integers

CONSTANTS
    Request,    \* HTTP requests, each served once
    Id,         \* ids (and tokens) of sessions
    Identity,   \* identities of the application
    NoIdentity, \* the owner of an id that has not been issued
    NoRow,      \* no row, or no session object
    Lifetime,   \* session lifetime in clock units
    Sliding,    \* the sliding option of the service
    MaxDelay,   \* longest time a write may take to reach the store
    MaxClock    \* bound on the clock

ASSUME TimeAssumption ==
    /\ {Lifetime, MaxDelay, MaxClock} \subseteq Nat
    /\ 2 * MaxDelay <= Lifetime
ASSUME SlidingAssumption == Sliding \in BOOLEAN

VARIABLES
    now,     \* get_current_timestamp()
    rows,    \* the session table
    owner,   \* the identity each issued id was issued to
    pc,      \* where each request stands
    snap,    \* the session object each request holds in memory
    seen,    \* when the request's token was accepted
    used,    \* history: when each session was created or last accepted
    revoked  \* history: ids whose revocation has been carried out

requestVars == <<pc, snap, seen>>
vars == <<now, rows, owner, requestVars, used, revoked>>

SessionRow == [id: Id, identity: Identity, expires: Nat]

ASSUME NoneAssumption == NoIdentity \notin Identity /\ NoRow \notin SessionRow

Stage == {"idle", "sliding", "held", "renewing", "done", "raised"}

IsExpired(s) == now >= s.expires

\* Mutation of PastHalfLife: the comparison is turned round.
BeforeHalfLife(s) == 2 * (s.expires - now) > Lifetime

\* remaining < lifetime_seconds / 2, a true division.
PastHalfLife(s) == 2 * (s.expires - now) < Lifetime

\* Mutation of Extended: the lifetime is subtracted.
Shortened(s) == [s EXCEPT !.expires = now - Lifetime]

Extended(s) == [s EXCEPT !.expires = now + Lifetime]

----------------------------------------------------------------------------
Init ==
    /\ now = 0
    /\ rows = [id \in Id |-> NoRow]
    /\ owner = [id \in Id |-> NoIdentity]
    /\ pc = [r \in Request |-> "idle"]
    /\ snap = [r \in Request |-> NoRow]
    /\ seen = [r \in Request |-> 0]
    /\ used = [id \in Id |-> 0]
    /\ revoked = {}

\* create(): insert a row for an identity under an id never used before.
Insert(i) ==
    \E id \in Id :
        /\ owner[id] = NoIdentity
        /\ owner' = [owner EXCEPT ![id] = i]
        /\ rows' = [rows EXCEPT ![id] =
                        [id |-> id, identity |-> i, expires |-> now + Lifetime]]
        /\ used' = [used EXCEPT ![id] = now]

\* A login opens a session.
Create(r) ==
    /\ pc[r] = "idle"
    /\ \E i \in Identity : Insert(i)
    /\ pc' = [pc EXCEPT ![r] = "done"]
    /\ UNCHANGED <<now, snap, seen, revoked>>

\* get_by_token() up to its first or only store call.
GetByToken(r) ==
    /\ pc[r] = "idle"
    /\ \E id \in Id :
        /\ rows[id] # NoRow
        /\ ~IsExpired(rows[id])
        /\ used' = [used EXCEPT ![id] = now]
        /\ \/ /\ Sliding /\ PastHalfLife(rows[id])
              /\ snap' = [snap EXCEPT ![r] = Extended(rows[id])]
              /\ pc' = [pc EXCEPT ![r] = "sliding"]
           \/ /\ ~(Sliding /\ PastHalfLife(rows[id]))
              /\ snap' = [snap EXCEPT ![r] = rows[id]]
              /\ pc' = [pc EXCEPT ![r] = "held"]
    /\ seen' = [seen EXCEPT ![r] = now]
    /\ UNCHANGED <<now, rows, owner, revoked>>

\* get_by_token() of an unknown or an expired token.
GetByTokenFails(r) ==
    /\ pc[r] = "idle"
    /\ \E id \in Id : \/ rows[id] = NoRow
                      \/ rows[id] # NoRow /\ IsExpired(rows[id])
    /\ pc' = [pc EXCEPT ![r] = "raised"]
    /\ UNCHANGED <<now, rows, owner, snap, seen, used, revoked>>

\* Mutation of StoreUpdate: an upsert, as a key-value store would do it.
StoreUpsert(s) == [rows EXCEPT ![s.id] = s]

\* The UPDATE ... WHERE id of the store.
StoreUpdate(s) ==
    IF rows[s.id] = NoRow THEN rows ELSE [rows EXCEPT ![s.id] = s]

\* Mutation of Slide: the expiry is computed when the row is written.
SlideLate(r) ==
    /\ pc[r] = "sliding"
    /\ rows' = StoreUpdate([snap[r] EXCEPT !.expires = now + Lifetime])
    /\ pc' = [pc EXCEPT ![r] = "held"]
    /\ UNCHANGED <<now, owner, snap, seen, used, revoked>>

\* The extended row reaches the store.
Slide(r) ==
    /\ pc[r] = "sliding"
    /\ rows' = StoreUpdate(snap[r])
    /\ pc' = [pc EXCEPT ![r] = "held"]
    /\ UNCHANGED <<now, owner, snap, seen, used, revoked>>

\* revoke(), the logout route.
Revoke(r) ==
    /\ pc[r] = "held"
    /\ rows' = [rows EXCEPT ![snap[r].id] = NoRow]
    /\ revoked' = revoked \cup {snap[r].id}
    /\ pc' = [pc EXCEPT ![r] = "done"]
    /\ UNCHANGED <<now, owner, snap, seen, used>>

\* Mutation of DeleteByIdentity: an identity's oldest row is taken for all of them.
DeleteOneOfIdentity(i) ==
    LET mine == {id \in Id : rows[id] # NoRow /\ rows[id].identity = i}
    IN  IF mine = {} THEN rows ELSE [rows EXCEPT ![CHOOSE id \in mine : TRUE] = NoRow]

\* The DELETE ... WHERE identity_id of the store.
DeleteByIdentity(i) ==
    [id \in Id |->
        IF rows[id] # NoRow /\ rows[id].identity = i THEN NoRow ELSE rows[id]]

\* revoke_all(), after the password has been changed.
RevokeAll(r) ==
    /\ pc[r] = "held"
    /\ rows' = DeleteByIdentity(snap[r].identity)
    /\ revoked' = revoked \cup {id \in Id : owner[id] = snap[r].identity}
    /\ pc' = [pc EXCEPT ![r] = "renewing"]
    /\ UNCHANGED <<now, owner, snap, seen, used>>

\* The fresh session that keeps the user signed in.
Renew(r) ==
    /\ pc[r] = "renewing"
    /\ Insert(snap[r].identity)
    /\ pc' = [pc EXCEPT ![r] = "done"]
    /\ UNCHANGED <<now, snap, seen, revoked>>

\* A store call fails, or the client goes away.
Fail(r) ==
    /\ pc[r] \in {"sliding", "renewing"}
    /\ pc' = [pc EXCEPT ![r] = "raised"]
    /\ UNCHANGED <<now, rows, owner, snap, seen, used, revoked>>

\* Time passes, but no write is under way for longer than MaxDelay.
Tick ==
    /\ now < MaxClock
    /\ \A r \in Request : pc[r] = "sliding" => now < seen[r] + MaxDelay
    /\ now' = now + 1
    /\ UNCHANGED <<rows, owner, requestVars, used, revoked>>

Handle(r) ==
    \/ Create(r)
    \/ GetByToken(r)
    \/ GetByTokenFails(r)
    \/ Slide(r)
    \/ Revoke(r)
    \/ RevokeAll(r)
    \/ Renew(r)
    \/ Fail(r)

Next == (\E r \in Request : Handle(r)) \/ Tick

Spec == Init /\ [][Next]_vars

----------------------------------------------------------------------------
(* Properties *)

\* Every variable has the type the code gives it.
TypeOK ==
    /\ now \in Nat
    /\ rows \in [Id -> SessionRow \cup {NoRow}]
    /\ owner \in [Id -> Identity \cup {NoIdentity}]
    /\ pc \in [Request -> Stage]
    /\ snap \in [Request -> SessionRow \cup {NoRow}]
    /\ seen \in [Request -> Nat]
    /\ used \in [Id -> Nat]
    /\ revoked \subseteq Id

\* A sliding session in use does not run out: once a request whose token was
\* accepted at time t has been served, the session has at least half a lifetime
\* left from t, also when the write of an earlier request lands after it
\* (get_by_token extends a session past half its lifetime).
KeptAlive ==
    Sliding => \A r \in Request :
        /\ pc[r] \in {"held", "renewing"}
        /\ rows[snap[r].id] # NoRow
        => 2 * rows[snap[r].id].expires >= 2 * seen[r] + Lifetime

\* An unused session runs out on time: nothing in flight gives a session more
\* than one lifetime from the last time its token was accepted.
UnusedExpires ==
    \A id \in Id : rows[id] # NoRow => rows[id].expires <= used[id] + Lifetime

\* A revoked session is gone for good, and a revoke-all takes every session of
\* the identity with it, though extensions of them may be under way (revoke,
\* revoke_all, update).
RevokedIsGone ==
    \A id \in revoked : rows[id] = NoRow

\* The life of each id, seen from outside.
Status == [id \in Id |->
    IF rows[id] # NoRow THEN "live"
    ELSE IF owner[id] # NoIdentity THEN "gone" ELSE "unissued"]

Lifecycle == INSTANCE TokenLifecycle WITH status <- Status

\* The session table implements the token life cycle: no extension written
\* late brings a session back, and no id is used twice (create, get_by_token,
\* revoke, revoke_all).
ImplementsLifecycle == Lifecycle!Spec
=============================================================================
