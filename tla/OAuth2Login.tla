----------------------------- MODULE OAuth2Login -----------------------------
(***************************************************************************)
(* The OAuth2 factor (src/aegistry/factors/oauth2/base.py), its states     *)
(* (state.py) and the part of the routes that resolves the identity of an  *)
(* account (contrib/fastapi/oauth2.py), for one provider.                  *)
(*                                                                         *)
(* Requests are processes, each awaited call a step.  The provider is the  *)
(* environment: an exchange yields some account, or fails.  Tokens, scopes *)
(* and PKCE values are carried along unread.  A callback is done where it  *)
(* has an identity and hands over to advance_and_complete (module          *)
(* AuthenticationSession).                                                 *)
(***************************************************************************)
EXTENDS Integers

CONSTANTS
    Request,   \* HTTP requests, each served once
    State,     \* ids of states
    Link,      \* ids of enrolments
    Account,   \* accounts at the provider
    Identity,  \* identities of the application
    Owner,     \* the identity of the email address of each account
    Existing,  \* the identities that exist to begin with
    None,      \* None
    Lifetime,  \* lifetime of a state
    MaxClock   \* bound on the clock

ASSUME OwnerAssumption == Owner \in [Account -> Identity] /\ Existing \subseteq Identity
ASSUME TimeAssumption == {Lifetime, MaxClock} \subseteq Nat

VARIABLES
    now,      \* get_current_timestamp()
    rows,     \* the table of states
    issued,   \* ids of states handed out so far
    enrolled, \* the enrolments, by account, which is unique
    made,     \* ids of enrolments handed out so far
    existing, \* the identities the application has
    pc,       \* where each request stands
    held,     \* the state a request has loaded
    account,  \* the account the provider has told it
    who,      \* the enrolment a request has loaded or inserted, or is about to
    owners    \* history: the identities an account has been enrolled for

stateVars == <<rows, issued>>
linkVars == <<enrolled, made, existing, owners>>
vars == <<now, stateVars, linkVars, pc, held, account, who>>

\* identity: the one an application starts the flow for, to add an account.
OAuth2State == [id: State, identity: Identity \cup {None}, expires: Nat]

\* id is None until the enrolment is inserted.
OAuth2Enrollment == [id: Link \cup {None}, identity: Identity]

ASSUME NoneAssumption ==
    None \notin OAuth2State \cup State \cup OAuth2Enrollment \cup Link
                    \cup Identity \cup Account

Running == {"exchanging", "resolving", "updating", "signing", "inserting"}
Consumed == {"done", "failed"} \cup Running
Stage == {"idle", "started", "consuming", "raised"} \cup Consumed

IsExpired(s) == s.expires <= now

Init ==
    /\ now = 0
    /\ rows = [id \in State |-> None]
    /\ issued = {}
    /\ enrolled = [a \in Account |-> None]
    /\ made = {}
    /\ existing = Existing
    /\ pc = [r \in Request |-> "idle"]
    /\ held = [r \in Request |-> None]
    /\ account = [r \in Request |-> None]
    /\ who = [r \in Request |-> None]
    /\ owners = [a \in Account |-> {}]

Goto(r, stage) == pc' = [pc EXCEPT ![r] = stage]

----------------------------------------------------------------------------
(* The state service *)

\* The state that create() inserts.
Created(id, i) == [id |-> id, identity |-> i, expires |-> now + Lifetime]

\* start() creates a state, for an identity or for whoever comes back.
Start(r) ==
    /\ pc[r] = "idle"
    /\ \E id \in State \ issued, i \in existing \cup {None} :
        /\ rows' = [rows EXCEPT ![id] = Created(id, i)]
        /\ issued' = issued \cup {id}
    /\ Goto(r, "started")
    /\ UNCHANGED <<now, linkVars, held, account, who>>

\* consume() loads the state.
ConsumeLoad(r) ==
    /\ pc[r] = "idle"
    /\ \E id \in State :
        /\ rows[id] # None
        /\ ~IsExpired(rows[id])
        /\ held' = [held EXCEPT ![r] = rows[id]]
    /\ Goto(r, "consuming")
    /\ UNCHANGED <<now, stateVars, linkVars, account, who>>

\* Mutation of ConsumeDelete: the row stays until it expires.
ConsumeKeep(r) ==
    /\ pc[r] = "consuming"
    /\ Goto(r, "exchanging")
    /\ UNCHANGED <<now, stateVars, linkVars, held, account, who>>

\* consume() deletes it.
ConsumeDelete(r) ==
    /\ pc[r] = "consuming"
    /\ rows' = [rows EXCEPT ![held[r].id] = None]
    /\ Goto(r, "exchanging")
    /\ UNCHANGED <<now, issued, linkVars, held, account, who>>

----------------------------------------------------------------------------
(* The rest of callback(), and the new accounts of the route *)

\* exchange_code()
Exchange(r) ==
    /\ pc[r] = "exchanging"
    /\ \E a \in Account : account' = [account EXCEPT ![r] = a]
    /\ Goto(r, "resolving")
    /\ UNCHANGED <<now, stateVars, linkVars, held, who>>

\* Mutation of Mismatch: the identity of the flow is not compared.
MismatchNever(s, e) == FALSE

\* The flow was started for another identity than the account's.
Mismatch(s, e) == s.identity # None /\ s.identity # e.identity

\* The account is enrolled: its identity counts, its tokens are updated.
ResolveEnrolled(r) ==
    /\ pc[r] = "resolving"
    /\ LET e == enrolled[account[r]]
       IN  /\ e # None
           /\ ~Mismatch(held[r], e)
           /\ who' = [who EXCEPT ![r] = e]
    /\ Goto(r, "updating")
    /\ UNCHANGED <<now, stateVars, linkVars, held, account>>

\* It is not, and is to be added to the identity of the flow.
ResolveAssociate(r) ==
    /\ pc[r] = "resolving"
    /\ enrolled[account[r]] = None
    /\ held[r].identity # None
    /\ who' = [who EXCEPT ![r] = [id |-> None, identity |-> held[r].identity]]
    /\ Goto(r, "inserting")
    /\ UNCHANGED <<now, stateVars, linkVars, held, account>>

\* Mutation of ResolveNew: the account is enrolled for nobody.
ResolveNobody(r) ==
    /\ pc[r] = "resolving"
    /\ enrolled[account[r]] = None
    /\ who' = [who EXCEPT ![r] = [id |-> None, identity |-> held[r].identity]]
    /\ Goto(r, "inserting")
    /\ UNCHANGED <<now, stateVars, linkVars, held, account>>

\* It is not, and somebody new may be signing up.
ResolveNew(r) ==
    /\ pc[r] = "resolving"
    /\ enrolled[account[r]] = None
    /\ held[r].identity = None
    /\ Goto(r, "signing")
    /\ UNCHANGED <<now, stateVars, linkVars, held, account, who>>

\* Mutation of SignUp: the identity is left to be created later.
SignUpLater(r) ==
    /\ pc[r] = "signing"
    /\ who' = [who EXCEPT ![r] = [id |-> None, identity |-> Owner[account[r]]]]
    /\ Goto(r, "inserting")
    /\ UNCHANGED <<now, stateVars, linkVars, held, account>>

\* get_or_create_by_email() of the application.
SignUp(r) ==
    /\ pc[r] = "signing"
    /\ who' = [who EXCEPT ![r] = [id |-> None, identity |-> Owner[account[r]]]]
    /\ existing' = existing \cup {Owner[account[r]]}
    /\ Goto(r, "inserting")
    /\ UNCHANGED <<now, stateVars, enrolled, made, owners, held, account>>

\* Mutation of Update: it goes by account, not by id.
UpdateByAccount(r) ==
    /\ pc[r] = "updating"
    /\ enrolled' = [enrolled EXCEPT ![account[r]] = who[r]]
    /\ Goto(r, "done")
    /\ UNCHANGED <<now, stateVars, made, existing, owners, held, account, who>>

\* The tokens are stored, WHERE id; the enrolment may have gone meanwhile.
Update(r) ==
    /\ pc[r] = "updating"
    /\ enrolled' = [a \in Account |->
            IF enrolled[a] # None /\ enrolled[a].id = who[r].id THEN who[r]
            ELSE enrolled[a]]
    /\ Goto(r, "done")
    /\ UNCHANGED <<now, stateVars, made, existing, owners, held, account, who>>

\* The insert of callback() or enroll(); the account is unique in the table.
Insert(r) ==
    /\ pc[r] = "inserting"
    /\ enrolled[account[r]] = None
    /\ \E k \in Link \ made :
        LET e == [who[r] EXCEPT !.id = k]
        IN  /\ enrolled' = [enrolled EXCEPT ![account[r]] = e]
            /\ owners' = [owners EXCEPT ![account[r]] = @ \cup {e.identity}]
            /\ who' = [who EXCEPT ![r] = e]
            /\ made' = made \cup {k}
    /\ Goto(r, "done")
    /\ UNCHANGED <<now, stateVars, existing, held, account>>

----------------------------------------------------------------------------
\* An error from the provider, an exchange that fails, an account of another
\* identity or enrolled by now, no email, a failing call, or a client that goes
\* away; a state that has been consumed stays so.
Abandon(r) ==
    /\ pc[r] \in {"consuming"} \cup Running
    /\ Goto(r, IF pc[r] = "consuming" THEN "raised" ELSE "failed")
    /\ account' = [account EXCEPT ![r] = None]
    /\ who' = [who EXCEPT ![r] = None]
    /\ UNCHANGED <<now, stateVars, linkVars, held>>

\* The application removes an account from its identity.
Unlink(a) ==
    /\ enrolled[a] # None
    /\ enrolled' = [enrolled EXCEPT ![a] = None]
    /\ UNCHANGED <<now, stateVars, made, existing, owners, pc, held, account, who>>

Tick ==
    /\ now < MaxClock
    /\ now' = now + 1
    /\ UNCHANGED <<stateVars, linkVars, pc, held, account, who>>

Handle(r) ==
    \/ Start(r)
    \/ ConsumeLoad(r)
    \/ ConsumeDelete(r)
    \/ Exchange(r)
    \/ ResolveEnrolled(r)
    \/ ResolveAssociate(r)
    \/ ResolveNew(r)
    \/ SignUp(r)
    \/ Update(r)
    \/ Insert(r)
    \/ Abandon(r)

Next ==
    \/ \E r \in Request : Handle(r)
    \/ \E a \in Account : Unlink(a)
    \/ Tick

Spec == Init /\ [][Next]_vars

----------------------------------------------------------------------------
(* Properties *)

\* Every variable has the type the code gives it.
TypeOK ==
    /\ now \in Nat
    /\ rows \in [State -> OAuth2State \cup {None}]
    /\ issued \subseteq State
    /\ enrolled \in [Account -> OAuth2Enrollment \cup {None}]
    /\ made \subseteq Link
    /\ existing \subseteq Identity
    /\ pc \in [Request -> Stage]
    /\ held \in [Request -> OAuth2State \cup {None}]
    /\ account \in [Request -> Account \cup {None}]
    /\ who \in [Request -> OAuth2Enrollment \cup {None}]
    /\ owners \in [Account -> SUBSET Identity]

\* A callback that is done has an identity its account was enrolled for, and if
\* the flow was started for an identity, that one, however sign-ups, additions
\* and removals of the same account interleave (callback, enroll).
IdentityOwnsAccount ==
    \A r \in Request : pc[r] = "done" =>
        /\ who[r].identity \in owners[account[r]]
        /\ held[r].identity # None => who[r].identity = held[r].identity

\* An enrolment never changes hands: an account gets another identity only
\* after it has been removed, though updates store enrolments that were loaded
\* before (callback).
EnrollmentKeepsIdentity ==
    [][\A a \in Account : enrolled[a] # None /\ enrolled'[a] # None =>
            enrolled'[a] = enrolled[a]]_vars

\* "to avoid dangling enrollments without identities" (callback): at whatever
\* step requests die, every enrolment has an identity that exists.
NoDanglingEnrollment ==
    \A a \in Account : enrolled[a] # None => enrolled[a].identity \in existing

\* The life of each state, and the one each callback has found or deleted.
Status == [id \in State |->
    IF rows[id] # None THEN "live" ELSE IF id \in issued THEN "gone" ELSE "unissued"]
Taken == [r \in Request |-> IF pc[r] = "consuming" THEN held[r].id ELSE None]
Spent == [r \in Request |-> IF pc[r] \in Consumed THEN held[r].id ELSE None]

OneTime == INSTANCE OneTimeToken
    WITH Token <- State, NoToken <- None, status <- Status, taken <- Taken,
         spent <- Spent

\* States are one-time tokens: no callback finds a state that another one has
\* consumed, not even one that failed later, and only callbacks that overlap
\* can share one (consume).
ImplementsOneTimeToken == OneTime!Spec

\* "Atomically retrieve and delete an OAuth2 state" (consume): no two callbacks
\* get the same one.
StateConsumedOnce ==
    \A r, q \in Request :
        r # q /\ pc[r] \in Consumed /\ pc[q] \in Consumed => held[r].id # held[q].id
=============================================================================
