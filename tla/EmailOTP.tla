------------------------------- MODULE EmailOTP -------------------------------
(***************************************************************************)
(* The email OTP factor (src/aegistry/factors/email_otp.py) with its two   *)
(* routes, request and verify (contrib/fastapi/email_otp.py).              *)
(*                                                                         *)
(* Requests are processes, each awaited store call a step.  Codes are      *)
(* short, so that any two rows may have the same one, and the table has no *)
(* unique constraint.  Of an authentication session only matters whether   *)
(* it can be found by its token.  A request for a code ends with its email *)
(* on the way or lost; a verification ends when it has consumed the code   *)
(* and hands over to the application's identity resolver and then to       *)
(* advance_and_complete (module AuthenticationSession).  The identity_id   *)
(* of a code is carried along unread.                                      *)
(***************************************************************************)
EXTENDS Integers

CONSTANTS
    Request,   \* HTTP requests, each served once
    Otp,       \* ids of rows
    Session,   \* authentication sessions
    Email,     \* addresses
    Code,      \* the codes
    None,      \* None
    Lifetime,  \* lifetime of a code
    MaxClock   \* bound on the clock

ASSUME TimeAssumption == {Lifetime, MaxClock} \subseteq Nat

VARIABLES
    now,     \* get_current_timestamp()
    started, \* the authentication sessions that have been started
    open,    \* those that can be found: not completed, not expired
    rows,    \* the table of codes
    issued,  \* ids handed out so far
    pc,      \* where each request stands
    sess,    \* the authentication session a request holds
    mail,    \* the address a code was requested for
    code,    \* the code a verification presents
    otp,     \* the EmailOTP object a request has created or loaded
    older    \* history: the codes a request for a new one has deleted

sessionVars == <<started, open>>
vars == <<now, sessionVars, rows, issued, pc, sess, mail, code, otp, older>>

EmailOTP ==
    [id: Otp, session: Session, email: Email, code: Code, expires: Nat]

ASSUME NoneAssumption ==
    None \notin EmailOTP \cup Otp \cup Session \cup Email \cup Code

Running == {"replacing", "inserting", "verifying", "consuming"}
Stage == {"idle", "created", "consumed", "raised"} \cup Running

IsExpired(o) == now >= o.expires

Init ==
    /\ now = 0
    /\ started = {}
    /\ open = {}
    /\ rows = [id \in Otp |-> None]
    /\ issued = {}
    /\ pc = [r \in Request |-> "idle"]
    /\ sess = [r \in Request |-> None]
    /\ mail = [r \in Request |-> None]
    /\ code = [r \in Request |-> None]
    /\ otp = [r \in Request |-> None]
    /\ older = [r \in Request |-> {}]

Goto(r, stage) == pc' = [pc EXCEPT ![r] = stage]

----------------------------------------------------------------------------
(* The request route *)

\* The session of the cookie when it can be found, or else a new one.
RequestCode(r) ==
    /\ pc[r] = "idle"
    /\ \E s \in open \cup (Session \ started), e \in Email :
        /\ sess' = [sess EXCEPT ![r] = s]
        /\ mail' = [mail EXCEPT ![r] = e]
        /\ started' = started \cup {s}
        /\ open' = open \cup {s}
    /\ Goto(r, "replacing")
    /\ UNCHANGED <<now, rows, issued, code, otp, older>>

InSession(s) == {id \in Otp : rows[id] # None /\ rows[id].session = s}

\* Mutation of Replace: only one of the rows is deleted.
ReplaceOne(r) ==
    /\ pc[r] = "replacing"
    /\ \/ InSession(sess[r]) = {} /\ UNCHANGED rows
       \/ \E id \in InSession(sess[r]) : rows' = [rows EXCEPT ![id] = None]
    /\ older' = [older EXCEPT ![r] = InSession(sess[r])]
    /\ Goto(r, "inserting")
    /\ UNCHANGED <<now, sessionVars, issued, sess, mail, code, otp>>

\* create() deletes the codes of the session.
Replace(r) ==
    /\ pc[r] = "replacing"
    /\ rows' = [id \in Otp |-> IF id \in InSession(sess[r]) THEN None ELSE rows[id]]
    /\ older' = [older EXCEPT ![r] = InSession(sess[r])]
    /\ Goto(r, "inserting")
    /\ UNCHANGED <<now, sessionVars, issued, sess, mail, code, otp>>

\* Mutation of Insert: the object does not get the id of its row.
InsertWithoutId(r) ==
    /\ pc[r] = "inserting"
    /\ \E id \in Otp \ issued, c \in Code :
        LET o == [id |-> id, session |-> sess[r], email |-> mail[r],
                  code |-> c, expires |-> now + Lifetime]
        IN  /\ rows' = [rows EXCEPT ![id] = o]
            /\ issued' = issued \cup {id}
            /\ otp' = [otp EXCEPT ![r] = [o EXCEPT !.id = None]]
    /\ Goto(r, "created")
    /\ UNCHANGED <<now, sessionVars, sess, mail, code, older>>

\* create() inserts a code, which then is sent.
Insert(r) ==
    /\ pc[r] = "inserting"
    /\ \E id \in Otp \ issued, c \in Code :
        LET o == [id |-> id, session |-> sess[r], email |-> mail[r],
                  code |-> c, expires |-> now + Lifetime]
        IN  /\ rows' = [rows EXCEPT ![id] = o]
            /\ issued' = issued \cup {id}
            /\ otp' = [otp EXCEPT ![r] = o]
    /\ Goto(r, "created")
    /\ UNCHANGED <<now, sessionVars, sess, mail, code, older>>

----------------------------------------------------------------------------
(* The verify route *)

VerifyCode(r) ==
    /\ pc[r] = "idle"
    /\ \E s \in open, c \in Code :
        /\ sess' = [sess EXCEPT ![r] = s]
        /\ code' = [code EXCEPT ![r] = c]
    /\ Goto(r, "verifying")
    /\ UNCHANGED <<now, sessionVars, rows, issued, mail, otp, older>>

\* Mutation of Matching: the session is not part of the query.
MatchingAnywhere(r) == {id \in Otp : rows[id] # None /\ rows[id].code = code[r]}

\* The rows with the code that is presented, in the session it is presented in.
Matching(r) == {id \in InSession(sess[r]) : rows[id].code = code[r]}

\* consume() loads any one of them.
ConsumeLoad(r) ==
    /\ pc[r] = "verifying"
    /\ \E id \in Matching(r) :
        /\ ~IsExpired(rows[id])
        /\ otp' = [otp EXCEPT ![r] = rows[id]]
    /\ Goto(r, "consuming")
    /\ UNCHANGED <<now, sessionVars, rows, issued, sess, mail, code, older>>

\* Mutation of ConsumeDelete: the row stays.
ConsumeKeep(r) ==
    /\ pc[r] = "consuming"
    /\ Goto(r, "consumed")
    /\ UNCHANGED <<now, sessionVars, rows, issued, sess, mail, code, otp, older>>

\* Mutation of ConsumeDelete: every row with the code is deleted.
ConsumeCode(r) ==
    /\ pc[r] = "consuming"
    /\ rows' = [id \in Otp |->
                    IF rows[id] # None /\ rows[id].code = code[r] THEN None
                    ELSE rows[id]]
    /\ Goto(r, "consumed")
    /\ UNCHANGED <<now, sessionVars, issued, sess, mail, code, otp, older>>

\* consume() deletes the row.
ConsumeDelete(r) ==
    /\ pc[r] = "consuming"
    /\ rows' = [rows EXCEPT ![otp[r].id] = None]
    /\ Goto(r, "consumed")
    /\ UNCHANGED <<now, sessionVars, issued, sess, mail, code, otp, older>>

----------------------------------------------------------------------------
\* A wrong or expired code, a failing call, or a client that goes away; what
\* has been deleted by then remains so.
Abandon(r) ==
    /\ pc[r] \in Running
    /\ Goto(r, "raised")
    /\ sess' = [sess EXCEPT ![r] = None]
    /\ mail' = [mail EXCEPT ![r] = None]
    /\ code' = [code EXCEPT ![r] = None]
    /\ otp' = [otp EXCEPT ![r] = None]
    /\ older' = [older EXCEPT ![r] = {}]
    /\ UNCHANGED <<now, sessionVars, rows, issued>>

\* An authentication session is completed elsewhere, or expires.
EndSession(s) ==
    /\ s \in open
    /\ open' = open \ {s}
    /\ UNCHANGED <<now, started, rows, issued, pc, sess, mail, code, otp, older>>

Tick ==
    /\ now < MaxClock
    /\ now' = now + 1
    /\ UNCHANGED <<sessionVars, rows, issued, pc, sess, mail, code, otp, older>>

Handle(r) ==
    \/ RequestCode(r)
    \/ Replace(r)
    \/ Insert(r)
    \/ VerifyCode(r)
    \/ ConsumeLoad(r)
    \/ ConsumeDelete(r)
    \/ Abandon(r)

Next ==
    \/ \E r \in Request : Handle(r)
    \/ \E s \in Session : EndSession(s)
    \/ Tick

Spec == Init /\ [][Next]_vars

----------------------------------------------------------------------------
(* Properties *)

\* Every variable has the type the code gives it.
TypeOK ==
    /\ now \in Nat
    /\ open \subseteq started /\ started \subseteq Session
    /\ rows \in [Otp -> EmailOTP \cup {None}]
    /\ issued \subseteq Otp
    /\ pc \in [Request -> Stage]
    /\ sess \in [Request -> Session \cup {None}]
    /\ mail \in [Request -> Email \cup {None}]
    /\ code \in [Request -> Code \cup {None}]
    /\ otp \in [Request -> EmailOTP \cup {None}]
    /\ older \in [Request -> SUBSET Otp]

\* A verification that succeeds proves the mailbox: in its own authentication
\* session somebody had requested a code for the address it yields, and got the
\* very code that was presented, though codes of other sessions or addresses
\* may be the same (create, consume).
CodeProvesMailbox ==
    \A r \in Request : pc[r] = "consumed" =>
        \E q \in Request :
            /\ pc[q] = "created"
            /\ sess[q] = sess[r]
            /\ mail[q] = otp[r].email
            /\ otp[q].code = code[r]

\* Once a request for a new code has deleted the old ones, none of them is
\* ever back in the table, so that no later verification can find one, also
\* when requests for new codes overlap (create).
ReplacedIsGone ==
    \A r \in Request : pc[r] \in {"inserting", "created"} =>
        \A id \in older[r] : rows[id] = None

\* A code leaves the table only because a new one was requested in its own
\* session or because it was presented there: what happens in one session does
\* not invalidate codes of another (create, consume).
OthersUntouched ==
    [][\A id \in Otp : rows[id] # None /\ rows'[id] = None =>
            \E r \in Request :
                /\ sess[r] = rows[id].session
                /\ \/ pc[r] = "replacing"
                   \/ pc[r] = "consuming" /\ otp[r].id = id]_vars

\* The life of each row, and the row each verification has found or deleted.
Status == [id \in Otp |->
    IF rows[id] # None THEN "live" ELSE IF id \in issued THEN "gone" ELSE "unissued"]
Taken == [r \in Request |-> IF pc[r] = "consuming" THEN otp[r].id ELSE None]
Spent == [r \in Request |-> IF pc[r] = "consumed" THEN otp[r].id ELSE None]

OneTime == INSTANCE OneTimeToken
    WITH Token <- Otp, NoToken <- None, status <- Status, taken <- Taken,
         spent <- Spent

\* Codes are one-time tokens: no verification finds a code that another one has
\* consumed, and only verifications that overlap can share one (consume).
ImplementsOneTimeToken == OneTime!Spec
=============================================================================
