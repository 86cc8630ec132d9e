---------------------------- MODULE OneTimeToken ----------------------------
(***************************************************************************)
(* What the one-time codes and states of aegistry promise.  Consuming one  *)
(* is two store calls, a select and a delete, so that several requests may *)
(* take a live token before one of them spends it; but nobody takes a      *)
(* token that has been spent or voided, and no id is issued twice.         *)
(***************************************************************************)
CONSTANTS Request, Token, NoToken

VARIABLES
    status, \* of each token: unissued, live or gone
    taken,  \* the live token a request has found and is about to spend
    spent   \* the token a request has spent

vars == <<status, taken, spent>>

Init ==
    /\ status = [t \in Token |-> "unissued"]
    /\ taken = [r \in Request |-> NoToken]
    /\ spent = [r \in Request |-> NoToken]

Issue(t) ==
    /\ status[t] = "unissued"
    /\ status' = [status EXCEPT ![t] = "live"]
    /\ UNCHANGED <<taken, spent>>

\* Tokens that a new one replaces.
Void(tokens) ==
    /\ \A t \in tokens : status[t] = "live"
    /\ status' = [t \in Token |-> IF t \in tokens THEN "gone" ELSE status[t]]
    /\ UNCHANGED <<taken, spent>>

Take(r, t) ==
    /\ taken[r] = NoToken
    /\ spent[r] = NoToken
    /\ status[t] = "live"
    /\ taken' = [taken EXCEPT ![r] = t]
    /\ UNCHANGED <<status, spent>>

Spend(r) ==
    /\ taken[r] # NoToken
    /\ spent' = [spent EXCEPT ![r] = taken[r]]
    /\ taken' = [taken EXCEPT ![r] = NoToken]
    /\ status' = [status EXCEPT ![taken[r]] = "gone"]

GiveUp(r) ==
    /\ taken' = [taken EXCEPT ![r] = NoToken]
    /\ UNCHANGED <<status, spent>>

Next ==
    \/ \E t \in Token : Issue(t)
    \/ \E tokens \in SUBSET Token : Void(tokens)
    \/ \E r \in Request, t \in Token : Take(r, t)
    \/ \E r \in Request : Spend(r) \/ GiveUp(r)

Spec == Init /\ [][Next]_vars

----------------------------------------------------------------------------
(* What follows from it *)

Lifecycle == INSTANCE TokenLifecycle WITH Id <- Token

\* One-time tokens are tokens: none is issued twice or comes back, although
\* requests spend what others have spent meanwhile.
ImplementsLifecycle == Lifecycle!Spec

\* Nobody takes a token that has been spent: two requests can spend the same one
\* only if both had taken it before either spent it.
SharedOnlyByOverlap ==
    [][\A r, q \in Request :
            taken'[r] \notin {taken[r], NoToken} => spent[q] # taken'[r]]_vars
=============================================================================
