--------------------------- MODULE EmailOTP_proofs ---------------------------
(***************************************************************************)
(* Proofs about EmailOTP, for any number of requests, rows, sessions and   *)
(* codes, and any lifetime.                                                *)
(***************************************************************************)
EXTENDS EmailOTP, TLAPS

\* A code that was created for this session, address and value.
Proven(o) ==
    \E q \in Request :
        /\ pc[q] = "created"
        /\ sess[q] = o.session
        /\ mail[q] = o.email
        /\ otp[q].code = o.code

\* What a request holds at each stage.
Held ==
    \A r \in Request :
        /\ pc[r] \in {"replacing", "inserting", "created"} =>
                sess[r] \in Session /\ mail[r] \in Email
        /\ pc[r] \in {"verifying", "consuming", "consumed"} =>
                sess[r] \in Session /\ code[r] \in Code
        /\ pc[r] = "created" => otp[r] \in EmailOTP
        /\ pc[r] \in {"consuming", "consumed"} =>
                /\ otp[r] \in EmailOTP
                /\ otp[r].id \in issued
                /\ otp[r].session = sess[r]
                /\ otp[r].code = code[r]
                /\ rows[otp[r].id] \in {otp[r], None}
                /\ Proven(otp[r])

\* Rows are stored under their own ids, and every one of them was created.
RowsCreated ==
    \A id \in Otp : rows[id] # None =>
        rows[id].id = id /\ id \in issued /\ Proven(rows[id])

\* What has been replaced or consumed is gone, and was issued.
Gone ==
    /\ \A r \in Request : older[r] \subseteq issued
    /\ \A r \in Request : pc[r] = "consumed" => rows[otp[r].id] = None

IInv == TypeOK /\ Held /\ RowsCreated /\ Gone /\ ReplacedIsGone

LEMMA InitIInv == Init => IInv
BY DEF Init, IInv, TypeOK, Stage, Running, Held, RowsCreated, Gone, ReplacedIsGone

\* A code, once created, stays so: no step changes a request that is done.
LEMMA ProvenStays ==
    ASSUME NEW r \in Request, pc[r] # "created",
           \A q \in Request \ {r} :
                /\ pc'[q] = pc[q] /\ sess'[q] = sess[q]
                /\ mail'[q] = mail[q] /\ otp'[q] = otp[q],
           NEW o, Proven(o)
    PROVE  Proven(o)'
BY DEF Proven

\* A step of request r that touches nothing but r's own state preserves the
\* invariant if r holds what its new stage needs.
LEMMA OwnStep ==
    ASSUME IInv, NEW r \in Request, pc[r] \in Running \cup {"idle"},
           UNCHANGED <<now, rows, issued>>,
           open' \subseteq started', started' \subseteq Session,
           pc' \in [Request -> Stage],
           sess' \in [Request -> Session \cup {None}],
           mail' \in [Request -> Email \cup {None}],
           code' \in [Request -> Code \cup {None}],
           otp' \in [Request -> EmailOTP \cup {None}],
           older' \in [Request -> SUBSET Otp],
           older'[r] \subseteq older[r],
           \A q \in Request \ {r} :
                /\ pc'[q] = pc[q] /\ sess'[q] = sess[q] /\ mail'[q] = mail[q]
                /\ code'[q] = code[q] /\ otp'[q] = otp[q] /\ older'[q] = older[q],
           \/ pc'[r] = "raised"
           \/ pc'[r] = "replacing" /\ sess'[r] \in Session /\ mail'[r] \in Email
           \/ pc'[r] = "verifying" /\ sess'[r] \in Session /\ code'[r] \in Code
           \/ /\ pc'[r] = "consuming"
              /\ sess'[r] \in Session
              /\ code'[r] \in Code
              /\ otp'[r] \in EmailOTP
              /\ otp'[r].id \in issued
              /\ otp'[r].session = sess'[r]
              /\ otp'[r].code = code'[r]
              /\ rows[otp'[r].id] \in {otp'[r], None}
              /\ Proven(otp'[r])
    PROVE  IInv'
<1>1. TypeOK'
    BY DEF IInv, TypeOK
<1>2. ASSUME NEW o, Proven(o) PROVE Proven(o)'
    BY <1>2, ProvenStays DEF Running
<1>3. Held'
  <2> SUFFICES ASSUME NEW q \in Request
      PROVE /\ pc'[q] \in {"replacing", "inserting", "created"} =>
                    sess'[q] \in Session /\ mail'[q] \in Email
            /\ pc'[q] \in {"verifying", "consuming", "consumed"} =>
                    sess'[q] \in Session /\ code'[q] \in Code
            /\ pc'[q] = "created" => otp'[q] \in EmailOTP
            /\ pc'[q] \in {"consuming", "consumed"} =>
                    /\ otp'[q] \in EmailOTP
                    /\ otp'[q].id \in issued'
                    /\ otp'[q].session = sess'[q]
                    /\ otp'[q].code = code'[q]
                    /\ rows'[otp'[q].id] \in {otp'[q], None}
                    /\ Proven(otp[q])'
      BY DEF Held
  <2>1. CASE q = r
    <3>1. pc'[r] = "consuming" => Proven(otp[r])'
        BY ProvenStays DEF Running, Proven
    <3> QED
        BY <2>1, <3>1
  <2>2. CASE q # r
    <3>1. Proven(otp[q]) => Proven(otp[q])'
        BY <2>2 DEF Proven, Running
    <3> QED
        BY <2>2, <3>1 DEF IInv, Held
  <2> QED
      BY <2>1, <2>2
<1>4. RowsCreated'
    BY <1>2 DEF IInv, RowsCreated, Proven, Running
<1>5. Gone'
    BY DEF IInv, Gone
<1>6. ReplacedIsGone'
    BY DEF IInv, ReplacedIsGone
<1> QED
    BY <1>1, <1>3, <1>4, <1>5, <1>6 DEF IInv

\* Deleting rows preserves the invariant, for a request that goes on with what
\* it holds: to insert its code, or having consumed the row it holds.
LEMMA DeleteStep ==
    ASSUME IInv, NEW r \in Request, NEW ids \in SUBSET Otp,
           UNCHANGED <<now, sessionVars, issued, sess, mail, code, otp>>,
           rows' = [id \in Otp |-> IF id \in ids THEN None ELSE rows[id]],
           \/ /\ pc[r] = "replacing" /\ pc' = [pc EXCEPT ![r] = "inserting"]
              /\ older' = [older EXCEPT ![r] = ids] /\ ids \subseteq issued
           \/ /\ pc[r] = "consuming" /\ pc' = [pc EXCEPT ![r] = "consumed"]
              /\ otp[r].id \in ids /\ older' = older
    PROVE  IInv'
<1> USE DEF sessionVars
<1>1. TypeOK'
  <2>1. rows' \in [Otp -> EmailOTP \cup {None}]
      BY DEF IInv, TypeOK
  <2>2. pc' \in [Request -> Stage] /\ older' \in [Request -> SUBSET Otp]
      BY DEF IInv, TypeOK, Stage, Running
  <2> QED
      BY <2>1, <2>2 DEF IInv, TypeOK
<1>3. Held'
  <2>1. \A q \in Request : Proven(otp[q]) => Proven(otp[q])'
      BY DEF IInv, TypeOK, Proven
  <2>2. \A q \in Request : otp[q] \in EmailOTP => otp[q].id \in Otp
      BY DEF EmailOTP
  <2>3. \A id \in Otp : rows'[id] \in {rows[id], None}
      OBVIOUS
  <2> QED
      BY <2>1, <2>2, <2>3 DEF IInv, TypeOK, Held
<1>4. RowsCreated'
  <2>1. \A id \in Otp : rows'[id] # None => rows'[id] = rows[id]
      OBVIOUS
  <2> SUFFICES ASSUME NEW id \in Otp, rows'[id] # None
               PROVE  rows'[id].id = id /\ id \in issued /\ Proven(rows[id])'
      BY DEF RowsCreated
  <2>2. rows[id] # None /\ rows'[id] = rows[id]
      BY <2>1
  <2>3. Proven(rows[id])
      BY <2>2 DEF IInv, RowsCreated
  <2>4. Proven(rows[id])'
      BY <2>2, <2>3 DEF IInv, TypeOK, Proven
  <2> QED
      BY <2>2, <2>4 DEF IInv, RowsCreated
<1>5. Gone'
    BY DEF IInv, TypeOK, Held, EmailOTP, Gone
<1>6. ReplacedIsGone'
  <2> SUFFICES ASSUME NEW q \in Request, pc'[q] \in {"inserting", "created"},
                      NEW id \in older'[q]
               PROVE  rows'[id] = None
      BY DEF ReplacedIsGone
  <2>1. id \in Otp
      BY DEF IInv, TypeOK
  <2>2. id \in ids \/ rows[id] = None
      BY DEF IInv, TypeOK, ReplacedIsGone
  <2> QED
      BY <2>1, <2>2
<1> QED
    BY <1>1, <1>3, <1>4, <1>5, <1>6 DEF IInv

\* A code is inserted.
LEMMA InsertStep ==
    ASSUME IInv, NEW r \in Request, Insert(r)
    PROVE  IInv'
<1>1. PICK id \in Otp \ issued, c \in Code :
        LET o == [id |-> id, session |-> sess[r], email |-> mail[r],
                  code |-> c, expires |-> now + Lifetime]
        IN  /\ rows' = [rows EXCEPT ![id] = o]
            /\ issued' = issued \cup {id}
            /\ otp' = [otp EXCEPT ![r] = o]
    BY DEF Insert
<1> DEFINE o == [id |-> id, session |-> sess[r], email |-> mail[r],
                 code |-> c, expires |-> now + Lifetime]
<1>2. /\ pc[r] = "inserting"
      /\ pc' = [pc EXCEPT ![r] = "created"]
      /\ UNCHANGED <<now, started, open, sess, mail, code, older>>
    BY DEF Insert, Goto, sessionVars
<1>3. o \in EmailOTP
  <2>1. sess[r] \in Session /\ mail[r] \in Email /\ now + Lifetime \in Nat
      BY <1>2, TimeAssumption DEF IInv, TypeOK, Held
  <2> QED
      BY <2>1 DEF EmailOTP
<1>4. /\ rows'[id] = o /\ otp'[r] = o
      /\ \A j \in Otp \ {id} : rows'[j] = rows[j]
      /\ \A q \in Request \ {r} : otp'[q] = otp[q] /\ pc'[q] = pc[q]
      /\ pc'[r] = "created"
    BY <1>1, <1>2 DEF IInv, TypeOK
<1>5. TypeOK'
    BY <1>1, <1>2, <1>3 DEF IInv, TypeOK, Stage
<1>6. Proven(rows[id])'
    BY <1>2, <1>4 DEF Proven
<1>7. \A q \in Request : Proven(otp[q]) /\ q # r => Proven(otp[q])'
    BY <1>2, <1>4 DEF Proven
<1>8. \A j \in Otp \ {id} : Proven(rows[j]) => Proven(rows[j])'
    BY <1>2, <1>4 DEF Proven
<1>9. Held'
  <2>1. \A q \in Request : otp[q] \in EmailOTP => otp[q].id \in Otp
      BY DEF EmailOTP
  <2> QED
      BY <1>1, <1>2, <1>3, <1>4, <1>7, <2>1 DEF IInv, Held
<1>10. RowsCreated'
    BY <1>1, <1>4, <1>6, <1>8 DEF IInv, RowsCreated
<1>11. Gone' /\ ReplacedIsGone'
    BY <1>1, <1>2, <1>4 DEF IInv, Held, Gone, ReplacedIsGone
<1> QED
    BY <1>5, <1>9, <1>10, <1>11 DEF IInv

\* Every step preserves the invariant.
LEMMA InvariantStep == IInv /\ [Next]_vars => IInv'
<1> SUFFICES ASSUME IInv, [Next]_vars PROVE IInv'
    OBVIOUS
<1> USE DEF Goto, sessionVars
<1>1. ASSUME NEW r \in Request, RequestCode(r) \/ VerifyCode(r) PROVE IInv'
  <2>1. CASE RequestCode(r)
    <3>1. /\ pc' \in [Request -> Stage]
          /\ sess' \in [Request -> Session \cup {None}]
          /\ mail' \in [Request -> Email \cup {None}]
          /\ started' \subseteq Session /\ open' \subseteq started'
        BY <2>1 DEF RequestCode, IInv, TypeOK, Stage, Running
    <3>2. pc'[r] = "replacing" /\ sess'[r] \in Session /\ mail'[r] \in Email
        BY <2>1 DEF RequestCode, IInv, TypeOK
    <3> QED
        BY <2>1, <3>1, <3>2, OwnStep DEF RequestCode, IInv, TypeOK
  <2>2. CASE VerifyCode(r)
    <3>1. /\ pc' \in [Request -> Stage]
          /\ sess' \in [Request -> Session \cup {None}]
          /\ code' \in [Request -> Code \cup {None}]
        BY <2>2 DEF VerifyCode, IInv, TypeOK, Stage, Running
    <3>2. pc'[r] = "verifying" /\ sess'[r] \in Session /\ code'[r] \in Code
        BY <2>2 DEF VerifyCode, IInv, TypeOK
    <3> QED
        BY <2>2, <3>1, <3>2, OwnStep DEF VerifyCode, IInv, TypeOK
  <2> QED
      BY <1>1, <2>1, <2>2
<1>2. ASSUME NEW r \in Request, Replace(r) PROVE IInv'
  <2>1. InSession(sess[r]) \in SUBSET Otp /\ InSession(sess[r]) \subseteq issued
      BY DEF InSession, IInv, RowsCreated
  <2> QED
      BY <1>2, <2>1, DeleteStep DEF Replace
<1>3. ASSUME NEW r \in Request, Insert(r) PROVE IInv'
    BY <1>3, InsertStep
<1>4. ASSUME NEW r \in Request, ConsumeLoad(r) PROVE IInv'
  <2>1. PICK id \in Matching(r) : otp' = [otp EXCEPT ![r] = rows[id]]
      BY <1>4 DEF ConsumeLoad
  <2>2. /\ id \in Otp /\ rows[id] \in EmailOTP
        /\ rows[id].session = sess[r] /\ rows[id].code = code[r]
        /\ rows[id].id = id /\ id \in issued /\ Proven(rows[id])
      BY DEF Matching, InSession, IInv, TypeOK, RowsCreated
  <2>3. /\ pc' \in [Request -> Stage]
        /\ otp' \in [Request -> EmailOTP \cup {None}]
        /\ pc'[r] = "consuming" /\ otp'[r] = rows[id]
        /\ sess[r] \in Session /\ code[r] \in Code
      BY <1>4, <2>1, <2>2 DEF ConsumeLoad, IInv, TypeOK, Held, Stage, Running
  <2> QED
      BY <1>4, <2>1, <2>2, <2>3, OwnStep DEF ConsumeLoad, IInv, TypeOK, Running
<1>5. ASSUME NEW r \in Request, ConsumeDelete(r) PROVE IInv'
  <2>1. otp[r].id \in Otp
      BY <1>5 DEF ConsumeDelete, IInv, Held, EmailOTP
  <2>2. rows' = [id \in Otp |-> IF id \in {otp[r].id} THEN None ELSE rows[id]]
      BY <1>5, <2>1 DEF ConsumeDelete, IInv, TypeOK
  <2>3. {otp[r].id} \in SUBSET Otp /\ otp[r].id \in {otp[r].id}
      BY <2>1
  <2> QED
      BY <1>5, <2>2, <2>3, DeleteStep DEF ConsumeDelete
<1>6. ASSUME NEW r \in Request, Abandon(r) PROVE IInv'
  <2>1. /\ pc' \in [Request -> Stage] /\ pc'[r] = "raised"
        /\ sess' \in [Request -> Session \cup {None}]
        /\ mail' \in [Request -> Email \cup {None}]
        /\ code' \in [Request -> Code \cup {None}]
        /\ otp' \in [Request -> EmailOTP \cup {None}]
        /\ older' \in [Request -> SUBSET Otp] /\ older'[r] = {}
      BY <1>6 DEF Abandon, IInv, TypeOK, Stage
  <2> QED
      BY <1>6, <2>1, OwnStep DEF Abandon, IInv, TypeOK
<1>7. CASE (\E s \in Session : EndSession(s)) \/ Tick \/ UNCHANGED vars
  <2>1. /\ UNCHANGED <<started, rows, issued, pc, sess, mail, code, otp, older>>
        /\ now' \in Nat /\ open' \subseteq started
      BY <1>7 DEF EndSession, Tick, vars, IInv, TypeOK
  <2>2. \A o : Proven(o) => Proven(o)'
      BY <2>1 DEF Proven
  <2>3. Held'
      BY <2>1 DEF IInv, Held, Proven
  <2>4. RowsCreated'
      BY <2>1 DEF IInv, RowsCreated, Proven
  <2> QED
      BY <2>1, <2>3, <2>4 DEF IInv, TypeOK, Gone, ReplacedIsGone
<1> QED
    BY <1>1, <1>2, <1>3, <1>4, <1>5, <1>6, <1>7 DEF Next, Handle

LEMMA InvariantHolds == Spec => []IInv
BY InitIInv, InvariantStep, PTL DEF Spec

\* Every variable keeps its type.
THEOREM TypeCorrect == Spec => []TypeOK
<1>1. IInv => TypeOK
    BY DEF IInv
<1> QED
    BY <1>1, InvariantHolds, PTL

\* A consumed code was created for the session and address it is used for.
THEOREM CodeProvesMailboxHolds == Spec => []CodeProvesMailbox
<1>1. IInv => CodeProvesMailbox
    BY DEF IInv, Held, Proven, CodeProvesMailbox
<1> QED
    BY <1>1, InvariantHolds, PTL

\* A replaced code is never back.
THEOREM ReplacedIsGoneHolds == Spec => []ReplacedIsGone
<1>1. IInv => ReplacedIsGone
    BY DEF IInv
<1> QED
    BY <1>1, InvariantHolds, PTL

\* Only its own session makes a code disappear.
THEOREM OthersUntouchedHolds == Spec => OthersUntouched
<1> DEFINE Own(id) ==
        \E r \in Request :
            /\ sess[r] = rows[id].session
            /\ \/ pc[r] = "replacing"
               \/ pc[r] = "consuming" /\ otp[r].id = id
<1>1. ASSUME IInv, [Next]_vars, NEW id \in Otp, rows[id] # None, rows'[id] = None
      PROVE  Own(id)
  <2>1. PICK r \in Request : Replace(r) \/ Insert(r) \/ ConsumeDelete(r)
      BY <1>1 DEF Next, Handle, RequestCode, VerifyCode, ConsumeLoad, Abandon,
                  EndSession, Tick, vars
  <2>2. CASE Replace(r)
      BY <1>1, <2>2 DEF Replace, InSession
  <2>3. CASE Insert(r)
      BY <1>1, <2>3 DEF Insert, IInv, TypeOK, RowsCreated
  <2>4. CASE ConsumeDelete(r)
    <3>1. otp[r].id = id
        BY <1>1, <2>4 DEF ConsumeDelete, IInv, TypeOK
    <3> QED
        BY <1>1, <2>4, <3>1 DEF ConsumeDelete, IInv, Held, RowsCreated
  <2> QED
      BY <2>1, <2>2, <2>3, <2>4
<1>2. IInv /\ [Next]_vars =>
        [\A id \in Otp : rows[id] # None /\ rows'[id] = None => Own(id)]_vars
    BY <1>1
<1> QED
    BY <1>2, InvariantHolds, PTL DEF Spec, OthersUntouched

\* Every step is one of a one-time token, or none.
LEMMA TokenStep ==
    ASSUME IInv, [Next]_vars
    PROVE  [OneTime!Next]_<<Status, Taken, Spent>>
<1> USE DEF Goto, sessionVars
<1>1. ASSUME NEW r \in Request,
             RequestCode(r) \/ VerifyCode(r) \/ Abandon(r)
      PROVE  OneTime!GiveUp(r) \/ UNCHANGED <<Status, Taken, Spent>>
  <2>1. Status' = Status
      BY <1>1 DEF RequestCode, VerifyCode, Abandon, Status
  <2>2. Spent' = Spent
      BY <1>1 DEF RequestCode, VerifyCode, Abandon, Spent, IInv, TypeOK, Running
  <2>3. Taken' = [Taken EXCEPT ![r] = None]
      BY <1>1 DEF RequestCode, VerifyCode, Abandon, Taken, IInv, TypeOK, Running
  <2> QED
      BY <2>1, <2>2, <2>3 DEF OneTime!GiveUp
<1>2. ASSUME NEW r \in Request, Replace(r)
      PROVE  OneTime!Void(InSession(sess[r]))
  <2>1. Taken' = Taken /\ Spent' = Spent
      BY <1>2 DEF Replace, Taken, Spent, IInv, TypeOK
  <2>2. \A id \in InSession(sess[r]) : Status[id] = "live"
      BY DEF InSession, Status
  <2>3. Status' = [id \in Otp |->
                    IF id \in InSession(sess[r]) THEN "gone" ELSE Status[id]]
      BY <1>2 DEF Replace, Status, InSession, IInv, TypeOK, RowsCreated
  <2> QED
      BY <2>1, <2>2, <2>3 DEF OneTime!Void
<1>3. ASSUME NEW r \in Request, Insert(r)
      PROVE  \E id \in Otp : OneTime!Issue(id)
  <2>1. Taken' = Taken /\ Spent' = Spent
      BY <1>3 DEF Insert, Taken, Spent, IInv, TypeOK
  <2>2. PICK id \in Otp \ issued :
            /\ rows' = [rows EXCEPT ![id] = otp'[r]]
            /\ issued' = issued \cup {id}
      BY <1>3 DEF Insert, IInv, TypeOK
  <2>3. otp'[r] # None
    <3>1. IInv'
        BY <1>3, InsertStep
    <3>2. pc'[r] = "created"
        BY <1>3 DEF Insert, IInv, TypeOK
    <3> QED
        BY <3>1, <3>2, NoneAssumption DEF IInv, Held
  <2>4. Status[id] = "unissued" /\ Status' = [Status EXCEPT ![id] = "live"]
      BY <2>2, <2>3 DEF Status, IInv, TypeOK, RowsCreated
  <2> QED
      BY <2>1, <2>2, <2>4 DEF OneTime!Issue
<1>4. ASSUME NEW r \in Request, ConsumeLoad(r)
      PROVE  \E id \in Otp : OneTime!Take(r, id)
  <2>1. PICK id \in Matching(r) : otp' = [otp EXCEPT ![r] = rows[id]]
      BY <1>4 DEF ConsumeLoad
  <2>2. id \in Otp /\ rows[id] # None /\ rows[id].id = id
      BY DEF Matching, InSession, IInv, RowsCreated
  <2>3. Status' = Status /\ Status[id] = "live"
      BY <1>4, <2>2 DEF ConsumeLoad, Status
  <2>4. /\ Taken[r] = None /\ Spent[r] = None
        /\ Taken' = [Taken EXCEPT ![r] = id] /\ Spent' = Spent
      BY <1>4, <2>1, <2>2 DEF ConsumeLoad, Taken, Spent, IInv, TypeOK
  <2> QED
      BY <2>2, <2>3, <2>4 DEF OneTime!Take
<1>5. ASSUME NEW r \in Request, ConsumeDelete(r) PROVE OneTime!Spend(r)
  <2>1. otp[r].id \in Otp /\ otp[r].id \in issued
      BY <1>5 DEF ConsumeDelete, IInv, Held, EmailOTP
  <2>2. Taken[r] = otp[r].id /\ Taken[r] # None
      BY <1>5, <2>1, NoneAssumption DEF ConsumeDelete, Taken
  <2>3. /\ Taken' = [Taken EXCEPT ![r] = None]
        /\ Spent' = [Spent EXCEPT ![r] = otp[r].id]
      BY <1>5 DEF ConsumeDelete, Taken, Spent, IInv, TypeOK
  <2>4. Status' = [Status EXCEPT ![otp[r].id] = "gone"]
      BY <1>5, <2>1 DEF ConsumeDelete, Status, IInv, TypeOK
  <2> QED
      BY <2>2, <2>3, <2>4 DEF OneTime!Spend
<1>6. CASE (\E s \in Session : EndSession(s)) \/ Tick \/ UNCHANGED vars
    BY <1>6 DEF EndSession, Tick, vars, Status, Taken, Spent
<1>7. \A r \in Request : InSession(sess[r]) \in SUBSET Otp
    BY DEF InSession
<1> QED
    BY <1>1, <1>2, <1>3, <1>4, <1>5, <1>6, <1>7
    DEF Next, Handle, OneTime!Next

\* Codes implement one-time tokens.
THEOREM OneTimeTokenImplemented == Spec => ImplementsOneTimeToken
<1>1. Init => OneTime!Init
    BY DEF Init, OneTime!Init, Status, Taken, Spent
<1>2. IInv /\ [Next]_vars => [OneTime!Next]_<<Status, Taken, Spent>>
    BY TokenStep
<1> QED
    BY <1>1, <1>2, InvariantHolds, PTL
    DEF Spec, ImplementsOneTimeToken, OneTime!Spec, OneTime!vars

\* What a verification has loaded had been issued, and what it has deleted is gone.
LEMMA TokenFacts ==
    ASSUME IInv, NEW r \in Request
    PROVE  /\ Taken[r] # None => Taken[r] \in Otp /\ Status[Taken[r]] # "unissued"
           /\ Spent[r] # None => Spent[r] \in Otp /\ Status[Spent[r]] = "gone"
<1>1. pc[r] \in {"consuming", "consumed"} => otp[r].id \in Otp /\ otp[r].id \in issued
    BY DEF IInv, Held, EmailOTP
<1> QED
    BY <1>1 DEF Taken, Spent, Status, IInv, Gone

\* No id of a code is issued twice, and no code that was consumed or replaced is ever
\* back, in whatever order requests replace and verifications delete it.
THEOREM LifecycleImplemented == Spec => OneTime!ImplementsLifecycle
<1>1. Init => OneTime!Lifecycle!Init
    BY DEF Init, OneTime!Lifecycle!Init, Status
<1>2. IInv /\ [Next]_vars => [OneTime!Lifecycle!Next]_Status
  <2> SUFFICES ASSUME IInv, OneTime!Next PROVE [OneTime!Lifecycle!Next]_Status
      BY TokenStep
  <2>1. ASSUME NEW r \in Request, OneTime!Spend(r)
        PROVE  OneTime!Lifecycle!Drop({Taken[r]}) \/ UNCHANGED Status
      BY <2>1, TokenFacts DEF OneTime!Spend, OneTime!Lifecycle!Drop, Status
  <2>2. ASSUME NEW id \in Otp, OneTime!Issue(id) PROVE OneTime!Lifecycle!Issue(id)
      BY <2>2 DEF OneTime!Issue, OneTime!Lifecycle!Issue
  <2>3. ASSUME NEW ids \in SUBSET Otp, OneTime!Void(ids)
        PROVE  OneTime!Lifecycle!Drop(ids)
      BY <2>3 DEF OneTime!Void, OneTime!Lifecycle!Drop
  <2>4. \A r \in Request : OneTime!Spend(r) => {Taken[r]} \in SUBSET Otp
      BY TokenFacts DEF OneTime!Spend
  <2> QED
      BY <2>1, <2>2, <2>3, <2>4
      DEF OneTime!Next, OneTime!Take, OneTime!GiveUp, OneTime!Lifecycle!Next
<1> QED
    BY <1>1, <1>2, InvariantHolds, PTL
    DEF Spec, OneTime!ImplementsLifecycle, OneTime!Lifecycle!Spec

\* No verification loads a code that another one has consumed: two that share one had
\* both loaded it before either deleted it (consume).
THEOREM CodeSharedOnlyByOverlap == Spec => OneTime!SharedOnlyByOverlap
<1> DEFINE Shared ==
        \A r, q \in Request : Taken'[r] \notin {Taken[r], None} => Spent[q] # Taken'[r]
<1>1. IInv /\ [Next]_vars => [Shared]_<<Status, Taken, Spent>>
  <2> SUFFICES ASSUME IInv, OneTime!Next, NEW r \in Request, NEW q \in Request,
                      Taken'[r] \notin {Taken[r], None}
               PROVE  Spent[q] # Taken'[r]
      BY TokenStep
  <2>1. Status[Taken'[r]] = "live" /\ Taken'[r] # None
      BY DEF OneTime!Next, OneTime!Issue, OneTime!Void, OneTime!Take, OneTime!Spend,
             OneTime!GiveUp, Taken
  <2> QED
      BY <2>1, TokenFacts
<1> QED
    BY <1>1, InvariantHolds, PTL DEF Spec, OneTime!SharedOnlyByOverlap, OneTime!vars
=============================================================================
