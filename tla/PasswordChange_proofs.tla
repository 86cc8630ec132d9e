------------------------ MODULE PasswordChange_proofs ------------------------
(***************************************************************************)
(* Proofs about PasswordChange, for any number of requests.                *)
(***************************************************************************)
EXTENDS PasswordChange, TLAPS

\* A request that has not stored its own password yet, and will not unless it
\* is one of those that set one.
Before == {"idle", "rehashing", "looking", "authenticating", "loading",
           "storing", "enrolling", "inserting"}

\* Upgrades concern the outdated password only, a change stores its own, and
\* nobody has seen a password before its request stored it.
Copies ==
    /\ row # NoRow /\ ~row.fresh => row.password = Outdated
    /\ \A r \in Request :
        /\ pc[r] = "rehashing" =>
            row # NoRow /\ copy[r] = [password |-> Outdated, fresh |-> TRUE]
        /\ pc[r] = "storing" => copy[r] = [password |-> r, fresh |-> TRUE]
        /\ pc[r] \in {"authenticating", "loading", "storing"} => row # NoRow
        /\ pc[r] \in {"looking", "authenticating", "loading", "storing", "revoking",
                      "renewing"} => held[r] # NoSession

Unseen ==
    \A r \in Request : pc[r] \in Before =>
        r \notin retired /\ (row # NoRow => row.password # r)

\* A running request that relies on a password replaced before some revocation
\* was under way at that revocation.
ReliesOnOld ==
    /\ \A q \in Request : pc[q] = "idle" => proof[q] = NoPassword
    /\ \A r \in Request : replaced[r] \subseteq retired
    /\ \A q, r \in Request :
        pc[q] \in Running /\ proof[q] \in replaced[r] \ {Outdated} =>
            q \in inFlight[r]

IInv ==
    /\ TypeOK
    /\ Copies
    /\ Unseen
    /\ ReliesOnOld
    /\ RetiredStaysRetired
    /\ SurvivorsOverlapped

LEMMA InitIInv == Init => IInv
<1> SUFFICES ASSUME Init PROVE IInv
    OBVIOUS
<1> USE DEF Init
<1>1. TypeOK
  <2>1. [password |-> Outdated, fresh |-> FALSE] \in Enrollment
    BY DEF Enrollment, Password
  <2> QED
    BY <2>1 DEF TypeOK, Stage
<1>2. Copies /\ Unseen
    BY NoneAssumption DEF Copies, Unseen, Before
<1>3. ReliesOnOld
    BY DEF ReliesOnOld, Running
<1>4. RetiredStaysRetired /\ SurvivorsOverlapped
    BY DEF RetiredStaysRetired, SurvivorsOverlapped
<1> QED
    BY <1>1, <1>2, <1>3, <1>4 DEF IInv

\* A step that only moves a request along, with what it holds in memory: the
\* stage it goes to is one its state is fit for, it presents no other password
\* than the stored one, and it opens sessions on its own account only.
Moves(r) ==
    /\ pc[r] \in {"idle"} \cup Running
    /\ pc' \in [Request -> Stage]
    /\ pc'[r] # "idle"
    /\ pc'[r] \in Before => pc[r] \in Before
    /\ pc'[r] = "rehashing" =>
        row # NoRow /\ copy'[r] = [password |-> Outdated, fresh |-> TRUE]
    /\ pc'[r] = "storing" => copy'[r] = [password |-> r, fresh |-> TRUE]
    /\ pc'[r] \in {"authenticating", "loading", "storing"} => row # NoRow
    /\ pc'[r] \in {"looking", "authenticating", "loading", "storing", "revoking",
                   "renewing"} => held'[r] # NoSession
    /\ \A q \in Request \ {r} :
        /\ pc'[q] = pc[q]
        /\ copy'[q] = copy[q]
        /\ held'[q] = held[q]
        /\ proof'[q] = proof[q]
    /\ proof'[r] # proof[r] => row # NoRow /\ proof'[r] = row.password
    /\ copy' \in [Request -> Enrollment \cup {NoRow}]
    /\ held' \in [Request -> Session \cup {NoSession}]
    /\ proof' \in [Request -> Password \cup {NoPassword}]
    /\ UNCHANGED <<row, retired, inFlight, replaced>>
    /\ live' \subseteq Session
    /\ \A s \in live' :
        \/ s \in live
        \/ s.by = r /\ s.password = proof[r] /\ pc[r] \in Running
        \/ s.password = NoPassword

LEMMA MoveStep ==
    ASSUME IInv, NEW r \in Request, Moves(r)
    PROVE  IInv'
<1> USE DEF Moves
<1>2. TypeOK'
    BY DEF IInv, TypeOK
<1>3. Copies'
    BY DEF IInv, Copies
<1>4. Unseen'
    BY DEF IInv, Unseen
<1>5. /\ \A p \in Request : replaced[p] \subseteq retired /\ NoPassword \notin replaced[p]
      /\ row # NoRow => row.password \notin retired \ {Outdated}
    BY NoneAssumption DEF IInv, TypeOK, ReliesOnOld, RetiredStaysRetired
<1>6. ReliesOnOld'
  <2>1. \A q \in Request : pc'[q] = "idle" => proof'[q] = NoPassword
    BY DEF IInv, ReliesOnOld
  <2>2. ASSUME NEW q \in Request, NEW p \in Request, pc'[q] \in Running,
               proof'[q] \in replaced[p] \ {Outdated}
        PROVE  q \in inFlight[p]
    <3>1. CASE q # r
        BY <2>2, <3>1 DEF IInv, ReliesOnOld
    <3>2. CASE q = r /\ proof'[r] = proof[r]
        <4>1. pc[r] # "idle"
            BY <1>5, <2>2, <3>2 DEF IInv, ReliesOnOld
        <4> QED
            BY <2>2, <3>2, <4>1 DEF IInv, ReliesOnOld
    <3>3. CASE q = r /\ proof'[r] # proof[r]
        BY <1>5, <2>2, <3>3
    <3> QED
        BY <3>1, <3>2, <3>3
  <2> QED
    BY <1>5, <2>1, <2>2 DEF ReliesOnOld
<1>7. RetiredStaysRetired'
    BY DEF IInv, RetiredStaysRetired
<1>8. SurvivorsOverlapped'
  <2> SUFFICES ASSUME NEW p \in Request, NEW s \in live',
                      s.password \in replaced[p] \ {Outdated}
               PROVE  s.by \in inFlight[p]
    BY DEF SurvivorsOverlapped
  <2>1. CASE s \in live
    BY <2>1 DEF IInv, SurvivorsOverlapped
  <2>2. CASE s.by = r /\ s.password = proof[r] /\ pc[r] \in Running
    BY <2>2 DEF IInv, ReliesOnOld
  <2> QED
    BY <1>5, <2>1, <2>2
<1> QED
    BY <1>2, <1>3, <1>4, <1>6, <1>7, <1>8 DEF IInv

LEMMA AuthenticateStep ==
    ASSUME IInv, NEW r \in Request, NEW stage \in {"opening", "loading"},
           pc[r] \in {"idle", "authenticating"}, Authenticate(r, stage),
           stage = "loading" => pc[r] = "authenticating"
    PROVE  IInv'
<1>1. /\ row # NoRow
      /\ row \in Enrollment
      /\ proof' = [proof EXCEPT ![r] = row.password]
      /\ UNCHANGED <<row, live, held, retired, inFlight, replaced>>
    BY DEF Authenticate, IInv, TypeOK
<1>2. /\ proof' \in [Request -> Password \cup {NoPassword}]
      /\ proof'[r] = row.password
      /\ \A q \in Request \ {r} : proof'[q] = proof[q]
    BY <1>1 DEF IInv, TypeOK, Enrollment
<1>3. CASE row.fresh
  <2>1. Goto(r, stage) /\ copy' = copy
    BY <1>3 DEF Authenticate
  <2>2. Moves(r)
    BY <1>1, <1>2, <2>1 DEF Goto, Moves, IInv, TypeOK, Stage, Running, Before, Copies
  <2> QED
    BY <2>2, MoveStep
<1>4. CASE ~row.fresh
  <2>1. /\ Goto(r, "rehashing")
        /\ copy' = [copy EXCEPT ![r] = [password |-> row.password, fresh |-> TRUE]]
    BY <1>4 DEF Authenticate
  <2>2. row.password = Outdated
    BY <1>1, <1>4 DEF IInv, Copies
  <2>3. /\ copy' \in [Request -> Enrollment \cup {NoRow}]
        /\ copy'[r] = [password |-> Outdated, fresh |-> TRUE]
        /\ \A q \in Request \ {r} : copy'[q] = copy[q]
    BY <2>1, <2>2 DEF IInv, TypeOK, Enrollment, Password
  <2>4. Moves(r)
    BY <1>1, <1>2, <2>1, <2>3
        DEF Goto, Moves, IInv, TypeOK, Stage, Running, Before, Copies
  <2> QED
    BY <2>4, MoveStep
<1> QED
    BY <1>3, <1>4

\* A request stores a password of its own for the first time.
LEMMA OwnPasswordStep ==
    ASSUME IInv, NEW r \in Request, NEW stage \in {"opening", "revoking"},
           pc[r] \in {"storing", "inserting"}, Goto(r, stage),
           stage = "revoking" => held[r] # NoSession,
           row' = [password |-> r, fresh |-> TRUE],
           proof' = [proof EXCEPT ![r] = r],
           retired' = IF row = NoRow THEN retired ELSE retired \cup {row.password},
           UNCHANGED <<live, held, copy, inFlight, replaced>>
    PROVE  IInv'
<1> USE DEF Goto
<1>1. /\ pc' \in [Request -> Stage]
      /\ pc'[r] = stage
      /\ \A q \in Request \ {r} : pc'[q] = pc[q]
      /\ row' \in Enrollment
      /\ row' # NoRow
      /\ proof' \in [Request -> Password \cup {NoPassword}]
      /\ proof'[r] = r
      /\ \A q \in Request \ {r} : proof'[q] = proof[q]
      /\ pc[r] \in Before
      /\ r # Outdated
  <2>1. row' \in Enrollment
    BY DEF Enrollment, Password
  <2>2. row' # NoRow /\ r # Outdated
    BY <2>1, NoneAssumption
  <2>3. proof' \in [Request -> Password \cup {NoPassword}]
    BY DEF IInv, TypeOK, Password
  <2> QED
    BY <2>1, <2>2, <2>3 DEF IInv, TypeOK, Stage, Running, Before
<1>2. /\ r \notin retired'
      /\ retired' \subseteq Password
      /\ retired \subseteq retired'
    BY <1>1 DEF IInv, TypeOK, Unseen, Enrollment
<1>3. TypeOK'
    BY <1>1, <1>2 DEF IInv, TypeOK
<1>4. Copies'
    BY <1>1 DEF IInv, Copies
<1>5. Unseen'
  <2> SUFFICES ASSUME NEW q \in Request, pc'[q] \in Before
               PROVE  q \notin retired' /\ row'.password # q
    BY DEF Unseen
  <2>1. q # r
    BY <1>1 DEF Before
  <2> QED
    BY <1>1, <2>1 DEF IInv, Unseen
<1>6. ReliesOnOld'
  <2>1. \A p \in Request : r \notin replaced[p]
    BY <1>2 DEF IInv, ReliesOnOld
  <2> QED
    BY <1>1, <1>2, <2>1 DEF IInv, ReliesOnOld
<1>7. RetiredStaysRetired'
    BY <1>2 DEF RetiredStaysRetired
<1>8. SurvivorsOverlapped'
    BY DEF IInv, SurvivorsOverlapped
<1> QED
    BY <1>3, <1>4, <1>5, <1>6, <1>7, <1>8 DEF IInv

LEMMA RehashStep ==
    ASSUME IInv, NEW r \in Request, Rehash(r)
    PROVE  IInv'
<1> DEFINE stage == IF held[r] = NoSession THEN "opening" ELSE "loading"
<1>1. /\ pc[r] = "rehashing"
      /\ row' = [password |-> Outdated, fresh |-> TRUE]
      /\ row # NoRow
      /\ UNCHANGED <<live, held, copy, proof, retired, inFlight, replaced>>
    BY DEF Rehash, IInv, Copies
<1>2. /\ pc' \in [Request -> Stage]
      /\ pc'[r] = stage
      /\ \A q \in Request \ {r} : pc'[q] = pc[q]
      /\ row' \in Enrollment
      /\ row' # NoRow
  <2>1. row' \in Enrollment
    BY <1>1 DEF Enrollment, Password
  <2>2. row' # NoRow
    BY <2>1, NoneAssumption
  <2> QED
    BY <2>1, <2>2 DEF Rehash, Goto, IInv, TypeOK, Stage, Running
<1>3. TypeOK'
    BY <1>1, <1>2 DEF IInv, TypeOK
<1>4. Copies'
    BY <1>1, <1>2 DEF IInv, Copies
<1>5. Unseen'
    BY <1>1, <1>2, NoneAssumption DEF IInv, Unseen, Before
<1>6. ReliesOnOld'
    BY <1>1, <1>2 DEF IInv, ReliesOnOld, Running
<1>7. RetiredStaysRetired' /\ SurvivorsOverlapped'
    BY <1>1 DEF IInv, RetiredStaysRetired, SurvivorsOverlapped
<1> QED
    BY <1>3, <1>4, <1>5, <1>6, <1>7 DEF IInv

LEMMA RevokeStep ==
    ASSUME IInv, NEW r \in Request, RevokeAll(r)
    PROVE  IInv'
<1> USE DEF RevokeAll, Goto
<1>1. TypeOK'
    BY DEF IInv, TypeOK, Stage, Running
<1>2. Copies' /\ Unseen'
    BY DEF IInv, TypeOK, Copies, Unseen, Before
<1>3. ReliesOnOld'
    BY DEF IInv, TypeOK, ReliesOnOld, Running
<1>4. RetiredStaysRetired' /\ SurvivorsOverlapped'
    BY DEF IInv, RetiredStaysRetired, SurvivorsOverlapped
<1> QED
    BY <1>1, <1>2, <1>3, <1>4 DEF IInv

LEMMA LogoutStep == ASSUME IInv, Logout PROVE IInv'
<1>1. /\ live' \subseteq live
      /\ UNCHANGED <<row, pc, held, copy, proof, retired, inFlight, replaced>>
    BY DEF Logout
<1>2. TypeOK' /\ Copies' /\ Unseen'
    BY <1>1 DEF IInv, TypeOK, Copies, Unseen
<1>3. ReliesOnOld' /\ RetiredStaysRetired' /\ SurvivorsOverlapped'
    BY <1>1 DEF IInv, ReliesOnOld, RetiredStaysRetired, SurvivorsOverlapped
<1> QED
    BY <1>2, <1>3 DEF IInv

LEMMA StutterStep == ASSUME IInv, UNCHANGED vars PROVE IInv'
<1>1. TypeOK' /\ Copies' /\ Unseen'
    BY DEF vars, IInv, TypeOK, Copies, Unseen
<1>2. ReliesOnOld' /\ RetiredStaysRetired' /\ SurvivorsOverlapped'
    BY DEF vars, IInv, ReliesOnOld, RetiredStaysRetired, SurvivorsOverlapped
<1> QED
    BY <1>1, <1>2 DEF IInv

LEMMA HandleStep ==
    ASSUME IInv, NEW r \in Request, Handle(r)
    PROVE  IInv'
<1>1. CASE Login(r)
    BY <1>1, AuthenticateStep DEF Login
<1>2. CASE Rehash(r)
    BY <1>2, RehashStep
<1>3. CASE OpenSession(r)
  <2>1. live' \subseteq Session
    <3>1. [by |-> r, email |-> FALSE, password |-> proof[r]] \in Session
        BY DEF IInv, TypeOK, Session
    <3> QED
        BY <1>3, <3>1 DEF OpenSession, IInv, TypeOK
  <2>2. Moves(r)
    BY <1>3, <2>1
        DEF Goto, Moves, OpenSession, IInv, TypeOK, Stage, Running, Before
  <2> QED
    BY <2>2, MoveStep
<1>4. CASE OpenByEmail(r)
  <2>1. live' \subseteq Session
    <3>1. [by |-> r, email |-> TRUE, password |-> NoPassword] \in Session
        BY DEF Session
    <3> QED
        BY <1>4, <3>1 DEF OpenByEmail, IInv, TypeOK
  <2>2. Moves(r)
    BY <1>4, <2>1
        DEF Goto, Moves, OpenByEmail, IInv, TypeOK, Stage, Running, Before
  <2> QED
    BY <2>2, MoveStep
<1>5. CASE Register(r)
  <2>1. Moves(r)
    BY <1>5
        DEF Goto, Moves, Register, IInv, TypeOK, Stage, Running, Before
  <2> QED
    BY <2>1, MoveStep
<1>6. CASE Enroll(r)
  <2>1. Moves(r)
    BY <1>6
        DEF Goto, Moves, Enroll, IInv, TypeOK, Stage, Running, Before
  <2> QED
    BY <2>1, MoveStep
<1>7. CASE EnrollInsert(r)
    BY <1>7, OwnPasswordStep DEF EnrollInsert, Inserted
<1>8. CASE BeginChange(r)
  <2>1. /\ held' \in [Request -> Session \cup {NoSession}]
        /\ held'[r] # NoSession
        /\ \A q \in Request \ {r} : held'[q] = held[q]
    BY <1>8, NoneAssumption DEF BeginChange, IInv, TypeOK
  <2>2. Moves(r)
    BY <1>8, <2>1
        DEF Goto, Moves, BeginChange, IInv, TypeOK, Stage, Running, Before
  <2> QED
    BY <2>2, MoveStep
<1>9. CASE ChangeLookup(r)
  <2>1. Moves(r)
    BY <1>9
        DEF Goto, Moves, ChangeLookup, IInv, TypeOK, Stage, Running, Before, Copies
  <2> QED
    BY <2>1, MoveStep
<1>10. CASE ChangeAuthenticate(r)
    BY <1>10, AuthenticateStep DEF ChangeAuthenticate
<1>11. CASE ChangeLoad(r)
  <2>1. /\ copy' \in [Request -> Enrollment \cup {NoRow}]
        /\ copy'[r] = [password |-> r, fresh |-> TRUE]
        /\ \A q \in Request \ {r} : copy'[q] = copy[q]
    BY <1>11 DEF ChangeLoad, IInv, TypeOK, Enrollment, Password
  <2>2. Moves(r)
    BY <1>11, <2>1
        DEF Goto, Moves, ChangeLoad, IInv, TypeOK, Stage, Running, Before, Copies
  <2> QED
    BY <2>2, MoveStep
<1>12. CASE ChangeStore(r)
    BY <1>12, OwnPasswordStep DEF ChangeStore, IInv, Copies
<1>13. CASE RevokeAll(r)
    BY <1>13, RevokeStep
<1>14. CASE Renew(r)
  <2>1. live' \subseteq Session
    <3>1. held[r] \in Session
        BY <1>14 DEF Renew, IInv, TypeOK, Copies
    <3>2. [by |-> r, email |-> held[r].email, password |-> proof[r]] \in Session
        BY <3>1 DEF IInv, TypeOK, Session
    <3> QED
        BY <1>14, <3>2 DEF Renew, IInv, TypeOK
  <2>2. Moves(r)
    BY <1>14, <2>1
        DEF Goto, Moves, Renew, IInv, TypeOK, Stage, Running, Before
  <2> QED
    BY <2>2, MoveStep
<1>15. CASE Abandon(r)
  <2>1. Moves(r)
    BY <1>15
        DEF Goto, Moves, Abandon, IInv, TypeOK, Stage, Running, Before
  <2> QED
    BY <2>1, MoveStep
<1> QED
    BY <1>1, <1>2, <1>3, <1>4, <1>5, <1>6, <1>7, <1>8, <1>9, <1>10, <1>11,
       <1>12, <1>13, <1>14, <1>15 DEF Handle

LEMMA IInvHolds == Spec => []IInv
<1>1. IInv /\ [Next]_vars => IInv'
    BY HandleStep, LogoutStep, StutterStep DEF Next
<1> QED
    BY <1>1, InitIInv, PTL DEF Spec

\* Every variable keeps its type.
THEOREM TypeCorrect == Spec => []TypeOK
<1>1. IInv => TypeOK
    BY DEF IInv
<1> QED
    BY <1>1, IInvHolds, PTL

\* A replaced password never comes back unless its hash was outdated.
THEOREM RetiredStaysRetiredHolds == Spec => []RetiredStaysRetired
<1>1. IInv => RetiredStaysRetired
    BY DEF IInv
<1> QED
    BY <1>1, IInvHolds, PTL

\* Sessions resting on a replaced password come from overlapping requests only.
THEOREM SurvivorsOverlappedHolds == Spec => []SurvivorsOverlapped
<1>1. IInv => SurvivorsOverlapped
    BY DEF IInv
<1> QED
    BY <1>1, IInvHolds, PTL

----------------------------------------------------------------------------
(* What an upgrade of a hash can cost *)

\* An upgrade under way concerns the stored password, or one that a change has
\* replaced since.
Upgrading ==
    \A r \in Request : pc[r] = "rehashing" =>
        row.password = Outdated \/ Outdated \in retired

\* The upgrade that changes which password is stored undoes a change: it brings
\* back the outdated password, which a change has replaced, and no other
\* (authenticate, change).
RehashUndoesAChangeOnly ==
    [][\A r \in Request :
        /\ pc[r] = "rehashing" /\ pc'[r] \notin {"rehashing", "raised"}
        /\ row'.password # row.password
        => row'.password = Outdated /\ Outdated \in retired]_vars

\* The steps that write the row.
LEMMA RowWriters ==
    ASSUME Next, UNCHANGED row => FALSE
    PROVE  \E r \in Request : Rehash(r) \/ ChangeStore(r) \/ EnrollInsert(r)
    BY DEF Next, Logout, Handle, Login, Authenticate, OpenSession, OpenByEmail,
           Register, Enroll, BeginChange, ChangeLookup, ChangeAuthenticate,
           ChangeLoad, RevokeAll, Renew, Abandon

\* The steps after which a request is about to store an upgraded hash.
LEMMA UpgradeBegins ==
    ASSUME IInv, Next, NEW r \in Request, pc[r] # "rehashing", pc'[r] = "rehashing"
    PROVE  row # NoRow /\ ~row.fresh /\ row' = row
<1>1. PICK q \in Request : Handle(q)
    BY DEF Next, Logout
<1>2. PICK stage \in {"opening", "loading"} : Authenticate(q, stage)
    BY <1>1 DEF Handle, Login, Rehash, OpenSession, OpenByEmail, Register, Enroll,
        EnrollInsert, Inserted, BeginChange, ChangeLookup, ChangeAuthenticate,
        ChangeLoad, ChangeStore, RevokeAll, Renew, Abandon, Goto, IInv, TypeOK
<1> QED
    BY <1>2 DEF Authenticate, Goto, IInv, TypeOK

LEMMA UpgradingStep ==
    ASSUME IInv, Upgrading, [Next]_vars
    PROVE  Upgrading'
<1> SUFFICES ASSUME NEW r \in Request, pc'[r] = "rehashing"
             PROVE  row'.password = Outdated \/ Outdated \in retired'
    BY DEF Upgrading
<1>1. retired \subseteq retired'
    BY DEF Next, Logout, Handle, Login, Authenticate, Rehash, OpenSession,
           OpenByEmail, Register, Enroll, EnrollInsert, Inserted, BeginChange,
           ChangeLookup, ChangeAuthenticate, ChangeLoad, ChangeStore, RevokeAll,
           Renew, Abandon, vars
<1>2. CASE pc[r] # "rehashing"
    BY <1>2, UpgradeBegins DEF IInv, Copies, vars
<1>3. CASE pc[r] = "rehashing"
  <2>0. row # NoRow
      BY <1>3 DEF IInv, Copies
  <2>1. CASE row' = row
      BY <1>1, <1>3, <2>1 DEF Upgrading
  <2>2. ASSUME NEW q \in Request, Rehash(q)
        PROVE  row'.password = Outdated \/ Outdated \in retired'
    <3>1. pc[q] = "rehashing" /\ row' = copy[q]
        BY <2>2 DEF Rehash
    <3>2. row' = [password |-> Outdated, fresh |-> TRUE]
        BY <3>1 DEF IInv, Copies
    <3> QED
        BY <3>2
  <2>3. CASE \E q \in Request : ChangeStore(q)
      BY <1>1, <1>3, <2>3 DEF ChangeStore, Upgrading
  <2>4. CASE \E q \in Request : EnrollInsert(q)
      BY <2>0, <2>4 DEF EnrollInsert
  <2> QED
      BY <2>1, <2>2, <2>3, <2>4, RowWriters DEF vars
<1> QED
    BY <1>2, <1>3

\* An upgrade that changes the stored password undoes a change of it.
THEOREM RehashUndoesAChangeOnlyHolds == Spec => RehashUndoesAChangeOnly
<1> DEFINE Undone ==
        \A r \in Request :
            /\ pc[r] = "rehashing" /\ pc'[r] \notin {"rehashing", "raised"}
            /\ row'.password # row.password
            => row'.password = Outdated /\ Outdated \in retired
<1>1. Init => Upgrading
    BY DEF Init, Upgrading
<1>2. IInv /\ Upgrading /\ [Next]_vars => Upgrading'
    BY UpgradingStep
<1>3. IInv /\ Upgrading /\ [Next]_vars => [Undone]_vars
  <2> SUFFICES ASSUME IInv, Upgrading, Next, NEW r \in Request,
                      pc[r] = "rehashing", pc'[r] \notin {"rehashing", "raised"},
                      row'.password # row.password
               PROVE  row'.password = Outdated /\ Outdated \in retired
      OBVIOUS
  <2>1. PICK q \in Request : Rehash(q) \/ ChangeStore(q) \/ EnrollInsert(q)
      BY RowWriters
  <2>2. q = r
      BY <2>1 DEF Rehash, ChangeStore, EnrollInsert, Inserted, Goto, IInv, TypeOK
  <2>3. row' = [password |-> Outdated, fresh |-> TRUE]
      BY <2>1, <2>2 DEF Rehash, ChangeStore, EnrollInsert, IInv, Copies
  <2> QED
      BY <2>3 DEF Upgrading
<1> QED
    BY <1>1, <1>2, <1>3, IInvHolds, PTL DEF Spec, RehashUndoesAChangeOnly

----------------------------------------------------------------------------
(* What the sessions rest on *)

LEMMA RecordIsARow ==
    ASSUME NEW w \in Password, NEW row1, row1 = [password |-> w, fresh |-> TRUE]
    PROVE  row1 # NoRow
<1>1. row1 \in Enrollment
    BY DEF Enrollment
<1> QED
    BY <1>1, NoneAssumption

\* A password that is stored, or that a change has replaced, unless an upgrade
\* has undone a change.
Kept(p) == row # NoRow /\ (p \in {row.password} \cup retired \/ Outdated \in retired)

\* Requests have checked such passwords only, and so have the sessions' logins.
Resting ==
    /\ \A r \in Request : proof[r] # NoPassword => Kept(proof[r])
    /\ SessionsRestOnStored

LEMMA KeptStep ==
    ASSUME IInv, Upgrading, [Next]_vars, NEW p, Kept(p)
    PROVE  Kept(p)'
<1>1. retired \subseteq retired'
    BY DEF Next, Logout, Handle, Login, Authenticate, Rehash, OpenSession,
           OpenByEmail, Register, Enroll, EnrollInsert, Inserted, BeginChange,
           ChangeLookup, ChangeAuthenticate, ChangeLoad, ChangeStore, RevokeAll,
           Renew, Abandon, vars
<1>2. CASE row' = row
    BY <1>1, <1>2 DEF Kept
<1>3. ASSUME NEW q \in Request, Rehash(q) PROVE Kept(p)'
  <2>1. /\ row' = [password |-> Outdated, fresh |-> TRUE]
        /\ row.password = Outdated \/ Outdated \in retired
        /\ retired' = retired
    BY <1>3 DEF Rehash, IInv, Copies, Upgrading
  <2>2. row' # NoRow
    BY <2>1, RecordIsARow DEF Password
  <2> QED
    BY <2>1, <2>2 DEF Kept
<1>4. ASSUME NEW q \in Request, ChangeStore(q) PROVE Kept(p)'
  <2>1. retired' = retired \cup {row.password}
    BY <1>4 DEF ChangeStore
  <2>2. row' # NoRow
    BY <1>4, RecordIsARow DEF ChangeStore, IInv, Copies, Password
  <2> QED
    BY <2>1, <2>2 DEF Kept
<1>5. ~\E q \in Request : EnrollInsert(q)
    BY DEF EnrollInsert, Kept
<1> QED
    BY <1>2, <1>3, <1>4, <1>5, RowWriters DEF vars

\* A request comes to know a password where it is the stored one.
LEMMA ProofStep ==
    ASSUME IInv, [Next]_vars, NEW r \in Request, proof'[r] # proof[r]
    PROVE  row' # NoRow /\ proof'[r] = row'.password
<1>1. PICK q \in Request : Login(q) \/ ChangeAuthenticate(q) \/ EnrollInsert(q)
                           \/ ChangeStore(q)
    BY DEF Next, Logout, Handle, Rehash, OpenSession, OpenByEmail, Register, Enroll,
           BeginChange, ChangeLookup, ChangeLoad, RevokeAll, Renew, Abandon, vars
<1>2. CASE Login(q) \/ ChangeAuthenticate(q)
    BY <1>2 DEF Login, ChangeAuthenticate, Authenticate, IInv, TypeOK
<1>3. CASE EnrollInsert(q) \/ ChangeStore(q)
  <2>1. /\ row' = [password |-> q, fresh |-> TRUE]
        /\ proof' = [proof EXCEPT ![q] = q]
    BY <1>3 DEF EnrollInsert, Inserted, ChangeStore, IInv, Copies
  <2>2. row' # NoRow
    BY <2>1, RecordIsARow DEF Password
  <2> QED
    BY <2>1, <2>2 DEF IInv, TypeOK
<1> QED
    BY <1>1, <1>2, <1>3

\* A session opens with the password that its request knows, or with none.
LEMMA LiveStep ==
    ASSUME IInv, [Next]_vars, NEW s \in live', s \notin live
    PROVE  s.password = NoPassword \/ \E r \in Request : s.password = proof[r]
<1>1. PICK q \in Request : OpenSession(q) \/ OpenByEmail(q) \/ Renew(q)
    BY DEF Next, Logout, Handle, Login, Authenticate, Rehash, Register, Enroll,
           EnrollInsert, Inserted, BeginChange, ChangeLookup, ChangeAuthenticate,
           ChangeLoad, ChangeStore, RevokeAll, Abandon, vars
<1> QED
    BY <1>1 DEF OpenSession, OpenByEmail, Renew

LEMMA RestingStep ==
    ASSUME IInv, Upgrading, Resting, [Next]_vars
    PROVE  Resting'
<1>1. ASSUME NEW r \in Request, NEW p, p = proof'[r], p # NoPassword
      PROVE  Kept(p)'
  <2>1. CASE p = proof[r]
    BY <1>1, <2>1, KeptStep DEF Resting
  <2>2. CASE p # proof[r]
    BY <1>1, <2>2, ProofStep DEF Kept
  <2> QED
    BY <2>1, <2>2
<1>2. ASSUME NEW s \in live', s.password # NoPassword PROVE Kept(s.password)'
  <2>1. Kept(s.password)
    BY <1>2, LiveStep DEF Resting, SessionsRestOnStored, Kept
  <2> QED
    BY <2>1, KeptStep
<1>3. \A r \in Request : (proof[r] # NoPassword => Kept(proof[r]))'
    BY <1>1 DEF Kept
<1> QED
    BY <1>2, <1>3 DEF Resting, SessionsRestOnStored, Kept

\* No session rests on a password that was never stored: of several first
\* passwords set at once one succeeds, and the others open no session.
THEOREM SessionsRestOnStoredHolds == Spec => []SessionsRestOnStored
<1>1. Init => Upgrading /\ Resting
    BY DEF Init, Upgrading, Resting, SessionsRestOnStored
<1>2. IInv /\ Upgrading /\ Resting /\ [Next]_vars => Upgrading' /\ Resting'
    BY UpgradingStep, RestingStep
<1>3. Resting => SessionsRestOnStored
    BY DEF Resting
<1> QED
    BY <1>1, <1>2, <1>3, IInvHolds, PTL DEF Spec
=============================================================================
