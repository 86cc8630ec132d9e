----------------------- MODULE OneTimePassword_proofs -----------------------
(***************************************************************************)
(* Proofs about OneTimePassword, for both kinds of factor, any number of   *)
(* requests and enrolments and windows of any size.                        *)
(***************************************************************************)
EXTENDS OneTimePassword, TLAPS

\* Rows, copies and codes fit together: the copy a check is about to store
\* stands right after the code it has accepted.
Shape ==
    /\ \A id \in Id : rows[id] # NoRow => rows[id].id = id /\ id \in issued
    /\ \A r \in Request : pc[r] \in Checking =>
        /\ snap[r] # NoRow
        /\ snap[r].enabled
        /\ snap[r].id \in issued
        /\ code[r] # NoCode
        /\ code[r].id = snap[r].id
        /\ snap[r].next = code[r].count + 1
    /\ \A r \in Request : pc[r] = "deleting" => snap[r] # NoRow /\ ~snap[r].enabled
    /\ \A r \in Accepted : code[r] # NoCode /\ code[r].id \in issued

\* Accepted codes are below the stored counter and below the code of the one
\* check that may be under way.
InOrder ==
    \A id \in Id \ raced :
        /\ \A q \in Accepted :
            code[q].id = id /\ rows[id] # NoRow => code[q].count < rows[id].next
        /\ \A r \in UnderWay(id), q \in Accepted :
            code[q].id = id => code[q].count < code[r].count
        /\ \A r, q \in UnderWay(id) : r = q

IInv == TypeOK /\ Shape /\ InOrder /\ NoReplay /\ NeverAhead

\* A code the window admits is not below the stored counter.
LEMMA WindowAbove ==
    ASSUME NEW e \in Enrollment, NEW c \in Code, Accepts(e, c)
    PROVE  c.id = e.id /\ c.count >= e.next
BY DEF Accepts, TimeWindow, CounterWindow, Enrollment, Code

LEMMA InitIInv == Init => IInv
<1> SUFFICES ASSUME Init PROVE IInv
    OBVIOUS
<1> USE DEF Init
<1>1. TypeOK
    BY WindowAssumption DEF TypeOK, Stage
<1>2. Shape
    BY DEF Shape, Checking, Accepted
<1>3. InOrder
    BY DEF InOrder, Accepted, UnderWay, Checking
<1>4. NoReplay /\ NeverAhead
    BY DEF NoReplay, NeverAhead, Accepted, Present
<1> QED
    BY <1>1, <1>2, <1>3, <1>4 DEF IInv

\* A request that gives up preserves the invariant.
LEMMA RaiseStep ==
    ASSUME IInv, NEW r \in Request, pc[r] # "accepted", Raise(r)
    PROVE  IInv'
<1> USE DEF Raise
<1>1. TypeOK'
    BY DEF IInv, TypeOK, Stage
<1>2. /\ Accepted' = Accepted
      /\ \A q \in Accepted : code'[q] = code[q]
      /\ \A q \in Request : pc'[q] \in Checking \cup {"deleting"} =>
            q # r /\ pc'[q] = pc[q] /\ snap'[q] = snap[q] /\ code'[q] = code[q]
    BY DEF IInv, TypeOK, Accepted, Checking
<1>3. Shape'
    BY <1>2 DEF IInv, Shape
<1>4. \A id \in Id : \A q \in UnderWay(id)' : q \in UnderWay(id) /\ code'[q] = code[q]
    BY <1>2 DEF UnderWay
<1>5. InOrder'
    BY <1>2, <1>4 DEF IInv, InOrder
<1>6. NoReplay' /\ NeverAhead'
    BY <1>2 DEF IInv, NoReplay, NeverAhead, Present
<1> QED
    BY <1>1, <1>3, <1>5, <1>6 DEF IInv

\* So does one that only moves between the stages of enroll().
LEMMA EnrollStep ==
    ASSUME IInv, NEW r \in Request,
           EnrollLoad(r) \/ EnrollDelete(r) \/ EnrollInsert(r)
    PROVE  IInv'
<1>1. /\ pc[r] \in {"idle", "deleting", "inserting"}
      /\ pc' \in [Request -> Stage]
      /\ pc'[r] \in {"deleting", "inserting", "enrolled"}
      /\ \A q \in Request \ {r} : pc'[q] = pc[q] /\ snap'[q] = snap[q]
      /\ snap' \in [Request -> Enrollment \cup {NoRow}]
      /\ pc'[r] = "deleting" => snap'[r] # NoRow /\ ~snap'[r].enabled
      /\ UNCHANGED <<kind, now, code, at, raced>>
    BY DEF IInv, TypeOK, EnrollLoad, EnrollDelete, EnrollInsert, Present, Stage,
           Enrolling
<1>2. /\ rows' \in [Id -> Enrollment \cup {NoRow}]
      /\ issued' \subseteq Id
      /\ issued \subseteq issued'
      /\ \A id \in Id : rows'[id] # NoRow =>
            /\ rows'[id].id = id
            /\ id \in issued'
            /\ \/ rows'[id] = rows[id]
               \/ rows'[id].next = 0 /\ id \notin issued
  <2>1. CASE EnrollLoad(r)
    BY <2>1 DEF EnrollLoad, IInv, TypeOK, Shape
  <2>2. CASE EnrollDelete(r)
    BY <2>2 DEF EnrollDelete, IInv, TypeOK, Shape
  <2>3. CASE EnrollInsert(r)
    BY <2>3 DEF EnrollInsert, IInv, TypeOK, Shape, Enrollment
  <2> QED
    BY <2>1, <2>2, <2>3
<1>3. TypeOK'
    BY <1>1, <1>2 DEF IInv, TypeOK
<1>4. /\ Accepted' = Accepted
      /\ \A id \in Id : UnderWay(id)' = UnderWay(id)
      /\ \A q \in Request : pc'[q] \in Checking => q # r
    BY <1>1 DEF IInv, TypeOK, Accepted, UnderWay, Checking
<1>5. Shape'
    BY <1>1, <1>2, <1>4 DEF IInv, TypeOK, Shape
<1>6. InOrder'
    BY <1>1, <1>2, <1>4 DEF IInv, TypeOK, Shape, InOrder
<1>7. NoReplay' /\ NeverAhead'
    BY <1>1, <1>2, <1>4 DEF IInv, NoReplay, NeverAhead, Present
<1> QED
    BY <1>3, <1>5, <1>6, <1>7 DEF IInv

\* A check of a code that succeeds.
LEMMA CheckStep ==
    ASSUME IInv, NEW r \in Request, NEW enabled \in BOOLEAN, Check(r, enabled)
    PROVE  IInv'
<1>1. PICK id \in Present, c \in [id: Id, count: 0..MaxCount] :
        /\ Accepts(rows[id], c)
        /\ snap' = [snap EXCEPT ![r] =
                        [Verified(rows[id], c) EXCEPT !.enabled = TRUE]]
        /\ code' = [code EXCEPT ![r] = c]
        /\ raced' = IF UnderWay(id) = {} THEN raced ELSE raced \cup {id}
    BY DEF Check
<1>2. /\ pc[r] = "idle"
      /\ pc' = [pc EXCEPT ![r] = IF enabled THEN "verifying" ELSE "enabling"]
      /\ at' = [at EXCEPT ![r] = now]
      /\ UNCHANGED <<kind, now, rows, issued>>
    BY DEF Check
<1>3. /\ id \in Id
      /\ rows[id] \in Enrollment
      /\ rows[id].id = id
      /\ id \in issued
      /\ c \in Code
    BY WindowAssumption DEF Present, IInv, TypeOK, Shape, Code
<1>4. c.id = id /\ c.count >= rows[id].next
    BY <1>1, <1>3, WindowAbove
<1>5. /\ snap'[r] = [id |-> id, enabled |-> TRUE, next |-> c.count + 1]
      /\ code'[r] = c
      /\ pc'[r] \in Checking
      /\ \A q \in Request \ {r} :
            snap'[q] = snap[q] /\ code'[q] = code[q] /\ pc'[q] = pc[q]
    BY <1>1, <1>2, <1>3 DEF Verified, Enrollment, IInv, TypeOK, Checking
<1>6. TypeOK'
  <2>1. snap'[r] \in Enrollment
    BY <1>3, <1>5 DEF Enrollment, Code
  <2>2. /\ snap' \in [Request -> Enrollment \cup {NoRow}]
        /\ code' \in [Request -> Code \cup {NoCode}]
    BY <1>1, <1>3, <2>1 DEF IInv, TypeOK
  <2>3. /\ pc' \in [Request -> Stage]
        /\ at' \in [Request -> Nat]
        /\ raced' \subseteq Id
    BY <1>1, <1>2, <1>3 DEF IInv, TypeOK, Stage, Checking
  <2> QED
    BY <1>2, <2>2, <2>3 DEF IInv, TypeOK
<1>7. /\ Accepted' = Accepted
      /\ r \notin Accepted
      /\ \A q \in Accepted : code'[q] = code[q]
    BY <1>2, <1>5 DEF Accepted, Checking
<1>8. \A i \in Id : UnderWay(i)' = IF i = id THEN UnderWay(i) \cup {r} ELSE UnderWay(i)
    BY <1>2, <1>5 DEF UnderWay, Checking
<1>9. Shape'
  <2>1. \A q \in Request : pc'[q] = "deleting" => q # r
    BY <1>5 DEF Checking
  <2>2. /\ snap'[r] # NoRow
        /\ code'[r] # NoCode
        /\ code'[r].id = snap'[r].id
        /\ snap'[r].id = id
        /\ snap'[r].enabled
        /\ snap'[r].next = code'[r].count + 1
    <3>1. snap'[r] \in Enrollment /\ code'[r] \in Code
        BY <1>3, <1>5 DEF Enrollment, Code
    <3>2. snap'[r] # NoRow /\ code'[r] # NoCode
        BY <3>1, NoneAssumption
    <3> QED
        BY <1>4, <1>5, <3>2
  <2>3. \A i \in Id : rows'[i] # NoRow => rows'[i].id = i /\ i \in issued'
    BY <1>2 DEF IInv, Shape
  <2>4. ASSUME NEW q \in Request, pc'[q] \in Checking
        PROVE  /\ snap'[q] # NoRow
               /\ snap'[q].enabled
               /\ snap'[q].id \in issued'
               /\ code'[q] # NoCode
               /\ code'[q].id = snap'[q].id
               /\ snap'[q].next = code'[q].count + 1
    <3>1. CASE q = r
        BY <1>2, <1>3, <2>2, <3>1
    <3>2. CASE q # r
        BY <1>2, <1>5, <2>4, <3>2 DEF IInv, Shape
    <3> QED
        BY <3>1, <3>2
  <2>5. \A q \in Request : pc'[q] = "deleting" => snap'[q] # NoRow /\ ~snap'[q].enabled
    BY <1>5, <2>1 DEF IInv, Shape
  <2>6. \A q \in Accepted' : code'[q] # NoCode /\ code'[q].id \in issued'
    BY <1>2, <1>7 DEF IInv, Shape
  <2> QED
    BY <2>3, <2>4, <2>5, <2>6 DEF Shape
<1>10. InOrder'
  <2> SUFFICES ASSUME NEW i \in Id, i \notin raced'
               PROVE  /\ \A q \in Accepted :
                            code[q].id = i /\ rows[i] # NoRow =>
                                code[q].count < rows[i].next
                      /\ \A p \in UnderWay(i)', q \in Accepted :
                            code[q].id = i => code[q].count < code'[p].count
                      /\ \A p, q \in UnderWay(i)' : p = q
    BY <1>2, <1>7 DEF InOrder
  <2>1. i \notin raced
    BY <1>1
  <2>2. r \notin UnderWay(i)
    BY <1>2 DEF UnderWay, Checking
  <2>3. CASE i = id
    <3>1. UnderWay(i) = {}
        BY <1>1, <2>3
    <3>2. UnderWay(i)' = {r}
        BY <1>8, <2>3, <3>1
    <3>3. \A q \in Accepted : code[q].id = i => code[q] \in Code
        BY DEF IInv, TypeOK, Shape, Accepted
    <3>4. \A q \in Accepted : code[q].id = i => code[q].count < c.count
        BY <1>3, <1>4, <2>1, <2>3, <3>3 DEF IInv, InOrder, Present, Code, Enrollment
    <3> QED
        BY <1>5, <2>1, <3>2, <3>4 DEF IInv, InOrder
  <2>4. CASE i # id
    <3>1. UnderWay(i)' = UnderWay(i)
        BY <1>8, <2>4
    <3> QED
        BY <1>5, <2>1, <2>2, <3>1 DEF IInv, InOrder, UnderWay
  <2> QED
    BY <2>3, <2>4
<1>11. NoReplay' /\ NeverAhead'
    BY <1>1, <1>2, <1>7 DEF IInv, NoReplay, NeverAhead, Present
<1> QED
    BY <1>6, <1>9, <1>10, <1>11 DEF IInv

\* The update that makes a code count.
LEMMA StoreStep ==
    ASSUME IInv, NEW r \in Request, Store(r)
    PROVE  IInv'
<1> DEFINE id == snap[r].id
<1>1. /\ pc[r] \in Checking
      /\ snap[r] \in Enrollment
      /\ snap[r].enabled
      /\ id \in issued
      /\ id \in Id
      /\ code[r] \in Code
      /\ code[r].id = id
      /\ snap[r].next = code[r].count + 1
    BY DEF Store, IInv, TypeOK, Shape, Enrollment
<1>2. /\ UNCHANGED <<kind, now, issued, snap, code, at, raced>>
      /\ pc' = [pc EXCEPT ![r] = "accepted"]
      /\ rows' \in [Id -> Enrollment \cup {NoRow}]
      /\ \A i \in Id : i # id => rows'[i] = rows[i]
      /\ rows'[id] = IF rows[id] = NoRow THEN NoRow ELSE snap[r]
    BY <1>1 DEF Store, IInv, TypeOK
<1>3. TypeOK'
    BY <1>2 DEF IInv, TypeOK, Stage
<1>4. /\ Accepted' = Accepted \cup {r}
      /\ r \notin Accepted
      /\ r \in UnderWay(id)
      /\ \A i \in Id : UnderWay(i)' = UnderWay(i) \ {r}
    BY <1>1, <1>2 DEF IInv, TypeOK, Accepted, UnderWay, Checking
<1>5. Shape'
    BY <1>1, <1>2, <1>4, NoneAssumption DEF IInv, TypeOK, Shape, Checking
<1>6. \A q \in Accepted : code[q] \in Code
    BY DEF IInv, TypeOK, Shape, Accepted
<1>7. InOrder'
  <2> SUFFICES ASSUME NEW i \in Id, i \notin raced
               PROVE  /\ \A q \in Accepted' :
                            code[q].id = i /\ rows'[i] # NoRow =>
                                code[q].count < rows'[i].next
                      /\ \A p \in UnderWay(i)', q \in Accepted' :
                            code[q].id = i => code[q].count < code[p].count
                      /\ \A p, q \in UnderWay(i)' : p = q
    BY <1>2 DEF InOrder
  <2>1. CASE i = id
    <3>1. UnderWay(i)' = {}
        BY <1>4, <2>1 DEF IInv, InOrder
    <3>2. \A q \in Accepted : code[q].id = i => code[q].count < code[r].count
        BY <1>4, <2>1 DEF IInv, InOrder
    <3>3. \A q \in Accepted' : code[q].id = i => code[q].count < snap[r].next
        BY <1>1, <1>4, <1>6, <3>2 DEF Code
    <3> QED
        BY <1>2, <2>1, <3>1, <3>3
  <2>2. CASE i # id
    BY <1>1, <1>2, <1>4, <2>2 DEF IInv, InOrder
  <2> QED
    BY <2>1, <2>2
<1>8. NoReplay'
  <2>1. id \notin raced =>
            \A q \in Accepted : code[q].id = id => code[q].count < code[r].count
    BY <1>1, <1>4 DEF IInv, InOrder
  <2>2. id \notin raced => \A q \in Accepted : code[q] # code[r]
    BY <1>1, <1>6, <2>1 DEF Code
  <2> QED
    BY <1>1, <1>2, <1>4, <2>2 DEF IInv, NoReplay
<1>9. NeverAhead'
  <2> SUFFICES ASSUME NEW i \in Id, rows'[i] # NoRow, rows'[i].next # 0
               PROVE  \E q \in Accepted' :
                            code[q] = [id |-> i, count |-> rows'[i].next - 1]
    BY <1>2 DEF NeverAhead, Present
  <2>1. CASE i = id
    <3>1. code[r] = [id |-> i, count |-> rows'[i].next - 1]
        BY <1>1, <1>2, <2>1 DEF Code, Enrollment
    <3> QED
        BY <1>4, <3>1
  <2>2. CASE i # id
    BY <1>2, <1>4, <2>2 DEF IInv, NeverAhead, Present
  <2> QED
    BY <2>1, <2>2
<1> QED
    BY <1>3, <1>5, <1>7, <1>8, <1>9 DEF IInv

LEMMA IInvInductive == IInv /\ [Next]_vars => IInv'
<1> SUFFICES ASSUME IInv, [Next]_vars PROVE IInv'
    OBVIOUS
<1>1. ASSUME NEW r \in Request, Handle(r) PROVE IInv'
  <2>1. CASE EnrollLoad(r) \/ EnrollDelete(r) \/ EnrollInsert(r)
    BY <2>1, EnrollStep
  <2>2. CASE Check(r, FALSE) \/ Check(r, TRUE)
    BY <2>2, CheckStep
  <2>3. CASE Store(r)
    BY <2>3, StoreStep
  <2>4. CASE EnrollFails(r) \/ CheckFails(r) \/ Fail(r)
    BY <2>4, RaiseStep DEF EnrollFails, CheckFails, Fail, Checking, Enrolling
  <2> QED
    BY <1>1, <2>1, <2>2, <2>3, <2>4 DEF Handle
<1>2. CASE Tick
  <2> USE <1>2 DEF Tick
  <2>1. TypeOK'
    BY DEF IInv, TypeOK
  <2>2. Shape' /\ InOrder'
    BY DEF IInv, Shape, InOrder, Accepted, UnderWay
  <2>3. NoReplay' /\ NeverAhead'
    BY DEF IInv, NoReplay, NeverAhead, Accepted, Present
  <2> QED
    BY <2>1, <2>2, <2>3 DEF IInv
<1>3. CASE UNCHANGED vars
  <2> USE <1>3 DEF vars
  <2>1. TypeOK'
    BY DEF IInv, TypeOK
  <2>2. Shape' /\ InOrder'
    BY DEF IInv, Shape, InOrder, Accepted, UnderWay
  <2>3. NoReplay' /\ NeverAhead'
    BY DEF IInv, NoReplay, NeverAhead, Accepted, Present
  <2> QED
    BY <2>1, <2>2, <2>3 DEF IInv
<1> QED
    BY <1>1, <1>2, <1>3 DEF Next

LEMMA IInvHolds == Spec => []IInv
BY InitIInv, IInvInductive, PTL DEF Spec

\* Every variable keeps its type.
THEOREM TypeCorrect == Spec => []TypeOK
<1>1. IInv => TypeOK
    BY DEF IInv
<1> QED
    BY <1>1, IInvHolds, PTL

\* No code counts twice in checks that do not overlap, whatever the window.
THEOREM NoReplayHolds == Spec => []NoReplay
<1>1. IInv => NoReplay
    BY DEF IInv
<1> QED
    BY <1>1, IInvHolds, PTL

\* The stored counter follows an accepted code, whichever update lands last.
THEOREM NeverAheadHolds == Spec => []NeverAhead
<1>1. IInv => NeverAhead
    BY DEF IInv
<1> QED
    BY <1>1, IInvHolds, PTL

\* An enabled factor is only ever removed by an enroll() that found it disabled.
THEOREM EnabledStaysHolds == Spec => EnabledStays
<1> DEFINE Removal(id) ==
        \E r \in Request : pc[r] = "deleting" /\ snap[r].id = id /\ ~snap[r].enabled
<1>1. ASSUME IInv, [Next]_vars, NEW id \in Id, Enabled(id), ~Enabled(id)'
      PROVE  Removal(id)
  <2>1. ~UNCHANGED rows
    BY <1>1 DEF Enabled
  <2>2. PICK r \in Request : EnrollDelete(r) \/ EnrollInsert(r) \/ Store(r)
    BY <1>1, <2>1 DEF Next, vars, Tick, Handle, EnrollLoad, EnrollFails, Check,
                      CheckFails, Fail, Raise
  <2>3. CASE EnrollDelete(r)
    BY <1>1, <2>3 DEF EnrollDelete, Enabled, IInv, TypeOK, Shape
  <2>4. CASE EnrollInsert(r)
    BY <1>1, <2>4 DEF EnrollInsert, Enabled, IInv, TypeOK, Shape
  <2>5. CASE Store(r)
    BY <1>1, <2>5 DEF Store, Enabled, IInv, TypeOK, Shape
  <2> QED
    BY <2>2, <2>3, <2>4, <2>5
<1>2. IInv /\ [Next]_vars =>
        [\A id \in Id : Enabled(id) /\ ~Enabled(id)' => Removal(id)]_vars
    BY <1>1
<1> QED
    BY <1>2, IInvHolds, PTL DEF Spec, EnabledStays

----------------------------------------------------------------------------
(* How far the windows reach *)

\* A code of the same enrolment, at most gap below that of r, counted before.
Follows(r, gap) ==
    \E q \in Accepted :
        /\ code[q].id = code[r].id
        /\ code[q].count < code[r].count
        /\ code[r].count <= code[q].count + gap

\* The finding about the drift tolerance, from above: a TOTP code is from one
\* step beyond it at most, unless it is the direct successor of one that counted,
\* and never from further back (_verify of totp.py).
DriftBound(r) ==
    /\ code[r].count >= at[r] - Drift
    /\ code[r].count <= at[r] + Drift + 1 \/ Follows(r, 1)

\* A HOTP code is at most LookAhead events past the start or past the successor
\* of one that counted, so that codes do not leap ahead (_verify of hotp.py).
LookAheadBound(r) == code[r].count <= LookAhead \/ Follows(r, LookAhead + 1)

WindowBound(r) ==
    /\ kind = "totp" => DriftBound(r)
    /\ kind = "hotp" => LookAheadBound(r)

WindowInv == \A r \in Request : pc[r] \in Checking \cup {"accepted"} => WindowBound(r)

\* What a code has followed it goes on following.
LEMMA WindowBoundStays ==
    ASSUME NEW r \in Request, WindowBound(r),
           UNCHANGED kind, code'[r] = code[r], at'[r] = at[r],
           \A q \in Accepted : q \in Accepted' /\ code'[q] = code[q]
    PROVE  WindowBound(r)'
BY DEF WindowBound, DriftBound, LookAheadBound, Follows

\* A code is within the window of the row it was checked against, whose counter
\* follows a code that counted.
LEMMA CheckedInWindow ==
    ASSUME IInv, NEW r \in Request, NEW enabled \in BOOLEAN, Check(r, enabled)
    PROVE  WindowBound(r)'
<1> USE WindowAssumption
<1>1. PICK id \in Present, c \in [id: Id, count: 0..MaxCount] :
        /\ Accepts(rows[id], c)
        /\ code' = [code EXCEPT ![r] = c]
    BY DEF Check
<1>2. /\ UNCHANGED kind /\ code'[r] = c /\ at'[r] = now /\ now \in Nat
      /\ kind \in {"totp", "hotp"}
    BY <1>1 DEF Check, IInv, TypeOK
<1>3. /\ id \in Id /\ rows[id] \in Enrollment /\ rows[id].id = id
      /\ c.id = id /\ c.count \in Nat
    BY <1>1 DEF Present, IInv, TypeOK, Shape, Accepts
<1>4. pc[r] = "idle" /\ \A q \in Accepted : q \in Accepted' /\ code'[q] = code[q]
    BY <1>1 DEF Check, IInv, TypeOK, Accepted
<1>5. \/ rows[id].next = 0
      \/ \E q \in Accepted : code'[q] = [id |-> id, count |-> rows[id].next - 1]
    BY <1>3, <1>4 DEF IInv, NeverAhead, Present
<1>6. rows[id].next \in Nat /\ rows[id].next <= c.count
    BY <1>1, <1>3 DEF Accepts, TimeWindow, CounterWindow, Enrollment
<1>7. ASSUME NEW gap \in Nat, c.count < rows[id].next + gap, rows[id].next # 0
      PROVE  Follows(r, gap)'
  <2>1. PICK q \in Accepted : code'[q] = [id |-> id, count |-> rows[id].next - 1]
      BY <1>5, <1>7
  <2>2. /\ code'[q].id = code'[r].id /\ code'[q].count < code'[r].count
        /\ code'[r].count <= code'[q].count + gap
      BY <1>2, <1>3, <1>6, <1>7, <2>1
  <2> QED
      BY <1>4, <2>1, <2>2 DEF Follows
<1>8. CASE kind = "totp"
  <2>1. /\ c.count >= now - Drift
        /\ c.count <= now + Drift + 1 \/ c.count = rows[id].next
      BY <1>1, <1>8 DEF Accepts, TimeWindow
  <2>2. c.count <= now + Drift + 1 \/ Follows(r, 1)'
      BY <1>2, <1>3, <1>7, <2>1
  <2> QED
      BY <1>2, <1>8, <2>1, <2>2 DEF WindowBound, DriftBound
<1>9. CASE kind = "hotp"
  <2>1. c.count <= rows[id].next + LookAhead
      BY <1>1, <1>9 DEF Accepts, CounterWindow
  <2>2. c.count <= LookAhead \/ Follows(r, LookAhead + 1)'
      BY <1>3, <1>6, <1>7, <2>1
  <2> QED
      BY <1>2, <1>9, <2>2 DEF WindowBound, LookAheadBound
<1> QED
    BY <1>2, <1>8, <1>9

LEMMA WindowInvHolds == Spec => []WindowInv
<1>1. Init => WindowInv
    BY DEF Init, WindowInv, Checking
<1>2. IInv /\ WindowInv /\ [Next]_vars => WindowInv'
  <2> SUFFICES ASSUME IInv, WindowInv, [Next]_vars,
                      NEW r \in Request, pc'[r] \in Checking \cup {"accepted"}
               PROVE  WindowBound(r)'
      BY DEF WindowInv
  <2>1. UNCHANGED kind /\ \A q \in Accepted : q \in Accepted' /\ code'[q] = code[q]
      BY DEF Next, vars, Handle, EnrollLoad, EnrollFails, EnrollDelete, EnrollInsert,
             Check, CheckFails, Store, Fail, Raise, Tick, IInv, TypeOK, Accepted,
             Checking, Enrolling
  <2>2. CASE Check(r, FALSE) \/ Check(r, TRUE)
      BY <2>2, CheckedInWindow
  <2>3. CASE ~(Check(r, FALSE) \/ Check(r, TRUE))
    <3>1. /\ pc[r] \in Checking \cup {"accepted"}
          /\ code'[r] = code[r] /\ at'[r] = at[r]
        BY <2>3 DEF Next, vars, Handle, EnrollLoad, EnrollFails, EnrollDelete,
             EnrollInsert, Check, CheckFails, Store, Fail, Raise, Tick, IInv, TypeOK,
             Checking, Enrolling
    <3> QED
        BY <2>1, <3>1, WindowBoundStays DEF WindowInv
  <2> QED
      BY <2>2, <2>3
<1> QED
    BY <1>1, <1>2, IInvHolds, PTL DEF Spec

\* A TOTP code that counts is at most one step beyond the drift tolerance, or the
\* direct successor of one that has counted.
THEOREM DriftBoundHolds == Spec => [](kind = "totp" => \A r \in Accepted : DriftBound(r))
<1>1. WindowInv => (kind = "totp" => \A r \in Accepted : DriftBound(r))
    BY DEF WindowInv, WindowBound, Accepted
<1> QED
    BY <1>1, WindowInvHolds, PTL

\* A HOTP code that counts is within look_ahead of the start or of the successor of
\* one that has counted.
THEOREM LookAheadBoundHolds ==
    Spec => [](kind = "hotp" => \A r \in Accepted : LookAheadBound(r))
<1>1. WindowInv => (kind = "hotp" => \A r \in Accepted : LookAheadBound(r))
    BY DEF WindowInv, WindowBound, Accepted
<1> QED
    BY <1>1, WindowInvHolds, PTL
=============================================================================
