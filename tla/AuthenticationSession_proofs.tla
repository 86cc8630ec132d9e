-------------------- MODULE AuthenticationSession_proofs --------------------
(***************************************************************************)
(* Proofs about AuthenticationSession, for any number of requests,         *)
(* sessions, identities and factors, any steps and AMRs, and any clock.    *)
(***************************************************************************)
EXTENDS AuthenticationSession, SequenceTheorems, TLAPS

\* Which local data a request has at each stage, and that rows and copies
\* carry the id under which they are stored.
Shape ==
    /\ \A r \in Request :
        /\ pc[r] \in {"held", "completed"} \cup Running => snap[r] # NoRow
        /\ pc[r] \in {"idle", "held"} => claim[r] = NoProof
        /\ pc[r] = "idle" => snap[r] = NoRow
        /\ pc[r] = "advancing" => claim[r] # NoProof /\ claim[r].id = snap[r].id
        /\ pc[r] = "advancing" => avail[r] \cup pending[r] \subseteq Candidates(snap[r])
        /\ pc[r] \in {"completing", "deleted", "completed"} =>
            snap[r].identity # NoIdentity
        /\ snap[r] # NoRow => snap[r].id \in issued
    /\ \A id \in Id : rows[id] # NoRow => rows[id].id = id /\ id \in issued

\* Request r verified the k-th factor of s, and that factor is recorded.
Witnesses(r, s, k) ==
    /\ claim[r] # NoProof
    /\ pc[r] # "advancing"
    /\ claim[r].id = s.id
    /\ claim[r].factor = s.used[k]
    /\ k = Len(s.used) => claim[r].identity = s.identity

Backed(s) == \A k \in 1..Len(s.used) : \E r \in Request : Witnesses(r, s, k)

ObjectsBacked ==
    /\ \A id \in Id : rows[id] # NoRow => Backed(rows[id])
    /\ \A r \in Request : snap[r] # NoRow => Backed(snap[r])

\* A post-login session holds what the copy of its request held.
SessionsMatch ==
    \A s \in sessions :
        /\ pc[s.request] = "completed"
        /\ s.identity = snap[s.request].identity
        /\ s.amr = snap[s.request].amr

\* While complete() checks, a steadily enrolled candidate is still to be
\* looked at or has been found available, and is enrolled at this moment.
NothingLost ==
    \A r \in Request :
        /\ pc[r] = "completing" => steady[r] \subseteq enrolled[snap[r].identity]
        /\ pc[r] = "completing" =>
            Candidates(snap[r]) \cap steady[r] \subseteq pending[r] \cup avail[r]
        /\ pc[r] = "deleted" => Candidates(snap[r]) \cap steady[r] = {}

Deleted ==
    \A r \in Request : pc[r] \in {"deleted", "completed"} => rows[snap[r].id] = NoRow

----------------------------------------------------------------------------
(* The data a request works on *)

\* A fresh session object is well typed, is a ladder without rungs, and needs
\* no factor to back it.
LEMMA FreshFacts ==
    ASSUME NEW id \in Id, now \in Nat
    PROVE  /\ FreshSession(id) \in AuthSession
           /\ FreshSession(id).id = id
           /\ FreshSession(id) # NoRow
           /\ Ladder(FreshSession(id))
           /\ Backed(FreshSession(id))
<1>1. FreshSession(id) \in AuthSession
    BY BoundAssumption DEF FreshSession, AuthSession
<1>2. FreshSession(id) # NoRow
    BY <1>1, NoneAssumption
<1>3. FreshSession(id).used = <<>> /\ FreshSession(id).amr = <<>>
    BY DEF FreshSession
<1>4. Ladder(FreshSession(id)) /\ Backed(FreshSession(id))
    BY <1>3 DEF FreshSession, Ladder, Backed
<1> QED
    BY <1>1, <1>2, <1>4 DEF FreshSession

\* What advance() changes in a session object.
LEMMA AdvancedFacts ==
    ASSUME NEW s \in AuthSession, NEW p \in Proof
    PROVE  /\ Advanced(s, p) \in AuthSession
           /\ Advanced(s, p) # NoRow
           /\ Advanced(s, p).id = s.id
           /\ Advanced(s, p).identity = p.identity
           /\ Advanced(s, p).identity # NoIdentity
           /\ Advanced(s, p).step = s.step + 1
           /\ Advanced(s, p).used = Append(s.used, p.factor)
           /\ Advanced(s, p).amr = Append(s.amr, FactorAMR[p.factor])
<1>1. p.factor \in Factor /\ p.identity \in Identity
    BY DEF Proof
<1>2. FactorAMR[p.factor] \in AMR
    BY <1>1, FactorAssumption
<1>3. Advanced(s, p) \in AuthSession
  <2>1. s.amr \in Seq(AMR) /\ s.used \in Seq(Factor) /\ s.step \in Nat
      BY DEF AuthSession
  <2>2. Append(s.amr, FactorAMR[p.factor]) \in Seq(AMR)
      BY <1>2, <2>1
  <2>3. Append(s.used, p.factor) \in Seq(Factor)
      BY <1>1, <2>1
  <2>4. s.step + 1 \in Nat
      BY <2>1
  <2> QED
      BY <1>1, <2>2, <2>3, <2>4 DEF Advanced, AuthSession
<1>4. Advanced(s, p) # NoRow
    BY <1>3, NoneAssumption
<1> QED
    BY <1>1, <1>3, <1>4, NoneAssumption DEF Advanced, AuthSession

\* Starting a run of get_available_factors leaves well-typed local data.
LEMMA BeginCheckType ==
    ASSUME TypeOK, NEW r \in Request, NEW s \in AuthSession, BeginCheck(r, s)
    PROVE  /\ pending' \in [Request -> SUBSET Factor]
           /\ avail' \in [Request -> SUBSET Factor]
           /\ steady' \in [Request -> SUBSET Factor]
           /\ avail'[r] \cup pending'[r] \subseteq Candidates(s)
           /\ \A q \in Request \ {r} :
                pending'[q] = pending[q] /\ avail'[q] = avail[q] /\ steady'[q] = steady[q]
<1>1. Candidates(s) \subseteq Factor
    BY DEF Candidates
<1>2. s.identity # NoIdentity => enrolled[s.identity] \subseteq Factor
    BY DEF TypeOK, AuthSession
<1> QED
    BY <1>1, <1>2 DEF TypeOK, BeginCheck

\* A handler that answers drops its local data and keeps everything typed.
LEMMA AnswerFacts ==
    ASSUME TypeOK, Shape, NEW r \in Request, NEW outcome \in Finished \ {"completed"},
           Answer(r, outcome), UNCHANGED <<now, rows, issued, enrolVars, sessions>>
    PROVE  TypeOK' /\ Shape'
<1>1. TypeOK'
    BY DEF TypeOK, Answer, Stage, enrolVars
<1>2. Shape'
    BY DEF TypeOK, Shape, Answer, Stage, Finished, Running, enrolVars, Candidates
<1> QED
    BY <1>1, <1>2

----------------------------------------------------------------------------
(* Types and the shape of the local data *)

\* Every step keeps every variable in its type and every request in the shape
\* its stage calls for.
LEMMA CoreStep == TypeOK /\ Shape /\ [Next]_vars => TypeOK' /\ Shape'
<1> SUFFICES ASSUME TypeOK, Shape, [Next]_vars
             PROVE  TypeOK' /\ Shape'
    OBVIOUS
<1>1. ASSUME NEW r \in Request, Start(r) PROVE TypeOK' /\ Shape'
  <2>1. PICK id \in Id \ issued :
            /\ issued' = issued \cup {id}
            /\ rows' = [rows EXCEPT ![id] = FreshSession(id)]
            /\ snap' = [snap EXCEPT ![r] = FreshSession(id)]
      BY <1>1 DEF Start
  <2>2. /\ FreshSession(id) \in AuthSession
        /\ FreshSession(id).id = id
      BY FreshFacts DEF TypeOK
  <2>3. TypeOK'
      BY <1>1, <2>1, <2>2 DEF Start, TypeOK, Stage, enrolVars
  <2>4. Shape'
      BY <1>1, <2>1, <2>2, NoneAssumption
      DEF Start, TypeOK, Shape, Running, enrolVars
  <2> QED
      BY <2>3, <2>4
<1>2. ASSUME NEW r \in Request, GetByToken(r) \/ GetByTokenHash(r) PROVE TypeOK' /\ Shape'
  <2>1. GetByTokenHash(r)
      BY <1>2 DEF GetByToken, GetByTokenHash
  <2> QED
      BY <2>1 DEF GetByTokenHash, TypeOK, Shape, Stage, Running, Finished, enrolVars,
                  AuthSession, Candidates
<1>3. ASSUME NEW r \in Request, GetByTokenFails(r) PROVE TypeOK' /\ Shape'
    BY <1>3, AnswerFacts DEF GetByTokenFails, Finished
<1>4. ASSUME NEW r \in Request, BeginAdvance(r) PROVE TypeOK' /\ Shape'
  <2>1. snap[r] \in AuthSession /\ snap[r] # NoRow
      BY <1>4 DEF BeginAdvance, TypeOK, Shape
  <2>2. PICK f \in Factor, i \in Identity : claim' =
            [claim EXCEPT ![r] = [id |-> snap[r].id, factor |-> f, identity |-> i]]
      BY <1>4 DEF BeginAdvance
  <2>3. claim'[r] \in Proof /\ claim'[r].id = snap[r].id
      BY <2>1, <2>2 DEF TypeOK, AuthSession, Proof
  <2>4. /\ pending' \in [Request -> SUBSET Factor]
        /\ avail' \in [Request -> SUBSET Factor]
        /\ steady' \in [Request -> SUBSET Factor]
        /\ avail'[r] \cup pending'[r] \subseteq Candidates(snap[r])
        /\ \A q \in Request \ {r} : pending'[q] = pending[q] /\ avail'[q] = avail[q]
      BY <1>4, <2>1, BeginCheckType DEF BeginAdvance
  <2>5. TypeOK'
      BY <1>4, <2>2, <2>3, <2>4 DEF BeginAdvance, TypeOK, Stage, Running, enrolVars
  <2>6. Shape'
      BY <1>4, <2>1, <2>2, <2>3, <2>4, NoneAssumption
      DEF BeginAdvance, TypeOK, Shape, Running, enrolVars, Candidates
  <2> QED
      BY <2>5, <2>6
<1>5. ASSUME NEW r \in Request, CheckEnrollment(r) PROVE TypeOK' /\ Shape'
    BY <1>5 DEF CheckEnrollment, TypeOK, Shape, Stage, Running, Finished, enrolVars,
        AuthSession, Candidates
<1>6. ASSUME NEW r \in Request, AdvanceUnavailable(r) PROVE TypeOK' /\ Shape'
    BY <1>6, AnswerFacts DEF AdvanceUnavailable, Finished
<1>7. ASSUME NEW r \in Request, AdvanceUpdate(r) PROVE TypeOK' /\ Shape'
  <2> DEFINE s == Advanced(snap[r], claim[r])
  <2>1. snap[r] \in AuthSession /\ claim[r] \in Proof
      BY <1>7 DEF AdvanceUpdate, TypeOK, Shape, Running
  <2>2. /\ s \in AuthSession
        /\ s # NoRow
        /\ s.id = snap[r].id
        /\ s.identity # NoIdentity
      BY <2>1, AdvancedFacts
  <2>3. /\ snap' = [snap EXCEPT ![r] = s]
        /\ rows' = StoreUpdate(s)
        /\ BeginCheck(r, s)
        /\ pc' = [pc EXCEPT ![r] = "completing"]
        /\ UNCHANGED <<now, issued, enrolVars, sessions, claim>>
      BY <1>7 DEF AdvanceUpdate
  <2> HIDE DEF s
  <2>4. s.id \in issued
      BY <1>7, <2>2 DEF AdvanceUpdate, Shape, Running
  <2>5. /\ pending' \in [Request -> SUBSET Factor]
        /\ avail' \in [Request -> SUBSET Factor]
        /\ steady' \in [Request -> SUBSET Factor]
        /\ \A q \in Request \ {r} : pending'[q] = pending[q] /\ avail'[q] = avail[q]
      BY <2>2, <2>3, BeginCheckType
  <2>6. TypeOK'
      BY <2>2, <2>3, <2>5 DEF TypeOK, Stage, Running, enrolVars, StoreUpdate
  <2>7. Shape'
      BY <2>2, <2>3, <2>4, <2>5
      DEF TypeOK, Shape, Running, enrolVars, StoreUpdate, Candidates
  <2> QED
      BY <2>6, <2>7
<1>8. ASSUME NEW r \in Request, BeginComplete(r) PROVE TypeOK' /\ Shape'
  <2>1. snap[r] \in AuthSession
      BY <1>8 DEF BeginComplete, TypeOK, Shape
  <2>2. /\ pending' \in [Request -> SUBSET Factor]
        /\ avail' \in [Request -> SUBSET Factor]
        /\ steady' \in [Request -> SUBSET Factor]
        /\ \A q \in Request \ {r} : pending'[q] = pending[q] /\ avail'[q] = avail[q]
      BY <1>8, <2>1, BeginCheckType DEF BeginComplete
  <2>3. TypeOK'
      BY <1>8, <2>2 DEF BeginComplete, TypeOK, Stage, Running, enrolVars
  <2>4. Shape'
      BY <1>8, <2>2 DEF BeginComplete, TypeOK, Shape, Running, enrolVars, Candidates
  <2> QED
      BY <2>3, <2>4
<1>9. ASSUME NEW r \in Request, CompleteWithoutIdentity(r) PROVE TypeOK' /\ Shape'
    BY <1>9, AnswerFacts DEF CompleteWithoutIdentity, Finished
<1>10. ASSUME NEW r \in Request, FactorsRemaining(r) PROVE TypeOK' /\ Shape'
    BY <1>10, AnswerFacts DEF FactorsRemaining, Finished
<1>11. ASSUME NEW r \in Request, CompleteDelete(r) PROVE TypeOK' /\ Shape'
    BY <1>11 DEF CompleteDelete, TypeOK, Shape, Stage, Running, Finished, enrolVars,
        AuthSession, Candidates
<1>12. ASSUME NEW r \in Request, CreateSession(r) PROVE TypeOK' /\ Shape'
    BY <1>12 DEF CreateSession, TypeOK, Shape, Stage, Running, Finished, enrolVars,
        AuthSession, Candidates
<1>13. ASSUME NEW r \in Request, Fail(r) PROVE TypeOK' /\ Shape'
    BY <1>13, AnswerFacts DEF Fail, Finished
<1>14. ASSUME NEW i \in Identity, NEW f \in Factor, Enroll(i, f) PROVE TypeOK' /\ Shape'
    BY <1>14 DEF Enroll, TypeOK, Shape, requestVars, Candidates
<1>15. ASSUME NEW i \in Identity, NEW f \in Factor, Disenroll(i, f) PROVE TypeOK' /\ Shape'
    BY <1>15 DEF Disenroll, TypeOK, Shape, Candidates
<1>16. CASE Tick
    BY <1>16 DEF Tick, TypeOK, Shape, enrolVars, requestVars, Candidates
<1>17. CASE UNCHANGED vars
    BY <1>17 DEF vars, TypeOK, Shape, enrolVars, requestVars, Candidates
<1> QED
    BY <1>1, <1>2, <1>3, <1>4, <1>5, <1>6, <1>7, <1>8, <1>9, <1>10, <1>11, <1>12,
       <1>13, <1>14, <1>15, <1>16, <1>17 DEF Next, Handle

\* Type correctness, for every instance of the specification.
THEOREM TypeCorrect == Spec => []TypeOK
<1>1. Init => TypeOK /\ Shape
    BY EnrollmentAssumption DEF Init, TypeOK, Shape, Stage, Running
<1> QED
    BY <1>1, CoreStep, PTL DEF Spec

----------------------------------------------------------------------------
(* Where session objects come from *)

\* s is a row or a copy of the current state.
Present(s) ==
    \/ \E id \in Id : rows[id] # NoRow /\ s = rows[id]
    \/ \E r \in Request : snap[r] # NoRow /\ s = snap[r]

\* s is a row or copy, a fresh session, or what an AdvanceUpdate step made.
Origin(s) ==
    \/ Present(s)
    \/ \E id \in Id : s = FreshSession(id)
    \/ \E r \in Request : AdvanceUpdate(r) /\ s = Advanced(snap[r], claim[r])

\* A step makes no session object out of nothing: each row and each copy after
\* it was there before, is fresh, or is one copy advanced by one factor.
LEMMA ObjectsStep ==
    ASSUME TypeOK, Shape, [Next]_vars
    PROVE  /\ \A id \in Id : rows'[id] # NoRow => Origin(rows'[id])
           /\ \A r \in Request : snap'[r] # NoRow => Origin(snap'[r])
<1> DEFINE Goal == /\ \A id \in Id : rows'[id] # NoRow => Origin(rows'[id])
                   /\ \A q \in Request : snap'[q] # NoRow => Origin(snap'[q])
<1>1. ASSUME NEW r \in Request, Start(r) PROVE Goal
    BY <1>1 DEF Start, Origin, Present, TypeOK
<1>2. ASSUME NEW r \in Request, GetByToken(r) \/ GetByTokenHash(r) PROVE Goal
    BY <1>2 DEF GetByToken, GetByTokenHash, Origin, Present, TypeOK
<1>3. ASSUME NEW r \in Request, AdvanceUpdate(r) PROVE Goal
  <2>1. /\ snap' = [snap EXCEPT ![r] = Advanced(snap[r], claim[r])]
        /\ rows' = StoreUpdate(Advanced(snap[r], claim[r]))
      BY <1>3 DEF AdvanceUpdate
  <2>2. Origin(Advanced(snap[r], claim[r]))
      BY <1>3 DEF Origin
  <2> QED
      BY <2>1, <2>2 DEF StoreUpdate, TypeOK, Origin, Present
<1>4. ASSUME NEW r \in Request, CompleteDelete(r) PROVE Goal
    BY <1>4 DEF CompleteDelete, Origin, Present, TypeOK
<1>5. ASSUME NEW r \in Request, NEW outcome, Answer(r, outcome), UNCHANGED rows
      PROVE  Goal
    BY <1>5 DEF Answer, Origin, Present, TypeOK
<1>6. ASSUME UNCHANGED <<rows, snap>> PROVE Goal
    BY <1>6 DEF Origin, Present
<1> QED
    BY <1>1, <1>2, <1>3, <1>4, <1>5, <1>6
    DEF Next, Handle, GetByTokenFails, BeginAdvance, CheckEnrollment,
        AdvanceUnavailable, BeginComplete, CompleteWithoutIdentity,
        FactorsRemaining, CreateSession, Fail, Enroll, Disenroll, Tick,
        vars, requestVars

----------------------------------------------------------------------------
(* Steps in order *)

\* Advancing a ladder by a candidate gives a ladder with one more rung.
LEMMA LadderGrows ==
    ASSUME NEW s \in AuthSession, NEW p \in Proof,
           Ladder(s), p.factor \in Candidates(s)
    PROVE  Ladder(Advanced(s, p))
<1> DEFINE t == Advanced(s, p)
<1>1. /\ t.step = s.step + 1
      /\ t.used = Append(s.used, p.factor)
      /\ t.amr = Append(s.amr, FactorAMR[p.factor])
      /\ t.identity # NoIdentity
    BY AdvancedFacts
<1>2. s.used \in Seq(Factor) /\ s.amr \in Seq(AMR) /\ s.step = Len(s.used)
      /\ Len(s.amr) = Len(s.used)
    BY DEF AuthSession, Ladder
<1>3. /\ p.factor \in Factor
      /\ FactorAMR[p.factor] \in AMR
      /\ FactorStep[p.factor] = s.step
      /\ \A k \in 1..Len(s.amr) : s.amr[k] # FactorAMR[p.factor]
    BY <1>2, FactorAssumption DEF Candidates, Elements, Proof
<1> HIDE DEF t
<1> DEFINE n == Len(s.used)
<1>4. /\ n \in Nat
      /\ Len(t.used) = n + 1
      /\ t.used # <<>>
      /\ \A k \in 1..n : t.used[k] = s.used[k]
      /\ t.used[n + 1] = p.factor
    BY <1>1, <1>2, <1>3, AppendProperties, LenProperties
<1>5. /\ Len(t.amr) = n + 1
      /\ \A k \in 1..n : t.amr[k] = s.amr[k]
      /\ t.amr[n + 1] = FactorAMR[p.factor]
    BY <1>1, <1>2, <1>3, AppendProperties
<1>6. \A k \in 1..n + 1 : FactorStep[t.used[k]] = k - 1 /\ t.amr[k] = FactorAMR[t.used[k]]
  <2>1. ASSUME NEW k \in 1..n
        PROVE  FactorStep[t.used[k]] = k - 1 /\ t.amr[k] = FactorAMR[t.used[k]]
      BY <1>4, <1>5, <2>1 DEF Ladder
  <2>2. FactorStep[t.used[n + 1]] = n /\ t.amr[n + 1] = FactorAMR[t.used[n + 1]]
      BY <1>2, <1>3, <1>4, <1>5
  <2> QED
      BY <1>4, <2>1, <2>2
<1>7. \A k, l \in 1..n + 1 : t.amr[k] = t.amr[l] => k = l
  <2>1. \A k \in 1..n : t.amr[k] # t.amr[n + 1]
      BY <1>2, <1>3, <1>5
  <2>2. \A k, l \in 1..n : t.amr[k] = t.amr[l] => k = l
      BY <1>5 DEF Ladder
  <2> HIDE DEF n
  <2> QED
      BY <1>4, <2>1, <2>2
<1>8. Ladder(t)
    BY <1>1, <1>2, <1>4, <1>5, <1>6, <1>7 DEF Ladder
<1> QED
    BY <1>8 DEF t

\* Every step keeps rows and copies ladders.
LEMMA LaddersStep ==
    ASSUME TypeOK, Shape, StepsInOrder, [Next]_vars
    PROVE  StepsInOrder'
<1>1. ASSUME NEW s, s # NoRow, Origin(s) PROVE Ladder(s)
  <2>1. CASE Present(s)
      BY <2>1 DEF Present, StepsInOrder
  <2>2. ASSUME NEW id \in Id, s = FreshSession(id) PROVE Ladder(s)
      BY <2>2, FreshFacts DEF TypeOK
  <2>3. ASSUME NEW r \in Request, AdvanceUpdate(r), s = Advanced(snap[r], claim[r])
        PROVE  Ladder(s)
    <3>1. snap[r] # NoRow /\ snap[r] \in AuthSession /\ claim[r] \in Proof
        BY <2>3 DEF AdvanceUpdate, TypeOK, Shape, Running
    <3>2. claim[r].factor \in Candidates(snap[r])
        BY <2>3 DEF AdvanceUpdate, Shape
    <3> QED
        BY <2>3, <3>1, <3>2, LadderGrows DEF StepsInOrder
  <2> QED
      BY <1>1, <2>1, <2>2, <2>3 DEF Origin
<1>2. \A id \in Id : rows'[id] # NoRow => Ladder(rows'[id])
    BY <1>1, ObjectsStep
<1>3. \A r \in Request : snap'[r] # NoRow => Ladder(snap'[r])
    BY <1>1, ObjectsStep
<1> QED
    BY <1>2, <1>3 DEF StepsInOrder, Ladder

\* However requests interleave, every row and every copy is a ladder.
THEOREM LaddersHold == Spec => []StepsInOrder
<1>1. Init => TypeOK /\ Shape /\ StepsInOrder
    BY EnrollmentAssumption DEF Init, TypeOK, Shape, Stage, Running, StepsInOrder
<1>2. TypeOK /\ Shape /\ StepsInOrder /\ [Next]_vars => (TypeOK /\ Shape /\ StepsInOrder)'
    BY CoreStep, LaddersStep
<1> QED
    BY <1>1, <1>2, PTL DEF Spec

----------------------------------------------------------------------------
(* A deleted session stays deleted *)

\* An update never inserts and an id is never issued twice, so a step cannot
\* bring back the row of an issued id.
LEMMA RevivalStep ==
    ASSUME TypeOK, Shape, [Next]_vars
    PROVE  /\ \A id \in issued : rows[id] = NoRow => rows'[id] = NoRow
           /\ issued \subseteq issued'
<1> DEFINE Goal == /\ \A id \in issued : rows[id] = NoRow => rows'[id] = NoRow
                   /\ issued \subseteq issued'
<1>1. ASSUME NEW r \in Request, Start(r) PROVE Goal
    BY <1>1 DEF Start, TypeOK
<1>2. ASSUME NEW r \in Request, AdvanceUpdate(r) PROVE Goal
  <2>1. rows' = StoreUpdate(Advanced(snap[r], claim[r])) /\ issued' = issued
      BY <1>2 DEF AdvanceUpdate
  <2> QED
      BY <2>1 DEF StoreUpdate, TypeOK
<1>3. ASSUME NEW r \in Request, CompleteDelete(r) PROVE Goal
    BY <1>3 DEF CompleteDelete, TypeOK
<1>4. ASSUME UNCHANGED <<rows, issued>> PROVE Goal
    BY <1>4
<1> QED
    BY <1>1, <1>2, <1>3, <1>4
    DEF Next, Handle, GetByToken, GetByTokenFails, GetByTokenHash, BeginAdvance,
        CheckEnrollment,
        AdvanceUnavailable, BeginComplete, CompleteWithoutIdentity,
        FactorsRemaining, CreateSession, Fail, Enroll, Disenroll, Tick, vars

\* What one step does to the life of each id.
LEMMA StatusStep ==
    ASSUME TypeOK, Shape, TypeOK', Shape', [Next]_vars
    PROVE  [Lifecycle!Next]_Status
<1> DEFINE Goal == [Lifecycle!Next]_Status
<1>1. ASSUME NEW r \in Request, Start(r) PROVE Goal
  <2>1. PICK id \in Id \ issued :
            /\ issued' = issued \cup {id}
            /\ rows' = [rows EXCEPT ![id] = FreshSession(id)]
      BY <1>1 DEF Start
  <2>2. Status[id] = "unissued"
      BY <2>1 DEF Status, Shape
  <2>3. FreshSession(id) # NoRow
      BY <2>1, FreshFacts DEF TypeOK
  <2>4. Status' = [Status EXCEPT ![id] = "live"]
      BY <2>1, <2>3 DEF Status, TypeOK
  <2> QED
      BY <2>2, <2>4 DEF Lifecycle!Next, Lifecycle!Issue
<1>2. ASSUME NEW r \in Request, AdvanceUpdate(r) PROVE Goal
  <2>1. rows' = StoreUpdate(Advanced(snap[r], claim[r])) /\ issued' = issued
      BY <1>2 DEF AdvanceUpdate
  <2>2. snap[r] \in AuthSession /\ claim[r] \in Proof
      BY <1>2 DEF AdvanceUpdate, TypeOK, Shape, Running
  <2>3. Advanced(snap[r], claim[r]) # NoRow
      BY <2>2, AdvancedFacts
  <2>4. \A id \in Id : rows'[id] = NoRow <=> rows[id] = NoRow
      BY <2>1, <2>3 DEF StoreUpdate, TypeOK
  <2> QED
      BY <2>1, <2>4 DEF Status
<1>3. ASSUME NEW r \in Request, CompleteDelete(r) PROVE Goal
  <2> DEFINE ids == {id \in Id : id = snap[r].id /\ rows[id] # NoRow}
  <2>1. rows' = [rows EXCEPT ![snap[r].id] = NoRow] /\ issued' = issued
      BY <1>3 DEF CompleteDelete
  <2>2. \A id \in ids : Status[id] = "live" /\ id \in issued
      BY DEF Status, Shape
  <2>3. Status' = [id \in Id |-> IF id \in ids THEN "gone" ELSE Status[id]]
      BY <2>1, <2>2 DEF Status, TypeOK
  <2>4. Lifecycle!Drop(ids)
      BY <2>2, <2>3 DEF Lifecycle!Drop
  <2> QED
      BY <2>4 DEF Lifecycle!Next
<1>4. ASSUME UNCHANGED <<rows, issued>> PROVE Goal
    BY <1>4 DEF Status
<1> QED
    BY <1>1, <1>2, <1>3, <1>4
    DEF Next, Handle, GetByToken, GetByTokenFails, GetByTokenHash, BeginAdvance,
        CheckEnrollment,
        AdvanceUnavailable, BeginComplete, CompleteWithoutIdentity,
        FactorsRemaining, CreateSession, Fail, Enroll, Disenroll, Tick, vars

\* The table of authentication sessions implements the token life cycle.
THEOREM LifecycleImplemented == Spec => ImplementsLifecycle
<1>1. Init => TypeOK /\ Shape
    BY EnrollmentAssumption DEF Init, TypeOK, Shape, Stage, Running
<1>2. Init => Lifecycle!Init
    BY DEF Init, Lifecycle!Init, Status
<1>3. TypeOK /\ Shape /\ TypeOK' /\ Shape' /\ [Next]_vars => [Lifecycle!Next]_Status
    BY StatusStep
<1> QED
    BY <1>1, <1>2, <1>3, CoreStep, PTL DEF Spec, ImplementsLifecycle, Lifecycle!Spec

----------------------------------------------------------------------------
(* What completion leaves behind, and what it looked at *)

\* The row of a request that has deleted it stays away.
LEMMA DeletedStep ==
    ASSUME TypeOK, Shape, Deleted, [Next]_vars
    PROVE  Deleted'
<1> SUFFICES ASSUME NEW r \in Request, pc'[r] \in {"deleted", "completed"}
             PROVE  rows'[snap'[r].id] = NoRow
    BY DEF Deleted
<1>1. CASE CompleteDelete(r)
    BY <1>1 DEF CompleteDelete, TypeOK, Shape, Running, AuthSession
<1>2. CASE ~CompleteDelete(r)
  <2>1. pc[r] \in {"deleted", "completed"} /\ snap'[r] = snap[r]
      BY <1>2 DEF TypeOK, Next, Handle, Start, GetByToken, GetByTokenFails, GetByTokenHash,
          BeginAdvance, CheckEnrollment, AdvanceUnavailable, AdvanceUpdate,
          BeginComplete, CompleteWithoutIdentity, FactorsRemaining, CompleteDelete,
          CreateSession, Fail, Answer, Enroll, Disenroll, Tick, vars, requestVars, Running
  <2>2. snap[r].id \in issued /\ rows[snap[r].id] = NoRow
      BY <2>1 DEF Deleted, Shape, Running
  <2> QED
      BY <2>1, <2>2, RevivalStep
<1> QED
    BY <1>1, <1>2

\* Every post-login session matches the copy its request completed with.
LEMMA SessionsMatchStep ==
    ASSUME TypeOK, Shape, SessionsMatch, [Next]_vars
    PROVE  SessionsMatch'
<1>1. ASSUME NEW r \in Request, CreateSession(r) PROVE SessionsMatch'
    BY <1>1 DEF CreateSession, SessionsMatch, TypeOK
<1>2. ASSUME sessions' = sessions,
             \A r \in Request : pc[r] = "completed" =>
                pc'[r] = "completed" /\ snap'[r] = snap[r]
      PROVE  SessionsMatch'
    BY <1>2 DEF SessionsMatch, TypeOK
<1>3. ASSUME \A r \in Request : ~CreateSession(r)
      PROVE  /\ sessions' = sessions
             /\ \A r \in Request : pc[r] = "completed" =>
                    pc'[r] = "completed" /\ snap'[r] = snap[r]
    BY <1>3 DEF TypeOK, Next, Handle, Start, GetByToken, GetByTokenFails, GetByTokenHash,
        BeginAdvance, CheckEnrollment, AdvanceUnavailable, AdvanceUpdate,
        BeginComplete, CompleteWithoutIdentity, FactorsRemaining, CompleteDelete,
        Fail, Answer, Enroll, Disenroll, Tick, vars, requestVars, Running
<1> QED
    BY <1>1, <1>2, <1>3

\* A login leaves no authentication session behind to continue from.
THEOREM CompletedIsGoneHolds == Spec => []CompletedIsGone
<1>1. Init => TypeOK /\ Shape /\ Deleted /\ SessionsMatch
    BY EnrollmentAssumption
    DEF Init, TypeOK, Shape, Stage, Running, Deleted, SessionsMatch
<1>2. TypeOK /\ Shape /\ Deleted /\ SessionsMatch /\ [Next]_vars =>
        (TypeOK /\ Shape /\ Deleted /\ SessionsMatch)'
    BY CoreStep, DeletedStep, SessionsMatchStep
<1>3. TypeOK /\ Shape /\ Deleted /\ SessionsMatch => CompletedIsGone
    BY DEF TypeOK, Shape, Deleted, SessionsMatch, CompletedIsGone, Running
<1> QED
    BY <1>1, <1>2, <1>3, PTL DEF Spec

----------------------------------------------------------------------------
(* Every recorded factor was verified *)

\* The record of a verified factor is never lost or changed.
LEMMA ClaimsKept ==
    ASSUME TypeOK, Shape, [Next]_vars, NEW r \in Request,
           claim[r] # NoProof, pc[r] # "advancing"
    PROVE  claim'[r] = claim[r] /\ pc'[r] # "advancing"
<1> QED
    BY DEF TypeOK, Shape, Next, Handle, Start, GetByToken, GetByTokenFails, GetByTokenHash,
        BeginAdvance, CheckEnrollment, AdvanceUnavailable, AdvanceUpdate,
        BeginComplete, CompleteWithoutIdentity, FactorsRemaining, CompleteDelete,
        CreateSession, Fail, Answer, Enroll, Disenroll, Tick, vars, requestVars,
        Running, Stage, Finished

\* Hence what backs a session object keeps backing it.
LEMMA BackedKept ==
    ASSUME TypeOK, Shape, [Next]_vars, NEW s, Backed(s)
    PROVE  \A k \in 1..Len(s.used) : \E r \in Request :
              /\ claim'[r] # NoProof
              /\ pc'[r] # "advancing"
              /\ claim'[r].id = s.id
              /\ claim'[r].factor = s.used[k]
              /\ k = Len(s.used) => claim'[r].identity = s.identity
<1> SUFFICES ASSUME NEW k \in 1..Len(s.used)
             PROVE  \E r \in Request :
              /\ claim'[r] # NoProof
              /\ pc'[r] # "advancing"
              /\ claim'[r].id = s.id
              /\ claim'[r].factor = s.used[k]
              /\ k = Len(s.used) => claim'[r].identity = s.identity
    OBVIOUS
<1>1. PICK r \in Request : Witnesses(r, s, k)
    BY DEF Backed
<1>2. claim'[r] = claim[r] /\ pc'[r] # "advancing"
    BY <1>1, ClaimsKept DEF Witnesses
<1> QED
    BY <1>1, <1>2 DEF Witnesses

\* Every step keeps each row and copy backed by verified factors.
LEMMA ObjectsBackedStep ==
    ASSUME TypeOK, Shape, ObjectsBacked, [Next]_vars
    PROVE  ObjectsBacked'
<1> DEFINE NextBacked(s) == \A k \in 1..Len(s.used) : \E r \in Request :
              /\ claim'[r] # NoProof
              /\ pc'[r] # "advancing"
              /\ claim'[r].id = s.id
              /\ claim'[r].factor = s.used[k]
              /\ k = Len(s.used) => claim'[r].identity = s.identity
<1>1. ASSUME NEW s, s # NoRow, Origin(s) PROVE NextBacked(s)
  <2>1. CASE Present(s)
    <3>1. Backed(s)
        BY <2>1 DEF Present, ObjectsBacked
    <3> QED
        BY <3>1, BackedKept
  <2>2. ASSUME NEW id \in Id, s = FreshSession(id) PROVE NextBacked(s)
      BY <2>2 DEF FreshSession
  <2>3. ASSUME NEW r \in Request, AdvanceUpdate(r), s = Advanced(snap[r], claim[r])
        PROVE  NextBacked(s)
    <3>1. snap[r] # NoRow /\ snap[r] \in AuthSession /\ claim[r] \in Proof
          /\ claim[r] # NoProof /\ claim[r].id = snap[r].id
        BY <2>3 DEF AdvanceUpdate, TypeOK, Shape, Running
    <3> DEFINE n == Len(snap[r].used)
    <3>2. snap[r].used \in Seq(Factor) /\ claim[r].factor \in Factor
        BY <3>1 DEF AuthSession, Proof
    <3>3. /\ s.id = snap[r].id
          /\ s.identity = claim[r].identity
          /\ s.used = Append(snap[r].used, claim[r].factor)
        BY <2>3, <3>1, AdvancedFacts
    <3>4. /\ n \in Nat
          /\ Len(s.used) = n + 1
          /\ \A k \in 1..n : s.used[k] = snap[r].used[k]
          /\ s.used[n + 1] = claim[r].factor
        BY <3>2, <3>3, AppendProperties, LenProperties
    <3>5. claim'[r] = claim[r] /\ pc'[r] = "completing"
        BY <2>3 DEF AdvanceUpdate, TypeOK
    <3>6. Backed(snap[r])
        BY <3>1 DEF ObjectsBacked
    <3>7. \A k \in 1..n : \E q \in Request :
            /\ claim'[q] # NoProof
            /\ pc'[q] # "advancing"
            /\ claim'[q].id = snap[r].id
            /\ claim'[q].factor = snap[r].used[k]
        BY <3>6, BackedKept
    <3> HIDE DEF n
    <3>8. ASSUME NEW k \in 1..n
          PROVE  \E q \in Request :
            /\ claim'[q] # NoProof
            /\ pc'[q] # "advancing"
            /\ claim'[q].id = s.id
            /\ claim'[q].factor = s.used[k]
            /\ k = Len(s.used) => claim'[q].identity = s.identity
      <4>1. s.used[k] = snap[r].used[k] /\ k # Len(s.used) /\ s.id = snap[r].id
          BY <3>3, <3>4
      <4> QED
          BY <3>7, <4>1
    <3>9. /\ claim'[r] # NoProof
          /\ pc'[r] # "advancing"
          /\ claim'[r].id = s.id
          /\ claim'[r].factor = s.used[n + 1]
          /\ claim'[r].identity = s.identity
        BY <3>1, <3>3, <3>4, <3>5
    <3>10. \A k \in 1..Len(s.used) : k \in 1..n \/ k = n + 1
        BY <3>4
    <3> QED
        BY <3>8, <3>9, <3>10
  <2> QED
      BY <1>1, <2>1, <2>2, <2>3 DEF Origin
<1>2. \A id \in Id : rows'[id] # NoRow => NextBacked(rows'[id])
    BY <1>1, ObjectsStep
<1>3. \A r \in Request : snap'[r] # NoRow => NextBacked(snap'[r])
    BY <1>1, ObjectsStep
<1> QED
    BY <1>2, <1>3 DEF ObjectsBacked, Backed, Witnesses

\* A post-login session reports only methods that were verified within its
\* authentication session, step by step, and belongs to the last identity.
THEOREM SessionsAreBackedHolds == Spec => []SessionsAreBacked
<1> DEFINE IInv == TypeOK /\ Shape /\ StepsInOrder /\ ObjectsBacked /\ SessionsMatch
<1>1. Init => IInv
    BY EnrollmentAssumption
    DEF Init, TypeOK, Shape, Stage, Running, StepsInOrder, ObjectsBacked, SessionsMatch
<1>2. IInv /\ [Next]_vars => IInv'
    BY CoreStep, LaddersStep, ObjectsBackedStep, SessionsMatchStep
<1>3. IInv => SessionsAreBacked
  <2> SUFFICES ASSUME IInv, NEW s \in sessions
      PROVE LET a == snap[s.request]
        IN  /\ a # NoRow
            /\ s.amr # <<>>
            /\ Len(s.amr) = Len(a.used)
            /\ \A k \in 1..Len(s.amr) :
                \E r \in Request :
                    /\ claim[r] # NoProof
                    /\ claim[r].id = a.id
                    /\ FactorAMR[claim[r].factor] = s.amr[k]
                    /\ FactorStep[claim[r].factor] = k - 1
                    /\ k = Len(s.amr) => claim[r].identity = s.identity
      BY DEF SessionsAreBacked
  <2> DEFINE a == snap[s.request]
  <2>1. /\ s.request \in Request
        /\ a # NoRow
        /\ a.identity # NoIdentity
        /\ s.identity = a.identity
        /\ s.amr = a.amr
      BY DEF TypeOK, Shape, SessionsMatch, Running
  <2>2. a \in AuthSession /\ Ladder(a) /\ Backed(a)
      BY <2>1 DEF TypeOK, StepsInOrder, ObjectsBacked
  <2> HIDE DEF a
  <2>3. a.amr \in Seq(AMR) /\ a.used \in Seq(Factor) /\ Len(a.amr) = Len(a.used) /\ a.used # <<>>
      BY <2>1, <2>2 DEF AuthSession, Ladder
  <2>4. s.amr # <<>>
      BY <2>1, <2>3, EmptySeq, LenProperties
  <2>5. ASSUME NEW k \in 1..Len(s.amr)
        PROVE  \E r \in Request :
                    /\ claim[r] # NoProof
                    /\ claim[r].id = a.id
                    /\ FactorAMR[claim[r].factor] = s.amr[k]
                    /\ FactorStep[claim[r].factor] = k - 1
                    /\ k = Len(s.amr) => claim[r].identity = s.identity
    <3>1. k \in 1..Len(a.used)
        BY <2>1, <2>3
    <3>2. PICK r \in Request : Witnesses(r, a, k)
        BY <2>2, <3>1 DEF Backed
    <3>3. FactorStep[a.used[k]] = k - 1 /\ a.amr[k] = FactorAMR[a.used[k]]
        BY <2>2, <3>1 DEF Ladder
    <3> QED
        BY <2>1, <2>3, <3>2, <3>3 DEF Witnesses
  <2> QED
      BY <2>1, <2>3, <2>4, <2>5 DEF a
<1> QED
    BY <1>1, <1>2, <1>3, PTL DEF Spec

----------------------------------------------------------------------------
(* No factor is passed over *)

\* Every step keeps the account of the steadily enrolled candidates.
LEMMA NothingLostStep ==
    ASSUME TypeOK, Shape, NothingLost, [Next]_vars
    PROVE  NothingLost'
<1>1. ASSUME NEW r \in Request, AdvanceUpdate(r) \/ BeginComplete(r)
      PROVE  NothingLost'
  <2>1. snap'[r] \in AuthSession /\ snap'[r].identity # NoIdentity
        /\ pc'[r] = "completing" /\ BeginCheck(r, snap'[r])
    <3>1. CASE AdvanceUpdate(r)
      <4>1. snap[r] \in AuthSession /\ claim[r] \in Proof
          BY <3>1 DEF AdvanceUpdate, TypeOK, Shape, Running
      <4> QED
          BY <3>1, <4>1, AdvancedFacts DEF AdvanceUpdate, TypeOK
    <3>2. CASE BeginComplete(r)
        BY <3>2 DEF BeginComplete, TypeOK, Shape
    <3> QED
        BY <1>1, <3>1, <3>2
  <2>2. /\ pending'[r] = Candidates(snap'[r])
        /\ steady'[r] = enrolled[snap'[r].identity]
        /\ enrolled' = enrolled
      BY <1>1, <2>1 DEF BeginCheck, TypeOK, AdvanceUpdate, BeginComplete, enrolVars
  <2>3. \A q \in Request \ {r} :
            /\ pc'[q] = pc[q] /\ snap'[q] = snap[q] /\ steady'[q] = steady[q]
            /\ pending'[q] = pending[q] /\ avail'[q] = avail[q]
      BY <1>1, <2>1, BeginCheckType DEF AdvanceUpdate, BeginComplete, TypeOK
  <2> QED
      BY <2>1, <2>2, <2>3 DEF NothingLost, Candidates
<1>2. ASSUME NEW r \in Request, BeginAdvance(r) PROVE NothingLost'
  <2>1. snap[r] \in AuthSession
      BY <1>2 DEF BeginAdvance, TypeOK, Shape
  <2>2. /\ pc'[r] = "advancing"
        /\ \A q \in Request \ {r} :
            /\ pc'[q] = pc[q] /\ snap'[q] = snap[q] /\ steady'[q] = steady[q]
            /\ pending'[q] = pending[q] /\ avail'[q] = avail[q]
        /\ enrolled' = enrolled
      BY <1>2, <2>1, BeginCheckType DEF BeginAdvance, TypeOK, enrolVars
  <2> QED
      BY <2>2 DEF NothingLost, Candidates
<1>3. ASSUME NEW r \in Request, CheckEnrollment(r) PROVE NothingLost'
  <2>1. PICK f \in pending[r] :
        /\ pending' = [pending EXCEPT ![r] = @ \ {f}]
        /\ avail' = [avail EXCEPT ![r] =
                        IF f \in enrolled[snap[r].identity] THEN @ \cup {f} ELSE @]
      BY <1>3 DEF CheckEnrollment
  <2>2. f \in steady[r] /\ pc[r] = "completing" => f \in enrolled[snap[r].identity]
      BY DEF NothingLost
  <2> QED
      BY <1>3, <2>1, <2>2 DEF CheckEnrollment, NothingLost, TypeOK, Candidates, enrolVars
<1>4. ASSUME NEW r \in Request, CompleteDelete(r) PROVE NothingLost'
    BY <1>4 DEF CompleteDelete, NothingLost, TypeOK, Candidates, enrolVars
<1>5. ASSUME NEW r \in Request, Start(r) PROVE NothingLost'
    BY <1>5 DEF Start, NothingLost, TypeOK, Candidates, enrolVars
<1>6. ASSUME NEW r \in Request, GetByToken(r) \/ GetByTokenHash(r) PROVE NothingLost'
    BY <1>6 DEF GetByToken, GetByTokenHash, NothingLost, TypeOK, Candidates, enrolVars
<1>7. ASSUME NEW r \in Request, CreateSession(r) PROVE NothingLost'
    BY <1>7 DEF CreateSession, NothingLost, TypeOK, Candidates, enrolVars
<1>8. ASSUME NEW r \in Request, NEW outcome \in {"raised", "remaining"},
             Answer(r, outcome), UNCHANGED enrolVars
      PROVE  NothingLost'
    BY <1>8 DEF Answer, NothingLost, TypeOK, Candidates, enrolVars
<1>9. ASSUME NEW i \in Identity, NEW f \in Factor, Enroll(i, f) PROVE NothingLost'
    BY <1>9 DEF Enroll, NothingLost, TypeOK, Candidates, requestVars
<1>10. ASSUME NEW i \in Identity, NEW f \in Factor, Disenroll(i, f) PROVE NothingLost'
  <2>1. \A q \in Request : snap[q] # NoRow => 
            /\ steady'[q] \subseteq steady[q]
            /\ snap[q].identity = i => f \notin steady'[q]
      BY <1>10 DEF Disenroll
  <2>2. \A q \in Request : pc[q] \in {"completing", "deleted"} => snap[q] # NoRow
      BY DEF Shape, Running
  <2>3. \A q \in Request : pc[q] = "completing" => snap[q].identity \in Identity
      BY <2>2 DEF TypeOK, Shape, AuthSession
  <2>4. \A j \in Identity : enrolled[j] \ {f} \subseteq enrolled'[j] 
                            /\ (j # i => enrolled'[j] = enrolled[j])
      BY <1>10 DEF Disenroll, TypeOK
  <2> QED
      BY <1>10, <2>1, <2>2, <2>3, <2>4 DEF Disenroll, NothingLost, Candidates
<1>11. CASE Tick \/ UNCHANGED vars
    BY <1>11 DEF Tick, vars, NothingLost, TypeOK, Candidates, requestVars, enrolVars
<1> QED
    BY <1>1, <1>2, <1>3, <1>4, <1>5, <1>6, <1>7, <1>8, <1>9, <1>10, <1>11
    DEF Next, Handle, GetByTokenFails, AdvanceUnavailable,
        CompleteWithoutIdentity, FactorsRemaining, Fail

\* Login completes only when no required factor remains, also when enrolments
\* change while complete() is looking.
THEOREM NoFactorPassedOverHolds == Spec => []NoFactorPassedOver
<1>1. Init => TypeOK /\ Shape /\ NothingLost
    BY EnrollmentAssumption DEF Init, TypeOK, Shape, Stage, Running, NothingLost
<1>2. TypeOK /\ Shape /\ NothingLost /\ [Next]_vars => (TypeOK /\ Shape /\ NothingLost)'
    BY CoreStep, NothingLostStep
<1>3. NothingLost => NoFactorPassedOver
    BY DEF NothingLost, NoFactorPassedOver
<1> QED
    BY <1>1, <1>2, <1>3, PTL DEF Spec

----------------------------------------------------------------------------
(* What a login adds up to *)

\* The methods a login reports are all different: two of them are two factors.
THEOREM LoginMethodsDiffer ==
    Spec => [](\A s \in sessions : \A k, l \in 1..Len(s.amr) : s.amr[k] = s.amr[l] => k = l)
<1> DEFINE IInv == TypeOK /\ Shape /\ StepsInOrder /\ SessionsMatch
           Differ == \A s \in sessions :
                        \A k, l \in 1..Len(s.amr) : s.amr[k] = s.amr[l] => k = l
<1>1. Init => IInv
    BY EnrollmentAssumption
    DEF Init, TypeOK, Shape, Stage, Running, StepsInOrder, SessionsMatch
<1>2. IInv /\ [Next]_vars => IInv'
    BY CoreStep, LaddersStep, SessionsMatchStep
<1>3. IInv => Differ
  <2> SUFFICES ASSUME IInv, NEW s \in sessions
               PROVE  \A k, l \in 1..Len(s.amr) : s.amr[k] = s.amr[l] => k = l
      OBVIOUS
  <2>1. s.request \in Request /\ snap[s.request] # NoRow /\ s.amr = snap[s.request].amr
      BY DEF TypeOK, Shape, SessionsMatch, Running
  <2> QED
      BY <2>1 DEF StepsInOrder, Ladder
<1> QED
    BY <1>1, <1>2, <1>3, PTL DEF Spec

\* No factor that is due is left: one of the step the login has reached, whose
\* method it does not report yet.
NoFactorLeft(s) ==
    \A f \in enrolled[s.identity] :
        FactorStep[f] = Len(s.amr) => FactorAMR[f] \in Elements(s.amr)

\* As long as enrolments stay as they are, those seen when a check begins are the
\* ones of its end, and of the login it lets through.
StillEnrolled ==
    /\ \A r \in Request : pc[r] \in {"completing", "deleted"} =>
            steady[r] = enrolled[snap[r].identity]
    /\ \A s \in sessions : NoFactorLeft(s)

LEMMA StillEnrolledStep ==
    ASSUME TypeOK, Shape, StepsInOrder, NothingLost, StillEnrolled,
           [Next]_vars, enrolled' = enrolled
    PROVE  StillEnrolled'
<1> USE DEF enrolVars, requestVars
<1>1. ASSUME NEW r \in Request, AdvanceUpdate(r) \/ BeginComplete(r)
      PROVE  StillEnrolled'
  <2>1. snap'[r] \in AuthSession /\ snap'[r].identity # NoIdentity /\ BeginCheck(r, snap'[r])
    <3>1. CASE AdvanceUpdate(r)
      <4>1. snap[r] \in AuthSession /\ claim[r] \in Proof
          BY <3>1 DEF AdvanceUpdate, TypeOK, Shape, Running
      <4> QED
          BY <3>1, <4>1, AdvancedFacts DEF AdvanceUpdate, TypeOK
    <3>2. CASE BeginComplete(r)
        BY <3>2 DEF BeginComplete, TypeOK, Shape
    <3> QED
        BY <1>1, <3>1, <3>2
  <2>2. steady'[r] = enrolled[snap'[r].identity] /\ sessions' = sessions
      BY <1>1, <2>1 DEF BeginCheck, TypeOK, AdvanceUpdate, BeginComplete
  <2>3. \A q \in Request \ {r} :
            pc'[q] = pc[q] /\ snap'[q] = snap[q] /\ steady'[q] = steady[q]
      BY <1>1, <2>1 DEF BeginCheck, AdvanceUpdate, BeginComplete, TypeOK
  <2> QED
      BY <2>2, <2>3 DEF StillEnrolled, NoFactorLeft
<1>2. ASSUME NEW r \in Request, BeginAdvance(r) PROVE StillEnrolled'
    BY <1>2 DEF BeginAdvance, BeginCheck, StillEnrolled, NoFactorLeft, TypeOK
<1>3. ASSUME NEW r \in Request, CheckEnrollment(r) \/ CompleteDelete(r) PROVE StillEnrolled'
    BY <1>3 DEF CheckEnrollment, CompleteDelete, StillEnrolled, NoFactorLeft, TypeOK
<1>4. ASSUME NEW r \in Request, Start(r) \/ GetByToken(r) \/ GetByTokenHash(r)
      PROVE  StillEnrolled'
    BY <1>4 DEF Start, GetByToken, GetByTokenHash, StillEnrolled, NoFactorLeft, TypeOK
<1>5. ASSUME NEW r \in Request, CreateSession(r) PROVE StillEnrolled'
  <2> DEFINE s == [request |-> r, identity |-> snap[r].identity, amr |-> snap[r].amr]
  <2>1. snap[r] \in AuthSession /\ snap[r].identity \in Identity /\ Ladder(snap[r])
      BY <1>5 DEF CreateSession, TypeOK, Shape, Running, StepsInOrder, AuthSession
  <2>2. Candidates(snap[r]) \cap enrolled[snap[r].identity] = {}
      BY <1>5 DEF CreateSession, NothingLost, StillEnrolled
  <2>3. snap[r].step = Len(snap[r].amr) /\ enrolled[snap[r].identity] \subseteq Factor
      BY <2>1 DEF Ladder, TypeOK
  <2>4. NoFactorLeft(s)
      BY <2>2, <2>3 DEF NoFactorLeft, Candidates
  <2>5. sessions' = sessions \cup {s} /\ UNCHANGED <<snap, steady>>
        /\ pc' = [pc EXCEPT ![r] = "completed"]
      BY <1>5 DEF CreateSession
  <2> HIDE DEF s
  <2> QED
      BY <2>4, <2>5 DEF StillEnrolled, NoFactorLeft, TypeOK
<1>6. ASSUME NEW r \in Request, NEW outcome \in {"raised", "remaining"},
             Answer(r, outcome), UNCHANGED sessions
      PROVE  StillEnrolled'
    BY <1>6 DEF Answer, StillEnrolled, NoFactorLeft, TypeOK
<1>7. ASSUME NEW i \in Identity, NEW f \in Factor, Enroll(i, f) PROVE StillEnrolled'
    BY <1>7 DEF Enroll, StillEnrolled, NoFactorLeft
<1>8. ASSUME NEW i \in Identity, NEW f \in Factor, Disenroll(i, f) PROVE FALSE
    BY <1>8 DEF Disenroll, TypeOK
<1>9. CASE Tick \/ UNCHANGED vars
    BY <1>9 DEF Tick, vars, StillEnrolled, NoFactorLeft
<1> QED
    BY <1>1, <1>2, <1>3, <1>4, <1>5, <1>6, <1>7, <1>8, <1>9
    DEF Next, Handle, GetByTokenFails, AdvanceUnavailable,
        CompleteWithoutIdentity, FactorsRemaining, Fail

\* Unless enrolments change, nobody is logged in while a factor of theirs is due,
\* whichever copies of the authentication session requests advance and complete.
THEOREM NoLoginWithFactorLeft ==
    Spec /\ [][enrolled' = enrolled]_vars => [](\A s \in sessions : NoFactorLeft(s))
<1> DEFINE IInv == TypeOK /\ Shape /\ StepsInOrder /\ NothingLost /\ StillEnrolled
           NoneLeft == \A s \in sessions : NoFactorLeft(s)
<1>1. Init => IInv
    BY EnrollmentAssumption
    DEF Init, TypeOK, Shape, Stage, Running, StepsInOrder, NothingLost, StillEnrolled
<1>2. IInv /\ [Next]_vars /\ [enrolled' = enrolled]_vars => IInv'
  <2> SUFFICES ASSUME IInv, [Next]_vars, enrolled' = enrolled PROVE IInv'
      BY DEF vars, enrolVars
  <2> QED
      BY CoreStep, LaddersStep, NothingLostStep, StillEnrolledStep
<1>3. IInv => NoneLeft
    BY DEF StillEnrolled
<1> QED
    BY <1>1, <1>2, <1>3, PTL DEF Spec
=============================================================================
