---------------------------- MODULE OAuth2_proofs ----------------------------
(***************************************************************************)
(* Proofs about the OAuth2 factor, for any number of requests, states and  *)
(* accounts: the login flow (OAuth2Login) and the exchange of a code       *)
(* within it (OpenIDConnect), two specifications without a name in common. *)
(***************************************************************************)
EXTENDS OAuth2Login, OpenIDConnect, TLAPS

----------------------------------------------------------------------------
(* The login flow *)

\* A state in the table or in the hands of a request: its id has been handed
\* out, and the identity it was started for exists.
GoodState(s) ==
    /\ s \in OAuth2State
    /\ s.id \in issued
    /\ s.identity \in existing \cup {None}

\* An enrolment that has been inserted for account a.
GoodLink(a, e) ==
    /\ e \in OAuth2Enrollment
    /\ e.id \in made
    /\ e.identity \in owners[a] \cap existing

\* The enrolments that have the id of e are e.
Settled(e) ==
    \A a \in Account : enrolled[a] # None /\ enrolled[a].id = e.id => enrolled[a] = e

\* The identity is the one the flow was started for, if any.
Fits(s, e) == s.identity # None => e.identity = s.identity

\* What a request holds at each stage.
HeldBy(r) ==
    /\ pc[r] \in {"consuming"} \cup Consumed => GoodState(held[r])
    /\ pc[r] \in {"resolving", "updating", "signing", "inserting", "done"} =>
            account[r] \in Account
    /\ pc[r] = "signing" => held[r].identity = None
    /\ pc[r] = "inserting" =>
            /\ who[r] \in OAuth2Enrollment
            /\ who[r].identity \in existing
            /\ Fits(held[r], who[r])
    /\ pc[r] \in {"updating", "done"} =>
            GoodLink(account[r], who[r]) /\ Fits(held[r], who[r])
    /\ pc[r] = "updating" => Settled(who[r])

\* Every state in the table is stored under its id.
RowsGood ==
    \A id \in State : rows[id] # None => rows[id].id = id /\ GoodState(rows[id])

\* Every enrolment was inserted for its account, under an id of its own.
LinksGood ==
    /\ \A a \in Account : enrolled[a] # None => GoodLink(a, enrolled[a])
    /\ \A a, b \in Account :
            enrolled[a] # None /\ enrolled[b] # None /\ enrolled[a].id = enrolled[b].id
                => a = b

\* What has been consumed is gone.
Gone == \A r \in Request : pc[r] \in Consumed => rows[held[r].id] = None

IInv ==
    /\ TypeOK
    /\ \A r \in Request : HeldBy(r)
    /\ RowsGood
    /\ LinksGood
    /\ Gone

LEMMA InitIInv == Init => IInv
BY OwnerAssumption
DEF Init, IInv, TypeOK, Stage, Running, Consumed, HeldBy, RowsGood, LinksGood, Gone

\* A step of request r that touches nothing but r's own state preserves the
\* invariant if r holds what its new stage needs.
LEMMA OwnStep ==
    ASSUME IInv, NEW r \in Request,
           UNCHANGED <<now, stateVars, linkVars>>,
           pc' \in [Request -> Stage],
           held' \in [Request -> OAuth2State \cup {None}],
           account' \in [Request -> Account \cup {None}],
           who' \in [Request -> OAuth2Enrollment \cup {None}],
           \A q \in Request \ {r} :
                /\ pc'[q] = pc[q] /\ held'[q] = held[q]
                /\ account'[q] = account[q] /\ who'[q] = who[q],
           HeldBy(r)',
           pc'[r] \in Consumed => pc[r] \in Consumed /\ held'[r] = held[r]
    PROVE  IInv'
<1> USE DEF stateVars, linkVars
<1>1. TypeOK'
    BY DEF IInv, TypeOK
<1>2. ASSUME NEW q \in Request PROVE HeldBy(q)'
  <2>1. CASE q = r
      BY <2>1
  <2>2. CASE q # r
    <3>1. HeldBy(q)
        BY DEF IInv
    <3> QED
        BY <2>2, <3>1 DEF HeldBy, GoodState, GoodLink, Settled, Fits
  <2> QED
      BY <2>1, <2>2
<1>3. RowsGood' /\ LinksGood'
    BY DEF IInv, RowsGood, LinksGood, GoodState, GoodLink
<1>4. Gone'
    BY DEF IInv, Gone
<1> QED
    BY <1>1, <1>2, <1>3, <1>4 DEF IInv

\* An update finds the enrolment as it was loaded, or not at all.
LEMMA UpdateStep ==
    ASSUME IInv, NEW r \in Request, Update(r)
    PROVE  enrolled' = enrolled
BY DEF Update, IInv, TypeOK, HeldBy, Settled

\* A state is created.
LEMMA StartStep ==
    ASSUME IInv, NEW r \in Request, Start(r)
    PROVE  IInv'
<1> USE DEF linkVars, Goto
<1>1. PICK id \in State \ issued, i \in existing \cup {None} :
        /\ rows' = [rows EXCEPT ![id] =
                        [id |-> id, identity |-> i, expires |-> now + Lifetime]]
        /\ issued' = issued \cup {id}
    BY DEF Start, Created
<1> DEFINE s == [id |-> id, identity |-> i, expires |-> now + Lifetime]
<1>2. s \in OAuth2State /\ GoodState(s)'
    BY <1>1, TimeAssumption DEF Start, Created, IInv, TypeOK, OAuth2State, GoodState
<1>3. TypeOK'
  <2>1. pc' \in [Request -> Stage]
      BY DEF Start, Created, IInv, TypeOK, Stage
  <2> QED
      BY <1>1, <1>2, <2>1 DEF Start, Created, IInv, TypeOK
<1>4. /\ pc'[r] = "started"
      /\ \A q \in Request \ {r} : pc'[q] = pc[q]
      /\ rows'[id] = s
      /\ \A j \in State \ {id} : rows'[j] = rows[j]
    BY <1>1 DEF Start, Created, IInv, TypeOK
<1>5. ASSUME NEW q \in Request PROVE HeldBy(q)'
  <2>1. CASE q = r
      BY <1>4, <2>1 DEF HeldBy, Consumed, Running
  <2>2. CASE q # r
    <3>1. HeldBy(q)
        BY DEF IInv
    <3> QED
        BY <1>1, <1>4, <2>2, <3>1
        DEF Start, Created, HeldBy, GoodState, GoodLink, Settled, Fits
  <2> QED
      BY <2>1, <2>2
<1>6. RowsGood'
    BY <1>1, <1>2, <1>4 DEF Start, Created, IInv, RowsGood, GoodState
<1>7. LinksGood'
    BY DEF Start, Created, IInv, LinksGood, GoodLink
<1>8. Gone'
    BY <1>1, <1>4 DEF Start, Created, IInv, HeldBy, GoodState, Gone, Consumed, Running
<1> QED
    BY <1>3, <1>5, <1>6, <1>7, <1>8 DEF IInv

\* A state is deleted.
LEMMA ConsumeStep ==
    ASSUME IInv, NEW r \in Request, ConsumeDelete(r)
    PROVE  IInv'
<1> USE DEF linkVars, Goto
<1>1. HeldBy(r) /\ held[r].id \in State
    BY DEF ConsumeDelete, IInv, HeldBy, GoodState, OAuth2State
<1>2. TypeOK'
  <2>1. pc' \in [Request -> Stage]
      BY DEF ConsumeDelete, IInv, TypeOK, Stage, Consumed, Running
  <2> QED
      BY <2>1 DEF ConsumeDelete, IInv, TypeOK
<1>3. /\ pc'[r] = "exchanging"
      /\ \A q \in Request \ {r} : pc'[q] = pc[q]
      /\ \A id \in State : rows'[id] = IF id = held[r].id THEN None ELSE rows[id]
    BY DEF ConsumeDelete, IInv, TypeOK
<1>4. ASSUME NEW q \in Request PROVE HeldBy(q)'
  <2>1. HeldBy(q)
      BY DEF IInv
  <2>2. CASE q = r
      BY <1>1, <1>3, <2>2 DEF ConsumeDelete, HeldBy, GoodState
  <2>3. CASE q # r
      BY <1>3, <2>1, <2>3 DEF ConsumeDelete, HeldBy, GoodState, GoodLink, Settled, Fits
  <2> QED
      BY <2>2, <2>3
<1>5. RowsGood'
    BY <1>3 DEF ConsumeDelete, IInv, RowsGood, GoodState
<1>6. LinksGood'
    BY DEF ConsumeDelete, IInv, LinksGood, GoodLink
<1>7. Gone'
  <2>1. \A q \in Request : GoodState(held[q]) => held[q].id \in State
      BY DEF GoodState, OAuth2State
  <2> QED
      BY <1>1, <1>3, <2>1 DEF ConsumeDelete, IInv, HeldBy, Gone
<1> QED
    BY <1>2, <1>4, <1>5, <1>6, <1>7 DEF IInv

\* An identity is created.
LEMMA SignUpStep ==
    ASSUME IInv, NEW r \in Request, SignUp(r)
    PROVE  IInv'
<1> USE DEF stateVars, Goto
<1>1. HeldBy(r) /\ Owner[account[r]] \in Identity
    BY OwnerAssumption DEF SignUp, IInv, HeldBy
<1> DEFINE e == [id |-> None, identity |-> Owner[account[r]]]
<1>2. e \in OAuth2Enrollment
    BY <1>1 DEF OAuth2Enrollment
<1>3. TypeOK'
  <2>1. pc' \in [Request -> Stage]
      BY DEF SignUp, IInv, TypeOK, Stage, Consumed, Running
  <2> QED
      BY <1>1, <1>2, <2>1 DEF SignUp, IInv, TypeOK
<1>4. /\ pc'[r] = "inserting" /\ who'[r] = e
      /\ \A q \in Request \ {r} : pc'[q] = pc[q] /\ who'[q] = who[q]
      /\ existing \subseteq existing' /\ Owner[account[r]] \in existing'
    BY DEF SignUp, IInv, TypeOK
<1>5. ASSUME NEW q \in Request PROVE HeldBy(q)'
  <2>1. HeldBy(q)
      BY DEF IInv
  <2>2. CASE q = r
      BY <1>1, <1>2, <1>4, <2>2 DEF SignUp, HeldBy, GoodState, Fits, Consumed, Running
  <2>3. CASE q # r
      BY <1>4, <2>1, <2>3 DEF SignUp, HeldBy, GoodState, GoodLink, Settled, Fits
  <2> QED
      BY <2>2, <2>3
<1>6. RowsGood' /\ LinksGood'
    BY <1>4 DEF SignUp, IInv, RowsGood, LinksGood, GoodState, GoodLink
<1>7. Gone'
    BY <1>4 DEF SignUp, IInv, Gone, Consumed, Running
<1> QED
    BY <1>3, <1>5, <1>6, <1>7 DEF IInv

\* An enrolment is inserted.
LEMMA InsertStep ==
    ASSUME IInv, NEW r \in Request, Insert(r)
    PROVE  IInv'
<1> USE DEF stateVars, Goto
<1>1. PICK k \in Link \ made :
        LET e == [who[r] EXCEPT !.id = k]
        IN  /\ enrolled' = [enrolled EXCEPT ![account[r]] = e]
            /\ owners' = [owners EXCEPT ![account[r]] = @ \cup {e.identity}]
            /\ who' = [who EXCEPT ![r] = e]
            /\ made' = made \cup {k}
    BY DEF Insert
<1> DEFINE e == [who[r] EXCEPT !.id = k]
<1>2. HeldBy(r) /\ account[r] \in Account
    BY DEF Insert, IInv, HeldBy
<1>3. e \in OAuth2Enrollment /\ e.id = k /\ e.identity = who[r].identity
    BY <1>2 DEF Insert, HeldBy, OAuth2Enrollment
<1>4. /\ pc'[r] = "done" /\ who'[r] = e
      /\ \A q \in Request \ {r} : pc'[q] = pc[q] /\ who'[q] = who[q]
      /\ enrolled'[account[r]] = e
      /\ \A a \in Account \ {account[r]} : enrolled'[a] = enrolled[a]
      /\ owners'[account[r]] = owners[account[r]] \cup {e.identity}
      /\ \A a \in Account : owners[a] \subseteq owners'[a]
      /\ made' = made \cup {k}
    BY <1>1, <1>2 DEF Insert, IInv, TypeOK
<1>5. TypeOK'
  <2>1. pc' \in [Request -> Stage]
      BY DEF Insert, IInv, TypeOK, Stage, Consumed
  <2>2. e.identity \in Identity
      BY <1>3 DEF OAuth2Enrollment
  <2>3. owners' \in [Account -> SUBSET Identity]
      BY <1>1, <2>2 DEF IInv, TypeOK
  <2>4. enrolled' \in [Account -> OAuth2Enrollment \cup {None}]
      BY <1>1, <1>3 DEF IInv, TypeOK
  <2>5. who' \in [Request -> OAuth2Enrollment \cup {None}]
      BY <1>1, <1>3 DEF IInv, TypeOK
  <2> QED
      BY <1>4, <2>1, <2>3, <2>4, <2>5 DEF Insert, IInv, TypeOK
<1>6. GoodLink(account[r], e)'
    BY <1>2, <1>3, <1>4 DEF Insert, HeldBy, GoodLink
<1>7. ASSUME NEW q \in Request PROVE HeldBy(q)'
  <2>1. HeldBy(q)
      BY DEF IInv
  <2>2. CASE q = r
      BY <1>2, <1>3, <1>4, <1>6, <2>2
      DEF Insert, HeldBy, GoodState, Fits, Consumed, Running
  <2>3. CASE q # r
    <3>1. pc[q] \in {"updating", "done"} => GoodLink(account[q], who[q])'
        BY <1>4, <2>1, <2>3 DEF Insert, HeldBy, GoodLink
    <3>2. pc[q] = "updating" => Settled(who[q])'
        BY <1>3, <1>4, <2>1, <2>3 DEF Insert, HeldBy, GoodLink, Settled
    <3> QED
        BY <1>4, <2>1, <2>3, <3>1, <3>2 DEF Insert, HeldBy, GoodState, Fits
  <2> QED
      BY <2>2, <2>3
<1>8. RowsGood'
    BY DEF Insert, IInv, RowsGood, GoodState
<1>9. LinksGood'
  <2>1. ASSUME NEW a \in Account, enrolled'[a] # None PROVE GoodLink(a, enrolled[a])'
      BY <1>4, <1>6, <2>1 DEF Insert, IInv, LinksGood, GoodLink
  <2>2. ASSUME NEW a \in Account, NEW b \in Account,
               enrolled'[a] # None, enrolled'[b] # None,
               enrolled'[a].id = enrolled'[b].id
        PROVE  a = b
    <3>1. \A c \in Account \ {account[r]} : enrolled'[c] # None =>
              enrolled'[c] = enrolled[c] /\ enrolled[c].id \in made
        BY <1>4 DEF IInv, LinksGood, GoodLink
    <3>2. CASE a # account[r] /\ b # account[r]
      <4>1. enrolled[a] # None /\ enrolled[b] # None /\ enrolled[a].id = enrolled[b].id
          BY <2>2, <3>1, <3>2
      <4> QED
          BY <4>1 DEF IInv, LinksGood
    <3>3. CASE a = account[r] \/ b = account[r]
      <4>1. enrolled'[account[r]].id = k /\ k \notin made
          BY <1>3, <1>4
      <4>2. a # account[r] => enrolled'[a].id \in made
          BY <2>2, <3>1
      <4>3. b # account[r] => enrolled'[b].id \in made
          BY <2>2, <3>1
      <4> HIDE DEF e
      <4> QED
          BY <2>2, <3>3, <4>1, <4>2, <4>3
    <3> QED
        BY <3>2, <3>3
  <2> QED
      BY <2>1, <2>2 DEF LinksGood
<1>10. Gone'
    BY <1>4 DEF Insert, IInv, Gone, Consumed, Running
<1> QED
    BY <1>5, <1>7, <1>8, <1>9, <1>10 DEF IInv

\* An enrolment is removed.
LEMMA UnlinkStep ==
    ASSUME IInv, NEW a \in Account, Unlink(a)
    PROVE  IInv'
<1> USE DEF stateVars
<1>1. \A b \in Account : enrolled'[b] = IF b = a THEN None ELSE enrolled[b]
    BY DEF Unlink, IInv, TypeOK
<1>2. TypeOK'
    BY DEF Unlink, IInv, TypeOK
<1>3. ASSUME NEW q \in Request PROVE HeldBy(q)'
  <2>1. HeldBy(q)
      BY DEF IInv
  <2> QED
      BY <1>1, <2>1 DEF Unlink, HeldBy, GoodState, GoodLink, Settled, Fits
<1>4. RowsGood' /\ Gone'
    BY DEF Unlink, IInv, RowsGood, Gone, GoodState
<1>5. LinksGood'
  <2>1. \A b \in Account : enrolled'[b] # None =>
            enrolled[b] # None /\ enrolled'[b] = enrolled[b]
      BY <1>1
  <2>2. \A b \in Account : enrolled'[b] # None => GoodLink(b, enrolled[b])'
      BY <2>1 DEF Unlink, IInv, LinksGood, GoodLink
  <2>3. \A b, c \in Account :
            enrolled'[b] # None /\ enrolled'[c] # None /\ enrolled'[b].id = enrolled'[c].id
                => b = c
    <3> SUFFICES ASSUME NEW b \in Account, NEW c \in Account,
                        enrolled'[b] # None, enrolled'[c] # None,
                        enrolled'[b].id = enrolled'[c].id
                 PROVE  b = c
        OBVIOUS
    <3>1. /\ enrolled[b] # None /\ enrolled'[b] = enrolled[b]
          /\ enrolled[c] # None /\ enrolled'[c] = enrolled[c]
        BY <2>1
    <3>2. enrolled[b].id = enrolled[c].id
        BY <3>1
    <3> QED
        BY <3>1, <3>2 DEF IInv, LinksGood
  <2> QED
      BY <2>2, <2>3 DEF LinksGood
<1> QED
    BY <1>2, <1>3, <1>4, <1>5 DEF IInv

\* Every step preserves the invariant.
LEMMA InvariantStep == IInv /\ [Next]_vars => IInv'
<1> SUFFICES ASSUME IInv, [Next]_vars PROVE IInv'
    OBVIOUS
<1> USE DEF Goto, stateVars, linkVars
<1>1. ASSUME NEW r \in Request, ConsumeLoad(r) PROVE IInv'
  <2>1. PICK id \in State : rows[id] # None /\ held' = [held EXCEPT ![r] = rows[id]]
      BY <1>1 DEF ConsumeLoad
  <2>2. GoodState(rows[id])
      BY <2>1 DEF IInv, RowsGood
  <2>3. /\ pc' \in [Request -> Stage] /\ pc'[r] = "consuming"
        /\ held' \in [Request -> OAuth2State \cup {None}] /\ held'[r] = rows[id]
      BY <1>1, <2>1, <2>2 DEF ConsumeLoad, IInv, TypeOK, Stage, GoodState
  <2>4. HeldBy(r)'
      BY <1>1, <2>2, <2>3 DEF ConsumeLoad, HeldBy, GoodState
  <2> QED
      BY <1>1, <2>3, <2>4, OwnStep DEF ConsumeLoad, IInv, TypeOK, Consumed, Running
<1>2. ASSUME NEW r \in Request, Exchange(r) PROVE IInv'
  <2>1. /\ pc' \in [Request -> Stage] /\ pc'[r] = "resolving"
        /\ account' \in [Request -> Account \cup {None}] /\ account'[r] \in Account
      BY <1>2 DEF Exchange, IInv, TypeOK, Stage, Consumed, Running
  <2>2. HeldBy(r)'
      BY <1>2, <2>1 DEF Exchange, IInv, HeldBy, GoodState, Consumed, Running
  <2> QED
      BY <1>2, <2>1, <2>2, OwnStep DEF Exchange, IInv, TypeOK, Consumed, Running
<1>3. ASSUME NEW r \in Request, ResolveEnrolled(r) PROVE IInv'
  <2>1. /\ account[r] \in Account /\ enrolled[account[r]] # None
        /\ Fits(held[r], enrolled[account[r]])
      BY <1>3 DEF ResolveEnrolled, Mismatch, Fits, IInv, HeldBy
  <2>2. GoodLink(account[r], enrolled[account[r]]) /\ Settled(enrolled[account[r]])
      BY <2>1 DEF IInv, LinksGood, Settled
  <2>3. /\ pc' \in [Request -> Stage] /\ pc'[r] = "updating"
        /\ who' \in [Request -> OAuth2Enrollment \cup {None}]
        /\ who'[r] = enrolled[account[r]]
      BY <1>3, <2>2
      DEF ResolveEnrolled, IInv, TypeOK, GoodLink, Stage, Consumed, Running
  <2>4. HeldBy(r)'
      BY <1>3, <2>1, <2>2, <2>3
      DEF ResolveEnrolled, IInv, HeldBy, GoodState, GoodLink, Settled, Fits,
          Consumed, Running
  <2> QED
      BY <1>3, <2>3, <2>4, OwnStep DEF ResolveEnrolled, IInv, TypeOK, Consumed, Running
<1>4. ASSUME NEW r \in Request, ResolveAssociate(r) PROVE IInv'
  <2> DEFINE e == [id |-> None, identity |-> held[r].identity]
  <2>1. GoodState(held[r]) /\ account[r] \in Account
      BY <1>4 DEF ResolveAssociate, IInv, HeldBy, Consumed, Running
  <2>2. e \in OAuth2Enrollment /\ held[r].identity \in existing
      BY <1>4, <2>1 DEF ResolveAssociate, GoodState, OAuth2State, OAuth2Enrollment
  <2>3. /\ pc' \in [Request -> Stage] /\ pc'[r] = "inserting"
        /\ who' \in [Request -> OAuth2Enrollment \cup {None}] /\ who'[r] = e
      BY <1>4, <2>2 DEF ResolveAssociate, IInv, TypeOK, Stage, Consumed, Running
  <2>4. HeldBy(r)'
      BY <1>4, <2>1, <2>2, <2>3
      DEF ResolveAssociate, HeldBy, GoodState, Fits, Consumed, Running
  <2> QED
      BY <1>4, <2>3, <2>4, OwnStep DEF ResolveAssociate, IInv, TypeOK, Consumed, Running
<1>5. ASSUME NEW r \in Request, ResolveNew(r) PROVE IInv'
  <2>1. pc' \in [Request -> Stage] /\ pc'[r] = "signing"
      BY <1>5 DEF ResolveNew, IInv, TypeOK, Stage, Consumed, Running
  <2>2. HeldBy(r)'
      BY <1>5, <2>1 DEF ResolveNew, IInv, HeldBy, GoodState, Consumed, Running
  <2> QED
      BY <1>5, <2>1, <2>2, OwnStep DEF ResolveNew, IInv, TypeOK, Consumed, Running
<1>6. ASSUME NEW r \in Request, Update(r) PROVE IInv'
  <2>1. enrolled' = enrolled
      BY <1>6, UpdateStep
  <2>2. pc' \in [Request -> Stage] /\ pc'[r] = "done"
      BY <1>6 DEF Update, IInv, TypeOK, Stage, Consumed
  <2>3. HeldBy(r)'
      BY <1>6, <2>1, <2>2
      DEF Update, IInv, HeldBy, GoodState, GoodLink, Fits, Consumed, Running
  <2> QED
      BY <1>6, <2>1, <2>2, <2>3, OwnStep DEF Update, IInv, TypeOK, Consumed, Running
<1>7. ASSUME NEW r \in Request, Abandon(r) PROVE IInv'
  <2>1. /\ pc' \in [Request -> Stage]
        /\ pc'[r] = IF pc[r] = "consuming" THEN "raised" ELSE "failed"
        /\ account' \in [Request -> Account \cup {None}]
        /\ who' \in [Request -> OAuth2Enrollment \cup {None}]
      BY <1>7 DEF Abandon, IInv, TypeOK, Stage, Consumed
  <2>2. HeldBy(r)'
      BY <1>7, <2>1 DEF Abandon, IInv, HeldBy, GoodState, Consumed, Running
  <2> QED
      BY <1>7, <2>1, <2>2, OwnStep DEF Abandon, IInv, TypeOK, Consumed, Running
<1>8. CASE Tick \/ UNCHANGED vars
  <2>1. /\ UNCHANGED <<rows, issued, enrolled, made, existing, owners, pc, held,
                       account, who>>
        /\ now' \in Nat
      BY <1>8 DEF Tick, vars, IInv, TypeOK
  <2>2. ASSUME NEW q \in Request PROVE HeldBy(q)'
    <3>1. HeldBy(q)
        BY DEF IInv
    <3> QED
        BY <2>1, <3>1 DEF HeldBy, GoodState, GoodLink, Settled, Fits
  <2> QED
      BY <2>1, <2>2 DEF IInv, TypeOK, RowsGood, LinksGood, Gone, GoodState, GoodLink
<1> QED
    BY <1>1, <1>2, <1>3, <1>4, <1>5, <1>6, <1>7, <1>8,
       StartStep, ConsumeStep, SignUpStep, InsertStep, UnlinkStep DEF Next, Handle

LEMMA InvariantHolds == Spec => []IInv
BY InitIInv, InvariantStep, PTL DEF Spec

\* Every variable keeps its type.
THEOREM TypeCorrect == Spec => []TypeOK
<1>1. IInv => TypeOK
    BY DEF IInv
<1> QED
    BY <1>1, InvariantHolds, PTL

\* A callback that is done has an identity its account was enrolled for.
THEOREM IdentityOwnsAccountHolds == Spec => []IdentityOwnsAccount
<1>1. IInv => IdentityOwnsAccount
    BY DEF IInv, HeldBy, GoodLink, Fits, IdentityOwnsAccount
<1> QED
    BY <1>1, InvariantHolds, PTL

\* No enrolment is without an identity.
THEOREM NoDanglingEnrollmentHolds == Spec => []NoDanglingEnrollment
<1>1. IInv => NoDanglingEnrollment
    BY DEF IInv, LinksGood, GoodLink, NoDanglingEnrollment
<1> QED
    BY <1>1, InvariantHolds, PTL

\* No enrolment changes hands.
THEOREM EnrollmentKeepsIdentityHolds == Spec => EnrollmentKeepsIdentity
<1>1. ASSUME IInv, [Next]_vars, NEW a \in Account,
             enrolled[a] # None, enrolled'[a] # None
      PROVE  enrolled'[a] = enrolled[a]
  <2>1. CASE enrolled' = enrolled
      BY <2>1
  <2>2. ASSUME NEW r \in Request, Update(r) PROVE enrolled' = enrolled
      BY <1>1, <2>2, UpdateStep
  <2>3. ASSUME NEW r \in Request, Insert(r) PROVE enrolled'[a] = enrolled[a]
      BY <1>1, <2>3 DEF Insert, IInv, TypeOK
  <2>4. ASSUME NEW b \in Account, Unlink(b) PROVE enrolled'[a] = enrolled[a]
      BY <1>1, <2>4 DEF Unlink, IInv, TypeOK
  <2> QED
      BY <1>1, <2>1, <2>2, <2>3, <2>4
      DEF Next, Handle, Start, ConsumeLoad, ConsumeDelete, Exchange, ResolveEnrolled,
          ResolveAssociate, ResolveNew, SignUp, Abandon, Tick, vars, linkVars
<1>2. IInv /\ [Next]_vars =>
        [\A a \in Account : enrolled[a] # None /\ enrolled'[a] # None =>
            enrolled'[a] = enrolled[a]]_vars
    BY <1>1
<1> QED
    BY <1>2, InvariantHolds, PTL DEF Spec, EnrollmentKeepsIdentity

\* Every step is one of a one-time token, or none.
LEMMA TokenStep ==
    ASSUME IInv, [Next]_vars
    PROVE  [OneTime!Next]_<<Status, Taken, Spent>>
<1> USE DEF Goto, stateVars, linkVars
<1>1. ASSUME NEW r \in Request, Start(r)
      PROVE  \E id \in State : OneTime!Issue(id)
  <2>1. Taken' = Taken /\ Spent' = Spent
      BY <1>1 DEF Start, Created, Taken, Spent, IInv, TypeOK, Consumed, Running
  <2>2. PICK id \in State \ issued, i \in existing \cup {None} :
            /\ rows' = [rows EXCEPT ![id] =
                            [id |-> id, identity |-> i, expires |-> now + Lifetime]]
            /\ issued' = issued \cup {id}
      BY <1>1 DEF Start, Created
  <2>3. [id |-> id, identity |-> i, expires |-> now + Lifetime] # None
      BY NoneAssumption, TimeAssumption DEF OAuth2State, IInv, TypeOK
  <2>4. Status[id] = "unissued" /\ Status' = [Status EXCEPT ![id] = "live"]
      BY <2>2, <2>3 DEF Status, IInv, TypeOK, RowsGood, GoodState
  <2> QED
      BY <2>1, <2>2, <2>4 DEF OneTime!Issue
<1>2. ASSUME NEW r \in Request, ConsumeLoad(r)
      PROVE  \E id \in State : OneTime!Take(r, id)
  <2>1. PICK id \in State : rows[id] # None /\ held' = [held EXCEPT ![r] = rows[id]]
      BY <1>2 DEF ConsumeLoad
  <2>2. rows[id].id = id
      BY <2>1 DEF IInv, RowsGood
  <2>3. Status' = Status /\ Status[id] = "live"
      BY <1>2, <2>1 DEF ConsumeLoad, Status
  <2>4. /\ Taken[r] = None /\ Spent[r] = None
        /\ Taken' = [Taken EXCEPT ![r] = id] /\ Spent' = Spent
      BY <1>2, <2>1, <2>2
      DEF ConsumeLoad, Taken, Spent, IInv, TypeOK, Consumed, Running
  <2> QED
      BY <2>3, <2>4 DEF OneTime!Take
<1>3. ASSUME NEW r \in Request, ConsumeDelete(r) PROVE OneTime!Spend(r)
  <2>1. held[r].id \in State /\ held[r].id \in issued
      BY <1>3 DEF ConsumeDelete, IInv, HeldBy, GoodState, OAuth2State
  <2>2. Taken[r] = held[r].id /\ Taken[r] # None
      BY <1>3, <2>1, NoneAssumption DEF ConsumeDelete, Taken
  <2>3. /\ Taken' = [Taken EXCEPT ![r] = None]
        /\ Spent' = [Spent EXCEPT ![r] = held[r].id]
      BY <1>3 DEF ConsumeDelete, Taken, Spent, IInv, TypeOK, Consumed, Running
  <2>4. Status' = [Status EXCEPT ![held[r].id] = "gone"]
      BY <1>3, <2>1 DEF ConsumeDelete, Status, IInv, TypeOK
  <2> QED
      BY <2>2, <2>3, <2>4 DEF OneTime!Spend
<1>4. ASSUME NEW r \in Request, Abandon(r) PROVE OneTime!GiveUp(r)
  <2>1. Status' = Status /\ Spent' = Spent
      BY <1>4 DEF Abandon, Status, Spent, IInv, TypeOK, Consumed, Running
  <2>2. Taken' = [Taken EXCEPT ![r] = None]
      BY <1>4 DEF Abandon, Taken, IInv, TypeOK, Running
  <2> QED
      BY <2>1, <2>2 DEF OneTime!GiveUp
<1>5. ASSUME NEW r \in Request,
             \/ Exchange(r) \/ ResolveEnrolled(r) \/ ResolveAssociate(r)
             \/ ResolveNew(r) \/ SignUp(r) \/ Update(r) \/ Insert(r)
      PROVE  UNCHANGED <<Status, Taken, Spent>>
  <2>1. /\ UNCHANGED <<rows, issued, held>>
        /\ pc[r] \in Running
        /\ \E stage \in Running \cup {"done"} : pc' = [pc EXCEPT ![r] = stage]
      BY <1>5 DEF Exchange, ResolveEnrolled, ResolveAssociate, ResolveNew, SignUp,
                  Update, Insert, Running
  <2> QED
      BY <2>1 DEF Status, Taken, Spent, IInv, TypeOK, Consumed, Running
<1>6. CASE (\E a \in Account : Unlink(a)) \/ Tick \/ UNCHANGED vars
    BY <1>6 DEF Unlink, Tick, vars, Status, Taken, Spent
<1> QED
    BY <1>1, <1>2, <1>3, <1>4, <1>5, <1>6 DEF Next, Handle, OneTime!Next

\* States implement one-time tokens.
THEOREM OneTimeTokenImplemented == Spec => ImplementsOneTimeToken
<1>1. Init => OneTime!Init
    BY DEF Init, OneTime!Init, Status, Taken, Spent, Consumed, Running
<1>2. IInv /\ [Next]_vars => [OneTime!Next]_<<Status, Taken, Spent>>
    BY TokenStep
<1> QED
    BY <1>1, <1>2, InvariantHolds, PTL
    DEF Spec, ImplementsOneTimeToken, OneTime!Spec, OneTime!vars

\* What a callback has loaded had been issued, and what it has deleted is gone.
LEMMA TokenFacts ==
    ASSUME IInv, NEW r \in Request
    PROVE  /\ Taken[r] # None => Taken[r] \in State /\ Status[Taken[r]] # "unissued"
           /\ Spent[r] # None => Spent[r] \in State /\ Status[Spent[r]] = "gone"
<1>1. pc[r] \in {"consuming"} \cup Consumed => held[r].id \in State /\ held[r].id \in issued
    BY DEF IInv, HeldBy, GoodState, OAuth2State
<1> QED
    BY <1>1 DEF Taken, Spent, Status, IInv, Gone

\* No id of a state is issued twice, and no state that has been consumed is ever
\* back, in whatever order callbacks of one state delete it.
THEOREM LifecycleImplemented == Spec => OneTime!ImplementsLifecycle
<1>1. Init => OneTime!Lifecycle!Init
    BY DEF Init, OneTime!Lifecycle!Init, Status
<1>2. IInv /\ [Next]_vars => [OneTime!Lifecycle!Next]_Status
  <2> SUFFICES ASSUME IInv, OneTime!Next PROVE [OneTime!Lifecycle!Next]_Status
      BY TokenStep
  <2>1. ASSUME NEW r \in Request, OneTime!Spend(r)
        PROVE  OneTime!Lifecycle!Drop({Taken[r]}) \/ UNCHANGED Status
      BY <2>1, TokenFacts DEF OneTime!Spend, OneTime!Lifecycle!Drop, Status
  <2>2. ASSUME NEW id \in State, OneTime!Issue(id) PROVE OneTime!Lifecycle!Issue(id)
      BY <2>2 DEF OneTime!Issue, OneTime!Lifecycle!Issue
  <2>3. ASSUME NEW ids \in SUBSET State, OneTime!Void(ids)
        PROVE  OneTime!Lifecycle!Drop(ids)
      BY <2>3 DEF OneTime!Void, OneTime!Lifecycle!Drop
  <2>4. \A r \in Request : OneTime!Spend(r) => {Taken[r]} \in SUBSET State
      BY TokenFacts DEF OneTime!Spend
  <2> QED
      BY <2>1, <2>2, <2>3, <2>4
      DEF OneTime!Next, OneTime!Take, OneTime!GiveUp, OneTime!Lifecycle!Next
<1> QED
    BY <1>1, <1>2, InvariantHolds, PTL
    DEF Spec, OneTime!ImplementsLifecycle, OneTime!Lifecycle!Spec

\* No callback loads a state that another one has consumed: the two of the finding
\* about consume() had both loaded it before either deleted it.
THEOREM StateSharedOnlyByOverlap == Spec => OneTime!SharedOnlyByOverlap
<1> DEFINE Shared ==
        \A r, q \in Request : Taken'[r] \notin {Taken[r], None} => Spent[q] # Taken'[r]
<1>1. IInv /\ [Next]_vars => [Shared]_<<Status, Taken, Spent>>
  <2> SUFFICES ASSUME IInv, OneTime!Next, NEW r \in Request, NEW q \in Request,
                      Taken'[r] \notin {Taken[r], None}
               PROVE  Spent[q] # Taken'[r]
      BY TokenStep
  <2>1. Status[Taken'[r]] = "live" /\ Taken'[r] # None
      BY DEF OneTime!Next, OneTime!Issue, OneTime!Void, OneTime!Take, OneTime!Spend,
             OneTime!GiveUp, Taken
  <2> QED
      BY <2>1, TokenFacts
<1> QED
    BY <1>1, InvariantHolds, PTL DEF Spec, OneTime!SharedOnlyByOverlap, OneTime!vars

----------------------------------------------------------------------------
(* The exchange of a code *)

\* What a callback holds where it stands: a factor once the exchange has begun,
\* an ID token once the code is posted, a key set once the provider has served
\* it, and none of them changes afterwards.
Holding ==
    \A r \in Callback :
        /\ phase[r] = "posting" => factor[r] \in Factor
        /\ phase[r] \in {"validating", "fetching", "arriving"} =>
            factor[r] \in KeySets /\ token[r] # NoneYet
        /\ phase[r] = "verifying" => factor[r] \in Line
        /\ phase[r] = "profiling" => factor[r] \in GitHub
        /\ phase[r] = "arriving" => keys[r] # {}
        /\ phase[r] \in {"idle", "posting", "validating", "fetching"} => keys[r] = {}
        /\ r \in declined => phase[r] \in {"userinfo", "profiled", "anonymous"}

\* The signing key of a token was published before the token was issued, so that
\* a key set fetched afterwards lacks it only if it has been retired.
FetchedLater ==
    /\ \A r \in Callback : token[r] # NoneYet => token[r].key \in published \cup retired
    /\ \A r \in Callback :
        keys[r] # {} /\ token[r] # NoneYet /\ token[r].key \notin keys[r] =>
            token[r].key \in retired

\* A cache holds what some callback of its factor has fetched.
CacheFetched ==
    \A f \in KeySets : jwks[f] # {} =>
        \E q \in Callback : factor[q] = f /\ keys[q] = jwks[f]

\* A callback that validated with its own key set found the key in it.
FoundOwnKey ==
    \A r \in Callback :
        phase[r] = "accepted" /\ factor[r] \in KeySets /\ keys[r] # {} =>
            token[r].key \in keys[r]

OIDCInv ==
    OIDCTypeOK /\ Holding /\ FetchedLater /\ CacheFetched /\ FoundOwnKey
        /\ RefusedOnlyByRotation

LEMMA OIDCInitInv == OIDCInit => OIDCInv
<1> SUFFICES ASSUME OIDCInit PROVE OIDCInv
    OBVIOUS
<1> USE DEF OIDCInit
<1>1. OIDCTypeOK
    BY DEF OIDCTypeOK, ExchangeStage
<1>2. Holding /\ FetchedLater /\ CacheFetched /\ FoundOwnKey
    BY DEF Holding, FetchedLater, CacheFetched, FoundOwnKey, Factor
<1>3. RefusedOnlyByRotation
    BY DEF RefusedOnlyByRotation
<1> QED
    BY <1>1, <1>2, <1>3 DEF OIDCInv

\* What the provider does to its keys.
LEMMA ProviderStep == ASSUME OIDCInv, Publish \/ Switch \/ Retire PROVE OIDCInv'
<1>1. /\ UNCHANGED <<document, jwks, phase, factor, token, keys, declined>>
      /\ published \cup retired \subseteq published' \cup retired'
      /\ retired \subseteq retired'
    BY DEF Publish, Switch, Retire, factorVars, callbackVars
<1>2. OIDCTypeOK'
    BY <1>1 DEF OIDCInv, OIDCTypeOK, Publish, Switch, Retire
<1>3. FetchedLater'
    BY <1>1 DEF OIDCInv, FetchedLater
<1>4. RefusedOnlyByRotation'
    BY <1>1 DEF OIDCInv, RefusedOnlyByRotation, Superseded
<1> QED
    BY <1>1, <1>2, <1>3, <1>4 DEF OIDCInv, Holding, CacheFetched, FoundOwnKey

\* A callback is superseded for good once its factor and its token are settled.
LEMMA SupersededStays ==
    ASSUME OIDCInv, NEW r \in Callback, Superseded(r),
           factor'[r] = factor[r], token'[r] = token[r],
           \A q \in Callback : keys[q] # {} => factor'[q] = factor[q] /\ keys'[q] = keys[q]
    PROVE  Superseded(r)'
    BY DEF Superseded

LEMMA DiscoverStep == ASSUME OIDCInv, NEW r \in Callback, Discover(r) PROVE OIDCInv'
<1> USE DEF Discover, Enter, providerVars
<1>1. OIDCTypeOK'
    BY DEF OIDCInv, OIDCTypeOK, ExchangeStage, Factor
<1>2. Holding'
    BY DEF OIDCInv, OIDCTypeOK, Holding
<1>3. FetchedLater' /\ FoundOwnKey'
    BY DEF OIDCInv, OIDCTypeOK, Holding, FetchedLater, FoundOwnKey
<1>4. CacheFetched'
    BY DEF OIDCInv, OIDCTypeOK, Holding, CacheFetched
<1>5. RefusedOnlyByRotation'
  <2>1. \A q \in Callback : q # r => factor'[q] = factor[q] /\ phase'[q] = phase[q]
        BY DEF OIDCInv, OIDCTypeOK
  <2>2. keys[r] = {} /\ r \notin declined /\ phase'[r] = "posting"
        BY DEF OIDCInv, OIDCTypeOK, Holding
  <2> QED
        BY <2>1, <2>2, SupersededStays DEF OIDCInv, RefusedOnlyByRotation
<1> QED
    BY <1>1, <1>2, <1>3, <1>4, <1>5 DEF OIDCInv

LEMMA PostCodeStep == ASSUME OIDCInv, NEW r \in Callback, PostCode(r) PROVE OIDCInv'
<1> USE DEF PostCode, Enter, providerVars, factorVars
<1>1. OIDCTypeOK'
    BY DEF OIDCInv, OIDCTypeOK, ExchangeStage, IDToken
<1>2. Holding'
    BY NoneYetAssumption DEF OIDCInv, OIDCTypeOK, Holding, IDToken, Factor
<1>3. FetchedLater' /\ FoundOwnKey'
    BY DEF OIDCInv, OIDCTypeOK, Holding, FetchedLater, FoundOwnKey
<1>4. CacheFetched'
    BY DEF OIDCInv, CacheFetched
<1>5. RefusedOnlyByRotation'
  <2>1. \A q \in Callback : q # r => token'[q] = token[q] /\ phase'[q] = phase[q]
        BY DEF OIDCInv, OIDCTypeOK
  <2>2. r \notin declined /\ phase'[r] # "refused"
        BY DEF OIDCInv, OIDCTypeOK, Holding
  <2> QED
        BY <2>1, <2>2, SupersededStays DEF OIDCInv, RefusedOnlyByRotation
<1> QED
    BY <1>1, <1>2, <1>3, <1>4, <1>5 DEF OIDCInv

\* Steps that leave the callback without a verdict on its token.
LEMMA PassStep ==
    ASSUME OIDCInv, NEW r \in Callback,
           \/ PostCodeGitHub(r) \/ AskProfile(r) \/ FetchKeys(r) \/ Fail(r)
           \/ ClaimsByProvider(r) \/ GetProfile(r)
    PROVE  OIDCInv'
<1> USE DEF Enter, providerVars, factorVars
<1>1. /\ UNCHANGED <<document, jwks, factor, token, keys, published, signing, retired, declined>>
      /\ \E s \in ExchangeStage \ {"refused"} : phase' = [phase EXCEPT ![r] = s]
    BY DEF PostCodeGitHub, AskProfile, FetchKeys, Fail, ClaimsByProvider, GetProfile,
           ExchangeStage, Ended
<1>2. phase'[r] = "accepted" => factor[r] \notin KeySets
    BY FactorAssumption DEF OIDCInv, OIDCTypeOK, Holding, PostCodeGitHub, AskProfile,
       FetchKeys, Fail, ClaimsByProvider, GetProfile
<1>3. OIDCTypeOK'
    BY <1>1, <1>2 DEF OIDCInv, OIDCTypeOK
<1>4. Holding'
    BY DEF OIDCInv, OIDCTypeOK, Holding, PostCodeGitHub, AskProfile, FetchKeys, Fail,
           ClaimsByProvider, GetProfile
<1>5. FoundOwnKey'
    BY <1>1, <1>2 DEF OIDCInv, OIDCTypeOK, FoundOwnKey
<1>6. RefusedOnlyByRotation'
    BY <1>1 DEF OIDCInv, OIDCTypeOK, RefusedOnlyByRotation, Superseded
<1> QED
    BY <1>1, <1>3, <1>4, <1>5, <1>6 DEF OIDCInv, FetchedLater, CacheFetched

LEMMA VerifyStep == ASSUME OIDCInv, NEW r \in Callback, Verify(r) PROVE OIDCInv'
<1> USE FactorAssumption DEF Verify, Enter, providerVars, factorVars
<1>1. factor[r] \notin KeySets /\ r \notin declined
    BY DEF OIDCInv, Holding
<1>2. OIDCTypeOK' /\ Holding'
    BY <1>1 DEF OIDCInv, OIDCTypeOK, Holding, ExchangeStage, Ended
<1>3. FoundOwnKey' /\ RefusedOnlyByRotation'
    BY <1>1 DEF OIDCInv, OIDCTypeOK, FoundOwnKey, RefusedOnlyByRotation, Superseded
<1> QED
    BY <1>2, <1>3 DEF OIDCInv, FetchedLater, CacheFetched

LEMMA ValidateCachedStep ==
    ASSUME OIDCInv, NEW r \in Callback, ValidateCached(r) PROVE OIDCInv'
<1> USE DEF ValidateCached, Validate, Enter, providerVars, factorVars
<1>1. factor[r] \in KeySets /\ token[r] # NoneYet /\ keys[r] = {} /\ r \notin declined
    BY DEF OIDCInv, Holding
<1>2. OIDCTypeOK'
    BY <1>1 DEF OIDCInv, OIDCTypeOK, ExchangeStage, Ended
<1>3. Holding'
    BY <1>1 DEF OIDCInv, OIDCTypeOK, Holding
<1>4. FoundOwnKey'
    BY <1>1 DEF OIDCInv, OIDCTypeOK, FoundOwnKey
<1>5. RefusedOnlyByRotation'
  <2>1. token[r].key \notin jwks[factor[r]] => Superseded(r)
        BY <1>1 DEF OIDCInv, CacheFetched, Superseded
  <2> QED
        BY <2>1 DEF OIDCInv, OIDCTypeOK, RefusedOnlyByRotation, Superseded
<1> QED
    BY <1>2, <1>3, <1>4, <1>5 DEF OIDCInv, FetchedLater, CacheFetched

LEMMA ServeKeysStep == ASSUME OIDCInv, NEW r \in Callback, ServeKeys(r) PROVE OIDCInv'
<1> USE DEF ServeKeys, Enter, providerVars, factorVars
<1>1. keys[r] = {} /\ published # {} /\ r \notin declined
    BY DEF OIDCInv, OIDCTypeOK, Holding
<1>2. OIDCTypeOK' /\ Holding'
    BY <1>1 DEF OIDCInv, OIDCTypeOK, Holding, ExchangeStage
<1>3. FetchedLater' /\ FoundOwnKey'
    BY <1>1 DEF OIDCInv, OIDCTypeOK, FetchedLater, FoundOwnKey
<1>4. CacheFetched'
    BY <1>1 DEF OIDCInv, OIDCTypeOK, CacheFetched
<1>5. RefusedOnlyByRotation'
  <2>1. \A q \in Callback : keys[q] # {} => keys'[q] = keys[q]
        BY <1>1 DEF OIDCInv, OIDCTypeOK
  <2> QED
        BY <2>1, SupersededStays DEF OIDCInv, OIDCTypeOK, RefusedOnlyByRotation
<1> QED
    BY <1>2, <1>3, <1>4, <1>5 DEF OIDCInv

LEMMA StoreKeysStep == ASSUME OIDCInv, NEW r \in Callback, StoreKeys(r) PROVE OIDCInv'
<1> USE DEF StoreKeys, Validate, Enter, providerVars
<1>1. /\ factor[r] \in KeySets /\ token[r] # NoneYet
      /\ keys[r] # {} /\ r \notin declined
    BY DEF OIDCInv, Holding
<1>2. OIDCTypeOK'
    BY <1>1 DEF OIDCInv, OIDCTypeOK, ExchangeStage, Ended, Factor
<1>3. Holding'
    BY <1>1 DEF OIDCInv, OIDCTypeOK, Holding
<1>4. CacheFetched'
    BY DEF OIDCInv, OIDCTypeOK, CacheFetched, Factor
<1>5. FoundOwnKey'
    BY DEF OIDCInv, OIDCTypeOK, FoundOwnKey
<1>6. RefusedOnlyByRotation'
  <2>1. token[r].key \notin keys[r] => token[r].key \in retired
        BY <1>1 DEF OIDCInv, FetchedLater
  <2> QED
        BY <1>1, <2>1 DEF OIDCInv, OIDCTypeOK, RefusedOnlyByRotation, Superseded
<1> QED
    BY <1>2, <1>3, <1>4, <1>5, <1>6 DEF OIDCInv, FetchedLater

LEMMA ClaimsStep == ASSUME OIDCInv, NEW r \in Callback, Claims(r) PROVE OIDCInv'
<1> USE DEF Claims, Enter, providerVars, factorVars
<1>1. jwks[factor[r]] # {}
    BY DEF OIDCInv, OIDCTypeOK
<1>2. OIDCTypeOK' /\ Holding'
    BY DEF OIDCInv, OIDCTypeOK, Holding, ExchangeStage, Ended
<1>3. FoundOwnKey'
    BY DEF OIDCInv, OIDCTypeOK, FoundOwnKey
<1>4. RefusedOnlyByRotation'
  <2>1. r \in declined' => r \in declined \/ token[r].key \notin jwks[factor[r]]
        BY <1>1
  <2>2. token[r].key \notin jwks[factor[r]] => Superseded(r)
    <3>1. PICK q \in Callback : factor[q] = factor[r] /\ keys[q] = jwks[factor[r]]
          BY <1>1 DEF OIDCInv, CacheFetched
    <3>2. token[r].key \notin keys[q] => q # r
          BY <1>1, <3>1 DEF OIDCInv, FoundOwnKey
    <3> QED
          BY <1>1, <3>1, <3>2 DEF Superseded
  <2>3. \A p \in Callback : p # r => phase'[p] = phase[p] /\ (p \in declined' => p \in declined)
        BY DEF OIDCInv, OIDCTypeOK
  <2>4. phase'[r] # "refused"
        BY DEF OIDCInv, OIDCTypeOK
  <2> QED
        BY <2>1, <2>2, <2>3, <2>4 DEF OIDCInv, RefusedOnlyByRotation, Superseded
<1> QED
    BY <1>2, <1>3, <1>4 DEF OIDCInv, FetchedLater, CacheFetched

LEMMA OIDCInvHolds == OIDCSpec => []OIDCInv
<1>1. OIDCInv /\ [OIDCNext]_oidcVars => OIDCInv'
  <2>1. ASSUME OIDCInv, OIDCNext PROVE OIDCInv'
    <3>1. CASE Publish \/ Switch \/ Retire
          BY <2>1, <3>1, ProviderStep
    <3>2. ASSUME NEW r \in Callback, CallbackStep(r) PROVE OIDCInv'
          BY <2>1, <3>2, DiscoverStep, PostCodeStep, PassStep, VerifyStep,
             ValidateCachedStep, ServeKeysStep, StoreKeysStep, ClaimsStep
          DEF CallbackStep
    <3> QED
          BY <2>1, <3>1, <3>2 DEF OIDCNext
  <2>2. ASSUME OIDCInv, UNCHANGED oidcVars PROVE OIDCInv'
        BY <2>2 DEF oidcVars, factorVars, callbackVars, providerVars, OIDCInv, OIDCTypeOK,
           Holding, FetchedLater, CacheFetched, FoundOwnKey, RefusedOnlyByRotation,
           Superseded
  <2> QED
        BY <2>1, <2>2
<1> QED
    BY <1>1, OIDCInitInv, PTL DEF OIDCSpec

\* Every variable of the exchange keeps its type, and an accepted token always
\* finds a key set in the cache.
THEOREM ExchangeTypeCorrect == OIDCSpec => []OIDCTypeOK
<1>1. OIDCInv => OIDCTypeOK
    BY DEF OIDCInv
<1> QED
    BY <1>1, OIDCInvHolds, PTL

\* An ID token of the flow is refused only because its key is retired or a key
\* set that another callback of a shared factor has fetched lacks it.
THEOREM RefusedOnlyByRotationHolds == OIDCSpec => []RefusedOnlyByRotation
<1>1. OIDCInv => RefusedOnlyByRotation
    BY DEF OIDCInv
<1> QED
    BY <1>1, OIDCInvHolds, PTL

\* A factor that serves a single request, as in the documented wiring, refuses a
\* token of the flow for a retired key only, and never declines to read the
\* claims of a token it has accepted.
THEOREM UnsharedFactorRefusesRetired ==
    OIDCSpec =>
        [](\A r \in Callback :
            factor[r] \in KeySets /\ (\A q \in Callback \ {r} : factor[q] # factor[r]) =>
                /\ phase[r] = "refused" /\ token[r].own => token[r].key \in retired
                /\ r \notin declined)
<1>1. OIDCInv =>
        \A r \in Callback :
            factor[r] \in KeySets /\ (\A q \in Callback \ {r} : factor[q] # factor[r]) =>
                /\ phase[r] = "refused" /\ token[r].own => token[r].key \in retired
                /\ r \notin declined
    BY DEF OIDCInv, RefusedOnlyByRotation, Superseded
<1> QED
    BY <1>1, OIDCInvHolds, PTL
=============================================================================
