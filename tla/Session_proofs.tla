--------------------------- MODULE Session_proofs ---------------------------
(***************************************************************************)
(* Proofs about Session, for any number of requests and sessions, any      *)
(* lifetime and any write delay of at most half a lifetime.                *)
(***************************************************************************)
EXTENDS Session, TLAPS

\* Copies and rows belong to the identity their id was issued to, and an
\* extension under way was computed not long ago.
Shape ==
    /\ \A r \in Request : pc[r] \in {"sliding", "held", "renewing"} =>
        /\ snap[r] # NoRow
        /\ owner[snap[r].id] = snap[r].identity
        /\ seen[r] <= now
    /\ \A r \in Request : pc[r] = "sliding" =>
        /\ snap[r].expires = seen[r] + Lifetime
        /\ now <= seen[r] + MaxDelay
        /\ seen[r] <= used[snap[r].id]
    /\ \A id \in Id : rows[id] # NoRow =>
        rows[id].id = id /\ rows[id].identity = owner[id]
    /\ \A id \in Id : used[id] <= now

\* Revoked ids have been issued, so they will not be issued again.
RevokedIssued == \A id \in revoked : owner[id] # NoIdentity

IInv == TypeOK /\ Shape /\ RevokedIssued /\ RevokedIsGone /\ UnusedExpires /\ KeptAlive

\* The record create() inserts.
LEMMA InsertFacts ==
    ASSUME IInv, NEW i \in Identity, Insert(i)
    PROVE  \E id \in Id :
        /\ owner[id] = NoIdentity
        /\ rows[id] = NoRow
        /\ id \notin revoked
        /\ owner' = [owner EXCEPT ![id] = i]
        /\ used' = [used EXCEPT ![id] = now]
        /\ rows' \in [Id -> SessionRow \cup {NoRow}]
        /\ \A j \in Id \ {id} : rows'[j] = rows[j]
        /\ rows'[id] \in SessionRow
        /\ rows'[id].id = id
        /\ rows'[id].identity = i
        /\ rows'[id].expires = now + Lifetime
<1>1. PICK id \in Id :
        /\ owner[id] = NoIdentity
        /\ owner' = [owner EXCEPT ![id] = i]
        /\ rows' = [rows EXCEPT ![id] =
                        [id |-> id, identity |-> i, expires |-> now + Lifetime]]
        /\ used' = [used EXCEPT ![id] = now]
    BY DEF Insert
<1>2. rows[id] = NoRow
    BY <1>1, NoneAssumption DEF IInv, TypeOK, Shape, SessionRow
<1>3. rows'[id] = [id |-> id, identity |-> i, expires |-> now + Lifetime]
    BY <1>1 DEF IInv, TypeOK
<1>4. rows'[id] \in SessionRow
    BY <1>3, TimeAssumption DEF IInv, TypeOK, SessionRow
<1>5. /\ rows' \in [Id -> SessionRow \cup {NoRow}]
      /\ \A j \in Id \ {id} : rows'[j] = rows[j]
    BY <1>1, <1>3, <1>4 DEF IInv, TypeOK
<1> QED
    BY <1>1, <1>2, <1>3, <1>4, <1>5 DEF IInv, RevokedIssued

\* Inserting a fresh session preserves the invariant, for a request that goes
\* to done.
LEMMA InsertStep ==
    ASSUME IInv, NEW i \in Identity, Insert(i), NEW r \in Request,
           pc' = [pc EXCEPT ![r] = "done"], UNCHANGED <<now, snap, seen, revoked>>
    PROVE  IInv'
<1>1. PICK id \in Id :
        /\ owner[id] = NoIdentity
        /\ rows[id] = NoRow
        /\ id \notin revoked
        /\ owner' = [owner EXCEPT ![id] = i]
        /\ used' = [used EXCEPT ![id] = now]
        /\ rows' \in [Id -> SessionRow \cup {NoRow}]
        /\ \A j \in Id \ {id} : rows'[j] = rows[j]
        /\ rows'[id] \in SessionRow
        /\ rows'[id].id = id
        /\ rows'[id].identity = i
        /\ rows'[id].expires = now + Lifetime
    BY InsertFacts
<1>2. \A q \in Request : pc'[q] \in {"sliding", "held", "renewing"} =>
        pc'[q] = pc[q] /\ snap[q].id \in Id /\ snap[q].id # id
    BY <1>1, NoneAssumption DEF IInv, TypeOK, Shape, SessionRow
<1>3. TypeOK'
    BY <1>1 DEF IInv, TypeOK, Stage
<1>4. Shape'
    BY <1>1, <1>2 DEF IInv, TypeOK, Shape
<1>5. RevokedIssued' /\ RevokedIsGone'
    BY <1>1 DEF IInv, TypeOK, RevokedIssued, RevokedIsGone
<1>6. UnusedExpires'
  <2>1. used'[id] = now /\ rows'[id].expires <= used'[id] + Lifetime
      BY <1>1, TimeAssumption DEF IInv, TypeOK
  <2>2. \A j \in Id \ {id} : used'[j] = used[j] /\ rows'[j] = rows[j]
      BY <1>1 DEF IInv, TypeOK
  <2> QED
      BY <2>1, <2>2 DEF IInv, UnusedExpires
<1>7. KeptAlive'
    BY <1>1, <1>2 DEF IInv, TypeOK, KeptAlive
<1> QED
    BY <1>3, <1>4, <1>5, <1>6, <1>7 DEF IInv

\* Every step preserves the invariant.
LEMMA InvariantStep == IInv /\ [Next]_vars => IInv'
<1> SUFFICES ASSUME IInv, [Next]_vars PROVE IInv'
    OBVIOUS
<1>1. ASSUME NEW r \in Request, Create(r) PROVE IInv'
    BY <1>1, InsertStep DEF Create
<1>2. ASSUME NEW r \in Request, GetByToken(r) PROVE IInv'
  <2>1. PICK id \in Id :
        /\ rows[id] # NoRow
        /\ ~IsExpired(rows[id])
        /\ used' = [used EXCEPT ![id] = now]
        /\ \/ /\ Sliding /\ PastHalfLife(rows[id])
              /\ snap' = [snap EXCEPT ![r] = Extended(rows[id])]
              /\ pc' = [pc EXCEPT ![r] = "sliding"]
           \/ /\ ~(Sliding /\ PastHalfLife(rows[id]))
              /\ snap' = [snap EXCEPT ![r] = rows[id]]
              /\ pc' = [pc EXCEPT ![r] = "held"]
      BY <1>2 DEF GetByToken
  <2>2. /\ seen' = [seen EXCEPT ![r] = now]
        /\ UNCHANGED <<now, rows, owner, revoked>>
      BY <1>2 DEF GetByToken
  <2>3. rows[id] \in SessionRow /\ rows[id].id = id /\ rows[id].identity = owner[id]
      BY <2>1 DEF IInv, TypeOK, Shape
  <2>4. /\ Extended(rows[id]) \in SessionRow
        /\ Extended(rows[id]).id = id
        /\ Extended(rows[id]).identity = owner[id]
        /\ Extended(rows[id]).expires = now + Lifetime
      BY <2>3, TimeAssumption DEF IInv, TypeOK, SessionRow, Extended
  <2>5. TypeOK'
      BY <2>1, <2>2, <2>3, <2>4 DEF IInv, TypeOK, Stage
  <2>6. Shape'
      BY <2>1, <2>2, <2>3, <2>4, NoneAssumption, TimeAssumption
      DEF IInv, TypeOK, Shape, SessionRow
  <2>7. RevokedIssued' /\ RevokedIsGone'
      BY <2>2 DEF IInv, RevokedIssued, RevokedIsGone
  <2>8. UnusedExpires'
      BY <2>1, <2>2, TimeAssumption DEF IInv, TypeOK, Shape, SessionRow, UnusedExpires
  <2>9. KeptAlive'
      BY <2>1, <2>2, <2>3, TimeAssumption
      DEF IInv, TypeOK, Shape, SessionRow, KeptAlive, PastHalfLife
  <2> QED
      BY <2>5, <2>6, <2>7, <2>8, <2>9 DEF IInv
<1>3. ASSUME NEW r \in Request, GetByTokenFails(r) \/ Fail(r) PROVE IInv'
    BY <1>3 DEF GetByTokenFails, Fail, IInv, TypeOK, Stage, Shape, RevokedIssued,
        RevokedIsGone, UnusedExpires, KeptAlive
<1>4. ASSUME NEW r \in Request, Slide(r) PROVE IInv'
  <2>1. /\ snap[r] \in SessionRow
        /\ snap[r].identity = owner[snap[r].id]
        /\ snap[r].expires = seen[r] + Lifetime
        /\ now <= seen[r] + MaxDelay
        /\ seen[r] <= used[snap[r].id]
        /\ pc[r] = "sliding"
      BY <1>4 DEF Slide, IInv, TypeOK, Shape
  <2>2. /\ rows' = StoreUpdate(snap[r])
        /\ pc' = [pc EXCEPT ![r] = "held"]
        /\ UNCHANGED <<now, owner, snap, seen, used, revoked>>
      BY <1>4 DEF Slide
  <2>3. \A id \in Id : \/ rows'[id] = rows[id]
                       \/ rows[id] # NoRow /\ id = snap[r].id /\ rows'[id] = snap[r]
      BY <2>1, <2>2 DEF StoreUpdate, IInv, TypeOK, SessionRow
  <2>4. TypeOK'
      BY <2>1, <2>2 DEF StoreUpdate, IInv, TypeOK, Stage
  <2>5. Shape'
      BY <2>1, <2>2, <2>3 DEF IInv, TypeOK, Shape
  <2>6. RevokedIssued' /\ RevokedIsGone'
      BY <2>2, <2>3 DEF IInv, TypeOK, RevokedIssued, RevokedIsGone
  <2>7. UnusedExpires'
      BY <2>1, <2>2, <2>3, TimeAssumption DEF IInv, TypeOK, SessionRow, UnusedExpires
  <2>8. KeptAlive'
    <3> SUFFICES ASSUME Sliding, NEW q \in Request,
                        pc'[q] \in {"held", "renewing"}, rows'[snap[q].id] # NoRow
                 PROVE  2 * rows'[snap[q].id].expires >= 2 * seen[q] + Lifetime
        BY <2>2 DEF KeptAlive
    <3>1. pc[q] \in {"sliding", "held", "renewing"} /\ (q # r => pc'[q] = pc[q])
        BY <2>1, <2>2 DEF IInv, TypeOK
    <3>2. snap[q] \in SessionRow /\ seen[q] <= now /\ snap[q].id \in Id
        BY <3>1 DEF IInv, TypeOK, Shape, SessionRow
    <3>3. CASE snap[q].id # snap[r].id
        BY <2>3, <3>1, <3>2, <3>3 DEF IInv, KeptAlive
    <3>4. CASE snap[q].id = snap[r].id
      <4>1. rows'[snap[q].id] = snap[r]
          BY <2>1, <2>2, <3>2, <3>4 DEF StoreUpdate, IInv, TypeOK
      <4> QED
          BY <2>1, <3>2, <4>1, TimeAssumption DEF IInv, TypeOK
    <3> QED
        BY <3>3, <3>4
  <2> QED
      BY <2>4, <2>5, <2>6, <2>7, <2>8 DEF IInv
<1>5. ASSUME NEW r \in Request, Revoke(r) PROVE IInv'
  <2>1. snap[r] \in SessionRow /\ owner[snap[r].id] \in Identity
      BY <1>5 DEF Revoke, IInv, TypeOK, Shape, SessionRow
  <2> QED
      BY <1>5, <2>1, NoneAssumption DEF Revoke, IInv, TypeOK, Stage, Shape, SessionRow,
          RevokedIssued, RevokedIsGone, UnusedExpires, KeptAlive
<1>6. ASSUME NEW r \in Request, RevokeAll(r) PROVE IInv'
  <2>1. snap[r] \in SessionRow /\ snap[r].identity \in Identity
      BY <1>6 DEF RevokeAll, IInv, TypeOK, Shape, SessionRow
  <2>2. \A id \in Id : /\ rows'[id] = NoRow \/ rows'[id] = rows[id]
                       /\ owner[id] = snap[r].identity => rows'[id] = NoRow
      BY <1>6 DEF RevokeAll, DeleteByIdentity, IInv, Shape
  <2>3. rows' \in [Id -> SessionRow \cup {NoRow}]
      BY <1>6 DEF RevokeAll, DeleteByIdentity, IInv, TypeOK
  <2> QED
      BY <1>6, <2>1, <2>2, <2>3, NoneAssumption
      DEF RevokeAll, IInv, TypeOK, Stage, Shape, SessionRow,
          RevokedIssued, RevokedIsGone, UnusedExpires, KeptAlive
<1>7. ASSUME NEW r \in Request, Renew(r) PROVE IInv'
  <2>1. snap[r].identity \in Identity
      BY <1>7 DEF Renew, IInv, TypeOK, Shape, SessionRow
  <2> QED
      BY <1>7, <2>1, InsertStep DEF Renew
<1>8. CASE Tick
  <2>1. now' = now + 1 /\ UNCHANGED <<rows, owner, pc, snap, seen, used, revoked>>
      BY <1>8 DEF Tick, requestVars
  <2>2. TypeOK'
      BY <2>1 DEF IInv, TypeOK
  <2>3. \A r \in Request : pc[r] = "sliding" => now' <= seen[r] + MaxDelay
      BY <1>8, <2>1, TimeAssumption DEF Tick, IInv, TypeOK
  <2>4. Shape'
      BY <2>1, <2>3 DEF IInv, TypeOK, Shape
  <2>5. RevokedIssued' /\ RevokedIsGone' /\ UnusedExpires' /\ KeptAlive'
      BY <2>1 DEF IInv, RevokedIssued, RevokedIsGone, UnusedExpires, KeptAlive
  <2> QED
      BY <2>2, <2>4, <2>5 DEF IInv
<1>9. CASE UNCHANGED vars
    BY <1>9 DEF vars, requestVars, IInv, TypeOK, Shape, RevokedIssued,
        RevokedIsGone, UnusedExpires, KeptAlive
<1> QED
    BY <1>1, <1>2, <1>3, <1>4, <1>5, <1>6, <1>7, <1>8, <1>9 DEF Next, Handle

\* The invariant holds from the start on.
LEMMA InvariantHolds == Spec => []IInv
<1>1. Init => IInv
    BY DEF Init, IInv, TypeOK, Stage, Shape, RevokedIssued, RevokedIsGone,
        UnusedExpires, KeptAlive
<1> QED
    BY <1>1, InvariantStep, PTL DEF Spec

\* Every variable keeps its type.
THEOREM TypeCorrect == Spec => []TypeOK
<1>1. IInv => TypeOK
    BY DEF IInv
<1> QED
    BY <1>1, InvariantHolds, PTL

\* A sliding session in use keeps half a lifetime, whatever writes are late.
THEOREM KeptAliveHolds == Spec => []KeptAlive
<1>1. IInv => KeptAlive
    BY DEF IInv
<1> QED
    BY <1>1, InvariantHolds, PTL

\* An unused session runs out on time.
THEOREM UnusedExpiresHolds == Spec => []UnusedExpires
<1>1. IInv => UnusedExpires
    BY DEF IInv
<1> QED
    BY <1>1, InvariantHolds, PTL

\* No extension under way brings a revoked session back.
THEOREM RevokedIsGoneHolds == Spec => []RevokedIsGone
<1>1. IInv => RevokedIsGone
    BY DEF IInv
<1> QED
    BY <1>1, InvariantHolds, PTL

\* Inserting a session issues an id that was never issued.
LEMMA IssueStep ==
    ASSUME IInv, NEW i \in Identity, Insert(i)
    PROVE  Lifecycle!Next
<1>1. PICK id \in Id :
        /\ owner[id] = NoIdentity
        /\ rows[id] = NoRow
        /\ owner' = [owner EXCEPT ![id] = i]
        /\ \A j \in Id \ {id} : rows'[j] = rows[j]
        /\ rows'[id] \in SessionRow
    BY InsertFacts
<1>2. Status[id] = "unissued"
    BY <1>1 DEF Status
<1>3. Status' = [Status EXCEPT ![id] = "live"]
    BY <1>1, NoneAssumption DEF Status, IInv, TypeOK
<1> QED
    BY <1>2, <1>3 DEF Lifecycle!Next, Lifecycle!Issue

\* Deleting a set of live rows drops their ids.
LEMMA DropStep ==
    ASSUME IInv, NEW ids \in SUBSET Id, \A id \in ids : rows[id] # NoRow,
           rows' = [id \in Id |-> IF id \in ids THEN NoRow ELSE rows[id]],
           owner' = owner
    PROVE  Lifecycle!Next
<1>1. \A id \in ids : Status[id] = "live" /\ owner[id] # NoIdentity
    BY NoneAssumption DEF Status, IInv, TypeOK, Shape, SessionRow
<1>2. Status' = [id \in Id |-> IF id \in ids THEN "gone" ELSE Status[id]]
    BY <1>1 DEF Status
<1> QED
    BY <1>1, <1>2 DEF Lifecycle!Next, Lifecycle!Drop

\* What one step does to the life of each id.
LEMMA StatusStep ==
    ASSUME IInv, [Next]_vars
    PROVE  [Lifecycle!Next]_Status
<1>1. ASSUME NEW r \in Request, Create(r) PROVE [Lifecycle!Next]_Status
    BY <1>1, IssueStep DEF Create
<1>2. ASSUME NEW r \in Request, Renew(r) PROVE [Lifecycle!Next]_Status
  <2>1. snap[r].identity \in Identity
      BY <1>2 DEF Renew, IInv, TypeOK, Shape, SessionRow
  <2> QED
      BY <1>2, <2>1, IssueStep DEF Renew
<1>3. ASSUME NEW r \in Request, Slide(r) PROVE [Lifecycle!Next]_Status
  <2>1. snap[r] \in SessionRow /\ snap[r] # NoRow
      BY <1>3, NoneAssumption DEF Slide, IInv, TypeOK, Shape
  <2>2. \A id \in Id : rows'[id] = NoRow <=> rows[id] = NoRow
      BY <1>3, <2>1 DEF Slide, StoreUpdate, IInv, TypeOK
  <2> QED
      BY <1>3, <2>2 DEF Slide, Status
<1>4. ASSUME NEW r \in Request, Revoke(r) PROVE [Lifecycle!Next]_Status
  <2> DEFINE ids == {id \in Id : id = snap[r].id /\ rows[id] # NoRow}
  <2>1. rows' = [id \in Id |-> IF id \in ids THEN NoRow ELSE rows[id]]
      BY <1>4 DEF Revoke, IInv, TypeOK
  <2> QED
      BY <1>4, <2>1, DropStep DEF Revoke
<1>5. ASSUME NEW r \in Request, RevokeAll(r) PROVE [Lifecycle!Next]_Status
  <2> DEFINE ids == {id \in Id : rows[id] # NoRow /\ rows[id].identity = snap[r].identity}
  <2>1. rows' = [id \in Id |-> IF id \in ids THEN NoRow ELSE rows[id]]
      BY <1>5 DEF RevokeAll, DeleteByIdentity
  <2> QED
      BY <1>5, <2>1, DropStep DEF RevokeAll
<1>6. ASSUME UNCHANGED <<rows, owner>> PROVE [Lifecycle!Next]_Status
    BY <1>6 DEF Status
<1> QED
    BY <1>1, <1>2, <1>3, <1>4, <1>5, <1>6
    DEF Next, Handle, GetByToken, GetByTokenFails, Fail, Tick, vars

\* The session table implements the token life cycle.
THEOREM LifecycleImplemented == Spec => ImplementsLifecycle
<1>1. Init => Lifecycle!Init
    BY DEF Init, Lifecycle!Init, Status
<1>2. IInv /\ [Next]_vars => [Lifecycle!Next]_Status
    BY StatusStep
<1> QED
    BY <1>1, <1>2, InvariantHolds, PTL DEF Spec, ImplementsLifecycle, Lifecycle!Spec

----------------------------------------------------------------------------
(* What a late write can cost *)

\* A session in the table keeps its owner, and is never given an earlier end
\* than it has, but for the delay of the write: of two extensions under way, the
\* one that was computed first may land last (update, get_by_token).
ShortenedByDelayOnly ==
    [][\A id \in Id : rows[id] # NoRow /\ rows'[id] # NoRow =>
        /\ rows'[id].identity = rows[id].identity
        /\ rows'[id].expires + MaxDelay >= rows[id].expires]_vars

\* What one step does to a row that stays.
LEMMA RowStep ==
    ASSUME IInv, [Next]_vars, NEW id \in Id, rows[id] # NoRow, rows'[id] # NoRow
    PROVE  /\ rows'[id].identity = rows[id].identity
           /\ rows'[id].expires + MaxDelay >= rows[id].expires
<1>0. /\ rows[id] \in SessionRow /\ rows[id].expires \in Nat
      /\ {Lifetime, MaxDelay} \subseteq Nat
    BY TimeAssumption DEF IInv, TypeOK, SessionRow
<1>1. CASE rows'[id] = rows[id]
    BY <1>0, <1>1
<1>2. ASSUME NEW r \in Request, Slide(r) PROVE rows'[id] = rows[id] \/
            /\ rows'[id].identity = rows[id].identity
            /\ rows'[id].expires + MaxDelay >= rows[id].expires
  <2>1. /\ snap[r] \in SessionRow
        /\ snap[r].identity = owner[snap[r].id]
        /\ snap[r].expires = seen[r] + Lifetime
        /\ now <= seen[r] + MaxDelay
        /\ seen[r] \in Nat /\ now \in Nat
      BY <1>2 DEF Slide, IInv, TypeOK, Shape
  <2>2. rows'[id] = rows[id] \/ (id = snap[r].id /\ rows'[id] = snap[r])
      BY <1>2, <2>1 DEF Slide, StoreUpdate, IInv, TypeOK, SessionRow
  <2>3. /\ rows[id].identity = owner[id]
        /\ rows[id].expires <= used[id] + Lifetime
        /\ used[id] <= now
        /\ used[id] \in Nat
      BY DEF IInv, TypeOK, Shape, UnusedExpires
  <2> QED
      BY <1>0, <2>1, <2>2, <2>3
<1>3. ASSUME NEW i \in Identity, Insert(i) PROVE rows'[id] = rows[id]
  <2>1. PICK fresh \in Id : rows[fresh] = NoRow /\ \A j \in Id \ {fresh} : rows'[j] = rows[j]
      BY <1>3, InsertFacts
  <2> QED
      BY <2>1
<1>4. ASSUME NEW r \in Request, Renew(r) PROVE rows'[id] = rows[id]
  <2>1. snap[r].identity \in Identity
      BY <1>4 DEF Renew, IInv, TypeOK, Shape, SessionRow
  <2> QED
      BY <1>3, <1>4, <2>1 DEF Renew
<1>5. ASSUME NEW r \in Request, Create(r) PROVE rows'[id] = rows[id]
    BY <1>3, <1>5 DEF Create
<1>6. ASSUME NEW r \in Request, Revoke(r) \/ RevokeAll(r) PROVE rows'[id] = rows[id]
    BY <1>6 DEF Revoke, RevokeAll, DeleteByIdentity, IInv, TypeOK
<1> QED
    BY <1>1, <1>2, <1>4, <1>5, <1>6
    DEF Next, Handle, GetByToken, GetByTokenFails, Fail, Tick, vars

\* A late write takes no more than its delay from a session.
THEOREM ShortenedByDelayOnlyHolds == Spec => ShortenedByDelayOnly
<1> DEFINE Kept ==
        \A id \in Id : rows[id] # NoRow /\ rows'[id] # NoRow =>
            /\ rows'[id].identity = rows[id].identity
            /\ rows'[id].expires + MaxDelay >= rows[id].expires
<1>1. IInv /\ [Next]_vars => [Kept]_vars
    BY RowStep
<1> QED
    BY <1>1, InvariantHolds, PTL DEF Spec, ShortenedByDelayOnly
=============================================================================
