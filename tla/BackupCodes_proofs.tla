-------------------------- MODULE BackupCodes_proofs --------------------------
(***************************************************************************)
(* Proofs about BackupCodes, for any number of calls and codes.            *)
(***************************************************************************)
EXTENDS BackupCodes, TLAPS

\* Only sets that enroll() has stored are in the table or loaded from it.
Known ==
    \A s \in Request :
        s \in present \/ (\E r \in Request : held[r] = s) => pc[s] = "enrolled"

\* As long as the checks of a set do not overlap, each of them loads the uses
\* accepted before, and keeps them.
UsesKept ==
    \A q, r \in Request :
        /\ pc[r] = "marking" => code[r] \notin seen[r]
        /\ pc[q] = "marking" /\ pc[r] = "marking" /\ q # r /\ held[q] = held[r] =>
            held[r] \in raced
        /\ pc[q] = "accepted" /\ held[q] \notin raced =>
            /\ held[q] \in present => code[q] \in used[held[q]]
            /\ pc[r] = "marking" /\ held[r] = held[q] => code[q] \in seen[r]

\* The list a check holds is outdated only when another one has been through.
Overtaken ==
    \A r \in Request :
        /\ before[r] \subseteq {q \in Request : pc[q] = "accepted"}
        /\ pc[r] = "marking" /\ used[held[r]] # seen[r] =>
            \E q \in Request \ before[r] : pc[q] = "accepted" /\ held[q] = held[r]

\* An enroll() that is alone is the only one to touch the table.
Sole ==
    crowded \/
        /\ \A s, t \in present : s = t
        /\ \A q, r \in Request :
            pc[q] \in Replacing /\ pc[r] \in Replacing => q = r
        /\ \A r \in Request :
            /\ pc[r] = "deleting" => present \subseteq {held[r]}
            /\ pc[r] = "inserting" => present = {}

IInv == TypeOK /\ Known /\ UsesKept /\ Overtaken /\ Sole /\ CodesWorkOnce

LEMMA InitIInv == Init => IInv
<1> SUFFICES ASSUME Init PROVE IInv
    OBVIOUS
<1> USE DEF Init
<1>1. TypeOK
    BY DEF TypeOK, Stage, Set
<1>2. Known
    BY NoneAssumption DEF Known, Set
<1>3. UsesKept /\ Overtaken /\ CodesWorkOnce
    BY DEF UsesKept, Overtaken, CodesWorkOnce
<1>4. Sole
    BY DEF Sole, Replacing
<1> QED
    BY <1>1, <1>2, <1>3, <1>4 DEF IInv

LEMMA EnrollLoadStep == ASSUME IInv, NEW r \in Request, EnrollLoad(r) PROVE IInv'
<1> USE DEF EnrollLoad, Goto
<1>1. TypeOK'
  <2>1. crowded' \in BOOLEAN
    BY DEF Crowd
  <2>2. /\ held' \in [Request -> Set \cup {NoSet}]
        /\ pc' \in [Request -> Stage]
        /\ pc'[r] = "deleting" => held'[r] \in Set
        /\ pc'[r] \in Replacing
    BY DEF IInv, TypeOK, Stage, Replacing
  <2> QED
    BY <2>1, <2>2 DEF IInv, TypeOK, Replacing
<1>2. Known'
    BY DEF IInv, TypeOK, Known, Set
<1>3. UsesKept' /\ Overtaken' /\ CodesWorkOnce'
  <2>1. /\ pc'[r] \in Replacing
        /\ pc[r] = "idle"
        /\ \A q \in Request \ {r} : pc'[q] = pc[q] /\ held'[q] = held[q]
        /\ UNCHANGED <<used, present, seen, code, raced, before>>
    BY DEF IInv, TypeOK, Replacing
  <2>2. UsesKept'
    BY <2>1 DEF IInv, UsesKept, Replacing
  <2>3. Overtaken'
    BY <2>1 DEF IInv, Overtaken, Replacing
  <2>4. CodesWorkOnce'
    BY <2>1 DEF IInv, CodesWorkOnce, Replacing
  <2> QED
    BY <2>2, <2>3, <2>4
<1>4. Sole'
  <2> SUFFICES ASSUME ~crowded' PROVE Sole'
    BY DEF Sole
  <2>1. ~crowded /\ \A q \in Request : pc[q] \notin Replacing
    BY DEF Crowd, IInv, TypeOK
  <2>2. \A q \in Request : pc'[q] \in Replacing => q = r
    BY <2>1 DEF IInv, TypeOK
  <2>3. pc'[r] = "deleting" => present \subseteq {held'[r]}
    BY <2>1 DEF IInv, TypeOK, Sole
  <2>4. pc'[r] = "inserting" => present = {}
    BY DEF IInv, TypeOK
  <2> QED
    BY <2>1, <2>2, <2>3, <2>4 DEF IInv, Sole, Replacing
<1> QED
    BY <1>1, <1>2, <1>3, <1>4 DEF IInv

LEMMA EnrollDeleteStep == ASSUME IInv, NEW r \in Request, EnrollDelete(r) PROVE IInv'
<1> USE DEF EnrollDelete, Goto
<1>1. TypeOK'
    BY DEF IInv, TypeOK, Stage, Replacing
<1>2. Known' /\ UsesKept' /\ Overtaken' /\ CodesWorkOnce'
    BY DEF IInv, TypeOK, Known, UsesKept, Overtaken, CodesWorkOnce
<1>3. Sole'
    BY DEF IInv, TypeOK, Sole, Replacing
<1> QED
    BY <1>1, <1>2, <1>3 DEF IInv

LEMMA EnrollInsertStep == ASSUME IInv, NEW r \in Request, EnrollInsert(r) PROVE IInv'
<1> USE DEF EnrollInsert, Goto
<1>1. TypeOK'
    BY DEF IInv, TypeOK, Stage, Set
<1>2. Known'
    BY DEF IInv, TypeOK, Known
<1>3. UsesKept'
  <2>1. \A q \in Request : held[q] # r
    BY DEF IInv, Known
  <2> QED
    BY <2>1 DEF IInv, TypeOK, UsesKept
<1>4. Overtaken' /\ CodesWorkOnce'
    BY DEF IInv, TypeOK, Overtaken, CodesWorkOnce
<1>5. Sole'
    BY DEF IInv, TypeOK, Sole, Replacing
<1> QED
    BY <1>1, <1>2, <1>3, <1>4, <1>5 DEF IInv

LEMMA VerifyLoadStep == ASSUME IInv, NEW r \in Request, VerifyLoad(r) PROVE IInv'
<1>0. PICK s \in present : \E c \in Code \ used[s] : Loaded(r, s, c)
    BY DEF VerifyLoad
<1>1. PICK c \in Code \ used[s] : Loaded(r, s, c)
    BY <1>0
<1> USE <1>1 DEF Loaded, Goto
<1>2. /\ s \in Set
      /\ used[s] \subseteq Code
      /\ pc[r] = "idle"
      /\ pc'[r] = "marking" /\ held'[r] = s /\ seen'[r] = used[s] /\ code'[r] = c
      /\ before'[r] = {q \in Request : pc[q] = "accepted"}
      /\ \A q \in Request \ {r} :
            /\ pc'[q] = pc[q] /\ held'[q] = held[q] /\ seen'[q] = seen[q]
            /\ code'[q] = code[q] /\ before'[q] = before[q]
      /\ raced \subseteq raced'
      /\ (\E q \in Request : pc[q] = "marking" /\ held[q] = s) => s \in raced'
      /\ UNCHANGED <<present, used, crowded>>
    BY DEF VerifyLoad, IInv, TypeOK
<1>3. TypeOK'
    BY <1>2 DEF IInv, TypeOK, Stage
<1>4. Known'
    BY <1>2 DEF IInv, Known
<1>5. UsesKept'
    BY <1>2 DEF IInv, UsesKept
<1>6. Overtaken'
    BY <1>2 DEF IInv, Overtaken
<1>7. CodesWorkOnce'
    BY <1>2 DEF IInv, CodesWorkOnce
<1>8. Sole'
    BY <1>2 DEF IInv, Sole, Replacing
<1> QED
    BY <1>3, <1>4, <1>5, <1>6, <1>7, <1>8 DEF IInv

LEMMA VerifyStoreStep == ASSUME IInv, NEW r \in Request, VerifyStore(r) PROVE IInv'
<1> USE DEF VerifyStore, Goto
<1>1. /\ held[r] \in Set /\ code[r] \in Code
      /\ pc[r] = "marking" /\ pc'[r] = "accepted"
      /\ \A q \in Request \ {r} : pc'[q] = pc[q]
      /\ used'[held[r]] = IF held[r] \in present THEN seen[r] \cup {code[r]}
                          ELSE used[held[r]]
      /\ \A s \in Set \ {held[r]} : used'[s] = used[s]
      /\ UNCHANGED <<present, held, seen, code, raced, crowded, before>>
    BY DEF IInv, TypeOK
<1>2. TypeOK'
    BY <1>1 DEF IInv, TypeOK, Stage
<1>3. Known'
    BY <1>1 DEF IInv, Known
<1>4. UsesKept'
    BY <1>1 DEF IInv, TypeOK, UsesKept
<1>5. Overtaken'
    BY <1>1 DEF IInv, TypeOK, Overtaken
<1>6. CodesWorkOnce'
    BY <1>1 DEF IInv, CodesWorkOnce, UsesKept
<1>7. Sole'
    BY <1>1 DEF IInv, Sole, Replacing
<1> QED
    BY <1>2, <1>3, <1>4, <1>5, <1>6, <1>7 DEF IInv

LEMMA FailStep == ASSUME IInv, NEW r \in Request, Fail(r) PROVE IInv'
<1> USE DEF Fail, Goto
<1>1. TypeOK'
    BY DEF IInv, TypeOK, Stage
<1>2. Known' /\ UsesKept' /\ Overtaken' /\ CodesWorkOnce'
  <2>1. /\ pc[r] \notin {"accepted", "enrolled"}
        /\ pc'[r] = "raised"
        /\ \A q \in Request \ {r} : pc'[q] = pc[q]
        /\ UNCHANGED <<present, used, held, seen, code, raced, before>>
    BY DEF IInv, TypeOK, Replacing
  <2> QED
    BY <2>1 DEF IInv, Known, UsesKept, Overtaken, CodesWorkOnce
<1>3. Sole'
    BY DEF IInv, TypeOK, Sole, Replacing
<1> QED
    BY <1>1, <1>2, <1>3 DEF IInv

LEMMA StutterStep == ASSUME IInv, UNCHANGED vars PROVE IInv'
    BY DEF vars, IInv, TypeOK, Known, UsesKept, Overtaken, Sole, CodesWorkOnce

LEMMA IInvHolds == Spec => []IInv
<1>1. IInv /\ [Next]_vars => IInv'
  <2>1. ASSUME IInv, Next PROVE IInv'
    BY <2>1, EnrollLoadStep, EnrollDeleteStep, EnrollInsertStep, VerifyLoadStep,
       VerifyStoreStep, FailStep DEF Next, Enroll, Verify
  <2> QED
    BY <2>1, StutterStep
<1> QED
    BY <1>1, InitIInv, PTL DEF Spec

\* Every variable keeps its type.
THEOREM TypeCorrect == Spec => []TypeOK
<1>1. IInv => TypeOK
    BY DEF IInv
<1> QED
    BY <1>1, IInvHolds, PTL

\* No code of a set whose checks do not overlap is accepted twice.
THEOREM CodesWorkOnceHolds == Spec => []CodesWorkOnce
<1>1. IInv => CodesWorkOnce
    BY DEF IInv
<1> QED
    BY <1>1, IInvHolds, PTL

\* One set of codes is valid at a time unless enroll calls overlap.
THEOREM OneSetAtATimeHolds == Spec => []OneSetAtATime
<1>1. IInv => OneSetAtATime
    BY DEF IInv, Sole, OneSetAtATime
<1> QED
    BY <1>1, IInvHolds, PTL

\* A use is forgotten only when the check that stores was overtaken by another.
THEOREM UseForgottenOnlyByOverlapHolds == Spec => UseForgottenOnlyByOverlap
<1> DEFINE Overlap ==
        \A s \in Set : ~(used[s] \subseteq used'[s]) =>
            \E r, q \in Request :
                /\ pc[r] = "marking" /\ held[r] = s
                /\ pc[q] = "accepted" /\ held[q] = s
                /\ q \notin before[r]
<1>1. IInv /\ [Next]_vars => [Overlap]_vars
  <2> SUFFICES ASSUME IInv, Next, NEW s \in Set, ~(used[s] \subseteq used'[s])
               PROVE  \E r, q \in Request :
                        /\ pc[r] = "marking" /\ held[r] = s
                        /\ pc[q] = "accepted" /\ held[q] = s
                        /\ q \notin before[r]
    OBVIOUS
  <2>1. PICK r \in Request : VerifyStore(r)
    BY DEF Next, Enroll, Verify, EnrollLoad, EnrollDelete, EnrollInsert,
           VerifyLoad, Loaded, Fail
  <2>2. /\ held[r] = s /\ pc[r] = "marking"
        /\ used'[s] = seen[r] \cup {code[r]}
    BY <2>1 DEF VerifyStore, IInv, TypeOK
  <2>3. used[s] # seen[r]
    BY <2>2
  <2> QED
    BY <2>2, <2>3 DEF IInv, Overtaken
<1> QED
    BY <1>1, IInvHolds, PTL DEF Spec, UseForgottenOnlyByOverlap

----------------------------------------------------------------------------
(* What the rows account for *)

\* The codes of a set that some check has accepted.
Accepted(s) == {c \in Code :
    \E r \in Request : pc[r] = "accepted" /\ held[r] = s /\ code[r] = c}

\* No code of a set that enroll() has stored is used up but by a check that
\* accepted it, also when calls overlap or fail (verify).
UsedWereAccepted == \A s \in Request : used[s] \subseteq Accepted(s)

\* Nor is there another one in a list that a check is about to write back.
SeenWereAccepted ==
    \A r, s \in Request :
        pc[r] = "marking" /\ held[r] = s => seen[r] \subseteq Accepted(s)

\* A code that a check has accepted is marked as used in the row of its set, as
\* long as no two checks of the set overlap (verify).
AcceptedAreUsed ==
    \A r \in Request :
        pc[r] = "accepted" /\ held[r] \in present \ raced => code[r] \in used[held[r]]

\* A set of codes that was replaced never works again: no check that loaded it
\* before puts its row back (enroll, verify).
ReplacedStaysGone ==
    [][\A s \in Set :
        s \notin present /\ (s = Earlier \/ pc[s] = "enrolled") => s \notin present']_vars

\* What was accepted stays so.
LEMMA AcceptedGrows ==
    ASSUME IInv, [Next]_vars, NEW s \in Request
    PROVE  Accepted(s) \subseteq Accepted(s)'
<1> SUFFICES ASSUME NEW r \in Request, pc[r] = "accepted"
             PROVE  pc'[r] = pc[r] /\ held'[r] = held[r] /\ code'[r] = code[r]
    BY DEF Accepted
<1> QED
    BY DEF Next, Enroll, Verify, EnrollLoad, EnrollDelete, EnrollInsert, VerifyLoad,
        Loaded, VerifyStore, Fail, Replacing, Goto, vars, IInv, TypeOK

LEMMA AccountStep ==
    ASSUME IInv, UsedWereAccepted, SeenWereAccepted, [Next]_vars
    PROVE  UsedWereAccepted' /\ SeenWereAccepted'
<1>1. ASSUME NEW r \in Request, VerifyStore(r) PROVE UsedWereAccepted' /\ SeenWereAccepted'
  <2>1. /\ pc[r] = "marking" /\ pc'[r] = "accepted" /\ code[r] \in Code
        /\ \A q \in Request \ {r} : pc'[q] = pc[q]
        /\ \A s \in Set \ {held[r]} : used'[s] = used[s]
        /\ used'[held[r]] \in {used[held[r]], seen[r] \cup {code[r]}}
        /\ UNCHANGED <<held, seen, code>>
    BY <1>1 DEF VerifyStore, Goto, IInv, TypeOK
  <2>2. \A s \in Request : held[r] = s => code[r] \in Accepted(s)'
    BY <2>1 DEF Accepted
  <2>3. UsedWereAccepted'
    <3> SUFFICES ASSUME NEW s \in Request PROVE used'[s] \subseteq Accepted(s)'
        BY DEF UsedWereAccepted
    <3>1. used[s] \subseteq Accepted(s)'
        BY AcceptedGrows DEF UsedWereAccepted
    <3>2. held[r] = s => seen[r] \subseteq Accepted(s)'
        BY <2>1, AcceptedGrows DEF SeenWereAccepted
    <3> QED
        BY <2>1, <2>2, <3>1, <3>2 DEF Set
  <2>4. SeenWereAccepted'
    BY <2>1, AcceptedGrows DEF SeenWereAccepted
  <2> QED
    BY <2>3, <2>4
<1>2. ASSUME NEW r \in Request, VerifyLoad(r) PROVE UsedWereAccepted' /\ SeenWereAccepted'
  <2>1. /\ used' = used
        /\ \A q \in Request \ {r} : pc'[q] = pc[q] /\ held'[q] = held[q] /\ seen'[q] = seen[q]
        /\ seen'[r] = used[held'[r]]
    BY <1>2 DEF VerifyLoad, Loaded, Goto, IInv, TypeOK
  <2> QED
    BY <2>1, AcceptedGrows DEF UsedWereAccepted, SeenWereAccepted
<1>3. ASSUME UNCHANGED <<used, seen>>,
             \A r \in Request : pc'[r] = "marking" => pc[r] = "marking" /\ held'[r] = held[r]
      PROVE  UsedWereAccepted' /\ SeenWereAccepted'
    BY <1>3, AcceptedGrows DEF UsedWereAccepted, SeenWereAccepted
<1>4. ASSUME NEW r \in Request, Enroll(r) \/ Fail(r) PROVE UsedWereAccepted' /\ SeenWereAccepted'
    BY <1>3, <1>4 DEF Enroll, EnrollLoad, EnrollDelete, EnrollInsert, Fail, Replacing,
        Goto, IInv, TypeOK
<1>5. CASE UNCHANGED vars
    BY <1>3, <1>5 DEF vars
<1> QED
    BY <1>1, <1>2, <1>4, <1>5 DEF Next, Verify

\* The used codes of a row have all been accepted.
THEOREM UsedWereAcceptedHolds == Spec => []UsedWereAccepted
<1>1. Init => UsedWereAccepted /\ SeenWereAccepted
    BY DEF Init, UsedWereAccepted, SeenWereAccepted
<1>2. IInv /\ UsedWereAccepted /\ SeenWereAccepted /\ [Next]_vars =>
        (UsedWereAccepted /\ SeenWereAccepted)'
    BY AccountStep
<1> QED
    BY <1>1, <1>2, IInvHolds, PTL DEF Spec

\* The accepted codes of a set without overlapping checks are marked as used.
THEOREM AcceptedAreUsedHolds == Spec => []AcceptedAreUsed
<1>1. IInv => AcceptedAreUsed
    BY DEF IInv, UsesKept, AcceptedAreUsed
<1> QED
    BY <1>1, IInvHolds, PTL

\* A replaced set of codes stays replaced.
THEOREM ReplacedStaysGoneHolds == Spec => ReplacedStaysGone
<1> DEFINE Stays ==
        \A s \in Set :
            s \notin present /\ (s = Earlier \/ pc[s] = "enrolled") => s \notin present'
<1>1. [Next]_vars => [Stays]_vars
  <2> SUFFICES ASSUME Next PROVE Stays
      OBVIOUS
  <2>1. \/ present' \subseteq present
        \/ \E r \in Request : pc[r] = "inserting" /\ present' = present \cup {r}
      BY DEF Next, Enroll, Verify, EnrollLoad, EnrollDelete, EnrollInsert,
             VerifyLoad, Loaded, VerifyStore, Fail
  <2> QED
      BY <2>1, NoneAssumption
<1> QED
    BY <1>1, PTL DEF Spec, ReplacedStaysGone
=============================================================================
