------------------------------ MODULE BackupCodes ------------------------------
(***************************************************************************)
(* The backup codes factor (src/aegistry/factors/backup_codes.py): enroll  *)
(* replaces the codes of an identity, verify uses one of them up.  One     *)
(* identity; each call of the factor is a process and each call of the     *)
(* store one of its steps.                                                 *)
(*                                                                         *)
(* A set of codes is named by the enroll that generates it.  The store     *)
(* belongs to the application: it fetches any row of the identity, updates *)
(* and deletes by key, hands out no key twice, and the identity is not     *)
(* unique in its table, as in tests/factors/test_backup_codes.py.          *)
(***************************************************************************)
CONSTANTS
    Request,  \* calls of enroll and verify
    Earlier,  \* the set of codes enrolled before they begin
    Code,     \* the codes of a set
    NoSet,    \* no enrolment was found
    NoCode    \* no code has passed the checks

Set == Request \cup {Earlier}

ASSUME NoneAssumption ==
    /\ Earlier \notin Request
    /\ NoSet \notin Set
    /\ NoCode \notin Code

VARIABLES
    present, \* the sets whose row is in the table
    used,    \* used[s]: used_codes_hashes in the row of s
    pc,      \* where each call stands
    held,    \* the set of the enrolment a call has loaded
    seen,    \* the used codes in that enrolment
    code,    \* the code a verify call lets through
    raced,   \* history: sets of which two checks overlapped
    crowded, \* history: two enroll calls have overlapped
    before   \* history: calls that had accepted a code when r loaded the row

vars == <<present, used, pc, held, seen, code, raced, crowded, before>>

Replacing == {"deleting", "inserting"}
Stage == {"idle", "marking", "accepted", "enrolled", "raised"} \cup Replacing

Init ==
    /\ present \in {{}, {Earlier}}
    /\ used \in [Set -> SUBSET Code]
    /\ \A r \in Request : used[r] = {}
    /\ pc = [r \in Request |-> "idle"]
    /\ held = [r \in Request |-> NoSet]
    /\ seen = [r \in Request |-> {}]
    /\ code = [r \in Request |-> NoCode]
    /\ raced = {}
    /\ crowded = FALSE
    /\ before = [r \in Request |-> {}]

----------------------------------------------------------------------------
Goto(r, stage) == pc' = [pc EXCEPT ![r] = stage]

\* enroll() begins while another enroll() is between its load and its insert.
Crowd == crowded' = (crowded \/ \E q \in Request : pc[q] \in Replacing)

\* Mutation of EnrollLoad: the enrolment is not checked for None.
EnrollLoadUnchecked(r) ==
    /\ pc[r] = "idle"
    /\ \/ present = {} /\ UNCHANGED held
       \/ \E s \in present : held' = [held EXCEPT ![r] = s]
    /\ Goto(r, "deleting")
    /\ Crowd
    /\ UNCHANGED <<present, used, seen, code, raced, before>>

\* enroll() looks for an enrolment to replace.
EnrollLoad(r) ==
    /\ pc[r] = "idle"
    /\ \/ present = {} /\ Goto(r, "inserting") /\ UNCHANGED held
       \/ /\ \E s \in present : held' = [held EXCEPT ![r] = s]
          /\ Goto(r, "deleting")
    /\ Crowd
    /\ UNCHANGED <<present, used, seen, code, raced, before>>

\* Mutation of EnrollDelete: the existing enrolment is left in the table.
EnrollKeep(r) ==
    /\ pc[r] = "deleting"
    /\ Goto(r, "inserting")
    /\ UNCHANGED <<present, used, held, seen, code, raced, crowded, before>>

\* The existing row is deleted by its key.
EnrollDelete(r) ==
    /\ pc[r] = "deleting"
    /\ present' = present \ {held[r]}
    /\ Goto(r, "inserting")
    /\ UNCHANGED <<used, held, seen, code, raced, crowded, before>>

\* The new codes are stored, none of them used.
EnrollInsert(r) ==
    /\ pc[r] = "inserting"
    /\ present' = present \cup {r}
    /\ Goto(r, "enrolled")
    /\ UNCHANGED <<used, held, seen, code, raced, crowded, before>>

\* verify() has loaded the row of s, and lets c through.
Loaded(r, s, c) ==
    /\ held' = [held EXCEPT ![r] = s]
    /\ seen' = [seen EXCEPT ![r] = used[s]]
    /\ code' = [code EXCEPT ![r] = c]
    /\ raced' = raced \cup
            {t \in {s} : \E q \in Request : pc[q] = "marking" /\ held[q] = s}
    /\ before' = [before EXCEPT ![r] = {q \in Request : pc[q] = "accepted"}]
    /\ Goto(r, "marking")
    /\ UNCHANGED <<present, used, crowded>>

\* Mutation of VerifyLoad: the used codes are not looked at.
VerifyLoadAny(r) ==
    /\ pc[r] = "idle"
    /\ \E s \in present, c \in Code : Loaded(r, s, c)

\* verify() loads the enrolment and checks the code: one of its codes, unused.
VerifyLoad(r) ==
    /\ pc[r] = "idle"
    /\ \E s \in present : \E c \in Code \ used[s] : Loaded(r, s, c)

\* Mutation of VerifyStore: the list of used codes starts anew.
VerifyStoreOwn(r) ==
    /\ pc[r] = "marking"
    /\ used' = [used EXCEPT ![held[r]] = IF held[r] \in present THEN {code[r]} ELSE @]
    /\ Goto(r, "accepted")
    /\ UNCHANGED <<present, held, seen, code, raced, crowded, before>>

\* The loaded list with the code appended is written back, by key: nothing
\* happens when the row is gone.
VerifyStore(r) ==
    /\ pc[r] = "marking"
    /\ used' = [used EXCEPT ![held[r]] =
            IF held[r] \in present THEN seen[r] \cup {code[r]} ELSE @]
    /\ Goto(r, "accepted")
    /\ UNCHANGED <<present, held, seen, code, raced, crowded, before>>

\* No enrolment, an invalid or used code, or a store call that fails: also the
\* insert of enroll(), after the codes it replaces are gone.
Fail(r) ==
    /\ pc[r] \in {"idle", "marking"} \cup Replacing
    /\ Goto(r, "raised")
    /\ UNCHANGED <<present, used, held, seen, code, raced, crowded, before>>

Enroll(r) == EnrollLoad(r) \/ EnrollDelete(r) \/ EnrollInsert(r)
Verify(r) == VerifyLoad(r) \/ VerifyStore(r)

Next == \E r \in Request : Enroll(r) \/ Verify(r) \/ Fail(r)

Spec == Init /\ [][Next]_vars

----------------------------------------------------------------------------
(* Properties *)

\* Every variable has the type the code gives it; a call that deletes or updates
\* has an enrolment to do it with.
TypeOK ==
    /\ present \subseteq Set
    /\ used \in [Set -> SUBSET Code]
    /\ pc \in [Request -> Stage]
    /\ held \in [Request -> Set \cup {NoSet}]
    /\ seen \in [Request -> SUBSET Code]
    /\ code \in [Request -> Code \cup {NoCode}]
    /\ raced \subseteq Set
    /\ crowded \in BOOLEAN
    /\ before \in [Request -> SUBSET Request]
    /\ \A r \in Request :
        /\ pc[r] \in {"deleting", "marking", "accepted"} => held[r] \in Set
        /\ pc[r] \in {"marking", "accepted"} => code[r] \in Code

\* "Backup codes are single-use": of a set of which no two checks overlap, no
\* code is accepted twice, whatever enroll() does meanwhile (verify).
CodesWorkOnce ==
    \A q, r \in Request :
        /\ q # r
        /\ pc[q] = "accepted"
        /\ pc[r] = "accepted"
        /\ held[q] = held[r]
        /\ held[r] \notin raced
        => code[q] # code[r]

\* A used code becomes valid again only when the check that writes the list back
\* loaded it before another check of the same set was through (verify).
UseForgottenOnlyByOverlap ==
    [][\A s \in Set : ~(used[s] \subseteq used'[s]) =>
        \E r, q \in Request :
            /\ pc[r] = "marking" /\ held[r] = s
            /\ pc[q] = "accepted" /\ held[q] = s
            /\ q \notin before[r]]_vars

\* "it is deleted and replaced with the new one": as long as no two enroll calls
\* overlap, one set of codes is valid at a time, also when calls fail half-way.
OneSetAtATime ==
    crowded \/ \A s, t \in present : s = t
=============================================================================
