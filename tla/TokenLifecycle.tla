--------------------------- MODULE TokenLifecycle ---------------------------
(***************************************************************************)
(* What every token store of aegistry promises: a token is issued once, is *)
(* live until something consumes, completes or revokes it, and then is     *)
(* gone for good.  The detailed modules implement this specification       *)
(* although their updates work on stale copies of the rows.                *)
(***************************************************************************)
CONSTANT Id

VARIABLE status   \* of each id: unissued, live or gone

Init == status = [id \in Id |-> "unissued"]

Issue(id) ==
    /\ status[id] = "unissued"
    /\ status' = [status EXCEPT ![id] = "live"]

\* Several tokens may go at once, when all those of an identity are revoked.
Drop(ids) ==
    /\ \A id \in ids : status[id] = "live"
    /\ status' = [id \in Id |-> IF id \in ids THEN "gone" ELSE status[id]]

Next ==
    \/ \E id \in Id : Issue(id)
    \/ \E ids \in SUBSET Id : Drop(ids)

Spec == Init /\ [][Next]_status
=============================================================================
