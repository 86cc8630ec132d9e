------------------------------ MODULE MCSession ------------------------------
(* A small instance of Session. *)
EXTENDS Session, TLC

CONSTANTS r1, r2, r3, r4, alice, bob

MCSymmetry == Permutations({r1, r2, r3, r4}) \cup Permutations({alice, bob})
=============================================================================
