-------------------------- MODULE MCPasswordChange --------------------------
(* A small instance of PasswordChange. *)
EXTENDS PasswordChange, TLC

CONSTANTS r1, r2, r3, r4

MCSymmetry == Permutations({r1, r2, r3, r4})
=============================================================================
