-------------------------- MODULE MCOneTimePassword --------------------------
(* A small instance of OneTimePassword. *)
EXTENDS OneTimePassword, TLC

CONSTANTS r1, r2, r3, r4, r5

MCSymmetry == Permutations({r1, r2, r3, r4, r5})
=============================================================================
