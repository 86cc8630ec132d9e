------------------------------ MODULE MCEmailOTP ------------------------------
(* A small instance of EmailOTP. *)
EXTENDS EmailOTP, TLC

CONSTANTS r1, r2, r3, r4, s1, s2, ann, ben, c1, c2

MCSymmetry ==
    Permutations({r1, r2, r3, r4}) \cup Permutations({s1, s2})
        \cup Permutations({ann, ben}) \cup Permutations({c1, c2})
=============================================================================
