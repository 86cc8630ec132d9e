--------------------------- MODULE MCOpenIDConnect ---------------------------
(* Callbacks that may share one of two key-set factors, or not. *)
EXTENDS OpenIDConnect, TLC

CONSTANTS r1, r2, r3, f1, f2, k1, k2, line, github

MCSymmetry == Permutations({r1, r2, r3}) \cup Permutations({f1, f2})
                \cup Permutations({k1, k2})
=============================================================================
