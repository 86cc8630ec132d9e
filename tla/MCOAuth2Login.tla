---------------------------- MODULE MCOAuth2Login ----------------------------
(* A small instance of OAuth2Login: the accounts belong to alice's address. *)
EXTENDS OAuth2Login, TLC

CONSTANTS r1, r2, r3, r4, r5, alice, bob

MCOwner == [a \in Account |-> alice]

MCSymmetry == Permutations({r1, r2, r3, r4, r5})
=============================================================================
