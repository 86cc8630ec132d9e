----------------------------- MODULE MCAuthClient -----------------------------
(* A small instance of AuthClient. *)
EXTENDS AuthClient

CONSTANTS c1, c2
=============================================================================
