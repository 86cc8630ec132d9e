---------------------- MODULE MCAuthenticationSession ----------------------
(***************************************************************************)
(* A small instance of AuthenticationSession: three factors on two steps   *)
(* with the two factors of step 1 sharing an AMR, as TOTP and backup codes *)
(* do.                                                                     *)
(***************************************************************************)
EXTENDS AuthenticationSession, TLC

CONSTANTS r1, r2, r3, a1, alice, bob

MCFactor == {"password", "totp", "backup"}
MCAMR == {"pwd", "otp"}
MCStep == [password |-> 0, totp |-> 1, backup |-> 1]
MCFactorAMR == [password |-> "pwd", totp |-> "otp", backup |-> "otp"]

\* alice uses all three factors, bob has the password alone.
MCEnrollments ==
    {[i \in {alice, bob} |-> IF i = alice THEN MCFactor ELSE {"password"}]}

MCSymmetry == Permutations({r1, r2, r3})
=============================================================================
