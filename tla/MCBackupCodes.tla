---------------------------- MODULE MCBackupCodes ----------------------------
(* A small instance of BackupCodes. *)
EXTENDS BackupCodes, TLC

CONSTANTS r1, r2, r3, r4, c1, c2

MCSymmetry == Permutations({r1, r2, r3, r4}) \cup Permutations({c1, c2})
=============================================================================
