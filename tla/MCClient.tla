------------------------------ MODULE MCClient ------------------------------
(* Small instances of CommandClient. *)
EXTENDS CommandClient, TLC

AttemptSymmetry == Permutations(Attempts)
=============================================================================
