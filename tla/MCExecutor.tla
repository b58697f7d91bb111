----------------------------- MODULE MCExecutor -----------------------------
(* Small instances of CommandExecutor. *)
EXTENDS CommandExecutor, TLC

AttemptSymmetry == Permutations(Attempts)
=============================================================================
