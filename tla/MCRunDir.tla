------------------------------ MODULE MCRunDir ------------------------------
(* RunDir on small sets of processes. *)
EXTENDS RunDir, TLC

Alike == Permutations(Procs)
=============================================================================
