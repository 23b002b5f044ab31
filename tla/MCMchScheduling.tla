-------------------------- MODULE MCMchScheduling ---------------------------
(***************************************************************************)
(* MchScheduling for TLC: the workers differ only in their names.          *)
(***************************************************************************)
EXTENDS MchScheduling, TLC

WorkerSymmetry == Permutations(Workers)
=============================================================================
