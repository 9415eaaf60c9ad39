--------------------------- MODULE MCGitDiffWorker ---------------------------
(***************************************************************************)
(* GitDiffWorker for TLC: the two files are interchangeable.               *)
(***************************************************************************)
EXTENDS GitDiffWorker, TLC

Symmetry == Permutations(Files)
=============================================================================
