-------------------------- MODULE MCRecoveryManager --------------------------
(***************************************************************************)
(* RecoveryManager for TLC: no definition tells one path or one content    *)
(* from another, and the properties checked under the symmetry are of      *)
(* single steps.                                                           *)
(***************************************************************************)
EXTENDS RecoveryManager

Symmetry == Permutations(Contents) \cup Permutations(Paths)
=============================================================================
