-------------------------- MODULE MCEditorSession --------------------------
(***************************************************************************)
(* EditorSession for TLC: no definition tells one path from another, or    *)
(* one text from another that is not empty.                                *)
(***************************************************************************)
EXTENDS EditorSession, TLC

Symmetry == Permutations(Paths) \cup Permutations(Contents \ {Empty})
=============================================================================
