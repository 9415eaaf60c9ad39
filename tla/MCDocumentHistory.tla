-------------------------- MODULE MCDocumentHistory --------------------------
(***************************************************************************)
(* DocumentHistory for TLC.                                                *)
(***************************************************************************)
EXTENDS DocumentHistory

CONSTANTS x, nl

\* Files as they are opened: one line, two lines.
Opened == {<<x, x, x>>, <<x, nl>>}
=============================================================================
