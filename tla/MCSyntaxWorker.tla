--------------------------- MODULE MCSyntaxWorker ---------------------------
(***************************************************************************)
(* SyntaxWorker for TLC: two documents, so that one can wait behind the    *)
(* other in the worker's queue.  The languages are interchangeable.        *)
(***************************************************************************)
EXTENDS SyntaxWorker, TLC

Symmetry == Permutations(Languages)
=============================================================================
