------------------------------- MODULE HandOff -------------------------------
(***************************************************************************)
(* What a worker thread promises the editor thread, whatever the work: a   *)
(* result once posted stays posted, results are taken all together and in  *)
(* the order they were posted, each is handled once, and a posted result   *)
(* is eventually taken, however the two threads interleave, unless the     *)
(* session ends first: the results not taken then are dropped.  The queue  *)
(* between GitDiffWorker and Editor::pump and the one between SyntaxWorker *)
(* and Editor::pumpSyntax are shown to implement it.                       *)
(***************************************************************************)
EXTENDS Naturals, Sequences

VARIABLES
    box,    \* results posted by the worker and not taken yet
    hand,   \* results taken by the editor thread and not handled yet
    closed  \* the session has ended

vars == <<box, hand, closed>>

Init == box = <<>> /\ hand = <<>> /\ closed = FALSE

\* The worker adds results behind those already posted.
Post == /\ Len(box') > Len(box)
        /\ SubSeq(box', 1, Len(box)) = box
        /\ UNCHANGED <<hand, closed>>

\* The editor thread, done with what it took before, takes everything posted.
Take == /\ ~closed /\ hand = <<>>
        /\ box # <<>>
        /\ hand' = box
        /\ box' = <<>>
        /\ UNCHANGED closed

\* It handles the oldest of the results it took.
Handle == /\ hand # <<>>
          /\ hand' = Tail(hand)
          /\ UNCHANGED <<box, closed>>

\* The session ends between two rounds of the editor thread.
Close == /\ hand = <<>>
         /\ closed' = TRUE
         /\ UNCHANGED <<box, hand>>

Next == Post \/ Take \/ Handle \/ Close

\* What it promises of every step, and what of the future.
Safety == Init /\ [][Next]_vars
Spec == Safety /\ WF_vars(Take) /\ WF_vars(Handle)
=============================================================================
