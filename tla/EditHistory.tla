----------------------------- MODULE EditHistory -----------------------------
(***************************************************************************)
(* What the history of a document promises its user: undo returns the text *)
(* and the selections from before the last change still remembered, redo   *)
(* returns those from after it.  Changes made one after the other may be   *)
(* remembered as one, old ones may be forgotten, and a text that came from *)
(* elsewhere leaves nothing to undo.                                       *)
(***************************************************************************)
EXTENDS SequencesExt

CONSTANT Texts

VARIABLES
    text,
    selections,
    past,       \* changes that can be undone, the last one last
    future      \* changes that can be redone, the next one last

vars == <<text, selections, past, future>>

View == [text |-> text, selections |-> selections]
Show(view) == text' = view.text /\ selections' = view.selections

Init == text \in Texts /\ past = <<>> /\ future = <<>>

\* A change is remembered on its own, or continues the last one from where that
\* one ended.
Edit ==
    /\ future' = <<>>
    /\ \/ past' \in Suffixes(Append(past, [before |-> View, after |-> View']))
       \/ /\ past # <<>>
          /\ Last(past).after = View
          /\ past' \in Suffixes(Append(Front(past),
                                       [Last(past) EXCEPT !.after = View']))

Undo ==
    /\ past # <<>>
    /\ text = Last(past).after.text
    /\ Show(Last(past).before)
    /\ past' = Front(past)
    /\ future' = Append(future, Last(past))

Redo ==
    /\ future # <<>>
    /\ text = Last(future).before.text
    /\ Show(Last(future).after)
    /\ future' = Front(future)
    /\ past' = Append(past, Last(future))

Move == UNCHANGED <<text, past, future>>

Forget == past' = <<>> /\ future' = <<>>

Next == Edit \/ Undo \/ Redo \/ Move \/ Forget

Spec == Init /\ [][Next]_vars
=============================================================================
