----------------------- MODULE MCExternalModification -----------------------
(***************************************************************************)
(* ExternalModification for TLC: the two paths are interchangeable.  In    *)
(* the first world every change is reported to the flow; in the second     *)
(* moves are undone as well; in the third changes race each other, files   *)
(* are replaced, and some hold no text.                                    *)
(***************************************************************************)
EXTENDS ExternalModification

Symmetry == Permutations(Paths)

MCChanges == {"Write", "Remove", "Hide", "Overflow", "Move"}
MCWorlds ==
    {[external |-> MCChanges, contents |-> Contents \ Undecodable, changes |-> 3,
      commands |-> {"New", "Reload", "Close", "SaveAs"}],
     [external |-> {"Write", "Remove", "Move", "Undo"}, changes |-> 3,
      contents |-> Contents \ (Undecodable \cup {Empty}), commands |-> {}],
     [external |-> MCChanges \cup {"Undo"} \cup Races, contents |-> Contents,
      changes |-> 2, commands |-> {"Reload", "Close", "SaveAs", "Rename", "Delete"}]}
=============================================================================
