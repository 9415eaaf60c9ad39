----------------------------- MODULE AtomicFiles -----------------------------
(***************************************************************************)
(* What file.rename and file.delete promise: an operation changes the      *)
(* files as a whole and once, or not at all, whatever fails and wherever   *)
(* the editor is interrupted.  Only the paths of an operation that could   *)
(* be neither finished nor undone may show a part of it; they are broken.  *)
(* RecoveryManager is shown to implement it.                               *)
(***************************************************************************)
EXTENDS Naturals

CONSTANTS Paths, Contents, Absent

VARIABLES
    files,      \* what every path holds, as far as it is decided
    asked,      \* the operation asked for and not answered, or Nothing
    done,       \* operations reported as done
    writes,     \* changes by other programs
    broken      \* paths left with a part of an operation

vars == <<files, asked, done, writes, broken>>

Nothing == [kind |-> "Nothing"]
Operations == [kind : {"Rename", "Delete"}, source : Paths, destination : Paths]

Init ==
    /\ files \in [Paths -> Contents \cup {Absent}]
    /\ asked = Nothing /\ done = 0 /\ writes = 0 /\ broken = {}

\* The files become these; broken ones become anything.
Become(f) == /\ files' \in [Paths -> Contents \cup {Absent}]
             /\ \A p \in Paths \ broken' : files'[p] = f[p]

Effect(o) ==
    CASE o.kind = "Delete" -> [files EXCEPT ![o.source] = Absent]
      [] o.kind = "Rename" -> [files EXCEPT ![o.destination] = files[o.source],
                                            ![o.source] = Absent]

Write(p, c) ==
    /\ writes' = writes + 1
    /\ broken \subseteq broken'
    /\ Become([files EXCEPT ![p] = c])
    /\ UNCHANGED <<asked, done>>

Ask(o) ==
    /\ asked = Nothing /\ asked' = o
    /\ broken \subseteq broken'
    /\ Become(files) /\ UNCHANGED <<done, writes>>

Perform ==
    /\ asked # Nothing /\ asked' = Nothing
    /\ done' \in {done, done + 1}   \* an interrupted operation reports nothing
    /\ Become(Effect(asked)) /\ UNCHANGED <<writes, broken>>

Refuse ==
    /\ asked' = Nothing
    /\ Become(files) /\ UNCHANGED <<done, writes, broken>>

Break(ps) ==
    /\ asked' = Nothing
    /\ broken' = broken \cup ps
    /\ Become(files) /\ UNCHANGED <<done, writes>>

\* Broken paths may change at any time.
Drift == Become(files) /\ UNCHANGED <<asked, done, writes, broken>>

Next == \/ \E p \in Paths, c \in Contents \cup {Absent} : Write(p, c)
        \/ \E o \in Operations : Ask(o)
        \/ Perform \/ Refuse \/ Drift
        \/ \E ps \in SUBSET Paths : Break(ps)

Spec == Init /\ [][Next]_vars
=============================================================================
