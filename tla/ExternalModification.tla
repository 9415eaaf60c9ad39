------------------------ MODULE ExternalModification ------------------------
(***************************************************************************)
(* Files changed behind the editor's back: the disk, what the filesystem   *)
(* watcher makes of its changes, the open documents with the disk state    *)
(* their edits branch from (src/Workspace.cpp) and the flow that adopts a  *)
(* change or offers it as a conflict (src/ExternalModificationFlow.cpp).   *)
(*                                                                         *)
(* A text is named by its content; encodings, the diff of a conflict and   *)
(* untitled documents are left out, and so is the half of a rename that    *)
(* waits for its other half in vain.  Event sequence numbers increase      *)
(* along the queue, so the guard against stale events never fires and is   *)
(* left out too.                                                           *)
(***************************************************************************)
EXTENDS Naturals, Sequences, FiniteSets, SequencesExt

CONSTANTS
    Paths,
    Contents,       \* what a file can hold
    Empty,          \* the content of a new document
    Undecodable,    \* contents that are no text, or binary
    Worlds,         \* what other programs and the user do: see World
    MaxCommands     \* bound: operations of the user

\* What happens in a run: the changes other programs make and their bound, the
\* contents they write, and the user's commands beside editing, saving and
\* answering.  Undo: a file moved and, at its new place, removed although at its
\* old one something changed again.
Races == {"Replace", "MoveAgain", "Race"}
World == [external : SUBSET ({"Write", "Remove", "Hide", "Overflow", "Move", "Undo"} \cup Races),
          commands : SUBSET {"New", "Reload", "Close", "SaveAs", "Rename", "Delete"},
          contents : SUBSET Contents, changes : Nat]

ASSUME ExternalAssumption ==
    /\ IsFiniteSet(Paths) /\ "none" \notin Paths
    /\ Contents \cap {"none", "absent", "unreadable", "unknown"} = {}
    /\ Empty \in Contents \ Undecodable
    /\ Worlds \subseteq World
    /\ MaxCommands \in Nat

VARIABLES
    world,          \* the one of Worlds this behaviour is in
    disk,           \* the files: content and the stamp of their last write
    natives,        \* changes the watcher debounces, as first noted
    inbox,          \* watch events drained and not ingested yet
    reconcile,      \* the watcher overflowed: compare every document with disk
    docs,           \* open documents, by saved path
    pending,        \* conflicts offered to the user, in order
    selected,       \* the one selected, or NoPath
    expectations,   \* writes of our own the watcher has still to report
    saving,         \* the document written and not yet registered, or NoPath
    answered,       \* observer: conflicts dismissed with what is on disk, no
                    \* older event of their file being on its way
    misanswered,    \* observer: documents that branch from an answer that was
                    \* no more on disk
    ours,           \* observer: files whose last write is their document's and
                    \* not lost to an overflow
    externals, commands

diskVars == <<disk, natives>>
flowVars == <<docs, pending, selected, expectations>>
observerVars == <<answered, misanswered, ours>>
vars == <<diskVars, inbox, reconcile, flowVars, saving, observerVars,
          world, externals, commands>>

External == world.external
Commands == world.commands
\* No change gets lost before the flow is told of it.
Faithful == External \cap Races = {} /\ "Rename" \notin Commands

NoPath == "none"
Absent == "absent"          \* no file, or a baseline of none
Unreadable == "unreadable"  \* a file that cannot be read
Unknown == "unknown"        \* a baseline that could not be captured
Texts == Contents \ Undecodable
NoStamp == 0

Files == [content : Contents \cup {Absent, Unreadable}, stamp : Nat]
Documents == [text : Texts, decoded : Texts, persisted : BOOLEAN,
              baseline : Contents \cup {Absent, Unknown}]
NoDocument == [text |-> NoPath]
Conflicts == [path : Paths, removed : BOOLEAN, content : Contents \cup {Absent}]
Kinds == {"Create", "Modify", "Remove", "Rename"}
Natives == [kind : Kinds, path : Paths, previous : Paths \cup {NoPath},
            stamp : Nat]

Content(p) == disk[p].content
IsOpen(p) == docs[p] # NoDocument
Dirty(d) == ~d.persisted \/ d.text # d.decoded
PathsOf(list) == {list[i].path : i \in DOMAIN list}
PendingPaths == PathsOf(pending)

Init ==
    /\ disk \in [Paths -> {[content |-> Empty, stamp |-> 1],
                          [content |-> Absent, stamp |-> NoStamp]}]
    /\ world \in Worlds
    /\ natives = <<>> /\ inbox = <<>> /\ reconcile = FALSE
    /\ docs = [p \in Paths |-> NoDocument]
    /\ pending = <<>> /\ selected = NoPath
    /\ expectations = {} /\ saving = NoPath
    /\ answered = {} /\ misanswered = {} /\ ours = {}
    /\ externals = 0 /\ commands = 0

-----------------------------------------------------------------------------
(* The watcher's debounced changes (WatchEventNormalizer).                  *)

Native(kind, p, previous, stamp) ==
    [kind |-> kind, path |-> p, previous |-> previous, stamp |-> stamp]

\* Mutant: a file removed and made again nets to nothing.
CoalescedToNothing(n, next) ==
    IF {n.kind, next.kind} = {"Create", "Remove"} THEN <<>> ELSE <<next>>

\* One debounced change and the next of the same path and file.
Coalesced(n, next) ==
    CASE n.kind = "Create" /\ next.kind = "Remove" -> <<>>
      [] n.kind = "Create" /\ next.kind = "Modify" -> <<n>>
      [] n.kind = "Rename" /\ next.kind = "Modify" -> <<n>>
      [] n.kind = "Remove" /\ next.kind = "Create" ->
            <<[next EXCEPT !.kind = "Modify"]>>
      [] n.kind = "Rename" /\ next.kind = "Remove" ->
            <<[next EXCEPT !.path = n.previous, !.previous = n.path]>>
      [] OTHER -> <<next>>

\* Where the last debounced change of a path is; a rename undone by a removal
\* leaves its source with one more.
Noted(ns, p) ==
    {i \in DOMAIN ns : /\ ns[i].path = p
                       /\ \A j \in DOMAIN ns : ns[j].path = p => j <= i}

\* The last debounced change of each of these paths.
LastNotes(ns, ps) == {ns[i] : i \in UNION {Noted(ns, p) : p \in ps}}

\* A file made where one was removed may be another, which is noted apart; whether
\* the watcher can tell is left open.
Enqueued(ns, next, another) ==
    IF \A i \in Noted(ns, next.path) :
          another /\ ns[i].kind = "Remove" /\ next.kind = "Create"
    THEN Append(ns, next)
    ELSE LET i == CHOOSE i \in Noted(ns, next.path) : TRUE
         IN  SubSeq(ns, 1, i - 1) \o Coalesced(ns[i], next)
                                 \o SubSeq(ns, i + 1, Len(ns))

\* A paired rename: the last debounced change of its source is dropped, and a
\* source that is new makes the destination look written.
Renamed(ns, p, q, existed, another) ==
    LET sourceIsNew == \E i \in Noted(ns, p) : ns[i].kind = "Create"
        next == IF sourceIsNew
                THEN Native(IF existed THEN "Modify" ELSE "Create", q, NoPath, NoStamp)
                ELSE Native("Rename", q, p, NoStamp)
        left == IF Noted(ns, p) = {} THEN ns
                ELSE RemoveAt(ns, CHOOSE i \in Noted(ns, p) : TRUE)
    IN  Enqueued(left, next, another)

\* The content changes; the watcher notes it.  A removal is reported with
\* the state its file had, if the watcher had seen it.
Changed(p, content, stamp) ==
    /\ disk' = [disk EXCEPT ![p] = [content |-> content, stamp |-> stamp]]
    /\ IF content = Absent
       THEN \E seen \in {disk[p].stamp, NoStamp} :
               natives' = Enqueued(natives, Native("Remove", p, NoPath, seen), FALSE)
       ELSE \E another \in BOOLEAN :
               natives' = Enqueued(natives,
                  Native(IF Content(p) = Absent THEN "Create" ELSE "Modify",
                         p, NoPath, NoStamp), another)

Moved(p, q) ==
    /\ disk' = [disk EXCEPT ![q] = disk[p],
                            ![p] = [content |-> Absent, stamp |-> NoStamp]]
    /\ \E another \in BOOLEAN :
          natives' = Renamed(natives, p, q, Content(q) # Absent, another)

-----------------------------------------------------------------------------
(* Other programs.                                                          *)

\* A rename to the path is on its way to the flow.
Delivered(q) == \E i \in DOMAIN inbox : inbox[i].kind = "Rename" /\ inbox[i].path = q
Arriving(q) == Delivered(q) \/ \E n \in ToSet(natives) : n.kind = "Rename" /\ n.path = q

\* The watcher has still to report that we wrote this file.
Unreported(p) == \E e \in expectations : e.stamp = disk[p].stamp

\* The watcher has still to report that the file of an open document is new.
Fresh(p) == IsOpen(p) /\ \E n \in ToSet(natives) : n.kind = "Create" /\ n.path = p

\* A change of the file is on its way to the flow, or one that is still
\* debounced says of a missing file that it is there: the watcher notes two
\* changes of a path where one of them was the source of an undone rename.
Announced(p) ==
    \/ \E i \in DOMAIN inbox : inbox[i].path = p
    \/ Content(p) = Absent /\ \E n \in ToSet(natives) : n.path = p /\ n.kind # "Remove"

Another(kind) ==
    /\ kind \in External /\ externals < world.changes
    /\ externals' = externals + 1
    /\ saving # NoPath => "Race" \in External
    /\ UNCHANGED <<inbox, flowVars, saving, misanswered, commands>>

Touched(ps) == answered' = answered \ ps /\ ours' = ours \ ps

\* A new stamp: every write counts one operation or external change.
NextStamp == externals' + commands' + 1

\* A file just moved is left alone until the flow has followed it.
LeftAlone(p) == Arriving(p) => "MoveAgain" \in External

WriteFile(p, c) ==
    /\ Another("Write") /\ c # Content(p) /\ (c \in Texts \/ LeftAlone(p))
    /\ Changed(p, c, NextStamp) /\ Touched({p}) /\ UNCHANGED reconcile

\* The file was moved here, and where it was something changed again.
Undoes(p) == \E i \in Noted(natives, p) :
    /\ natives[i].kind = "Rename"
    /\ \/ Content(natives[i].previous) # Absent
       \/ Noted(natives, natives[i].previous) # {}

RemoveFile(p) ==
    /\ Another("Remove") /\ Content(p) # Absent
    /\ Undoes(p) => "Undo" \in External
    /\ Delivered(p) => "MoveAgain" \in External
    /\ Unreported(p) \/ Fresh(p) => "Race" \in External
    /\ Changed(p, Absent, NoStamp) /\ Touched({p}) /\ UNCHANGED reconcile

\* The file loses its read permission; its size and time stay.
HideFile(p) ==
    /\ Another("Hide") /\ Content(p) \in Contents /\ LeftAlone(p)
    /\ Unreported(p) => "Race" \in External
    /\ Changed(p, Unreadable, disk[p].stamp) /\ Touched({p})
    /\ UNCHANGED reconcile

MoveFile(p, q) ==
    /\ Another("Move") /\ p # q /\ Content(p) # Absent /\ LeftAlone(p)
    /\ Content(p) \notin Texts \/ Content(q) # Absent \/ IsOpen(q)
          => "Replace" \in External
    /\ Unreported(p) \/ Fresh(p) => "Race" \in External
    /\ Moved(p, q) /\ Touched({p, q}) /\ UNCHANGED reconcile

\* A queue overflows, the kernel's or the watcher's: what is debounced is lost and
\* the flow is told.  A rescan, which may have to wait for a complete scan, tells
\* once of each file that is not as the watcher's cache has it; which of the
\* changed files the cache has already is left open.
Overflow ==
    /\ Another("Overflow") /\ natives # <<>>
    /\ \E cached \in SUBSET PathsOf(natives) :
          /\ natives' \in SetToSeqs(LastNotes(natives, PathsOf(natives) \ cached))
          /\ ours' = ours \ cached
    /\ reconcile' = TRUE
    /\ UNCHANGED <<disk, answered>>

Environment ==
    \/ \E p \in Paths, c \in world.contents : WriteFile(p, c)
    \/ \E p \in Paths : RemoveFile(p) \/ HideFile(p)
    \/ \E p, q \in Paths : MoveFile(p, q)
    \/ Overflow

\* A removal that took back a rename to this path.
Undone(n) == n.kind = "Remove" /\ n.previous # NoPath

\* The debounce of a change is over: it is reported, with the state of its file.
\* Those of a path come in their order; only a removal that took back a rename
\* ("Undo") may be younger than what is noted behind it.
Deliver(i) ==
    LET n == natives[i]
    IN  /\ \A j \in 1..i - 1 : natives[j].path = n.path
                                => "Undo" \in External /\ Undone(natives[j])
        /\ natives' = RemoveAt(natives, i)
        /\ inbox' = Append(inbox, IF n.kind = "Remove" THEN n
                                  ELSE [n EXCEPT !.stamp = disk[n.path].stamp])
    /\ UNCHANGED <<disk, reconcile, flowVars, saving, observerVars, externals,
                   commands>>

-----------------------------------------------------------------------------
(* ExternalModificationFlow: events against documents.  The flow's state is *)
(* a record, for a reconciliation ingests several events at once.           *)

Flow == [docs |-> docs, pending |-> pending, selected |-> selected,
         expectations |-> expectations]

IndexOf(list, p) == CHOOSE i \in DOMAIN list : list[i].path = p
Without(list, p) == IF p \in PathsOf(list) THEN RemoveAt(list, IndexOf(list, p)) ELSE list

\* reconcileSelection: kept while valid, else the conflict now in this place.
Reselected(f, place) ==
    [f EXCEPT !.selected =
        IF f.pending = <<>> THEN NoPath
        ELSE IF @ \in PathsOf(f.pending) THEN @
        ELSE f.pending[IF place > Len(f.pending) THEN Len(f.pending) ELSE place].path]

\* The flow's list of conflicts without this one and with that one.
Raised(list, conflict) ==
    IF conflict.path \in PathsOf(list)
    THEN [i \in DOMAIN list |->
            IF list[i].path = conflict.path THEN conflict ELSE list[i]]
    ELSE Append(list, conflict)

\* captureDiskBaseline: these bytes, if the path can be looked at.
Captured(p, content) == IF Content(p) = Absent THEN Unknown ELSE content

\* reloadWithContent; a document named and never written stays so.
Reloaded(d, p, content) ==
    [d EXCEPT !.text = content, !.decoded = content,
              !.baseline = Captured(p, content)]

\* adoptExternalRename of a document with edits: only its disk text follows.
Followed(d, p, content) ==
    [d EXCEPT !.decoded = content, !.baseline = Captured(p, content)]

\* observeDiskChange: what is there now decides what the event says.
Observed(e) ==
    LET readable == Content(e.path) \in Contents
    IN  [kind |-> IF ~readable THEN "Remove"
                  ELSE IF e.kind = "Remove" THEN "Modify" ELSE e.kind,
         content |-> IF readable THEN Content(e.path) ELSE Absent,
         unknown |-> ~readable /\ (e.kind # "Remove" \/ Content(e.path) = Unreadable)]

\* Mutant: unsaved edits do not keep the file from being adopted.
CanCleanAdoptAny(d, seen, own) == ~own /\ seen.kind # "Remove"

CanCleanAdopt(d, seen, own) == ~own /\ ~Dirty(d) /\ seen.kind # "Remove"

\* processEvent, after the checks of ingest.
Processed(f, e, seen, own) ==
    LET renamed == seen.kind = "Rename"
        source == IF renamed THEN e.previous ELSE e.path
        d == f.docs[source]
        kept == IF renamed THEN Without(f.pending, e.previous) ELSE f.pending
        settled == [f EXCEPT !.pending = Without(kept, e.path)]
        raised == [f EXCEPT !.pending = Raised(kept,
                     [path |-> e.path, removed |-> seen.kind = "Remove",
                      content |-> seen.content])]
        moved(g, new) == [g EXCEPT !.docs = [@ EXCEPT ![source] = NoDocument,
                                                      ![e.path] = new]]
        adoptable == /\ seen.content \in Texts
                     /\ renamed => f.docs[e.path] = NoDocument
    IN  IF d = NoDocument THEN f
        ELSE IF own THEN Reselected(settled, 1)
        ELSE IF CanCleanAdopt(d, seen, own) /\ adoptable
             THEN Reselected(moved(settled, Reloaded(d, e.path, seen.content)), 1)
        ELSE IF ~renamed THEN Reselected(raised, 1)
        ELSE IF adoptable
             THEN Reselected(moved(raised, Followed(d, e.path, seen.content)), 1)
        ELSE f      \* the destination is open or holds no text

\* Mutant: an event is ingested whether or not it says anything new.
SaysNothingNever(d, seen) == FALSE

\* The disk is as the document's baseline says.
SaysNothing(d, seen) ==
    ~seen.unknown /\ seen.kind # "Rename" /\ d.baseline = seen.content

\* ingest of one event.
Ingested(f, e) ==
    LET stamp == IF e.stamp # NoStamp THEN e.stamp ELSE disk[e.path].stamp
        save == [path |-> e.path, stamp |-> stamp]
        own == save \in f.expectations
        g == [f EXCEPT !.expectations = @ \ {save}]
        source == IF e.kind = "Rename" THEN e.previous ELSE e.path
        seen == Observed(e)
    IN  IF \/ g.docs[source] = NoDocument
           \/ ~own /\ SaysNothing(g.docs[source], seen)
        THEN g ELSE Processed(g, e, seen, own)

SetFlow(f) ==
    /\ docs' = f.docs /\ pending' = f.pending /\ selected' = f.selected
    /\ expectations' = f.expectations

\* A batch of events, one after the other.
IngestedAll(f, events) ==
    LET after[n \in 0..Len(events)] ==
            IF n = 0 THEN f ELSE Ingested(after[n - 1], events[n])
    IN  after[Len(events)]

\* The documents that the disk contradicts, as told to the flow: in some order.
Contradicted(f) ==
    {p \in Paths : f.docs[p] # NoDocument /\ f.docs[p].baseline # Content(p)}
Told(p) == Native(IF Content(p) = Absent THEN "Remove" ELSE "Modify",
                  p, NoPath, NoStamp)

\* reconcileAllOpenDocumentsAgainstDisk.
Reconciled(f) ==
    {IngestedAll(f, [i \in DOMAIN order |-> Told(order[i])]) :
        order \in SetToSeqs(Contradicted(f))}

\* The document of the path follows its file elsewhere.
TakesAway(e, p) == e.kind = "Rename" /\ e.previous = p

\* Pump: all that the worker handed over, under one lock.
Pump ==
    /\ saving = NoPath /\ (inbox # <<>> \/ reconcile)
    /\ LET f == IngestedAll(Flow, inbox)
       IN  \E g \in IF reconcile THEN Reconciled(f) ELSE {f} : SetFlow(g)
    /\ inbox' = <<>> /\ reconcile' = FALSE
    /\ misanswered' = {p \in misanswered : docs'[p] # NoDocument
                                           /\ docs'[p].baseline # Content(p)}
    /\ answered' = {p \in answered : \A i \in DOMAIN inbox : ~TakesAway(inbox[i], p)}
    /\ UNCHANGED <<diskVars, saving, ours, externals, commands>>

-----------------------------------------------------------------------------
(* The user: documents (src/Workspace.cpp, src/files.cpp).                  *)

Command == /\ saving = NoPath /\ commands < MaxCommands
           /\ commands' = commands + 1
           /\ UNCHANGED <<inbox, reconcile, externals>>

\* A command that leaves the disk and the conflicts alone.
OnDocuments == /\ Command
               /\ UNCHANGED <<diskVars, pending, selected, expectations, saving>>

\* The document of a path begins, is replaced or ends: what was said of the
\* one before holds no more.
SetDocument(p, d) ==
    /\ docs' = [docs EXCEPT ![p] = d]
    /\ answered' = answered \ {p} /\ misanswered' = misanswered \ {p}
    /\ ours' = ours \ {p}

FromDisk(p) == [text |-> Content(p), decoded |-> Content(p), persisted |-> TRUE,
                baseline |-> Content(p)]

OpenFile(p) ==
    /\ OnDocuments /\ ~IsOpen(p) /\ Content(p) \in Texts /\ LeftAlone(p)
    /\ SetDocument(p, FromDisk(p))

\* A file named and not written yet.
NewFile(p) ==
    /\ OnDocuments /\ "New" \in Commands
    /\ ~IsOpen(p) /\ Content(p) = Absent
    /\ SetDocument(p, [text |-> Empty, decoded |-> Empty, persisted |-> FALSE,
                       baseline |-> Unknown])

Edit(p, text) ==
    /\ OnDocuments /\ IsOpen(p) /\ text # docs[p].text
    /\ docs' = [docs EXCEPT ![p].text = text]
    /\ UNCHANGED observerVars

\* file.reload.
ReloadFile(p) ==
    /\ OnDocuments /\ "Reload" \in Commands
    /\ IsOpen(p) /\ Content(p) \in Texts
    /\ SetDocument(p, [FromDisk(p) EXCEPT !.persisted = docs[p].persisted])

CloseDocument(p) ==
    /\ OnDocuments /\ "Close" \in Commands /\ IsOpen(p)
    /\ SetDocument(p, NoDocument)

\* deleteFile; its copy in the archive is not modelled here.
DeleteFile(p) ==
    /\ Command /\ "Delete" \in Commands /\ IsOpen(p) /\ Content(p) # Absent
    /\ Changed(p, Absent, NoStamp)
    /\ SetDocument(p, NoDocument)
    /\ UNCHANGED <<pending, selected, expectations, saving>>

\* renameFile: never over another file.
RenameFile(p, q) ==
    /\ Command /\ "Rename" \in Commands
    /\ IsOpen(p) /\ ~IsOpen(q) /\ Content(p) # Absent /\ Content(q) = Absent
    /\ Moved(p, q) /\ Touched({p, q})
    /\ docs' = [docs EXCEPT ![q] = docs[p], ![p] = NoDocument]
    /\ misanswered' = misanswered \ {p, q}
    /\ UNCHANGED <<pending, selected, expectations, saving>>

\* saveTo, up to the write: a document saves over its own file, and creates
\* the file of any other name.
WriteDocument(p, q) ==
    /\ Command /\ IsOpen(p)
    /\ (docs[p].persisted /\ p = q) \/ Content(q) = Absent
    /\ Changed(q, docs[p].text, NextStamp)
    /\ saving' = q /\ ours' = (ours \ {p}) \cup {q}
    /\ docs' = [docs EXCEPT ![p] = NoDocument,
                            ![q] = [docs[p] EXCEPT !.persisted = TRUE,
                                                   !.decoded = docs[p].text]]
    /\ answered' = answered \ {p, q} /\ misanswered' = misanswered \ {p, q}
    /\ UNCHANGED <<pending, selected, expectations>>

Save(p) == WriteDocument(p, p)
SaveAs(p, q) == "SaveAs" \in Commands /\ p # q /\ ~IsOpen(q) /\ WriteDocument(p, q)

\* Mutant: the flow is not told to expect the write.
RegisterSaveUnexpected ==
    /\ saving # NoPath
    /\ docs' = [docs EXCEPT ![saving].baseline = Captured(saving, docs[saving].text)]
    /\ saving' = NoPath
    /\ UNCHANGED <<expectations, diskVars, inbox, reconcile, pending, selected,
                   observerVars, externals, commands>>

\* saveTo, after the write: the baseline, and what the watcher is to report.
RegisterSave ==
    /\ saving # NoPath
    /\ docs' = [docs EXCEPT ![saving].baseline = Captured(saving, docs[saving].text)]
    /\ expectations' = IF Content(saving) = Absent THEN expectations
                       ELSE expectations \cup {[path |-> saving,
                                                stamp |-> disk[saving].stamp]}
    /\ saving' = NoPath
    /\ UNCHANGED <<diskVars, inbox, reconcile, pending, selected, observerVars,
                   externals, commands>>

-----------------------------------------------------------------------------
(* The user: conflicts.                                                     *)

OnConflict(i) ==
    /\ Command /\ i \in DOMAIN pending
    /\ UNCHANGED <<diskVars, expectations, saving, ours>>

\* The conflict is answered: it goes, and the selection moves to the next.
Answer(i, d) ==
    LET p == pending[i].path
        f == Reselected([Flow EXCEPT !.pending = RemoveAt(pending, i),
                                     !.selected = p], i)
    IN  /\ pending' = f.pending /\ selected' = f.selected
        /\ docs' = [docs EXCEPT ![p] = d]
        /\ answered' = IF pending[i].content = Content(p) /\ ~Announced(p)
                       THEN answered \cup {p} ELSE answered
        /\ misanswered' = IF pending[i].content = Content(p)
                          THEN misanswered \ {p} ELSE misanswered \cup {p}

\* An answer that is refused only selects its conflict.
Refuse(i) ==
    /\ selected' = pending[i].path
    /\ UNCHANGED <<docs, pending, answered, misanswered>>

\* resolveReload: the content captured with the conflict replaces the text.
ReloadOffered(i) ==
    LET c == pending[i]
    IN  /\ OnConflict(i) /\ ~c.removed
        /\ IF IsOpen(c.path) /\ c.content \in Texts
           THEN Answer(i, Reloaded(docs[c.path], c.path, c.content))
           ELSE Refuse(i)

\* keepBuffer: the baseline advances to what the conflict showed.
KeepBuffer(i) ==
    LET c == pending[i]
    IN  /\ OnConflict(i)
        /\ IF IsOpen(c.path)
           THEN Answer(i, [docs[c.path] EXCEPT !.baseline =
                              IF c.removed THEN Absent ELSE c.content])
           ELSE Refuse(i)

\* The selection moves to the next or the previous conflict, around the end.
Select(step) ==
    /\ saving = NoPath /\ Len(pending) > 1 /\ selected # NoPath
    /\ selected' = pending[((IndexOf(pending, selected) - 1 + step) % Len(pending)) + 1].path
    /\ UNCHANGED <<diskVars, inbox, reconcile, docs, pending, expectations, saving,
                   observerVars, externals, commands>>

User ==
    \/ \E p \in Paths : OpenFile(p) \/ NewFile(p) \/ ReloadFile(p) \/ CloseDocument(p)
                       \/ DeleteFile(p) \/ Save(p)
    \/ \E p \in Paths, text \in Texts : Edit(p, text)
    \/ \E p, q \in Paths : RenameFile(p, q) \/ SaveAs(p, q)
    \/ RegisterSave
    \/ \E i \in DOMAIN pending : ReloadOffered(i) \/ KeepBuffer(i)
    \/ Select(1) \/ Select(Len(pending) - 1)

Next ==
    /\ Environment \/ (\E i \in DOMAIN natives : Deliver(i)) \/ Pump \/ User
    /\ UNCHANGED world

Spec == Init /\ [][Next]_vars

-----------------------------------------------------------------------------
(* Properties.                                                              *)

\* Type invariant.
TypeOK ==
    /\ disk \in [Paths -> Files]
    /\ natives \in Seq(Natives) /\ inbox \in Seq(Natives)
    /\ reconcile \in BOOLEAN
    /\ docs \in [Paths -> Documents \cup {NoDocument}]
    /\ pending \in Seq(Conflicts) /\ selected \in Paths \cup {NoPath}
    /\ expectations \subseteq [path : Paths, stamp : Nat \ {NoStamp}]
    /\ saving \in {NoPath} \cup {p \in Paths : IsOpen(p)}
    /\ answered \subseteq Paths /\ misanswered \subseteq Paths /\ ours \subseteq Paths
    /\ world \in Worlds /\ externals \in Nat /\ commands \in Nat

\* The selection names an offered conflict, and a path has one conflict at
\* most, through raising, renames, answers and refusals.
SelectionValid ==
    /\ IF pending = <<>> THEN selected = NoPath ELSE selected \in PendingPaths
    /\ \A i, j \in DOMAIN pending : pending[i].path = pending[j].path => i = j

\* Everything other programs did has reached the flow.
Quiet == natives = <<>> /\ inbox = <<>> /\ ~reconcile /\ saving = NoPath

\* The disk is not what the document's edits branch from.
Diverges(p) ==
    IF Content(p) \in Contents THEN docs[p].baseline # Content(p)
                               ELSE docs[p].baseline \in Contents

\* No change is missed: once the watcher is quiet, a document that diverges
\* from its file has its conflict offered, unless the user answered with a
\* content that was no more on disk.
DivergenceIsKnown ==
    Quiet /\ Faithful => \A p \in Paths :
        IsOpen(p) /\ Diverges(p) => p \in PendingPaths \cup misanswered

\* A conflict dismissed for what is on disk does not come back until the
\* file changes again, however many events or overflows repeat it.
AnsweredStays == answered \cap PendingPaths = {}

\* What holds of the conflicts in every world, the races included: they are
\* well formed, one of them is selected, and none was answered already
\* (processEvent, reconcileSelection, matchesExternalBaseline).
ConflictsAreSound == TypeOK /\ SelectionValid /\ AnsweredStays

\* Our own write is never offered as a conflict once it is reported, and ends
\* the one offered before.
SaveEndsConflict ==
    Quiet /\ Faithful => ours \cap PendingPaths \subseteq misanswered

\* Adopting changes never loses unsaved text: whatever events come in, in one
\* batch or several, the text stays in a document, if another one, or is what
\* a file holds.
UnsavedTextSurvives ==
    [][Pump =>
         \A p \in Paths : IsOpen(p) /\ Dirty(docs[p]) =>
            \E q \in Paths : docs[p].text \in {docs'[q].text, Content(q)}]_vars
=============================================================================
