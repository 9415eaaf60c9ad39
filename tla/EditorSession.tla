---------------------------- MODULE EditorSession ----------------------------
(***************************************************************************)
(* The documents of one editor and its tabs (src/TabManager.cpp), the      *)
(* commands that open, save, close and reopen them (src/files.cpp,         *)
(* src/Editor.cpp, src/Workspace.cpp), the recovery records of closed      *)
(* documents (src/RecoveryManager.cpp), and the session snapshot that      *)
(* brings unsaved tabs back after a normal exit (src/SessionSnapshot.cpp). *)
(*                                                                         *)
(* Everything here runs on the editor thread, one command at a time.       *)
(* Other programs change a file only while no document is open on it:      *)
(* what happens to an open one is ExternalModification's.  Likewise a      *)
(* rename or deletion that fails half-way is RecoveryManager's; here it    *)
(* takes one recovery record.  Live diffs and read-only output tabs,       *)
(* labels and encodings are left out.                                      *)
(***************************************************************************)
EXTENDS Naturals, Sequences, SequencesExt, FiniteSets

CONSTANTS
    Paths, Contents,
    Empty,          \* the empty text, one of Contents
    Commands,       \* the commands users give
    MaxRecords,     \* RecoveryConfig::maximumRecords
    MaxClosed,      \* TabManagerConfig::maximumRecentlyClosed
    MaxOperations,  \* bound: commands
    MaxChanges,     \* bound: changes by other programs
    MaxFailures,    \* bound: recovery or snapshot writes that fail
    MaxExits        \* bound: exits and crashes

AllCommands == {"Edit", "New", "Open", "Save", "SaveAll", "SaveAs", "Reload",
                "Rename", "Delete", "Activate", "Move", "Close", "CloseOthers",
                "CloseAll", "Reopen", "OpenDirectory"}

ASSUME SessionAssumption ==
    /\ Empty \in Contents
    /\ "untitled" \notin Paths /\ "missing" \notin Contents
    /\ Commands \subseteq AllCommands
    /\ MaxRecords \in Nat \ {0} /\ MaxClosed \in Nat \ {0}
    /\ MaxOperations \in Nat /\ MaxChanges \in Nat
    /\ MaxFailures \in Nat /\ MaxExits \in Nat

VARIABLES
    disk,           \* what the paths hold
    running,        \* an editor runs
    session,        \* its documents, tabs and recovery records
    snapshot,       \* the session snapshot: its tabs
    dropped,        \* observer: text of documents openDirectory forgot
    owed,           \* observer: unsaved texts the last normal exit showed
    blocked,        \* observer: the snapshot kept the last start from starting
    operations, changes, failures, exits

observers == <<dropped, owed, blocked>>
counters == <<operations, changes, failures, exits>>
vars == <<disk, running, session, snapshot, observers, counters>>

Missing == "missing"
Untitled == "untitled"
None == 0

\* A document: its key, text, what it was last read from or written to
\* (decoded.utf8), whether that ever was a file, and two observers: the
\* content of the file its edits branch from, and whether it was reopened
\* after that file had changed.
Document(path, text, saved, persisted) ==
    [path |-> path, text |-> text, saved |-> saved, persisted |-> persisted,
     base |-> saved, revived |-> FALSE]
Blank == Document(Untitled, Empty, Missing, TRUE)
Named(path, text) == Document(path, text, Missing, FALSE)
ReadFrom(path) == Document(path, disk[path], disk[path], TRUE)

Unsaved(d) == IF d.path = Untitled THEN d.text # Empty
                                   ELSE ~d.persisted \/ d.text # d.saved

NoSession == [documents |-> <<>>, tabs |-> <<>>, active |-> None,
              closed |-> <<>>, records |-> <<>>]

Init ==
    /\ disk \in [Paths -> Contents \cup {Missing}]
    /\ running = FALSE /\ session = NoSession /\ snapshot = <<>>
    /\ dropped = <<>> /\ owed = <<>> /\ blocked = FALSE
    /\ operations = 0 /\ changes = 0 /\ failures = 0 /\ exits = 0

-----------------------------------------------------------------------------
(* Identifiers and bounded histories.                                       *)

\* Identifiers are counted up and never used again; any unused one will do.
Fresh(used) ==
    CHOOSE n \in 1..Cardinality(used) + 1 :
        n \notin used /\ \A k \in 1..n - 1 : k \in used

Tabs(s) == ToSet(s.tabs)
FreshTab(s) == Fresh({t.id : t \in Tabs(s)} \cup {c.tab.id : c \in ToSet(s.closed)})
FreshDocument(s) == Fresh(DOMAIN s.documents \cup DOMAIN dropped)
FreshRecord(s) ==
    Fresh({r.id : r \in ToSet(s.records)} \cup {c.record : c \in ToSet(s.closed)})

\* The elements of a sequence that are in a set.
Among(seq, S) ==
    LET kept[n \in 0..Len(seq)] ==
            IF n = 0 THEN <<>>
            ELSE IF seq[n] \in S THEN Append(kept[n - 1], seq[n]) ELSE kept[n - 1]
    IN  kept[Len(seq)]

IndexOf(seq, e) == CHOOSE i \in DOMAIN seq : seq[i] = e
Newest(seq, n) == SubSeq(seq, IF Len(seq) > n THEN Len(seq) - n + 1 ELSE 1, Len(seq))
Smaller(a, b) == IF a < b THEN a ELSE b

\* sameIdentity: two tabs of the same file.
OnFile(s, path) == {t \in Tabs(s) : path # Untitled /\ t.path = path}
OfPath(s, path) == {d \in DOMAIN s.documents : s.documents[d].path = path}
ActiveTab(s) == {t \in Tabs(s) : t.id = s.active}

WithDocument(s, d, document) ==
    [s EXCEPT !.documents = [e \in DOMAIN @ \cup {d} |->
                                IF e = d THEN document ELSE @[e]]]
WithoutDocument(s, d) ==
    [s EXCEPT !.documents = [e \in DOMAIN @ \ {d} |-> @[e]]]

\* Mutant: tabs keep the path they were opened with.
NotSynced(s, d) == s

\* updateTabsFor.
Synced(s, d) ==
    [s EXCEPT !.tabs = [i \in DOMAIN @ |->
        IF @[i].document = d THEN [@[i] EXCEPT !.path = s.documents[d].path]
                             ELSE @[i]]]

\* prepareAndPerform publishes the record, then enforceBudgets evicts.
Journaled(s, record) == [s EXCEPT !.records = Newest(Append(@, record), MaxRecords)]
FileRecord(s) == [id |-> FreshRecord(s), kind |-> "File"]
DocumentRecord(s, d) ==
    [id |-> FreshRecord(s), kind |-> "Document", document |-> s.documents[d],
     taken |-> FALSE]

-----------------------------------------------------------------------------
(* TabManager and the close and open paths of the editor.                   *)

\* Removing the tab at a position activates the one to its right, or the last.
WithoutTab(s, i) ==
    LET rest == RemoveAt(s.tabs, i)
    IN  [s EXCEPT !.tabs = rest,
                  !.active = IF rest = <<>> THEN None
                             ELSE IF @ = s.tabs[i].id THEN rest[Smaller(i, Len(rest))].id
                             ELSE @]

\* closeTab and closeAt but for the tab itself: the document goes, its record
\* and the history entry with the tab's position stay.
Closable(s, t) == t.document \in DOMAIN s.documents
Retired(s, t, place) ==
    LET record == DocumentRecord(s, t.document)
    IN  [WithoutDocument(Journaled(s, record), t.document) EXCEPT
            !.closed = Newest(Append(@, [tab |-> t, index |-> place, record |-> record.id]),
                              MaxClosed)]
ClosedAs(s, i, place) == WithoutTab(Retired(s, s.tabs[i], place), i)
ClosedAt(s, i) == ClosedAs(s, i, i)

\* A closing that is refused after its record was published: enforceBudgets
\* could not evict another.
Stored(s, t) ==
    [s EXCEPT !.records = IF Len(@) >= MaxRecords
                          THEN Append(@, DocumentRecord(s, t.document)) ELSE @]

\* closeBatch: left to right, each with the position it had; the next closing
\* evicts what a refused one left.
ClosedEach(s, positions, stored) ==
    LET after[n \in 0..Len(s.tabs)] ==
            IF n = 0 THEN s
            ELSE IF n \in positions
                 THEN ClosedAs(after[n - 1], IndexOf(after[n - 1].tabs, s.tabs[n]), n)
            ELSE IF n \in stored THEN Stored(after[n - 1], s.tabs[n])
                 ELSE after[n - 1]
    IN  after[Len(s.tabs)]

\* Then the active tab stays or is replaced by the first survivor at or right
\* of it, else by the last.
ClosedBatch(s, positions, stored) ==
    LET left == ClosedEach(s, positions, stored)
        right == {k \in DOMAIN s.tabs : /\ s.tabs[k] \in Tabs(left)
                                       /\ \E j \in 1..k : s.tabs[j].id = s.active}
        first == CHOOSE k \in right : \A j \in right : k <= j
    IN  [left EXCEPT !.active = IF left.tabs = <<>> THEN None
                                ELSE IF right # {} THEN s.tabs[first].id
                                ELSE Last(left.tabs).id]

\* openDocument.
WithTab(s, d) ==
    LET path == s.documents[d].path
        tab == [id |-> FreshTab(s), document |-> d, path |-> path]
    IN  IF OnFile(s, path) # {}
        THEN [s EXCEPT !.active = (CHOOSE t \in OnFile(s, path) : TRUE).id]
        ELSE [s EXCEPT !.tabs = Append(@, tab), !.active = tab.id]

\* Mutant: any sole untitled tab gives way.
DisposableWithText(s, d) ==
    /\ Len(s.tabs) = 1 /\ s.tabs[1].path = Untitled
    /\ s.tabs[1].document \in DOMAIN s.documents \ {d}

\* activateDocument: a sole blank untitled tab gives way to the document,
\* unless its record cannot be written.
Disposable(s, d) ==
    /\ Len(s.tabs) = 1 /\ s.tabs[1].path = Untitled
    /\ s.tabs[1].document \in DOMAIN s.documents \ {d}
    /\ s.documents[s.tabs[1].document].text = Empty

Activated(s, d, kept) ==
    IF Disposable(s, d) /\ ~kept THEN ClosedAt(WithTab(s, d), 1) ELSE WithTab(s, d)

OpenedNew(s, document, kept) ==
    LET d == FreshDocument(s) IN Activated(WithDocument(s, d, document), d, kept)

\* Workspace::openFile on a file that exists.
OpenedFile(s, path, kept) ==
    IF OfPath(s, path) # {}
    THEN Activated(s, CHOOSE d \in OfPath(s, path) : TRUE, kept)
    ELSE OpenedNew(s, ReadFrom(path), kept)

-----------------------------------------------------------------------------
(* Commands.                                                                *)

Command(c) == /\ running /\ c \in Commands
              /\ operations < MaxOperations /\ operations' = operations + 1
              /\ UNCHANGED <<running, snapshot, owed, blocked, changes, exits>>
NoFailure == UNCHANGED failures
Fails == failures < MaxFailures /\ failures' = failures + 1
Becomes(s) == session' = s
Keeps(variables) == UNCHANGED <<dropped, variables>>

\* The document of the active tab; a stranded tab has none.
ActiveDocument ==
    {t.document : t \in {u \in ActiveTab(session) : Closable(session, u)}}
Doc(d) == session.documents[d]
SetDocument(d, document) == WithDocument(session, d, document)

Edit == \E d \in ActiveDocument, text \in Contents :
    /\ Command("Edit") /\ text # Doc(d).text
    /\ Becomes(SetDocument(d, [Doc(d) EXCEPT !.text = text]))
    /\ NoFailure /\ Keeps(disk)

\* closeTab of a blank buffer may fail; the open has succeeded by then, and
\* the record of the buffer may be stored.
Kept(kept, d) == IF kept THEN Disposable(session, d) /\ Fails ELSE NoFailure
ShownWith(opened, kept) ==
    Becomes(opened) \/ (kept /\ Becomes(Stored(opened, session.tabs[1])))

New == \E kept \in BOOLEAN :
    /\ Command("New") /\ Kept(kept, None)
    /\ ShownWith(OpenedNew(session, Blank, kept), kept) /\ Keeps(disk)

Open == \E path \in Paths, kept \in BOOLEAN :
    /\ Command("Open") /\ Kept(kept, None)
    /\ disk[path] # Missing
    /\ ShownWith(OpenedFile(session, path, kept), kept) /\ Keeps(disk)

\* saveTo: the only overwrite is of the document's own file.
Written(d, path) ==
    [d EXCEPT !.path = path, !.saved = d.text, !.persisted = TRUE,
              !.base = d.text, !.revived = FALSE]
MayWrite(d, path) == (d.path = path /\ d.persisted) \/ disk[path] = Missing

Save == \E d \in ActiveDocument :
    LET path == Doc(d).path IN
    /\ Command("Save")
    /\ path # Untitled /\ MayWrite(Doc(d), path)
    /\ disk' = [disk EXCEPT ![path] = Doc(d).text]
    /\ Becomes(SetDocument(d, Written(Doc(d), path)))
    /\ NoFailure /\ Keeps(<<>>)

SavedByAll == {d \in DOMAIN session.documents :
                 /\ Unsaved(Doc(d)) /\ Doc(d).path # Untitled
                 /\ MayWrite(Doc(d), Doc(d).path)}
SaveAll ==
    /\ Command("SaveAll")
    /\ disk' = [p \in Paths |->
                  LET on == {d \in SavedByAll : Doc(d).path = p}
                  IN  IF on = {} THEN disk[p] ELSE Doc(CHOOSE d \in on : TRUE).text]
    /\ Becomes([session EXCEPT !.documents = [d \in DOMAIN @ |->
                  IF d \in SavedByAll THEN Written(@[d], @[d].path) ELSE @[d]]])
    /\ NoFailure /\ Keeps(<<>>)

SaveAs == \E d \in ActiveDocument, path \in Paths :
    /\ Command("SaveAs")
    /\ OfPath(session, path) \subseteq {d} /\ MayWrite(Doc(d), path)
    /\ disk' = [disk EXCEPT ![path] = Doc(d).text]
    /\ Becomes(Synced(SetDocument(d, Written(Doc(d), path)), d))
    /\ NoFailure /\ Keeps(<<>>)

Reload == \E d \in ActiveDocument :
    LET path == Doc(d).path IN
    /\ Command("Reload")
    /\ path # Untitled /\ disk[path] # Missing
    /\ Becomes(SetDocument(d, [ReadFrom(path) EXCEPT !.persisted = Doc(d).persisted]))
    /\ NoFailure /\ Keeps(disk)

Rename == \E d \in ActiveDocument, path \in Paths :
    LET from == Doc(d).path IN
    /\ Command("Rename")
    /\ from \in Paths \ {path} /\ disk[from] # Missing
    /\ OfPath(session, path) = {} /\ disk[path] = Missing
    /\ disk' = [disk EXCEPT ![path] = disk[from], ![from] = Missing]
    /\ Becomes(Journaled(Synced(SetDocument(d, [Doc(d) EXCEPT !.path = path]), d),
                         FileRecord(session)))
    /\ NoFailure /\ Keeps(<<>>)

\* deleteActiveFile: dropDocument removes the document's tabs.
Delete == \E i \in DOMAIN session.tabs :
    LET t == session.tabs[i] IN
    /\ Command("Delete")
    /\ t.id = session.active /\ Closable(session, t)
    /\ t.path # Untitled /\ disk[t.path] # Missing
    /\ disk' = [disk EXCEPT ![t.path] = Missing]
    /\ Becomes(Journaled(WithoutTab(WithoutDocument(session, t.document), i),
                         FileRecord(session)))
    /\ NoFailure /\ Keeps(<<>>)

\* activateTab, next and previous.
Activate == \E t \in Tabs(session) :
    /\ Command("Activate") /\ t.id # session.active
    /\ Becomes([session EXCEPT !.active = t.id])
    /\ NoFailure /\ Keeps(disk)

\* moveLeft and moveRight of the active tab: neighbours change places.
Move == \E i \in 1..Len(session.tabs) - 1 :
    /\ Command("Move")
    /\ session.active \in {session.tabs[i].id, session.tabs[i + 1].id}
    /\ Becomes([session EXCEPT !.tabs[i] = session.tabs[i + 1],
                               !.tabs[i + 1] = session.tabs[i]])
    /\ NoFailure /\ Keeps(disk)

-----------------------------------------------------------------------------
(* Closing, reopening, opening a directory.                                 *)

\* closeDocument may fail to store the record, or store it and fail to evict
\* another; either way the tab stays open.
RefusedClose(t) == Fails /\ (UNCHANGED session \/ Becomes(Stored(session, t)))

Close == \E i \in DOMAIN session.tabs :
    /\ Command("Close") /\ Closable(session, session.tabs[i])
    /\ \/ Becomes(ClosedAt(session, i)) /\ NoFailure
       \/ RefusedClose(session.tabs[i])
    /\ Keeps(disk)

\* Stranded tabs stay, and at most one close is refused.
CloseSeveral(command, targets) ==
    LET closable == {i \in targets : Closable(session, session.tabs[i])} IN
    /\ Command(command) /\ closable # {}
    /\ \/ Becomes(ClosedBatch(session, closable, {})) /\ NoFailure
       \/ Fails /\ \E i \in closable : \E stored \in SUBSET {i} :
                       Becomes(ClosedBatch(session, closable \ {i}, stored))
    /\ Keeps(disk)
CloseAll == CloseSeveral("CloseAll", DOMAIN session.tabs)
CloseOthers ==
    CloseSeveral("CloseOthers",
        {i \in DOMAIN session.tabs : session.tabs[i].id # session.active})

\* restoreDocument removes the record before the file is opened; when the
\* removal fails the record stays, and gives no text a second time.
Reopened(record) ==
    LET document == record.document
        c == Last(session.closed)
        d == FreshDocument(session)
        new == IF document.path = Untitled THEN [Blank EXCEPT !.text = document.text]
               ELSE [ReadFrom(document.path) EXCEPT
                        !.text = document.text,
                        !.base = IF document.text = disk[document.path]
                                 THEN document.text ELSE document.base,
                        !.revived = document.text # disk[document.path]
                                    /\ document.base # disk[document.path]]
    IN  [WithDocument(session, d, new) EXCEPT
            !.records = Among(@, ToSet(@) \ {record}),
            !.closed = Front(@),
            !.tabs = InsertAt(@, Smaller(c.index, Len(@) + 1),
                              [c.tab EXCEPT !.document = d]),
            !.active = c.tab.id]

Forgotten(record) ==
    [session EXCEPT !.records = Among(@, ToSet(@) \ {record})]

ReopenStored(record) ==
    \/ /\ ~record.taken /\ NoFailure
       /\ IF record.document.path = Untitled \/ disk[record.document.path] # Missing
          THEN Becomes(Reopened(record)) ELSE Becomes(Forgotten(record))
    \/ record.taken /\ NoFailure /\ Becomes(Forgotten(record))
    \/ /\ Fails
       /\ Becomes([session EXCEPT !.records = [i \in DOMAIN @ |->
                     IF @[i] = record THEN [record EXCEPT !.taken = TRUE] ELSE @[i]]])

Reopen ==
    /\ Command("Reopen") /\ session.closed # <<>>
    /\ LET c == Last(session.closed)
           open == OnFile(session, c.tab.path)
       IN  \/ /\ open # {} /\ NoFailure
              /\ Becomes([session EXCEPT !.active = (CHOOSE t \in open : TRUE).id,
                                         !.closed = Front(@)])
           \/ /\ open = {}
              /\ \E r \in ToSet(session.records) : r.id = c.record /\ ReopenStored(r)
    /\ Keeps(disk)

\* Workspace::openDirectory forgets every document, the tabs keep theirs.  The
\* directory chosen is the current one, so paths go on meaning the same files.
OpenDirectory ==
    /\ Command("OpenDirectory")
    /\ dropped' = [d \in DOMAIN session.documents \cup DOMAIN dropped |->
                     IF d \in DOMAIN dropped THEN dropped[d]
                     ELSE IF Unsaved(Doc(d)) THEN Doc(d).text ELSE Empty]
    /\ Becomes([session EXCEPT !.documents = <<>>])
    /\ NoFailure /\ UNCHANGED disk

-----------------------------------------------------------------------------
(* Exit, crash, start, and other programs.                                  *)

\* saveSession: unsaved tabs of the documents the workspace still has.
Backing(d) == IF d.path = Untitled THEN "Untitled"
              ELSE IF d.persisted THEN "PersistedPath" ELSE "NeverCreatedPath"
SavedTab(t) == [backing |-> Backing(Doc(t.document)), document |-> Doc(t.document),
                active |-> session.active = t.id]
SessionSnapshot ==
    LET saved == Among(session.tabs,
                       {t \in Tabs(session) : Closable(session, t)
                                              /\ Unsaved(Doc(t.document))})
    IN  [i \in DOMAIN saved |-> SavedTab(saved[i])]

\* What the tabs showed as unsaved, and whether openDirectory forgot it.
Shown(t) == IF Closable(session, t)
            THEN [text |-> IF Unsaved(Doc(t.document)) THEN Doc(t.document).text ELSE Empty,
                  abandoned |-> FALSE]
            ELSE [text |-> dropped[t.document], abandoned |-> TRUE]
ShownUnsaved == SelectSeq([i \in DOMAIN session.tabs |-> Shown(session.tabs[i])],
                          LAMBDA u : u.text # Empty)

Ends == /\ running /\ exits < MaxExits
        /\ running' = FALSE /\ exits' = exits + 1
        /\ session' = NoSession /\ dropped' = <<>>
        /\ UNCHANGED <<disk, blocked, operations, changes>>

\* The normal exit; an exit that cannot write the snapshot says so.
Quit == /\ Ends
        /\ \/ snapshot' = SessionSnapshot /\ owed' = ShownUnsaved /\ NoFailure
           \/ Fails /\ UNCHANGED <<snapshot, owed>>

\* A signal, an exception or the end of the machine.
Crash == Ends /\ UNCHANGED <<snapshot, owed, failures>>

\* Mutant: a draft goes back over its file whatever became of it.
RestoredOver(saved) == saved.document

\* restoreSession: where the draft goes depends on the file it was made from.
\* The snapshot keeps rawBytes as the baseline, which is what is in saved.
Restored(saved) ==
    LET d == saved.document
        now == IF d.path = Untitled THEN Missing ELSE disk[d.path]
    IN  CASE saved.backing = "Untitled" -> [Blank EXCEPT !.text = d.text]
          [] saved.backing # "Untitled" /\ now = Missing -> Named(d.path, d.text)
          [] saved.backing = "PersistedPath" /\ now = d.text -> ReadFrom(d.path)
          [] saved.backing = "PersistedPath" /\ now = d.saved /\ now # d.text -> d
          [] OTHER -> [Blank EXCEPT !.text = d.text]

RestoreTab(r, saved) ==
    LET s == OpenedNew(r.session, Restored(saved), FALSE)
    IN  [session |-> s,
         active |-> IF saved.active THEN s.active ELSE r.active]
RestoredSession ==
    LET after[n \in 0..Len(snapshot)] ==
            IF n = 0 THEN [session |-> NoSession, active |-> None]
            ELSE RestoreTab(after[n - 1], snapshot[n])
    IN  after[Len(snapshot)]

\* openStartupTarget, and a blank buffer when there is nothing to show.
WithTarget(s, target) ==
    IF target \notin Paths THEN s
    ELSE IF disk[target] # Missing \/ OfPath(s, target) # {}
         THEN OpenedFile(s, target, FALSE)
         ELSE OpenedNew(s, Named(target, Empty), FALSE)
Started(s, target) ==
    LET t == WithTarget(s, target)
    IN  IF t.tabs = <<>> THEN OpenedNew(t, Blank, FALSE) ELSE t

\* createEditor fails when the tab that was active cannot be activated again.
Start == \E target \in Paths \cup {None} :
    LET restored == RestoredSession
        chosen == [restored.session EXCEPT
                      !.active = IF restored.active = None THEN @ ELSE restored.active]
    IN  /\ ~running /\ ~blocked
        /\ IF ActiveTab(chosen) = {} /\ snapshot # <<>>
           THEN blocked' = TRUE /\ UNCHANGED <<running, session>>
           ELSE /\ running' = TRUE /\ UNCHANGED blocked
                /\ session' = Started(chosen, target)
        /\ UNCHANGED <<disk, snapshot, dropped, owed, counters>>

\* Another program writes or removes a file no document is open on.
Change == \E path \in Paths, content \in Contents \cup {Missing} :
    /\ changes < MaxChanges /\ changes' = changes + 1
    /\ OfPath(session, path) = {} /\ disk[path] # content
    /\ disk' = [disk EXCEPT ![path] = content]
    \* A start that was refused may succeed now.
    /\ blocked' = FALSE
    /\ UNCHANGED <<running, session, snapshot, dropped, owed, operations, failures, exits>>

Next ==
    \/ Edit \/ New \/ Open \/ Save \/ SaveAll \/ SaveAs \/ Reload
    \/ Rename \/ Delete \/ Activate \/ Move
    \/ Close \/ CloseOthers \/ CloseAll \/ Reopen \/ OpenDirectory
    \/ Quit \/ Crash \/ Start \/ Change

Spec == Init /\ [][Next]_vars

-----------------------------------------------------------------------------
(* Properties.                                                              *)

Documents == [path : Paths \cup {Untitled}, text : Contents,
              saved : Contents \cup {Missing}, persisted : BOOLEAN,
              base : Contents \cup {Missing}, revived : BOOLEAN]
Ids == Nat \ {0}
TabStates == [id : Ids, document : Ids, path : Paths \cup {Untitled}]

\* Tab ids are unique and the active one is a tab's, histories stay within
\* their bounds (a refused eviction may exceed the records' by its failure),
\* and no two records share an id.
TypeOK ==
    /\ disk \in [Paths -> Contents \cup {Missing}]
    /\ running \in BOOLEAN /\ blocked \in BOOLEAN
    /\ session.documents \in [DOMAIN session.documents -> Documents]
    /\ session.tabs \in Seq(TabStates)
    /\ Cardinality({t.id : t \in Tabs(session)}) = Len(session.tabs)
    /\ IF session.tabs = <<>> THEN session.active = None ELSE ActiveTab(session) # {}
    /\ session.closed \in Seq([tab : TabStates, index : Ids, record : Ids])
    /\ Len(session.closed) <= MaxClosed
    /\ Len(session.records) <= MaxRecords + failures
    /\ Cardinality({r.id : r \in ToSet(session.records)}) = Len(session.records)
    /\ running <=> session # NoSession

\* The workspace and the tab manager never disagree: every document has
\* exactly one tab, the tab knows the path the document is at, and no file is
\* open twice, through renames, saves under another name, deletions, closings
\* in groups and reopenings.  Only openDirectory breaks it.
TabsMirrorWorkspace ==
    TypeOK /\ (dropped = <<>> =>
        /\ {t.document : t \in Tabs(session)} = DOMAIN session.documents
        /\ Cardinality(DOMAIN session.documents) = Len(session.tabs)
        /\ \A t \in Tabs(session) : t.path = Doc(t.document).path
        /\ \A p \in Paths : Cardinality(OfPath(session, p)) <= 1)

\* The text of an open document was edited from what its file now holds, so
\* that saving it never overwrites a change its user has not seen: whatever
\* happened to the file between two sessions or while its tab was closed.  A
\* tab reopened after its file changed is the exception (Editor::reopenTab).
EditsBranchFromDisk ==
    \A d \in DOMAIN session.documents :
        Doc(d).path # Untitled /\ Doc(d).persisted /\ ~Doc(d).revived
            => disk[Doc(d).path] = Doc(d).base

\* Every start after a normal exit shows the texts that were unsaved at it, in
\* the same order (README: restoration of unsaved editable tabs after a normal
\* exit), whatever crashes, failing exits and changes of files lie between.
\* Only a text that openDirectory forgot does not come back.
Texts == SelectSeq([i \in DOMAIN session.tabs |->
                       Doc(session.tabs[i].document).text], LAMBDA x : x # Empty)
UnsavedTabsReturnUnlessAbandoned ==
    [][Start /\ running' =>
          LET kept == SelectSeq(owed, LAMBDA u : ~u.abandoned)
          IN  IsPrefix([i \in DOMAIN kept |-> kept[i].text], Texts')]_vars
=============================================================================
