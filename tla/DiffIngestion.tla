---------------------------- MODULE DiffIngestion ----------------------------
(***************************************************************************)
(* What the editor does with a published Git scan: it is staged against a  *)
(* copy of the diff model and of the follow model (GitDiffScanStage.cpp,   *)
(* DiffModel.cpp, FollowEditsModel.cpp) and adopted with the live diff     *)
(* documents and the target the pane is moved to (Editor.cpp), while the   *)
(* user pauses and resumes and other diffs come from external events.      *)
(*                                                                         *)
(* Git files are numbered in the order of their identities; an external    *)
(* diff has an identity of its own ("external:" and the path), so the two  *)
(* never meet.  Renamed files (previousPath) and failures of the workspace *)
(* to make a virtual document are left out.                                *)
(***************************************************************************)
EXTENDS Naturals, Sequences, FiniteSets

CONSTANTS FileCount,      \* Git files
          CodePoints,     \* what texts are made of
          Absent,         \* no file, no document
          Contents,       \* what a file can hold
          Heads,          \* what the commit can hold of every file: one baseline each
          Events,         \* external events [file, baseline, content, previous]; 0: no previous one
          Difference(_, _),        \* what computeDiff makes of a baseline and a content: [hunks, limited]
          IsDifference(_, _, _),   \* whether hunks say what changed from one text to another
          TooLong(_),              \* texts with more lines than are compared
          QueueCapacity,  \* the follow model's queue
          MaxWrites, MaxScans, MaxCommands, MaxEvents   \* bounds

Files == 1..FileCount

textOf(content) == IF content = Absent THEN <<>> ELSE content
Held == {textOf(c) : c \in Contents \cup {Absent}}

\* Evaluated once.
Differences == [baseline \in Held, target \in Held |-> Difference(baseline, target)]

Hunks == [baseStart : Nat, targetStart : Nat, base : Seq(Seq(CodePoints)), target : Seq(Seq(CodePoints))]

ASSUME DiffIngestionAssumption ==
  /\ FileCount \in Nat /\ QueueCapacity \in Nat \ {0}
  /\ Contents \subseteq Seq(CodePoints)
  /\ Heads \subseteq [Files -> Contents \cup {Absent}]
  /\ Events \subseteq [file : Files, baseline : Contents, content : Contents \cup {Absent}, previous : 0..FileCount]

\* What computeDiff promises (DiffAlignment): beyond a limit nothing, else what changed.
ASSUME DifferencesAssumption ==
  \A baseline, target \in Held :
    LET d == Differences[baseline, target]
    IN /\ d.limited \in BOOLEAN /\ d.hunks \in Seq(Hunks)
       /\ d.limited \/ IsDifference(baseline, target, d.hunks)

VARIABLES head,      \* what the commit holds of each file, or Absent
          working,   \* what each file holds, or Absent
          scans,     \* scans published and not adopted yet
          published, \* the revision of the last one published
          adopted,   \* lastGitScanRevision and, as an observer, that scan
          diff,      \* the diff model [revision, entries]
          follow,    \* the follow model
          live,      \* text of the live diff document of each identity, or Absent
          shown,     \* what the pane shows [id, line]; no identity: an ordinary document
          unseen,    \* observer: files the last scan gave a hunk while paused
          counts     \* how often each kind of step was taken

vars == <<head, working, scans, published, adopted, diff, follow, live, shown, unseen, counts>>
editorVars == <<scans, adopted, diff, follow, live, shown, unseen>>

Git(f) == <<"git", f>>
External(f) == <<"external", f>>
Ids == {Git(f) : f \in Files} \cup {External(f) : f \in Files}
NoId == <<>>
NoTarget == [id |-> NoId, deleted |-> FALSE, line |-> 0, revision |-> 0]
Unlisted == [baseline |-> Absent, content |-> Absent]
NoView == [content |-> <<>>, deleted |-> FALSE, hunks |-> <<>>, present |-> FALSE]

-----------------------------------------------------------------------------
(* The diff model.  An update returns the model, unchanged when refused.   *)

fileView(d, id) == d.entries[id]
hunksOf(d, id) == d.entries[id].hunks
identified(d) == {id \in Ids : d.entries[id].present}
View(baseline, content) ==
  [content |-> textOf(content), deleted |-> content = Absent,
   hunks |-> Differences[textOf(baseline), textOf(content)].hunks, present |-> TRUE]
withView(d, id, view, revision) == [revision |-> revision, entries |-> [d.entries EXCEPT ![id] = view]]

stale(d, revision) == revision <= d.revision
tooLarge(baseline, content) == Differences[textOf(baseline), textOf(content)].limited

updateGitFile(d, f, baseline, content, revision) ==
  IF stale(d, revision) \/ tooLarge(baseline, content) THEN d
  ELSE withView(d, Git(f), View(baseline, content), revision)

removeFile(d, id, revision) ==
  IF stale(d, revision) \/ id \notin identified(d) THEN d ELSE withView(d, id, NoView, revision)

\* An added file without hunks, until the event that seeded it is applied.
seedNonGit(d, f, content, revision) ==
  IF stale(d, revision) \/ External(f) \in identified(d) \/ TooLong(content) THEN d
  ELSE withView(d, External(f), [View(content, content) EXCEPT !.hunks = <<>>], revision)

applyNonGitEvent(d, f, baseline, content, revision) ==
  IF stale(d, revision) \/ External(f) \notin identified(d) \/ tooLarge(baseline, content) THEN d
  ELSE withView(d, External(f), View(baseline, content), revision)

-----------------------------------------------------------------------------
(* The follow model. *)

sameRange(x, y, start, lines) == x[start] = y[start] /\ Len(x[lines]) = Len(y[lines])
correspondsTo(x, y) == sameRange(x, y, "baseStart", "base") \/ sameRange(x, y, "targetStart", "target")
introduced(hunks, prior) == {k \in DOMAIN hunks : ~\E j \in DOMAIN prior : correspondsTo(hunks[k], prior[j])}

\* The last of some places in a list.
LastOf(S) == CHOOSE k \in S : \A j \in S : j <= k

newOf(change) == introduced(change.view.hunks, change.prior)
targetFor(change) ==
  [id |-> change.id, deleted |-> change.view.deleted,
   line |-> change.view.hunks[LastOf(newOf(change))].targetStart, revision |-> change.revision]

\* Without the targets of a file; with one more, in the place of the oldest when there are too many.
without(queue, id) ==
  LET kept[n \in 0..Len(queue)] ==
        IF n = 0 THEN <<>> ELSE IF queue[n].id = id THEN kept[n - 1] ELSE Append(kept[n - 1], queue[n])
  IN kept[Len(queue)]
limitedQueue(queue) == IF Len(queue) > QueueCapacity THEN Tail(queue) ELSE queue
queued(queue, target) == limitedQueue(Append(queue, target))

\* Mutant: the targets of a file are kept when its hunks change.
changeKeepingTargets(fm, change) ==
  IF newOf(change) = {} THEN [fm EXCEPT !.latest = change.revision, !.activation = NoTarget]
  ELSE [fm EXCEPT !.latest = change.revision, !.queue = queued(@, targetFor(change)), !.activation = targetFor(change)]

\* The targets of a changed file give way to one for the last of the hunks that are new.
\* Only the last change of a burst can move the pane: each one before it is forgotten.
acceptChange(fm, change) ==
  LET left == without(fm.queue, change.id)
  IN IF newOf(change) = {} THEN [fm EXCEPT !.latest = change.revision, !.queue = left, !.activation = NoTarget]
     ELSE [fm EXCEPT !.latest = change.revision, !.queue = queued(left, targetFor(change)),
                     !.activation = targetFor(change)]

\* Mutant: the pane moves while paused.
activatedWhilePaused(fm) ==
  IF fm.activation = NoTarget THEN fm
  ELSE [fm EXCEPT !.mode = "Following", !.active = fm.activation, !.activation = NoTarget]

\* What is asked for becomes active, while following only.
activated(fm) ==
  [fm EXCEPT !.active = IF fm.activation # NoTarget /\ fm.mode = "Following" THEN fm.activation ELSE @,
             !.activation = NoTarget]

revisionsRise(fm, changes) ==
  \A k \in DOMAIN changes : changes[k].revision > IF k = 1 THEN fm.latest ELSE changes[k - 1].revision
acceptExternalChanges(fm, changes) ==
  LET after[n \in 0..Len(changes)] == IF n = 0 THEN fm ELSE acceptChange(after[n - 1], changes[n])
  IN IF revisionsRise(fm, changes) THEN activated(after[Len(changes)]) ELSE fm

paused(fm) == [fm EXCEPT !.mode = "Paused"]

\* The newest queued target whose file still has hunks.
resumed(fm, d) ==
  LET open == {k \in DOMAIN fm.queue : hunksOf(d, fm.queue[k].id) # <<>>}
      newest == fm.queue[LastOf(open)]
  IN [fm EXCEPT !.mode = "Following", !.queue = <<>>,
                !.active = IF open = {} THEN @ ELSE [newest EXCEPT !.deleted = fileView(d, newest.id).deleted]]

-----------------------------------------------------------------------------
(* Staging a scan.  Every call takes a revision of its own, refused or not. *)

Stage(d) == [diff |-> d, changes |-> <<>>, statusOnly |-> {}, next |-> d.revision + 1, result |-> "Accepted"]
Rejected(stage) == [stage EXCEPT !.result = "DiffRejected"]
accepted(stage) == stage.result = "Accepted"
Changed(stage, d, id, view) ==
  [stage EXCEPT !.diff = d, !.next = @ + 1,
                !.changes = Append(@, [id |-> id, prior |-> hunksOf(stage.diff, id), revision |-> stage.next, view |-> view])]

\* A detailed Git file that is gone, or grown too large, is a change without hunks.
RemovedView == [content |-> <<>>, deleted |-> TRUE, hunks |-> <<>>, present |-> TRUE]
removeDetailedFile(stage, id) ==
  IF id \notin identified(stage.diff) THEN stage
  ELSE IF stale(stage.diff, stage.next) THEN Rejected(stage)
  ELSE Changed(stage, removeFile(stage.diff, id, stage.next), id, RemovedView)

statusOnly(stage, id) == [stage EXCEPT !.statusOnly = @ \cup {id}, !.next = @ + 1]
stageFile(stage, f, file) ==
  IF stale(stage.diff, stage.next) THEN Rejected(stage)
  ELSE IF tooLarge(file.baseline, file.content) THEN removeDetailedFile(statusOnly(stage, Git(f)), Git(f))
  ELSE Changed(stage, updateGitFile(stage.diff, f, file.baseline, file.content, stage.next),
               Git(f), View(file.baseline, file.content))

listed(scan) == {f \in Files : scan.files[f] # Unlisted}
withListed(scan, d) ==
  LET after[n \in 0..FileCount] ==
        IF n = 0 THEN Stage(d)
        ELSE IF ~accepted(after[n - 1]) \/ n \notin listed(scan) THEN after[n - 1]
        ELSE stageFile(after[n - 1], n, scan.files[n])
  IN after[FileCount]
withoutClean(stage, scan) ==
  LET after[n \in 0..FileCount] ==
        IF n = 0 THEN stage
        ELSE IF ~accepted(after[n - 1]) \/ n \in listed(scan) THEN after[n - 1]
        ELSE removeDetailedFile(after[n - 1], Git(n))
  IN after[FileCount]

stagedScan(fm, stage) ==
  [diff |-> stage.diff, changes |-> stage.changes, statusOnly |-> stage.statusOnly, mutated |-> stage.changes # <<>>,
   follow |-> acceptExternalChanges(fm, stage.changes),
   result |-> IF accepted(stage) /\ ~revisionsRise(fm, stage.changes) THEN "FollowRejected" ELSE stage.result]

\* Mutant: a file that is clean again keeps its difference.
stageWithoutRemoval(scan, d, fm) == stagedScan(fm, withListed(scan, d))
stageGitDiffScan(scan, d, fm) == stagedScan(fm, withoutClean(withListed(scan, d), scan))

Counted(kind, bound) == counts[kind] < bound /\ counts' = [counts EXCEPT ![kind] = @ + 1]

-----------------------------------------------------------------------------
(* The editor: live diff documents and the pane. *)

\* Mutant: the document of a file that is clean again keeps its text.
refreshOnlyKnown(documents, d) ==
  [id \in Ids |-> IF documents[id] = Absent \/ id \notin identified(d) THEN documents[id] ELSE fileView(d, id).content]

\* A live diff document that no longer holds what the diff says is replaced.
refreshLiveDiffDocuments(documents, d) ==
  [id \in Ids |-> IF documents[id] = Absent THEN Absent ELSE fileView(d, id).content]

\* The line a target names, or the last one of a shorter text.
lastLine(text) == Cardinality({k \in DOMAIN text : text[k] = "NL"})
lineOf(text, line) == IF line < lastLine(text) THEN line ELSE lastLine(text)

\* The target's live diff is opened or replaced and, unless deleted, its caret put on the line.
openOrRevealFollowTargetProgrammatic(documents, target) ==
  IF target.id \in identified(diff')
    THEN /\ live' = [documents EXCEPT ![target.id] = fileView(diff', target.id).content]
         /\ shown' = [id |-> target.id,
                      line |-> IF target.deleted THEN shown.line ELSE lineOf(live'[target.id], target.line)]
    ELSE live' = documents /\ UNCHANGED shown

\* A tab of a file that has no details any more is closed, and some other one comes to the front.
Remaining(documents, closed) == [id \in Ids |-> IF id \in closed THEN Absent ELSE documents[id]]
opened(documents) == {id \in Ids : documents[id] # Absent}
ComesToFront(documents) ==
  \E id \in opened(documents) \cup {NoId} : shown' = [id |-> id, line |-> shown.line]

\* The observer: what this scan brought while paused.
Brought(changes) ==
  LET new == {k \in DOMAIN changes : newOf(changes[k]) # {}}
  IN {id \in IF follow.mode = "Paused" THEN {changes[k].id : k \in new} ELSE {} : hunksOf(diff', id) # <<>>}

moves(staged) ==
  /\ staged.mutated /\ staged.follow.mode = "Following"
  /\ staged.follow.active # NoTarget /\ staged.follow.active # follow.active
ShowsScan(staged, closed, left) ==
  IF moves(staged) THEN openOrRevealFollowTargetProgrammatic(refreshLiveDiffDocuments(left, diff'), staged.follow.active)
  ELSE /\ live' = IF staged.mutated THEN refreshLiveDiffDocuments(left, diff') ELSE live
       /\ IF staged.mutated /\ shown.id \in closed THEN ComesToFront(left) ELSE UNCHANGED shown
Adopts(staged) ==
  /\ diff' = staged.diff
  /\ follow' = staged.follow
  /\ unseen' = Brought(staged.changes)
  /\ ShowsScan(staged, staged.statusOnly \cap opened(live), Remaining(live, staged.statusOnly))
adoptsStaged(staged, scan) ==
  IF scan.revision <= adopted.revision \/ ~accepted(staged)
    THEN UNCHANGED <<adopted, diff, follow, live, shown, unseen>>
    ELSE adopted' = scan /\ Adopts(staged)
applyGitDiffScan ==
  /\ scans # <<>> /\ scans' = Tail(scans)
  /\ adoptsStaged(stageGitDiffScan(Head(scans), diff, follow), Head(scans))
  /\ UNCHANGED <<head, working, published, counts>>

\* An event of a file that is open, taken against its text; a rename leaves the old identity.
withEvent(d, e) == applyNonGitEvent(d, e.file, e.baseline, e.content, d.revision + 1)
withoutPrevious(d, e) ==
  IF e.previous \in {0, e.file} THEN d ELSE removeFile(d, External(e.previous), d.revision + 1)
ExternalEvent ==
  \E e \in Events :
    /\ diff' = withoutPrevious(withEvent(seedNonGit(diff, e.file, e.baseline, diff.revision + 1), e), e)
    /\ Counted("events", MaxEvents)
    /\ UNCHANGED <<head, working, scans, published, adopted, follow, live, shown, unseen>>

-----------------------------------------------------------------------------
(* The user, and the worker and other programs around the editor.          *)

Commands(action) ==
  /\ Counted("commands", MaxCommands)
  /\ UNCHANGED <<head, working, scans, published, adopted, diff>>
  /\ action

\* A local edit, a click, a motion, another tab: all of them pause (recordNavigation,
\* notifyLocalEdit); so does the command.
Pause == follow' = paused(follow) /\ UNCHANGED <<live, shown, unseen>>

\* The target resumed to, an earlier one when nothing is queued, is opened or revealed;
\* also when the editor is following already.
Resume ==
  /\ follow.latest <= diff.revision
  /\ follow' = resumed(follow, diff)
  /\ unseen' = {}
  /\ IF follow'.active = NoTarget THEN UNCHANGED <<live, shown>>
     ELSE openOrRevealFollowTargetProgrammatic(live, follow'.active)

Toggle == IF follow.mode = "Following" THEN Pause ELSE Resume

\* The user opens the difference of a file in the tree, or of an external conflict (which
\* is no navigation), reads another document, or closes a tab.
OpenLiveDiff ==
  \E id \in identified(diff), conflict \in BOOLEAN :
    /\ conflict => id \in {External(f) : f \in Files}
    /\ live' = [live EXCEPT ![id] = fileView(diff, id).content]
    /\ shown' = [id |-> id, line |-> shown.line]
    /\ follow' = IF conflict THEN follow ELSE paused(follow)
    /\ UNCHANGED unseen

ReadAnother == shown.id # NoId /\ shown' = [id |-> NoId, line |-> 0] /\ follow' = paused(follow) /\ UNCHANGED <<live, unseen>>

CloseLiveDiff ==
  \E id \in opened(live) :
    /\ live' = [live EXCEPT ![id] = Absent]
    /\ IF shown.id = id THEN ComesToFront(live') ELSE UNCHANGED shown
    /\ UNCHANGED <<follow, unseen>>

follow_edits_pause == Commands(Pause)
follow_edits_resume == Commands(Resume)
follow_edits_toggle == Commands(Toggle)
open_live_diff == Commands(OpenLiveDiff)
read_another == Commands(ReadAnother)
close_live_diff == Commands(CloseLiveDiff)

aroundUnchanged == UNCHANGED <<scans, published, adopted, diff, follow, live, shown, unseen>>
Write ==
  \E f \in Files, content \in Contents \cup {Absent} :
    /\ working' = [working EXCEPT ![f] = content] /\ working' # working
    /\ Counted("writes", MaxWrites) /\ aroundUnchanged /\ UNCHANGED head

Commit ==
  \E h \in Heads : head' = h /\ h # head /\ Counted("writes", MaxWrites) /\ aroundUnchanged /\ UNCHANGED working

\* The worker publishes every file that differs from the commit, whichever was changed.
changed(f) == IF working[f] = head[f] THEN Unlisted ELSE [baseline |-> head[f], content |-> working[f]]
Publish ==
  /\ published' = published + 1
  /\ scans' = Append(scans, [revision |-> published', files |-> [f \in Files |-> changed(f)]])
  /\ Counted("scans", MaxScans)
  /\ UNCHANGED <<head, working, adopted, diff, follow, live, shown, unseen>>

Init ==
  /\ head \in Heads /\ working = head
  /\ scans = <<>> /\ published = 0 /\ adopted = [revision |-> 0, files |-> [f \in Files |-> Unlisted]]
  /\ diff = [revision |-> 0, entries |-> [id \in Ids |-> NoView]]
  /\ follow = [mode |-> "Following", queue |-> <<>>, active |-> NoTarget, activation |-> NoTarget, latest |-> 0]
  /\ live = [id \in Ids |-> Absent] /\ shown = [id |-> NoId, line |-> 0]
  /\ unseen = {}
  /\ counts = [writes |-> 0, scans |-> 0, commands |-> 0, events |-> 0]

Next ==
  \/ applyGitDiffScan \/ ExternalEvent
  \/ follow_edits_pause \/ follow_edits_resume \/ follow_edits_toggle
  \/ open_live_diff \/ read_another \/ close_live_diff
  \/ Write \/ Commit \/ Publish

Spec == Init /\ [][Next]_vars

-----------------------------------------------------------------------------
(* Properties. *)

TypeOK ==
  /\ identified(diff) \subseteq Ids /\ opened(live) \subseteq Ids
  /\ \A id \in Ids : diff.entries[id].hunks # <<>> => diff.entries[id].present
  /\ follow.mode \in {"Following", "Paused"} /\ Len(follow.queue) <= QueueCapacity
  /\ shown.id \in Ids \cup {NoId} /\ shown.line \in Nat

viewIn(file) == IF file = Unlisted \/ tooLarge(file.baseline, file.content) THEN NoView ELSE View(file.baseline, file.content)

\* Every scan that was handed over was adopted, none is refused as old (revision); and the
\* Git files the editor knows are those of the last one, less the ones too large to compare:
\* it never mixes two (stageGitDiffScan on copies).
DiffIsOneScan ==
  /\ TypeOK
  /\ published = adopted.revision + Len(scans)
  /\ \A f \in Files : fileView(diff, Git(f)) = viewIn(adopted.files[f])

\* A live diff of a Git file that is open shows what the diff model says of it, also
\* after the file was reverted and its document lives on (refreshLiveDiffDocuments).
LiveDiffsShowTheDiff ==
  \A f \in Files : live[Git(f)] # Absent => live[Git(f)] = fileView(diff, Git(f)).content

\* What waits for a resume is one target for each file, and each names a hunk that the
\* diff has now: no later scan leaves a target behind.  What the last scan brought while
\* paused can be resumed to; that of the scan before is forgotten (acceptExternalChanges).
QueueNamesHunks ==
  /\ \A i, j \in DOMAIN follow.queue : follow.queue[i].id = follow.queue[j].id => i = j
  /\ \A i \in DOMAIN follow.queue :
       LET t == follow.queue[i]
           hunks == hunksOf(diff, t.id)
       IN /\ \E k \in DOMAIN hunks : hunks[k].targetStart = t.line
          /\ t.deleted = fileView(diff, t.id).deleted
  /\ unseen # {} => follow.queue # <<>>

\* A scan takes the pane to another place only while following, and then to a hunk of the
\* file shown that the scan brought: not to one the diff had before.
ScansMoveToNewHunks ==
  [][LET hunks == hunksOf(diff', shown'.id)
         new == introduced(hunks, hunksOf(diff, shown'.id))
     IN adopted' # adopted /\ shown' # shown /\ shown.id \notin opened(live) \ opened(live') =>
          /\ follow.mode = "Following"
          /\ \E k \in new : shown'.line \in {shown.line, lineOf(live'[shown'.id], hunks[k].targetStart)}]_vars

=============================================================================
