# A verification development for ssg

ssg is a terminal text editor in C++20: one window of tabs, unsaved text that
survives an exit, files that other programs may change at any time, a live view
of what Git says changed, and highlighting that never makes typing wait. This
directory holds TLA+ models of it: of the parts where order, failure and
concurrency decide whether it is right, and of the algorithms under them, from
the bytes of a terminal and of a file to the cells of a pane. TLC configurations
check them on small instances, and TLAPS checks theorems about them for all.

Paths are those of the repository: `src/*.cpp`, `include/ssg/*.h`, `tests/`,
`doc/`. `PROJECT.json` lists the components, what every run checks, the lines
each definition stands for (`map`), a mutant of the code for each property, the
hazards and the theorems.

Run from this directory:

    tlc -workers 2 -config syntax_worker.cfg MCSyntaxWorker.tla
    tlapm GitDiffWorkerProofs.tla

Contents: 1 the system, 2 the modules, 3 the runs and their bounds, 4 fairness,
5 proofs, 6 disagreements between the code and what is said of it, 7 what is not
modelled, 8 the plan.

## 1. The system

Almost everything runs on one thread, the editor thread: `main.cpp` waits for
terminal bytes or a wake byte, gives input to the `Editor`, pumps the results of
background work, and presents a frame. Two other threads exist, the Git worker
and the syntax worker. Each owns its inputs, does its slow work outside its
mutex, and hands results over through a queue under the mutex and one byte that
ends the event loop's wait. A mutex in `Editor` and one in
`ExternalModificationFlow` keep callers of the library interface apart; the
program itself never contends for them.

| Component | State | Operations | Talks to |
|---|---|---|---|
| Git worker (`GitDiffWorker`) | deadlines, watchers, retry; queues of scans and watch events; availability flag | start, poll, scan, stage, notify; `drain`; destructor | `GitDiffSource`, the watchers, `Editor::pump` |
| Git source (`GitDiffSource`, `GitRepository`) | last tree, revision, branch | full, path and branch scans | `git` |
| Diff and follow (`DiffModel`, `GitDiffScanStage`, `FollowEditsModel`) | adopted scan, hunks, follow mode | adopt a scan, navigate | worker, tabs |
| Syntax worker and model | one request per document; running parse; completions; displayed view and pending request per document | `submit`, `cancel`, `run`, `drain`; `request`, `accept` | parser, `Editor::pumpSyntax` |
| Watcher (`FilesystemWatcher`) | native changes within the debounce, pairs of renames, baselines | normalize, flush, overflow | Git worker |
| External modification flow | conflicts in order, the selection, saves it expects | `ingest`, reconcile, reload, keep, select | watcher events, workspace, tabs |
| Workspace | documents with their disk baselines, root | open, new, save, save as, reload, rename, delete, close, restore | disk, recovery manager, archive |
| Recovery manager | record directories, their order | prepare, activate, mutate, publish, roll back, evict, load; closed documents | disk |
| Archive and durable store | copies of deleted files | archive, prune | disk |
| Tabs and panes | tabs in order, the active one, recently closed ones; splits | open, activate, move, close one or many, reopen | editor, workspace |
| Session snapshot | the unsaved tabs of a normal exit | save, load | editor |
| Document, history, piece tree | text, revision, undo and redo units | apply, undo, redo | workspace, editing |
| Editing, selection, clipboard | selections, registers | motions, selection and line commands, typing, cut, paste | documents |
| Find, search, pickers | query, options, matches; candidates and the picker's number | find, replace one or all, rank, submit | documents, files |
| Terminal input | bytes not decoded yet, the wait for an escape, the probe | read, decode, time out, answer | terminal, event loop |
| Keymap, screen state, prompts | bindings; panel, prompt, picker, bar, modes, base focus | route a key or a click, run a command | commands, client |
| Layout and viewport | rows of a pane, scroll position, desired column | lay out, scroll, hit | documents, diff |
| Rendering and output | the grid last presented | paint, send the difference | terminal |
| Settings, encodings | resolved settings; encoding and line ends of each document | parse, decode, encode | files, workspace |

What is hard, by component, and what makes each correct:

* Git worker. The worker notifies only for the first thing it queues and does so
  outside the mutex; the editor consumes the byte before it takes the queues;
  the watcher's availability is an atomic that neither the queues nor the mutex
  cover; scans fail, watchers die, the kernel overflows, and three deadlines
  decide when to look again. Correct: nothing queued waits for a byte nobody
  sends, scans are adopted in order, no change is forgotten, and the editor
  comes to show the repository.
* Syntax worker. Requests are superseded while queued, parsing or done; text,
  language and documents change meanwhile. Correct: a view is shown only for the
  text it was made from, nothing that waits for a parse waits in vain.
* External modification. Events are merged, delayed, lost, caused by the editor
  itself. Correct: a document that no longer branches from its file is known to,
  own saves are no conflicts, answers are final, unsaved text survives.
* Recovery. A rename or deletion is several system calls, each may fail, its
  undoing too, and the process may die anywhere. Correct: operations are atomic
  and no content is lost.
* Tabs, documents and the session. Two structures mirror each other through
  sixteen commands, and the snapshot meets files that changed. Correct: one tab
  per document and file, edits branch from what is on disk, unsaved text returns.
* Diff and follow. A scan changes the diff, the queue of the follow mode, open
  live diffs and the pane, and may be refused at any file; external diffs and the
  user come in between. Correct: all of a scan or nothing, and everything that
  names a hunk names one that is there.
* Find bar. Its matches are offsets into a text that edits, undo, other programs
  and tab switches replace. Correct: they are always those of the text shown.
* Terminal input. The bytes are cut anywhere, replies come among the keys, and a
  lone escape is told from a sequence by a clock. Correct: what is routed is what
  was typed, however it was read.
* Focus. Nine flags say who gets the next key, in two different ways, and the
  client shows a picker the editor may have replaced. Correct: whoever holds the
  keys is there and shown, and an opening runs one candidate.
* The text pane, the history and the encodings are sequential. What can go wrong
  there is an edge of a computation (a wide cluster at the right edge, the last
  line without an end, a byte order mark) that tests reach one at a time, or
  state kept from an earlier text: a scroll position, a unit of the history, the
  ends of lines.

## 2. The modules

| Module | Stands for | Abstract specification |
|---|---|---|
| `HandOff` | what both workers promise the editor thread | (is one) |
| `GitDiffWorker` | worker thread, Git source, watchers and editor pump | `HandOff` |
| `SyntaxWorker` | worker thread, `SyntaxModel` of every document, the editor's calls | `HandOff` |
| `ExternalModification` | disk, watcher, workspace baselines and the conflict flow | |
| `RecoveryManager` | renames and deletions with their records and the archive | `AtomicFiles` |
| `AtomicFiles` | what rename and delete promise | (is one) |
| `EditorSession` | documents, tabs, closed tabs, the snapshot, start and exit | |
| `DocumentHistory` | document, undo history, text input, clipboard register | `EditHistory` |
| `EditHistory` | what undo and redo promise | (is one) |
| `GraphemeLayout`, `TextGeometry` | clusters and cells of a line; rows, viewport and scrolling of a pane | (the Unicode rules, as properties) |
| `SelectionNavigation`, `TextEditing` | positions, selections and all commands that move them; all commands that change a text | |
| `TextPane` | a document in a pane: keys, pointer, wheel, edits, frames | |
| `DiffAlignment` | the difference of two texts, with words and limits | (its definition, as properties) |
| `DiffIngestion` | diff model, scan stage, follow mode, live diffs, for any way to compare two texts | |
| `DiffReview` | both together, and the keys from hunk to hunk | |
| `FindMatching` | parser and matcher of the search | (a second reading of patterns) |
| `FindReplace` | the find bar over documents that change | |
| `TerminalInput` | decoder, probe, and the loop that reads and waits | |
| `Keymap`, `PaletteSearcher` | bindings and chords; ranking of candidates and the edits of a query | |
| `InputFocus` | screen state, prompts, routing, commands, client and frame | |
| `TextCodec`, `DocumentEncoding` | the five encodings; what a document keeps of its file | |
| `GitDiffWorkerProofs`, `SyntaxWorkerProofs`, `ExternalModificationProofs`, `RecoveryManagerProofs`, `EditorSessionProofs`, `InputFocusProofs`, `DiffIngestionProofs` | theorems about the module of that name | |
| `SequenceLemmas` | what taking one element out of a sequence, keeping some or adding one leaves, and what a loop over one carries, for the proofs | |
| `MC...` | the symmetries and small values with which TLC checks the module of that name | |

A definition whose name ends in what a bug would do (`DeleteKeepsTab`,
`TakeClears`, ...) and whose comment begins with "Mutant" is used by no
specification. It is the form of the next definition that a plausible bug would
give the code, and TLC finds the named property violated with it.

**GitDiffWorker.** `pc` is the worker's place in `run()`; every action from
`Start` to `RefreshOnBackstop` is the code between two points where the editor
thread can see a difference: a lock, a notification, a system call, a scan. The
editor's side is `Construct`, `Consume`, `PublishAvailability`, `Swap`,
`AdoptScan`, `IngestEvents`, `Stop`, `Join`. A tree is a version per file and
one for HEAD, read apart from the branch as `refresh` does. Deadlines are flags
that passing time sets. `Fail` is each way a scan or a watcher fails. The
observer `unseen` holds the files changed and not reconciled.

**SyntaxWorker.** A request is its serial number, document, revision and
language. `Refresh` is `refreshDocumentSyntax` and everything it calls:
`SyntaxModel::request`, its refusals, and `SyntaxWorker::submit` with the
cancellations. The operations are the ways the editor changes, shows or closes a
document; `ChangeBehind` is a change adopted behind the active tab, for which the
code asks no parse. A parse is one step, its outcome whatever the flag and the
parser allow.

**ExternalModification.** The disk has contents and stamps. `natives` is the
watcher's normalizer: `Enqueued` merges a change with the last one of its path,
but notes a file made where another was removed apart from the removal (`another`:
the identities the code compares are left open), and `Renamed` is what a paired
rename notes; a rename undone by a removal puts a second change of its source among
them. After an `Overflow` the flow compares every document with the disk, and the
rescan still tells, once each, of the changed files its cache did not have yet:
which those are is left open, and so is when, for an incomplete scan is retried.
`Deliver` ends the debounce of one change, of a path in their order, and adds
the state of its file. `Ingested`,
`Processed` and `Reselected` are the flow; `Pump` ingests all that was delivered,
then reconciles if told to. A save is two steps, `WriteDocument` and
`RegisterSave`, because other programs act in between. What other programs may
do is part of a world (`Worlds`, chosen in the initial state): "Race" adds a write in the window between a save
and its registration or before the watcher has told of a file; "Replace" a
rename over a file of the workspace, "MoveAgain" a second move before the flow
has followed the first. "Undo" is a file moved and then removed at its new place
although at its old one something changed again, which leaves notes of that path
whose order is not that of the changes. `DivergenceIsKnown` and `SaveEndsConflict` speak of the worlds without the
first three, since the code gives no promise there (section 6); the other
properties of all.
Observers: `answered`, the conflicts dismissed for what is on disk while no older
change of the file was on its way (`Announced`); `misanswered`, those dismissed
for something else; `ours`, the files whose last write is their document's.

**RecoveryManager.** `step` is the place in `prepareAndPerform` or
`loadRecords`; each action is one step that can fail or be cut off by a crash.
A record is its snapshots and which of its files exist. Nothing is excluded: other
programs write to any path at any place of an operation, its undoing or a start,
and a crash or a failure may leave any of the files of a record that is being
removed. What the code cannot answer for is observed, exactly where it happens.
`disturbed` holds the records whose undoing may overwrite something newer: another
program wrote to a path of the operation under way or of a record still to be
undone, an operation began on a path of such a record, or a record lost its
`restored` marker in a removal cut off although its paths had changed since. Their
paths join `broken`, and what these hold leaves `stake`. `stake` holds what the
file of every operation begun held: `NothingLost` says that each of these is in the
archive or under a path. `AtomicFiles` sees the files as the records decide them,
and promises nothing of broken paths.

**EditorSession.** One record holds documents, tabs, the active tab, closed tabs
and recovery records; each command of the user is one action, with the opening,
discarding of a blank buffer, activation and eviction it does on its way. What
goes over many tabs (closing several, restoring the snapshot) is a recursive
function over the sequence. A closing may be refused, alone, among several, or of
the blank buffer that gives way, and leave its record stored although another
could not be evicted for it (`Stored`); the next closing evicts that one. Quit
asks nothing (unsaved text goes into the snapshot), Crash writes nothing, Start
restores the snapshot against the disk as it is then. Observers: `owed`, the
texts a normal exit showed; `dropped`, those `openDirectory` forgot;
`revived`, a tab reopened after its file changed.

**DocumentHistory.** An edit is an offset, a number of letters erased and the
letters inserted; `Acceptable` and `Applied` are `Document::apply`, `Reverting` is
`makeStep`, `Record` the bookkeeping of `applyEdit`, `Travel` the replay of a unit
by undo or redo, which stops at the first refusal. A command is one action from
the selections to the text, the history and the selections after. A unit's `from`
and `to` observe the texts around it; the revision's width is the constant
`MaxRevision`. `EditHistory` sees no units once the revision is not the expected
one. Letters are graphemes of one byte, `Newline` stands for the characters that
close a unit when typed, and a selection has no direction.

**TextPane.** A code point is a class of the Unicode tables ("W" is wide, "TAB"
a tab, "MARK" a combining mark, "RI" a regional indicator, and so on), a text a
sequence of them. `computeCellRun` gathers them into clusters with cells;
`wrapLine`, `projectedWrappedRows` and `projectedUnwrappedRows` make rows,
with the phantom rows of a diff; `cellTargets` is what answers a click.
`navigated` is `navigateSelection` with its motions, occurrences, brackets and
splits, `editedBy`, `inputApplied`, `cut` and `paste` the commands that change the
text. An action of `TextPane` is one input with all the commands it may be, and the
frame after it, since each input is dispatched and presented before the next
is read; `AdoptsChange` is another program's content under the carets. A change of
the find bar scrolls the caret into view without moving it, which is what the
command `ViewRevealCaret` does.

**DiffIngestion.** In `DiffAlignment`, `computeDiff` is the algorithm of
`DiffModel.cpp`: common lines, runs, blocks aligned by shared words, hunks, and the
limits at which it refuses; `wordDiffOf` the words of a changed line. `DiffIngestion`
takes the comparison as a constant, `Difference`, and asks of it only what
`DifferencesAssumption` says: beyond a limit nothing, else what changed
(`IsDifference`). `TooLong` is the limit of lines that a file outside Git meets
before it is compared (`seedNonGit`). `follow_edits_resume` may also be run while
the diff is followed already. `DiffReview` is where the two meet, and the run gives the one the
other's algorithm. The loops over the files of a scan and over the changes it makes
(`withListed`, `withoutClean`, `without`, `acceptExternalChanges`) are recursive
functions of a number, so that they can be proved about. `stageGitDiffScan` works on
copies of the diff and the follow model and `applyGitDiffScan` adopts both, moves
the pane and refreshes the live diffs, or leaves all as it was. `Write`, `Commit`
and `Publish` are the repository and the worker, `ExternalEvent` the diffs of the
conflict flow, and the commands pause, resume and open or close live diffs. The
observer `unseen` holds what the last scan brought while paused.

**FindReplace.** `parse` is the recursive descent of the code, `evaluateNode`
its matcher of sets of ends, `findTextMatches` both ways to search within a
budget. The bar is opened, queried, toggled, stepped and closed, and replaces one
match or all; the document is edited, adopted from disk or left for another, and
another prompt takes the place of the bar's.

**TerminalInput.** What is typed is written to `wire` as an old terminal or one
with the keyboard protocol sends it; `Read` takes as much as the terminal gave,
`decodeInput` decodes what it can and holds the rest, `Timeout` ends a wait,
`Answer` and `ProbeExpires` are the probe of the capabilities. A byte is its glyph
or its role. `piece` observes what was read since the bytes were last all
decoded; `severed` counts the reads that ended between the two escape bytes of Alt
with a special key and its bracket, each of which makes two keys of it; `mixed` is true once the bytes no longer tell what was meant: something followed
an escape that was not resolved yet, or a deadline passed with bytes still to come.

**InputFocus.** `routeInput` is the whole route of a key: the client's
palette, the prompt, the panel, the keymap of the focus. The commands it
reaches (`shellCommand`, `promptCommand`, `searchCommand`, `externalCommand`,
`treeCommand`, `findCommand`) change the screen through the operations of
`ScreenState` and `PromptSurface`, one operator each. `Present` is the frame the
client adopts, unless it does not fit the terminal: then nothing is shown and
nothing adopted, and `shown` is `Nowhere`. The client presents after every key
(`src/TerminalClient.cpp:519`); the model also lets the frame come late, after
several keys and changes, which only adds behaviours. `Keymap` has the bindings, their
validation, binding and unbinding, and both ways to resolve a stroke.
`Submits` compares the number of the opening that the client shows.

**DocumentEncoding.** `decodeText` and `encodeText` are the codec, byte by byte
(UTF-8, both orders of UTF-16, Windows-1252, Latin-1), with line ends kept for each
line. The actions are those of the workspace on one document: opening, an edit,
saving, reloading, closing and reopening a draft, an exit and a start, and a file
that another program rewrote or renamed. `reworked` observes line ends that
`Workspace::apply` rewrote.

Composition. `GitDiffWorker` contains the worker, its source and the pump, and
`SyntaxWorker` the worker, the models and the pump, for their properties are of
the pairs. `ExternalModification` composes watcher, workspace and flow;
`EditorSession` composes tabs, workspace, recovery records and snapshot. The
last two meet in the document: `ExternalModification` lets the disk change
under open documents and has no tabs, `EditorSession` has tabs and lets the disk
change under closed ones. The Git worker delivers the watcher's events to the
flow: `GitDiffWorker` shows that none is lost on the way, and
`ExternalModification` starts where they arrive. `DiffIngestion` starts where
`GitDiffWorker` hands a scan over (`NeverShowsOlder` is why its scans come in order)
and computes with `DiffAlignment` (in `DiffReview`) what `TextPane` shows as phantom rows.
`FindReplace` uses the positions and words of `SelectionNavigation`; the
strokes of `TerminalInput` are what `InputFocus` routes. `DocumentEncoding` opens up
the content that `EditorSession` and `ExternalModification` know by name only.

## 3. The runs

| Run | Instance | Distinct states | Shows |
|---|---|---|---|
| `git_diff` | 2 files, Git and watcher on or off, 1 change, 2 faults, 1 deadline, the session may end | 899,518 | no wake-up, event, scan or branch is lost, nothing older is shown, the editor comes to show the repository; the queue is a hand-off |
| `syntax_worker` | 2 documents, 2 languages, texts over the limit, 3 operations, 1 change behind a tab, the session may end | 390,760 | cancellation, alignment of what is shown, every request is served; the queue is a hand-off |
| `external` | 2 paths, 3 operations; a world of 3 reported changes, one of 3 writes, removals and moves with "Undo" and no command but opening, editing, saving and answering, and one of 2 changes of every kind with deletions and a content that is no text | 4,749,400 | a divergence is adopted or offered, own saves are no conflicts, the list of conflicts stays sound, unsaved text survives |
| `recovery` | 2 paths, 2 contents, a store of 1 record, 2 operations, 2 failures, 2 crashes, 2 writes | 7,321,317 | atomic operations, nothing lost |
| `session` | 2 paths, 3 contents, all commands, 4 of them, 1 change, 1 failing write, 2 exits | 3,008,531 | tabs mirror documents, edits branch from disk, unsaved text returns |
| `history` | texts of 2 letters up to 3 long, 1 or 2 selections, 3 changes, 1 selection or copy, revisions up to 7, a budget of 2 units | 555,358 | undo and redo return exactly what was there |
| `text` | 4 texts in panes of 2 rows and columns: wrapped, scrolled sideways, with a removed or a changed line; 2 inputs of any kind, 1 of them an edit; 10,990 lines of every class of code points | 10,059 | clicks, rows and carets agree, line commands keep lines, the caret is shown |
| `diffs` | 2 files, 4 texts, a limit that one of them exceeds, 3 scans, 3 commands, 2 writes, 1 external event, a queue of 1; 3,969 pairs of texts | 2,047,493 | one scan at a time, live diffs and queue follow the diff, the pane moves to what is new |
| `find` | 2 documents up to 4 long, 2 changes, 2 queries with every option, a budget of 5; the 819 patterns of up to three signs and 9 longer ones on 24 texts | 1,331,608 | matches are those of the text, replacing touches nothing else |
| `input` | 2 of 10 kinds of keys, pastes and pointer events, 2 reads that end early, 2 terminals, every deadline | 906,439 | keys arrive as pressed and in the end, however they are read |
| `focus` | 15 keys, clicks, external changes and frames that fit or do not, 2 commands, 2 lists of files, 3 openings, queries of 1 letter | 905,580 | focus is held by what is there and goes where it is shown, an opening runs one candidate |
| `encodings` | files of every line end up to 2 bytes and 7 of 3, all sequences of bytes of 9 roles up to 2 and of 6 roles up to 3, 17 marked or encoded samples; 2 edits, 1 rewrite, 1 draft | 472,852 | bytes come back, saves go through and read back, line ends stay |

Why the bounds are enough to be of interest:

* Two files, documents or paths: what happens to one is kept from the other
  (a queue with something behind, a rename with a destination, a tab to fall
  back on), and all definitions treat them alike. Only `SyntaxWorker` and
  `DiffIngestion` order them, and there no symmetry over them is used.
* One change and two faults let a change fall into every window of a scan that
  fails, and a scan fail twice or a watcher die after a scan failed.
  `Fail` needs a deadline still to come, for after the last failure somebody
  must look again; with unbounded deadlines that is always so.
* Three operations of the syntax editor with one background change supersede a
  request in the queue, in the parser and after it completed. One change behind a
  tab is the limit at which `EveryRequestIsServed` holds: with two, a
  document is given another language and back while its parse is in flight, and
  waits until its next edit (section 6).
* A store of one record makes every second operation evict; two failures are a
  step and its undoing; two crashes are one in an operation and one in the start
  that undoes it.
* Two exits are a snapshot saved, restored and saved again; one change and one
  failing write fall between or within sessions. The stores of closed tabs and of
  recovery records hold 2 instead of the code's 32, so closing three tabs
  overflows them within the four commands.
* Three changes with one selection made in between are two carets, two edits
  joined to one unit and a third that evicts, bypasses or follows an undo; undo and
  redo are bounded by the revisions alone, and reach their last.
* A pane of two rows and two columns has a right edge that a wide cluster does not
  fit, a row that wraps, and lines above and below; two inputs are a motion and
  what follows it, or a press and a drag, or an edit and a motion from where it
  left the caret. The lines of `Clustered` hold every class of code points next
  to every other, in threes, and the classes that join over distance in fives.
* Three scans bring a hunk, move it and take it away; a queue of one makes a second
  file's target push out the first; with three commands a pause, a resume and a live
  diff fall between them. The pairs compared are all texts of two ended lines and a
  last one, equal, reworded, different or empty.
* A budget of five ends inside a search of documents of three and four scalars;
  two changes are an edit and an adoption, or either with a replacement between.
* Two keys with two reads that end early cut an escape sequence twice, or both
  sequences once; the longest sequence held (`MaxSequence`) and paste (`MaxPaste`)
  are reached by one key.
* Three openings are a picker, its replacement, and one of the first again, with the
  client a frame behind each. Of the prompts the 15 keys open the finder, the
  replacement and the line number; the find, settings and path prompts differ from
  these in what they ask, and the theorems are about them too.
* Files of three bytes hold a line end before and after every other, all
  truncated and overlong sequences of two and three bytes; a four-byte one, marks
  and pairs of surrogates are among the samples. Two edits with a save between them
  leave the baseline and return.

Symmetry is used where no definition orders the elements (no CHOOSE whose value
shows, no arithmetic) and never with liveness; `UnsavedTextSurvives`,
`ImplementsAtomicFiles` and `UnsavedTabsReturnUnlessAbandoned` are properties of
initial states and single steps without fairness. Deadlock is checked where the
system runs until its session ends (`git_diff`, `syntax_worker`: every state has a
step or the session is over); the other runs end when their bounds are used up.

What depends on no state, a pure algorithm compared with its definition over many
inputs, is a conjunct of a property of the run that uses it and is evaluated in
the initial states: the clusters of lines (`LinesClusterByUnicode` in
`CellsAnswerTheirText`), differences (`ComparisonsAreExact` in `DifferencesAreExact`),
patterns (`PatternsMatchWhatTheyMean` in `MatchesDescribeTheText`). A few
properties join several of one question: `EverythingIsHandedOver` is
`BranchPublished`, `EventuallyIngested`, `AvailabilityReported` and `Joined`;
`EveryRequestIsServed` is `PendingIsServed`, `Settles` and `Joined`;
`ConflictsAreSound` is `TypeOK`, `SelectionValid` and `AnsweredStays`;
`FocusHoldersAreThere` is `TypeOK` and three facts about who holds the focus;
`SavesReadBack` is that a save goes through and that what it wrote reads back.

Properties, by the question they answer:

* Is anything lost between threads? `NoLostWakeup`, `NoMissedChange`,
  `EverythingIsHandedOver`, `EveryRequestIsServed`, `ImplementsHandOff` (twice).
* Is anything applied late or out of order? `NeverShowsOlder`,
  `SupersededIsCancelled`, `ViewDescribesRequestedUnlessNeglected`,
  `DiffIsOneScan`, `QueueNamesHunks`, `ScansMoveToNewHunks`,
  `EachOpeningRunsOneCandidate`.
* Does it come to rest in the right place? `Converges`, `EverythingIsHandedOver`,
  `EveryRequestIsServed`, `EveryKeyIsDelivered`.
* Does the user know what the disk says? `DivergenceIsKnown`, `SaveEndsConflict`,
  `ConflictsAreSound`, `EditsBranchFromDisk`, `LiveDiffsShowTheDiff`.
* Is any text lost or changed unasked? `UnsavedTextSurvives`, `NothingLost`,
  `ImplementsEditHistory`, `ImplementsAtomicFiles`,
  `UnsavedTabsReturnUnlessAbandoned`, `TabsMirrorWorkspace`,
  `LineCommandsKeepLines`, `ReplacesWhatIsThere`, `EncodingsReturnTheirBytes`,
  `CleanSavesKeepTheFile`, `SavesReadBack`, `UniformEndingsStay`.
* Is what is seen what is there? `CellsAnswerTheirText`, `ChangesShowTheCaret`,
  `DifferencesAreExact`, `MatchesDescribeTheText`, `KeysGoWhereFocusIsShown`,
  `FocusHoldersAreThere`.
* Does what is typed arrive? `KeysArriveAsPressed`, `SplitReadsAgree`.

## 4. Fairness

The two workers' modules and `TerminalInput` have liveness properties.

* `WF(Worker)`: a thread that can go on does. The operating system schedules it;
  it blocks only in its own wait, which is a state without an enabled step.
* `WF(Pump)`: the event loop serves a ready wake (`main.cpp` waits on the wake
  descriptor beside the terminal and pumps on every turn), and `pump` is a
  straight line.
* `WF(Time)` in `GitDiffWorker`: the deadlines are `steady_clock` times the loop
  compares on every turn; its wait is never longer than the nearest one.
* `WF(Join)`: `join` returns once the thread is over.

* In `TerminalInput`, `WF(\E size : Takes(size))`: the loop reads what the terminal
  has sent, some part of it at a time (`main.cpp` polls the terminal on each turn).
  `WF(RunsOut)`: a wait for what follows a lone escape ends, for the loop's wait is
  cut to `pendingInputDeadline`. `WF(Answer)`: a terminal that is asked sends the
  replies it is going to send; `MCReplies` has one that leaves the last one out.

No failure is owed: `GitDiffWorker` asks weak fairness of the worker's steps
that do not fail. Nothing is assumed of the user, of other programs or of the
number of scans that fail beyond the bound, after which a scan works. There is no
strong fairness: each step, once enabled, stays enabled until it is taken.

The other modules have no fairness: the user need not answer, and the properties are of safety. `DivergenceIsKnown`
takes the place of "is eventually known": it speaks of the states in which
everything was delivered, which the Git worker's `EventuallyIngested` (in `EverythingIsHandedOver`) says is
reached.

## 5. Proofs

The theorems hold for every value of the constants that satisfies the assumption
of the module (`ConstantsAssumption`, `SyntaxAssumption`, `ExternalAssumption`,
`RecoveryAssumption`, `SessionAssumption`, `InputFocusAssumption`,
`DiffIngestionAssumption`: bounds are natural
numbers, HEAD is no file, documents are positive numbers, the names of no file and no
text are none of the files and texts, and so on), hence for any number of files,
documents, changes and failures, any keys, commands and files. TLC evaluates the
assumptions in the runs of those modules and checked every invariant below before
it was proved. Those of `RecoveryManagerProofs` have no hypothesis about crashes,
failures or other programs: what they except are the observers' broken paths
(section 2). Those of
`ExternalModificationProofs` hold in every world, the races included, but
`DivergenceStaysKnown` and `SavesEndConflicts`, which hold in worlds without "Undo"
(and are about worlds without races, as the properties they state). Those of
`DiffIngestionProofs` hold for any comparison of texts that keeps
`DifferencesAssumption`; that `computeDiff` is one is what TLC evaluates, on the
texts of the run.

`GitDiffWorkerProofs`:

| Theorem | States | Argument |
|---|---|---|
| `TypeCorrect` | `[]TypeOK` | inductive as it stands; a lemma per group of actions |
| `WakeupNotLost` | `[]NoLostWakeup` | inductive: the byte is consumed before the queues are taken, and the first to queue is about to notify |
| `AvailabilityReachesEditor` | `[]AvailabilityCovered` | inductive, likewise |
| `ChangesReachEditor` | `[]NoMissedChange` | with `Scheduled`: nothing is in the editor's hand when it takes the queues, so taking them drops nothing |
| `ScansInOrder` | `[]PublishedInOrder` | `InOrder`: while an applied scan waits to be queued, everything in flight is older than its revision, not only than the next one; without this the step that queues it is not inductive |
| `BranchIsPublished` | `[]BranchPublished` | `BranchSettled`: the branch last in flight is the one published last, or an applied scan is about to be queued with it, or that scan was applied by a full refresh that then threw and the retry it orders is newer than all in flight (from `ScansInOrder`); between its read and its publication only, the branch differs from the one published |
| `NeverBack` | `NeverShowsOlder` | `Aged`: shown, each scan in flight, the source's last tree and the repository are, in this order, ever newer, for the trees and for the branches apart; a path refresh takes each item from the last tree or from the repository and keeps this |
| `ScansAreHandedOff` | `Spec => ScanHandOff!Safety` | each step posts, takes, handles, closes or stutters; uses `TypeCorrect` and `Scheduled` |

`SyntaxWorkerProofs`:

| Theorem | States | Argument |
|---|---|---|
| `TypeCorrect` | `[]TypeOK` | inductive as it stands |
| `CompletionNotLost` | `[]NoLostCompletion` | inductive, as for the Git worker |
| `ViewIsAligned` | `[]ViewDescribesRequestedUnlessNeglected` | `Aligned`: a model waits for a parse of exactly the text it displays, no newer than the document, and the active document's text was asked for. A refused request then described the text already |
| `SupersededCancelled` | `[]SupersededIsCancelled` | `Serialized`: a request is queued for its own document, running, or over, never two of these, and none has the number of the next; so cancelling what is queued or running reaches all of them |
| `AnswersAreTheLast` | `AnswersComeLast` | `Following`: a completion is over once, and every request of an open document that is still queued, running, completed or drained is the one its model waits for or was cancelled; what a closing leaves uncancelled belongs to a document that never opens again (`Opened`: identities are not used twice). The one accepted then leaves no other behind it |
| `CompletionsAreHandedOff` | `Spec => CompletionHandOff!Safety` | as for the Git worker |

`ExternalModificationProofs`:

| Theorem | States | Argument |
|---|---|---|
| `FlowAgreesWithDisk` | `[]IInv` | `Sound`: a path has one conflict at most and the selection names one. `Dismissed`: the document of an answered conflict branches from what is on disk, no expected save changes that, and no event on its way says of a missing file that it is there. `AnsweredStays` alone is not inductive: an event that says something new would bring the conflict back |
| `ConflictsStaySound` | `[]ConflictsAreSound` | from it; most steps are instances of one lemma about steps that ingest nothing (`FrameKeeps`) |
| `UnsavedTextIsKept` | `UnsavedTextSurvives` | `Held`: the text stays in the document, which may move to another path, or is on disk. One event keeps this, so a batch of any length and a reconciliation in any order do: the first event after which it fails would not (`LeastNumber`) |
| `ChangesAreKnown` | `[](IInv /\ (Calm => Informed))` | see below |
| `DivergenceStaysKnown` | `[]("Undo" \notin External => DivergenceIsKnown)` | from `Informed`, once nothing is on its way |
| `SavesEndConflicts` | `[]("Undo" \notin External => SaveEndsConflict)` | likewise |

`DivergenceIsKnown` speaks of quiet states only, so the invariant has to say of every
path at every moment what is still on its way for it. `Informed` does so with six
facts for each path (`Good`), stated of the flow, of a batch and of the place reached
in it, so that the same facts are the invariant of a step and of the fold over the
events. `Known`: a document that does not branch from what is on disk has a conflict,
or a later event of the batch is about it, or a debounced change is, or its save is
still to be registered, or the comparison with the disk is due, or its conflict was
answered for something else. `Reports`: an event that will be taken for a write of our
own hides no divergence, for another event follows. `Removals`: a debounced removal is
of a file that is gone, also where its stamp is one we expect, or that another file was
made in its place is noted behind it. `Agreement`: while the
stamp of our write is on disk and expected, the document branches from it. `Arrivals`:
where a file has moved to nothing is open and nothing else happens until the flow has
followed it. `Mended`: a conflict of a file we wrote last ends with the report of that
write, which is still to come (`Unheard`). Beside them, `Stamps` (none is used again)
and `Saving`.

An action of another program disturbs the paths it names and no other
(`OthersAlike`, `AlikeKeeps`); what it leaves in the watcher is computed once for
writes, removals and moves over the table of `Coalesced` (`WriteNoted`,
`RemovalNoted`, `MoveNoted`, `MoveUndone`). One event keeps the facts of the paths it
is about (`HearingKeeps`, `CarryingKeeps`) and of the others (`UntouchedStays`), a
batch of any length does, by its first event that would not (`BatchKeepsGood`), and
the comparison of every document with the disk makes up for what was lost
(`ReconcilingKeepsGood`). Of a path the watcher then has two notes at most, a removal
and behind it the file made since (`Orderly`), which are delivered in this order: these
lemmas need both facts. "Undo" is the one way to other pairs, and with it both
properties are only model-checked (in the second world of `external`).

`RecoveryManagerProofs`:

| Theorem | States | Argument |
|---|---|---|
| `RecordsAndFilesAgree` | `[]IInv` | `Halfway`: the paths of every undecided record hold what its snapshot says, what its operation makes of them, or a rename's new link beside the old one, and each place of `prepareAndPerform` and `restoreOperation` knows which. `Apart`: undecided operations share no path, so that undoing one leaves the others alone. Only disturbed records are excepted, and `Exempt` says that all their paths are broken. `GivenUp`: the paths of what could not be undone are broken |
| `NothingIsLost` | `[]NothingLost` | `Kept`, a part of it: the copy is archived before a deletion removes the file, and undoing one copies back before the record goes |
| `OperationsAreAtomic` | `Spec => ImplementsAtomicFiles` | refinement, step by step: the paths of an undecided operation are taken to hold what its snapshot says (`Spoken`: one record speaks for a path, by `Apart`), so its file operations stutter; it happens in `AtomicFiles` where the operation returns with its record published; an answer without effect reports the paths it could not undo as broken; crashes, starts and evictions stutter |

`EditorSessionProofs`:

| Theorem | States | Argument |
|---|---|---|
| `SessionStaysWell` | `[]IInv` | `Well`: no two tabs, closed tabs or records share a number, a document has one tab at most, a file one document, the active tab exists, and what is closed can come back without clashing with what is open (`History`). `Branches` and `Restorable` say what texts branch from, open and in the snapshot. One lemma for each part of a command (activate, discard a blank buffer, evict, close one, open, reopen), for any session; closing many and restoring the snapshot are carried from one place of the sequence to the next (`UpTo`) |
| `TabsAgreeWithWorkspace` | `[]TabsMirrorWorkspace` | from `Well` |
| `EditsBranchFromFiles` | `[]EditsBranchFromDisk` | from `Branches`: what a file held when a draft was saved is compared with what it holds when the draft returns |

`InputFocusProofs`:

| Theorem | States | Argument |
|---|---|---|
| `FocusIsHeld` | `[]FocusHoldersAreThere` | inductive as it stands. One lemma for each operation of `ScreenState` and `PromptSurface`, one for each group of commands, and one for each way a key is routed; whatever the keymap is, since a command that is run keeps the screen sound |
| `FocusIsWhereShown` | `[]KeysGoWhereFocusIsShown` | the two ways the code computes the focus agree on every screen (`FocusSaidTwice`); whatever changes the screen asks for a frame (`Shown`); a frame that does not fit is not claimed to show anything |
| `OpeningsRunOnce` | `EachOpeningRunsOneCandidate` | `RanBefore`: the candidate run last was of an opening before the one that is open. Every command keeps the open picker, closes it or opens one with a new number (`Leads`); the ranking only decides which candidate it is |

`DiffIngestionProofs`:

| Theorem | States | Argument |
|---|---|---|
| `Invariant` | `[]IInv` | see below |
| `DiffIsAlwaysOneScan` | `[]DiffIsOneScan` | `ScansFollow`: the scans on their way follow the one adopted, one revision after another, so none is ever refused; `IsScan`: the diff model is the adopted scan, of every file, and knows nothing of the others |
| `LiveDiffsAlwaysShowTheDiff` | `[]LiveDiffsShowTheDiff` | `Shows`: every change of a Git file is followed by a refresh of the documents in the same step |
| `QueueAlwaysNamesHunks` | `[]QueueNamesHunks` | `Waits`: the follow model is never ahead of the diff model, asks for nothing between two calls, holds one target of a file at most, and each is of a hunk that is there. Where a scan brought something while paused, something waits |
| `KnownDifferencesAreExact` | hunks say what changed from the baseline of the adopted scan to its content | from `IsScan` and `DifferencesAssumption`: no step between the comparison and the model mixes two of them |
| `PaneMovesToNewHunks` | `ScansMoveToNewHunks` | of one step: the activation a burst leaves is for a hunk its last change brought, and staging compares with the hunks from before the scan |

A scan is staged by two loops over the files, whose bodies may refuse, and followed by
a loop over the changes these made. `StagedTo` says what is true when some of the
files are done (they are as in the scan, the others as before; a file has one
change at most, which remembers the hunks from before, and revisions rise),
`FollowedTo` when some of the changes are followed. One round keeps each
(`FileStaged`, `FileRemoved`, `OneMoreFollowed`), and `UpTo` carries them to the last
one (`ListedStaged`, `CleanRemoved`, `BurstFollowed`); `Recursion` is why the function of
a loop exists at all, without which nothing can be said of its values. `ScanStages`
puts them together: what comes out is the scan, and the queue names its hunks. The
revisions are needed because `acceptExternalChanges` leaves the follow model as it was
when one change is not newer than what it has seen, and then targets of hunks that
the scan took away would stay in the queue.

`SequenceLemmas` says what taking one element out, keeping those of a property or
putting one in leaves of a sequence, and carries a fact to the end of a sequence
by its least counterexample (`LeastNumber`, `UpTo`): the library's induction takes
an operator as a parameter, which no installed prover can instantiate, but that
each number is above a least one is a fact about sets. In the same way `Recursion`
shows that a function whose every value is made of the one before exists.

Each step lemma has a case per action, or one case for the actions that leave the
relevant variables alone. The order of scans and their age are stated for any
queue first (`RisingAppend`, `RisingTail`, `AgeingAppend`, `AgeingTail`), then
for the worker's.

What is only model-checked:

* Liveness: `Converges`, the three eventualities of `EverythingIsHandedOver`, those
  of `EveryRequestIsServed`, `EveryKeyIsDelivered`, and the fair part of `HandOff`.
  It needs ENABLED, which the prover does not know.
* `PendingIsServed`: it does not hold for every value of the constants,
  `MaxBackground` above 1 breaks it (section 6).
* `DivergenceIsKnown` and `SaveEndsConflict` of `ExternalModification` where a move
  is undone over another change of its source ("Undo").
* `UnsavedTabsReturnUnlessAbandoned` of `EditorSession`: it follows a text from an
  exit through the snapshot to the next start, where what the fold over the saved
  tabs leaves of each one is compared with what the exit owed.
* `ImplementsEditHistory` of `DocumentHistory`: a unit replays a sequence of edits,
  and that the text after it is the text before the unit is a fact about folds over
  texts whose positions move.
* `DifferencesAreExact`: what `computeDiff` makes of two texts is recursive.
* Everything of `TextPane`, `FindReplace`, `TerminalInput` and
  `DocumentEncoding`: they are recursive computations over texts and bytes, in
  modules with RECURSIVE operators, which the prover cannot reason about.

## 6. Disagreements between the code and what is said of it

While the models were written, TLC found seven behaviours that the repository's tests
or documents, or a reader of its code, would not expect. All runs pass: each of these
is a behaviour the modules contain, or a gate of theirs, that a property names as its
exception.

* A rename is resolved by its previous path alone
  (`src/ExternalModificationFlow.cpp:205`): when a file the watcher knows is
  renamed over an open one, the open document is never told, against
  `tests/test_watcher.cpp:245` (gate "Replace").
* If another program creates the destination between the check
  and the rename, the kernel refuses the rename and the rollback removes that
  program's file (`src/RecoveryManager.cpp:1063`), against
  `tests/test_name_clash.cpp:90` (observer `disturbed`).
* A draft without text that was the active tab comes back as a
  blank buffer if its file changed, and the next restored tab replaces it;
  activating it again then fails, and so does every start until files change
  (`src/Editor.cpp:1981`), against `README.md:96` (`EditorSession`: the observer
  `blocked`).
* Deletions through several selections that touch (two
  carets beside each other and Backspace) stay separate edits
  (`src/TextInputCommands.cpp:249`). The edits to take them back start at one
  offset, which the document refuses (`src/Document.cpp:201`), so this unit and
  all before it can never be undone. If another deletion was joined to it, undo
  takes that one back before it is refused, and the next edit drops the whole
  history; `tests/test_history.cpp:318` has rejection leave the document alone.
  Replacing all matches by nothing does the same with matches that touch
  (`DocumentHistory`: the observer `refused`).
* While following is paused, the targets of a scan are forgotten by the next scan
  (`src/FollowEditsModel.cpp:64`), against
  `tests/session/test_session_navigation.cpp:261`; `QueueNamesHunks` says what is
  kept.
* A read that ends after the first two bytes of ESC ESC [ H makes of Alt with Home
  the keys Escape and Home: two escape bytes alone are not held
  (`src/TerminalInput.cpp:265`), against `tests/test_terminal_input.cpp:193`, "An
  incomplete inner CSI keeps the whole thing pending rather than surfacing a
  spurious bare Escape" (the key "alt home" of the run `input`, the observer
  `severed`). `KeysArriveAsPressed` says what arrives then, and `SplitReadsAgree`
  that this is the one place where a read changes the keys.
* With a conflict there, giving the external bar the focus in distraction-free mode
  captures it on a bar that is hidden; the next frame throws and the editor ends
  without saving its session (`src/ScreenState.cpp:113`,
  `include/ssg/UiInteractionState.h:35`, `src/main.cpp:308`). The first conjunct of
  `KeysGoWhereFocusIsShown` says that this is the only way a frame fails.

Met while modelling, without a run of their own; the modules contain the
behaviour unless said otherwise, and a gate or observer keeps it from hiding
what the properties are about:

* Deleting the active file brings a neighbouring tab to the front without asking
  for its highlighting (`src/files.cpp:254`). If that document was reloaded behind
  its tab, every later edit is refused and what is displayed stays behind, against
  `include/ssg/SyntaxModel.h:258`. The observer `neglected` of `SyntaxWorker` holds
  such documents and `ViewDescribesRequestedUnlessNeglected` says that there are
  no others.
* Pasting an empty fragment of the register at a caret is an empty edit, for which
  the document refuses the whole paste (`src/Document.cpp:165`).
* `openDirectory` (`src/Workspace.cpp:677`) forgets all documents and leaves
  their tabs. Such a tab cannot be closed, its unsaved text is not asked for and
  does not return, and opening its file again activates the dead tab
  (`EditorSession`: `dropped`, `abandoned`). The snapshot also stays keyed by the
  directory of the start.
* Reopening a closed tab removes its record before the file is opened
  (`src/Editor.cpp:823`): if the file is gone, so is the text, and the entry
  stays in front of older ones, which `tests/test_tabs.cpp:145` calls
  retryable. Over a file that changed, the old text becomes an edit of a
  disk state it does not branch from, against `src/Workspace.cpp:277`
  (`revived`). Reopening a tab whose file is open again drops the closed text.
  The store of 32 records is shared with renames and deletions and may evict what
  the tab history still names.
* Saving all files stops at the first failure before it updates the tabs
  (`src/files.cpp:309`): those that were saved keep their mark. The mark is not
  modelled.
* An event that restores a document's disk state is skipped without dropping the
  older conflict (`src/ExternalModificationFlow.cpp:216`); Reload then installs a
  content that is no longer on disk (`misanswered`).
* A file that is written, renamed over or moved again before the watcher has told
  of it, or between a save and its registration
  (`src/ExternalModificationFlow.cpp:303`), may be missed: gates "Race",
  "Replace" and "MoveAgain". A rename in the editor forgets changes that were not
  delivered (`src/Workspace.cpp:1127`): command "Rename" is in
  the second world of `external` only. A rename to a file that holds no text or is open raises
  nothing.
* A new document reloaded from a file that appeared stays unsaved for ever
  (`src/Workspace.cpp:1029`). Closing, renaming or saving a document elsewhere
  leaves a conflict that can be answered by Keep only
  (`src/Workspace.cpp:1173`).
* A record left in progress is undone at the next start over whatever the file
  has become (`RecoveryManager`: the observer `disturbed`). A record directory whose
  removal was cut off (`src/RecoveryManager.cpp:934`) may have lost its restored
  marker and be undone a second time, or its copies and be undone to nothing: what
  changed on its paths in between is overwritten (`CutOff`, `Revives`). A failing eviction
  after a rename is answered as a failed rename (`src/RecoveryManager.cpp:900`).
* A document given another language and back behind its tab while its parse is in
  flight waits for a parse nobody runs until its next edit (bound
  `MaxBackground`).
* Encodings. The ends of lines are attached to the lines of an edited text by
  number (`src/Workspace.cpp:151`), so that in a file with several kinds an edit
  moves them, against `tests/test_workspace.cpp:273`. A lone CR before an empty LF
  line is saved as CR LF and reads back as one line less. A byte order mark that
  was not there is added to UTF-16. Text restored from a draft, or adopted with an
  external rename while dirty, and then edited back to the file's content, cannot be
  saved (`src/TextCodec.cpp:415`): "line terminator metadata does not match text".
  A UTF-16 document holds zero bytes for every ASCII letter: once saved it opens as
  binary (`src/Workspace.cpp:426`). A restored draft without line breaks of a CR LF
  file gets LF; a mixed file saved uniform still counts as mixed. The exceptions
  are in `SavesReadBack` and `UniformEndingsStay`.
* The pane. A click or a drag after another program's content was adopted, and a
  switch of tabs, apply the offset of one text to another (`src/Editor.cpp:2092`,
  `src/files.cpp:71`). The desired column does not follow the caret when
  the frame scrolls to it (`src/GridPresenter.cpp:307`). Moving a line to the end
  puts the caret elsewhere (`src/EditCommands.cpp:234`). Typing with a caret inside a
  cluster, or of a caret and a selection that start together, is refused or lost.
  Cutting two carets on one line pastes it twice.
* Follow and live diffs. A later unchanged file of a scan resets the activation
  an earlier one asked for; events of other programs do not refresh live diffs;
  refreshing a live diff leaves its caret where it was.
* Find. Find in selection keeps the offsets of a selection while the text changes
  around it (`src/Editor.cpp:1638`). A case-insensitive range of a class folds its
  ends only. Replacing one match returns to the first.
* Focus. Switching pickers keeps the query; a click after typed keys picks from a
  ranking that is not shown yet; the prompt to save under a name acts on whatever
  document is active when it is submitted; another prompt over that of a find leaves
  the find open without one.
* Two editors in one directory share a snapshot, and an exit by an exception does
  not save it (`src/main.cpp:308`): one process is modelled, and `Crash`.

## 7. What is not modelled

* The parser, the terminal, the platform's system calls below the steps named
  above, Windows: external; the modules say what they rely on.
* Painting, themes, help, the layout of the screen around the text pane, widgets,
  the file tree: pure functions of a state, without one of their own. What is
  modelled of the presenter is what it keeps between frames.
* The search of a workspace: it reads files in slices and shows what it found; the
  reading is the disk's.
* The syntax of the settings file and of Git's output: parsers of text whose
  outcome is a record.
* The language services: no server is ever started, the commands answer "LSP is
  not configured", and `LspState` converts positions.
* Data inside the modules: a text is a content (a sequence of classes of code
  points where its cells matter, of bytes where its encoding does), a tree a version
  per file, a path a model value (no directories, links or encodings), a record
  its outcome (no byte budgets). Only what properties tell apart is kept.
* Two editors at once, and other programs that act within a step.
* The half of a rename that waits for its other half and stays alone (a file moved
  into or out of the workspace, an editor that saves by moving the old file away):
  `Renamed` has both halves at once. What `expireRenames` makes of a lone half is a
  removal, a new file or a change, which the model has as such, without the wait.

`PROJECT.json` names the reason for each component that is left out or partly
modelled.

## 8. The plan

Done: the twelve systems of section 3 are modelled and checked, and the safety of
the two workers, of external modification, of recovery, of the session, of the
focus and of the adoption of diffs is proved as far as section 5 says. To come, in this order:

1. `ExternalModification`: its two last theorems also in worlds with "Undo", where the
   watcher may have other pairs of notes of one path.
2. `UnsavedTabsReturnUnlessAbandoned`, from `Restorable` and the observers.
3. `DocumentHistory`: a text that changed has a new revision, an accepted edit
   leaves nothing to redo, and the bookkeeping of units without what they replay.
4. Models of panes and output tabs in `EditorSession`, and of the search of a
   workspace with its slices.
