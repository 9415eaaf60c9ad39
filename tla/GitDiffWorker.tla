---------------------------- MODULE GitDiffWorker ----------------------------
(***************************************************************************)
(* The background thread that watches the workspace and scans the Git      *)
(* repository (src/GitDiffWorker.cpp), its scan source                     *)
(* (src/GitDiffSource.cpp) and the editor thread that drains it            *)
(* (GitDiffWorker::drain, Editor::pump).                                   *)
(*                                                                         *)
(* The repository is a version number per file, one for HEAD (the baseline *)
(* every file is compared with) and one for the checked-out branch.  The   *)
(* branch is read in one step and the tree in a second one, as refresh()   *)
(* does; version 0 means "never scanned".  The three deadlines of the loop *)
(* are flags that passing time sets.                                       *)
(***************************************************************************)
EXTENDS Naturals, Sequences, FiniteSets

CONSTANTS
    Files,          \* workspace files
    HEAD,           \* what stands for the baseline among the items of a tree
    GitUse,         \* may the root be a Git repository with Git enabled?
    WatcherUse,     \* may watching be enabled (the platform may still refuse)?
    InitialModes,   \* what resolveGitDiffMode may make of SSG_GIT_DIFF_MODE
    CanStop,        \* whether the session may end
    MaxChanges,     \* bound: changes made to the repository
    MaxFaults,      \* bound: failed scans, lost events and dying watchers
    MaxTicks        \* bound: periodic deadlines; nothing fails after the last

ASSUME ConstantsAssumption ==
    /\ HEAD \notin Files
    /\ GitUse \subseteq BOOLEAN /\ WatcherUse \subseteq BOOLEAN
    /\ CanStop \in BOOLEAN
    /\ InitialModes \subseteq {"Event", "Poll"}
    /\ MaxChanges \in Nat /\ MaxFaults \in Nat /\ MaxTicks \in Nat

VARIABLES
    repo, branch,       \* the repository
    kernel,             \* events the workspace watcher has not returned yet
    metaSignal,         \* the metadata watcher has something to report
    pc,                 \* the worker's place in run()
    mode, watcher, metaWatcher,
    batch,              \* the events of this lap of the loop
    refresh, result,    \* the refresh under way and how it ended
    resume,             \* where run() goes on when the refresh is handled
    retryPending, pollDue, backstopDue, retryDue,
    source,             \* GitDiffSource
    pendingScans, pendingWatchEvents, pendingFullReconcile, \* under mutex_
    watcherAvailable, wake, stop,
    rpc,                \* the editor thread's place in pump()
    inbox,              \* what drain() returned and pump() has still to adopt
    shown,              \* the tree and branch the editor shows
    lastGitScanRevision, lastPublishedWatcherAvailable,
    unseen,             \* observer: changed files not reconciled with the disk
    changes, faults, ticks

envVars == <<repo, branch, kernel, metaSignal, unseen, changes>>
deadlineVars == <<retryPending, pollDue, backstopDue, retryDue, ticks>>
loopVars == <<mode, watcher, metaWatcher, batch, watcherAvailable>>
refreshVars == <<refresh, result, resume, source>>
boxVars == <<pendingScans, pendingWatchEvents, pendingFullReconcile>>
editorVars == <<rpc, inbox, shown, lastGitScanRevision,
                lastPublishedWatcherAvailable, stop>>
vars == <<envVars, deadlineVars, loopVars, refreshVars, boxVars, editorVars,
          pc, wake, faults>>

-----------------------------------------------------------------------------
Items == Files \cup {HEAD}
Trees == [Items -> Nat]
NoTree == [i \in Items |-> 0]

\* A GitDiffScan; revision 0 marks one that carries only the branch.
Scans == [revision : Nat, tree : Trees, branch : Nat]

\* Events of the workspace watcher: files changed, something under .git
\* changed, or an Overflow event (the others are lost).
Events == [files : SUBSET Files, git : BOOLEAN, overflow : BOOLEAN]
NoEvents == [files |-> {}, git |-> FALSE, overflow |-> FALSE]

Inboxes == [scans : Seq(Scans), events : SUBSET Files, reconcile : BOOLEAN]
EmptyInbox == [scans |-> <<>>, events |-> {}, reconcile |-> FALSE]

\* The worker's notifyRuntime() calls, each outside the mutex, and where run()
\* goes on after them (after a scan was queued: to resume).
AfterNotify == [startNotify |-> "metadata", branchNotify |-> "scan",
                eventsNotify |-> "eventsGit", reconcileNotify |-> "eventsScan",
                diedNotify |-> "died"]
NotifyPcs == DOMAIN AfterNotify \cup {"scanNotify"}
ResumePcs == {"loop", "eventsScan", "meta", "retry", "poll", "backstop"}
Pcs == {"start", "metadata", "died", "full", "fullScan", "paths", "pathScan",
        "branch", "scan", "events", "eventsGit", "done"}
       \cup ResumePcs \cup NotifyPcs

\* A failure the environment may cause; each is used up at most MaxFaults times.
Fail == faults < MaxFaults /\ ticks < MaxTicks /\ faults' = faults + 1
NoFault == UNCHANGED faults

\* GitDiffSource: the last tree scanned, the next revision, the branch last
\* read and the one last published.
Sources == [usable : BOOLEAN, tree : Trees, revision : Nat \ {0},
            branch : Nat, publishedBranch : Nat]

\* Is there a GitDiffSource to scan with?
GitUsable == source.usable

Init ==
    /\ repo = [i \in Items |-> 1] /\ branch = 1
    /\ kernel = NoEvents /\ metaSignal = FALSE
    /\ pc = "start"
    /\ mode \in InitialModes /\ watcher = FALSE /\ metaWatcher = FALSE
    /\ batch = NoEvents
    /\ refresh = "full" /\ result = "retry" /\ resume = "loop"
    /\ retryPending = FALSE /\ pollDue = FALSE
    /\ backstopDue = FALSE /\ retryDue = FALSE
    /\ source \in [usable : GitUse, tree : {NoTree}, revision : {1},
                   branch : {0}, publishedBranch : {0}]
    /\ pendingScans = <<>> /\ pendingWatchEvents = {}
    /\ pendingFullReconcile = FALSE
    /\ watcherAvailable \in WatcherUse /\ wake = FALSE /\ stop = FALSE
    /\ rpc = "constructing" /\ inbox = EmptyInbox
    /\ shown = [tree |-> NoTree, branch |-> 0] /\ lastGitScanRevision = 0
    /\ lastPublishedWatcherAvailable = FALSE
    /\ unseen = {}
    /\ changes = 0 /\ faults = 0 /\ ticks = 0

-----------------------------------------------------------------------------
(* The world outside: edits, commits, branch switches, passing time.        *)

Change == changes < MaxChanges /\ ticks < MaxTicks /\ changes' = changes + 1

\* The watcher's queue may be full, of files nobody opened; then it has only
\* an overflow.
Enqueue(f) ==
    \/ ~kernel.overflow /\ kernel' = [kernel EXCEPT !.files = @ \cup {f}]
    \/ kernel' = [NoEvents EXCEPT !.overflow = TRUE]

FileChanges(f) ==
    /\ Change
    /\ repo' = [repo EXCEPT ![f] = @ + 1]
    /\ \/ watcher /\ Enqueue(f) /\ unseen' = unseen \cup {f} /\ NoFault
       \* a filesystem that drops the event
       \/ watcher /\ Fail /\ UNCHANGED <<kernel, unseen>>
       \/ ~watcher /\ UNCHANGED <<kernel, unseen, faults>>
    /\ UNCHANGED <<branch, metaSignal, deadlineVars, loopVars, refreshVars,
                   boxVars, editorVars, pc, wake>>

\* Git writes its metadata, inside the workspace and where the metadata
\* watcher looks.
MetadataWritten ==
    /\ kernel' = IF watcher /\ ~kernel.overflow
                 THEN [kernel EXCEPT !.git = TRUE] ELSE kernel
    /\ metaSignal' = metaWatcher

Commit ==
    /\ GitUsable /\ Change
    /\ repo' = [repo EXCEPT ![HEAD] = @ + 1]
    /\ MetadataWritten
    /\ UNCHANGED <<branch, unseen, deadlineVars, loopVars, refreshVars,
                   boxVars, editorVars, pc, wake, faults>>

SwitchBranch ==
    /\ GitUsable /\ Change
    /\ branch' = branch + 1
    /\ MetadataWritten
    /\ UNCHANGED <<repo, unseen, deadlineVars, loopVars, refreshVars,
                   boxVars, editorVars, pc, wake, faults>>

DeadlineUnchanged == UNCHANGED <<envVars, loopVars, refreshVars, boxVars,
                                 editorVars, pc, wake, faults>>

Tick == GitUsable /\ ticks < MaxTicks /\ ticks' = ticks + 1

PollElapses ==
    /\ Tick /\ mode = "Poll" /\ ~pollDue /\ pollDue' = TRUE
    /\ DeadlineUnchanged /\ UNCHANGED <<retryPending, backstopDue, retryDue>>

BackstopElapses ==
    /\ Tick /\ mode = "Event" /\ ~backstopDue /\ backstopDue' = TRUE
    /\ DeadlineUnchanged /\ UNCHANGED <<retryPending, pollDue, retryDue>>

RetryElapses ==
    /\ retryPending /\ ~retryDue /\ retryDue' = TRUE
    /\ DeadlineUnchanged
    /\ UNCHANGED <<retryPending, pollDue, backstopDue, ticks>>

-----------------------------------------------------------------------------
(* GitDiffWorker::run up to its loop.                                       *)

\* Watching is on if it is enabled and the platform can; without it Event
\* mode is impossible and the editor has to be told.
\* Mutant: a watcher that cannot be built is not reported.
StartSilently ==
    /\ pc = "start"
    /\ \/ /\ watcherAvailable /\ NoFault
          /\ watcher' = TRUE /\ UNCHANGED <<watcherAvailable, mode>>
       \/ /\ IF watcherAvailable THEN Fail ELSE NoFault
          /\ watcherAvailable' = FALSE /\ mode' = "Poll" /\ UNCHANGED watcher
    /\ pc' = "metadata"
    /\ UNCHANGED <<envVars, deadlineVars, metaWatcher, batch, refreshVars,
                   boxVars, editorVars, wake>>

Start ==
    /\ pc = "start"
    /\ \/ /\ watcherAvailable /\ NoFault
          /\ watcher' = TRUE /\ pc' = "metadata"
          /\ UNCHANGED <<watcherAvailable, mode>>
       \/ /\ IF watcherAvailable THEN Fail ELSE NoFault
          /\ watcherAvailable' = FALSE /\ mode' = "Poll"
          /\ pc' = "startNotify" /\ UNCHANGED watcher
    /\ UNCHANGED <<envVars, deadlineVars, metaWatcher, batch, refreshVars,
                   boxVars, editorVars, wake>>

StartMetadataWatcher ==
    /\ pc = "metadata"
    /\ \/ GitUsable /\ watcher /\ metaWatcher' = TRUE /\ NoFault /\ UNCHANGED mode
       \/ GitUsable /\ watcher /\ Fail /\ mode' = "Poll" /\ UNCHANGED metaWatcher
       \/ ~(GitUsable /\ watcher) /\ NoFault /\ UNCHANGED <<metaWatcher, mode>>
    /\ pc' = IF GitUsable THEN "full" ELSE IF watcher THEN "loop" ELSE "done"
    /\ resume' = "loop"
    /\ UNCHANGED <<envVars, deadlineVars, watcher, watcherAvailable, batch,
                   refresh, result, source, boxVars, editorVars, wake>>

-----------------------------------------------------------------------------
(* maybeRefreshAll, maybeRefreshPaths and GitDiffSource.                    *)

RefreshUnchanged == UNCHANGED <<envVars, deadlineVars, loopVars, resume,
                                boxVars, editorVars, wake>>

\* Every refresh reads the branch first; it may throw.
ReadBranch(next) ==
    \/ /\ source' = [source EXCEPT !.branch = branch]
       /\ pc' = next /\ NoFault /\ UNCHANGED result
    \/ Fail /\ result' = "retry" /\ pc' = "branch" /\ UNCHANGED source

BeginRefresh(kind, next) ==
    /\ pc = kind
    /\ refresh' = kind
    /\ \/ stop /\ pc' = "done" /\ NoFault /\ UNCHANGED <<source, result>>
       \/ ~stop /\ ReadBranch(next)
    /\ RefreshUnchanged

BeginFullRefresh == BeginRefresh("full", "fullScan")
BeginPathRefresh == BeginRefresh("paths", "pathScan")

\* What an applied scan leaves in the source: a tree, the next published
\* revision, and the branch published along with it.
Applied(tree) == [source EXCEPT !.tree = tree, !.revision = @ + 1,
                                !.publishedBranch = source.branch]

\* A refresh that returned looks at stop_ once more.
Returned(outcome) == /\ result' = outcome
                     /\ pc' = IF stop THEN "done" ELSE "branch"
Threw == result' = "retry" /\ pc' = "branch"

FullScan ==
    /\ pc = "fullScan"
    /\ \/ NoFault /\ source' = Applied(repo) /\ Returned("applied")
       \* incomplete or rejected scan
       \/ Fail /\ Returned("retry") /\ UNCHANGED source
       \* the scan itself throws
       \/ Fail /\ Threw /\ UNCHANGED source
       \* applied, but reading the metadata directories afterwards throws
       \/ refresh = "full" /\ Fail /\ source' = Applied(repo) /\ Threw
    /\ UNCHANGED refresh /\ RefreshUnchanged

\* Only the paths of the batch are scanned.  A baseline other than the
\* published one turns the refresh into a full one, and so may a rename with
\* one end outside the batch.
PathScan ==
    /\ pc = "pathScan"
    /\ \/ /\ source.tree[HEAD] \in {0, repo[HEAD]} /\ NoFault
          /\ source' = Applied([i \in Items |->
                                  IF i \in batch.files \cup {HEAD}
                                  THEN repo[i] ELSE source.tree[i]])
          /\ Returned("applied")
       \/ ReadBranch("fullScan")
       \/ Fail /\ Returned("retry") /\ UNCHANGED source
    /\ UNCHANGED refresh /\ RefreshUnchanged

-----------------------------------------------------------------------------
(* handleResult.                                                            *)

LatestAppliedScan == [revision |-> source.revision - 1, tree |-> source.tree,
                      branch |-> source.branch]
BranchOnlyScan == [revision |-> 0, tree |-> NoTree, branch |-> source.branch]

\* Mutants: a scan is queued in front; a scan replaces those not drained yet.
QueueInFront(scan, notify, next) ==
    /\ pendingScans' = <<scan>> \o pendingScans
    /\ pc' = IF pendingScans = <<>> THEN notify ELSE next
    /\ UNCHANGED <<pendingWatchEvents, pendingFullReconcile>>
QueueLatestOnly(scan, notify, next) ==
    /\ pendingScans' = <<scan>>
    /\ pc' = IF pendingScans = <<>> THEN notify ELSE next
    /\ UNCHANGED <<pendingWatchEvents, pendingFullReconcile>>

\* Queue a scan; only one queued behind nothing is announced.
Queue(scan, notify, next) ==
    /\ pendingScans' = Append(pendingScans, scan)
    /\ pc' = IF pendingScans = <<>> THEN notify ELSE next
    /\ UNCHANGED <<pendingWatchEvents, pendingFullReconcile>>

QueueBranchScan ==
    /\ pc = "branch"
    /\ \/ /\ source.branch # source.publishedBranch
          /\ source' = [source EXCEPT !.publishedBranch = source.branch]
          /\ Queue(BranchOnlyScan, "branchNotify", "scan")
       \/ /\ source.branch = source.publishedBranch
          /\ pc' = "scan" /\ UNCHANGED <<source, boxVars>>
    /\ UNCHANGED <<envVars, deadlineVars, loopVars, refresh, result, resume,
                   editorVars, wake, faults>>

\* An applied refresh is queued and ends the retry; a failed path refresh is
\* tried again as a full one, a failed full one after a delay.
HandleResult ==
    /\ pc = "scan"
    /\ \/ /\ result = "applied"
          /\ Queue(LatestAppliedScan, "scanNotify", resume)
          /\ retryPending' = FALSE
       \/ /\ result = "retry" /\ refresh = "paths"
          /\ pc' = "full" /\ UNCHANGED <<boxVars, retryPending>>
       \/ /\ result = "retry" /\ refresh = "full"
          /\ retryPending' = TRUE /\ pc' = resume /\ UNCHANGED boxVars
    /\ retryDue' = (retryDue /\ retryPending' /\ refresh = "paths")
    /\ UNCHANGED <<envVars, pollDue, backstopDue, ticks, loopVars,
                   refreshVars, editorVars, wake, faults>>

Notify ==
    /\ pc \in NotifyPcs
    /\ wake' = TRUE
    /\ pc' = IF pc = "scanNotify" THEN resume ELSE AfterNotify[pc]
    /\ UNCHANGED <<envVars, deadlineVars, loopVars, refreshVars, boxVars,
                   editorVars, faults>>

-----------------------------------------------------------------------------
(* The loop of run().                                                       *)

EventMode == GitUsable /\ mode = "Event"

SomethingDue == \/ kernel # NoEvents
                \/ retryDue \/ pollDue
                \/ EventMode /\ (backstopDue \/ metaSignal)

ObserveStop ==
    /\ pc = "loop" /\ stop /\ pc' = "done"
    /\ UNCHANGED <<envVars, deadlineVars, loopVars, refreshVars, boxVars,
                   editorVars, wake, faults>>

\* A lap with nothing due and no event changes nothing and is left out.
PollWatcher ==
    /\ pc = "loop" /\ ~stop /\ watcher /\ SomethingDue
    /\ batch' = kernel /\ kernel' = NoEvents
    /\ pc' = "events"
    /\ UNCHANGED <<repo, branch, metaSignal, unseen, changes, deadlineVars,
                   mode, watcher, metaWatcher, watcherAvailable, refreshVars,
                   boxVars, editorVars, wake, faults>>

WatcherDies ==
    /\ pc = "loop" /\ ~stop /\ watcher /\ Fail
    /\ watcher' = FALSE /\ metaWatcher' = FALSE
    /\ watcherAvailable' = FALSE /\ mode' = "Poll"
    /\ kernel' = NoEvents /\ metaSignal' = FALSE /\ unseen' = {}
    /\ pc' = "diedNotify"
    /\ UNCHANGED <<repo, branch, changes, deadlineVars, batch, refreshVars,
                   boxVars, editorVars, wake>>

RefreshAfterDeath ==
    /\ pc = "died"
    /\ pc' = IF GitUsable THEN "full" ELSE "loop"
    /\ resume' = "loop"
    /\ UNCHANGED <<envVars, deadlineVars, loopVars, refresh, result, source,
                   boxVars, editorVars, wake, faults>>

WaitWithoutWatcher ==
    /\ pc = "loop" /\ ~stop /\ ~watcher /\ SomethingDue
    /\ pc' = "meta"
    /\ UNCHANGED <<envVars, deadlineVars, loopVars, refreshVars, boxVars,
                   editorVars, wake, faults>>

\* Hand the events to the editor; after an overflow, ask it to reconcile all.
QueueWatchEvents ==
    /\ pc = "events"
    /\ \/ /\ batch.overflow
          /\ pendingFullReconcile' = TRUE
          /\ pc' = IF /\ pendingScans = <<>> /\ pendingWatchEvents = {}
                      /\ ~pendingFullReconcile
                   THEN "reconcileNotify" ELSE "eventsScan"
          /\ UNCHANGED pendingWatchEvents
       \/ /\ ~batch.overflow
          /\ pendingWatchEvents' = pendingWatchEvents \cup batch.files
          /\ pc' = IF /\ batch.files # {}
                      /\ pendingScans = <<>> /\ pendingWatchEvents = {}
                   THEN "eventsNotify" ELSE "eventsGit"
          /\ UNCHANGED pendingFullReconcile
    /\ UNCHANGED <<envVars, deadlineVars, loopVars, refreshVars, pendingScans,
                   editorVars, wake, faults>>

\* The rest of a lap: each stage refreshes if it has reason to, then the next.
Stage(here, reason, kind, next) ==
    /\ pc = here
    /\ pc' = IF reason THEN kind ELSE next
    /\ resume' = IF reason THEN next ELSE resume
    /\ UNCHANGED <<refresh, result, source, boxVars, editorVars, wake>>

RefreshOnGitEvent ==
    /\ Stage("eventsGit", batch.git /\ GitUsable, "full", "eventsScan")
    /\ UNCHANGED <<envVars, deadlineVars, loopVars, faults>>

RefreshOnOverflow ==
    /\ batch.overflow \/ batch.files = {}
    /\ Stage("eventsScan", EventMode /\ batch.overflow, "full", "meta")
    /\ UNCHANGED <<envVars, deadlineVars, loopVars, faults>>

RefreshOnFileEvents ==
    /\ ~batch.overflow /\ batch.files # {}
    /\ Stage("eventsScan", EventMode, "paths", "meta")
    /\ UNCHANGED <<envVars, deadlineVars, loopVars, faults>>

PollMetadataWatcher ==
    /\ Stage("meta", EventMode /\ metaWatcher /\ metaSignal, "full", "retry")
    /\ metaSignal' = (metaSignal /\ ~(EventMode /\ metaWatcher))
    /\ batch' = NoEvents
    /\ UNCHANGED <<repo, branch, kernel, unseen, changes, deadlineVars, mode,
                   watcher, metaWatcher, watcherAvailable, faults>>

MetadataWatcherFails ==
    /\ pc = "meta" /\ EventMode /\ metaWatcher /\ Fail
    /\ metaWatcher' = FALSE /\ metaSignal' = FALSE /\ mode' = "Poll"
    /\ batch' = NoEvents /\ pc' = "retry"
    /\ UNCHANGED <<repo, branch, kernel, unseen, changes, deadlineVars,
                   watcher, watcherAvailable, refreshVars, boxVars,
                   editorVars, wake>>

RefreshOnRetry ==
    /\ Stage("retry", retryDue, "full", "poll")
    /\ UNCHANGED <<envVars, deadlineVars, loopVars, faults>>

RefreshOnPoll ==
    /\ Stage("poll", mode = "Poll" /\ pollDue, "full", "backstop")
    /\ pollDue' = (pollDue /\ mode # "Poll")
    /\ UNCHANGED <<envVars, retryPending, backstopDue, retryDue, ticks,
                   loopVars, faults>>

\* Mutant: Event mode has no backstop.
NoBackstop ==
    /\ Stage("backstop", FALSE, "full", "loop")
    /\ UNCHANGED <<envVars, deadlineVars, loopVars, faults>>

RefreshOnBackstop ==
    /\ Stage("backstop", mode = "Event" /\ backstopDue, "full", "loop")
    /\ backstopDue' = (backstopDue /\ mode # "Event")
    /\ UNCHANGED <<envVars, retryPending, pollDue, retryDue, ticks,
                   loopVars, faults>>

Loop == \/ ObserveStop \/ PollWatcher \/ WatcherDies \/ RefreshAfterDeath
        \/ WaitWithoutWatcher \/ QueueWatchEvents \/ RefreshOnGitEvent
        \/ RefreshOnOverflow \/ RefreshOnFileEvents \/ PollMetadataWatcher
        \/ MetadataWatcherFails \/ RefreshOnRetry \/ RefreshOnPoll
        \/ RefreshOnBackstop

Worker == \/ Start \/ StartMetadataWatcher
          \/ BeginFullRefresh \/ BeginPathRefresh \/ FullScan \/ PathScan
          \/ QueueBranchScan \/ HandleResult \/ Notify
          \/ Loop

-----------------------------------------------------------------------------
(* The editor thread: GitDiffWorker's constructor, drain, Editor::pump and  *)
(* the destructor.                                                          *)

EditorUnchanged == UNCHANGED <<repo, branch, kernel, metaSignal, changes,
                               deadlineVars, loopVars, refreshVars, pc>>

Construct ==
    /\ rpc = "constructing"
    /\ lastPublishedWatcherAvailable' = watcherAvailable
    /\ rpc' = "idle"
    /\ EditorUnchanged
    /\ UNCHANGED <<boxVars, wake, inbox, shown, lastGitScanRevision, stop,
                   unseen, faults>>

\* drain(), in its three steps: consume the wake byte, publish the
\* availability, take what is queued.
Consume ==
    /\ rpc = "idle" /\ wake
    /\ wake' = FALSE
    /\ rpc' = "consumed"
    /\ EditorUnchanged
    /\ UNCHANGED <<boxVars, inbox, shown, lastGitScanRevision, stop,
                   lastPublishedWatcherAvailable, unseen, faults>>

PublishAvailability ==
    /\ rpc = "consumed"
    /\ lastPublishedWatcherAvailable' = watcherAvailable
    /\ rpc' = "published"
    /\ EditorUnchanged
    /\ UNCHANGED <<boxVars, wake, inbox, shown, lastGitScanRevision, stop,
                   unseen, faults>>

\* Mutant: the reconcile flag is cleared and not handed over.
SwapDropsReconcile ==
    /\ rpc = "published"
    /\ inbox' = [scans |-> pendingScans, events |-> pendingWatchEvents,
                 reconcile |-> FALSE]
    /\ pendingScans' = <<>> /\ pendingWatchEvents' = {}
    /\ pendingFullReconcile' = FALSE
    /\ rpc' = "adopting"
    /\ EditorUnchanged
    /\ UNCHANGED <<wake, shown, lastGitScanRevision, stop,
                   lastPublishedWatcherAvailable, unseen, faults>>

Swap ==
    /\ rpc = "published"
    /\ inbox' = [scans |-> pendingScans, events |-> pendingWatchEvents,
                 reconcile |-> pendingFullReconcile]
    /\ pendingScans' = <<>> /\ pendingWatchEvents' = {}
    /\ pendingFullReconcile' = FALSE
    /\ rpc' = "adopting"
    /\ EditorUnchanged
    /\ UNCHANGED <<wake, shown, lastGitScanRevision, stop,
                   lastPublishedWatcherAvailable, unseen, faults>>

\* applyGitDiffScanLocked: what the editor shows after a scan.  A scan that is
\* not newer than the last one is dropped; one the diff model refuses leaves
\* its branch only.
Adopt(scan) ==
    \/ /\ scan.revision = 0 /\ NoFault
       /\ shown' = [shown EXCEPT !.branch = scan.branch]
       /\ UNCHANGED lastGitScanRevision
    \/ /\ scan.revision # 0 /\ scan.revision <= lastGitScanRevision
       /\ NoFault /\ UNCHANGED <<shown, lastGitScanRevision>>
    \/ /\ scan.revision > lastGitScanRevision
       /\ \/ /\ NoFault
             /\ shown' = [tree |-> scan.tree, branch |-> scan.branch]
             /\ lastGitScanRevision' = scan.revision
          \/ /\ Fail
             /\ shown' = [shown EXCEPT !.branch = scan.branch]
             /\ UNCHANGED lastGitScanRevision

AdoptScan ==
    /\ rpc = "adopting" /\ inbox.scans # <<>>
    /\ Adopt(Head(inbox.scans))
    /\ inbox' = [inbox EXCEPT !.scans = Tail(@)]
    /\ EditorUnchanged
    /\ UNCHANGED <<boxVars, wake, rpc, stop, lastPublishedWatcherAvailable,
                   unseen>>

\* Mutant: the wake byte is consumed after the queues were taken.
IngestThenConsume ==
    /\ rpc = "adopting" /\ inbox.scans = <<>>
    /\ unseen' = IF inbox.reconcile THEN {} ELSE unseen \ inbox.events
    /\ inbox' = EmptyInbox
    /\ rpc' = "idle" /\ wake' = FALSE
    /\ EditorUnchanged
    /\ UNCHANGED <<boxVars, shown, lastGitScanRevision, stop,
                   lastPublishedWatcherAvailable, faults>>

\* The external-modification flow reads the files of the events, or of every
\* open document, as they are now.
IngestEvents ==
    /\ rpc = "adopting" /\ inbox.scans = <<>>
    /\ unseen' = IF inbox.reconcile THEN {} ELSE unseen \ inbox.events
    /\ inbox' = EmptyInbox
    /\ rpc' = "idle"
    /\ EditorUnchanged
    /\ UNCHANGED <<boxVars, wake, shown, lastGitScanRevision, stop,
                   lastPublishedWatcherAvailable, faults>>

Pump == \/ Construct \/ Consume \/ PublishAvailability \/ Swap \/ AdoptScan
        \/ IngestEvents

Stop ==
    /\ CanStop /\ rpc = "idle"
    /\ stop' = TRUE /\ rpc' = "joining"
    /\ EditorUnchanged
    /\ UNCHANGED <<boxVars, wake, inbox, shown, lastGitScanRevision,
                   lastPublishedWatcherAvailable, unseen, faults>>

Join ==
    /\ rpc = "joining" /\ pc = "done"
    /\ rpc' = "joined"
    /\ EditorUnchanged
    /\ UNCHANGED <<boxVars, wake, inbox, shown, lastGitScanRevision, stop,
                   lastPublishedWatcherAvailable, unseen, faults>>

Ended == rpc = "joined" /\ UNCHANGED vars

World == \/ \E f \in Files : FileChanges(f)
         \/ Commit \/ SwitchBranch
Time == PollElapses \/ BackstopElapses \/ RetryElapses

Next == World \/ Time \/ Worker \/ Pump \/ Stop \/ Join \/ Ended

\* The thread is scheduled, the event loop serves a ready wake and time
\* passes; no failure is ever owed.
Fairness == /\ WF_vars(Worker /\ NoFault) /\ WF_vars(Pump /\ NoFault)
            /\ WF_vars(Time) /\ WF_vars(Join)

Spec == Init /\ [][Next]_vars /\ Fairness

-----------------------------------------------------------------------------
(* Properties.                                                              *)

EditorPcs == {"constructing", "idle", "consumed", "published", "adopting",
              "joining", "joined"}

\* Type invariant.
TypeOK ==
    /\ repo \in Trees /\ branch \in Nat
    /\ kernel \in Events /\ metaSignal \in BOOLEAN
    /\ pc \in Pcs
    /\ mode \in {"Event", "Poll"}
    /\ watcher \in BOOLEAN /\ metaWatcher \in BOOLEAN
    /\ batch \in Events
    /\ refresh \in {"full", "paths"} /\ result \in {"applied", "retry"}
    /\ resume \in ResumePcs
    /\ retryPending \in BOOLEAN /\ pollDue \in BOOLEAN
    /\ backstopDue \in BOOLEAN /\ retryDue \in BOOLEAN
    /\ source \in Sources
    /\ pendingScans \in Seq(Scans) /\ pendingWatchEvents \in SUBSET Files
    /\ pendingFullReconcile \in BOOLEAN
    /\ watcherAvailable \in BOOLEAN /\ wake \in BOOLEAN /\ stop \in BOOLEAN
    /\ rpc \in EditorPcs /\ inbox \in Inboxes
    /\ shown \in [tree : Trees, branch : Nat] /\ lastGitScanRevision \in Nat
    /\ lastPublishedWatcherAvailable \in BOOLEAN
    /\ unseen \in SUBSET Files
    /\ changes \in Nat /\ faults \in Nat /\ ticks \in Nat

SomethingQueued == \/ pendingScans # <<>> \/ pendingWatchEvents # {}
                   \/ pendingFullReconcile

\* Whatever is queued will be drained without anything else happening: the
\* wake byte is set, or the worker is about to set it, or a drain that has
\* consumed it has not taken the queues yet.  (Only the first of several
\* queued things is announced, outside the mutex.)
NoLostWakeup ==
    SomethingQueued => wake \/ pc \in NotifyPcs \/ rpc \in {"consumed", "published"}

\* An availability the editor has not published is on its way to it, though
\* it is an atomic outside the mutex that drain() reads before the queues.
AvailabilityCovered ==
    rpc # "constructing" /\ watcherAvailable # lastPublishedWatcherAvailable
       => wake \/ pc \in {"startNotify", "diedNotify"} \/ rpc = "consumed"

\* Scans on their way to the editor; those of revision 0 carry a branch only.
InFlight == inbox.scans \o pendingScans

\* The scans in flight are newer than the last one adopted, each newer than
\* those before and older than the one the source makes next: the editor's
\* revision check never drops a scan of this worker.
PublishedInOrder ==
    /\ \A i \in DOMAIN InFlight : InFlight[i].revision # 0 =>
          /\ lastGitScanRevision < InFlight[i].revision
          /\ InFlight[i].revision < source.revision
          /\ \A j \in 1..i - 1 : InFlight[j].revision < InFlight[i].revision
    /\ lastGitScanRevision < source.revision

\* A change the watcher saw and the editor has not reconciled is still held
\* by the kernel, the batch, the queue or the batch being ingested, or an
\* overflow that stands for it is.
NoMissedChange ==
    \/ unseen \subseteq kernel.files \cup pendingWatchEvents \cup inbox.events
                        \cup (IF pc = "events" THEN batch.files ELSE {})
    \/ kernel.overflow \/ (pc = "events" /\ batch.overflow)
    \/ pendingFullReconcile \/ inbox.reconcile

\* Outside a refresh the last branch read is the last one published, so a scan
\* that fails does not hide the branch; only a scan that was applied and then
\* given up, which the retry publishes, holds it back.
BranchPublished ==
    LET published == IF InFlight = <<>> THEN shown.branch
                     ELSE InFlight[Len(InFlight)].branch
        revisions == {lastGitScanRevision}
                     \cup {InFlight[i].revision : i \in DOMAIN InFlight}
    IN  pc \in ResumePcs =>
           \/ published = source.branch
           \/ retryPending /\ \A r \in revisions : r < source.revision - 1

\* The editor never goes back to an older version of a file, of the baseline
\* or of the branch than one it has shown, although path refreshes patch
\* single files into the last tree and scans wait in a queue.
NeverShowsOlder ==
    [][ /\ \A i \in Items : shown'.tree[i] >= shown.tree[i]
        /\ shown'.branch >= shown.branch ]_shown

\* Where Git is in use: when the repository comes to rest the editor comes to show it, after
\* failed and discarded scans, lost events, overflows and a dead watcher.
Converges ==
    GitUsable => <>[](stop \/ shown = [tree |-> repo, branch |-> branch])

\* Every change the watcher saw is reconciled with the open documents.
EventuallyIngested == <>[](stop \/ unseen = {})

\* The editor learns whether external changes are being watched.
AvailabilityReported ==
    <>[](stop \/ lastPublishedWatcherAvailable = watcherAvailable)

\* The destructor's join returns: the worker notices stop_ wherever it is.
Joined == stop ~> rpc = "joined"

\* Whatever the worker has for the editor thread gets there: a branch that
\* changed is published with or without its files, the events and overflows of
\* the watcher are ingested, a watcher that comes or goes is reported, and the
\* destructor's join returns (run, drain, ~GitDiffWorker).
EverythingIsHandedOver ==
    []BranchPublished /\ EventuallyIngested /\ AvailabilityReported /\ Joined

\* The queue of scans is a hand-off.
ScanHandOff == INSTANCE HandOff WITH box <- pendingScans, hand <- inbox.scans,
                                     closed <- stop
ImplementsHandOff == ScanHandOff!Spec
=============================================================================
