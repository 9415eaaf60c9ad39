------------------------- MODULE GitDiffWorkerProofs -------------------------
(***************************************************************************)
(* Proofs about GitDiffWorker for every set of files, every configuration  *)
(* and every bound.                                                        *)
(***************************************************************************)
EXTENDS GitDiffWorker, SequenceTheorems, TLAPS

\* The variables an action leaves alone and the fields of the source, for the
\* leaves below.
USE DEF vars, envVars, deadlineVars, loopVars, refreshVars, boxVars,
        editorVars, Sources

\* An empty message is a message.
LEMMA Empties ==
    /\ NoTree \in Trees
    /\ NoEvents \in Events
    /\ EmptyInbox \in Inboxes
BY DEF NoTree, Trees, NoEvents, Events, EmptyInbox, Inboxes

\* A change of the world keeps the types.
LEMMA WorldTypes ==
    ASSUME TypeOK, World \/ Time
    PROVE  TypeOK'
<1> USE DEF TypeOK
<1>1. ASSUME NEW f \in Files, FileChanges(f)
      PROVE  TypeOK'
  <2>1. repo' \in Trees /\ changes' \in Nat
    BY <1>1 DEF FileChanges, Change, Trees, Items
  <2>2. kernel' \in Events
    <3>1. [NoEvents EXCEPT !.overflow = TRUE] \in Events
      BY DEF NoEvents, Events
    <3>2. [kernel EXCEPT !.files = kernel.files \cup {f}] \in Events
      BY DEF Events
    <3>3. CASE Enqueue(f)
      BY <3>1, <3>2, <3>3 DEF Enqueue
    <3> QED BY <1>1, <3>3 DEF FileChanges
  <2>3. unseen' \in SUBSET Files /\ faults' \in Nat
    BY <1>1 DEF FileChanges, Fail, NoFault
  <2> QED BY <1>1, <2>1, <2>2, <2>3 DEF FileChanges
<1>2. ASSUME Commit
      PROVE  TypeOK'
  <2>1. repo' \in Trees /\ changes' \in Nat
    BY <1>2 DEF Commit, Change, Trees, Items
  <2>2. kernel' \in Events /\ metaSignal' \in BOOLEAN
    BY <1>2 DEF Commit, MetadataWritten, Events
  <2> QED BY <1>2, <2>1, <2>2 DEF Commit
<1>3. ASSUME SwitchBranch
      PROVE  TypeOK'
  <2>1. branch' \in Nat /\ changes' \in Nat
    BY <1>3 DEF SwitchBranch, Change
  <2>2. kernel' \in Events /\ metaSignal' \in BOOLEAN
    BY <1>3 DEF SwitchBranch, MetadataWritten, Events
  <2> QED BY <1>3, <2>1, <2>2 DEF SwitchBranch
<1>4. CASE PollElapses
  BY <1>4 DEF PollElapses, Tick, DeadlineUnchanged
<1>5. CASE BackstopElapses
  BY <1>5 DEF BackstopElapses, Tick, DeadlineUnchanged
<1>6. CASE RetryElapses
  BY <1>6 DEF RetryElapses, DeadlineUnchanged
<1> QED
  BY <1>1, <1>2, <1>3, <1>4, <1>5, <1>6 DEF World, Time

\* What a refresh leaves in the source is a source.
LEMMA SourceTypes ==
    ASSUME TypeOK, NEW tree \in Trees
    PROVE  /\ Applied(tree) \in Sources
           /\ [source EXCEPT !.branch = branch] \in Sources
<1>1. /\ source \in Sources
      /\ branch \in Nat
  BY DEF TypeOK
<1>2. source.revision + 1 \in Nat \ {0}
  BY <1>1
<1> QED BY <1>1, <1>2 DEF Applied

\* The scans that are queued are scans.
LEMMA QueuedScanTypes ==
    ASSUME TypeOK
    PROVE  /\ BranchOnlyScan \in Scans /\ LatestAppliedScan \in Scans
           /\ Append(pendingScans, BranchOnlyScan) \in Seq(Scans)
           /\ Append(pendingScans, LatestAppliedScan) \in Seq(Scans)
<1>1. BranchOnlyScan \in Scans /\ LatestAppliedScan \in Scans
  BY Empties DEF TypeOK, BranchOnlyScan, LatestAppliedScan, Scans
<1>2. pendingScans \in Seq(Scans)
  BY DEF TypeOK
<1> QED BY <1>1, <1>2

\* A step of start-up, of a refresh or of its result keeps the types.
LEMMA RefreshTypes ==
    ASSUME TypeOK,
           \/ Start \/ StartMetadataWatcher \/ BeginFullRefresh
           \/ BeginPathRefresh \/ FullScan \/ PathScan \/ QueueBranchScan
           \/ HandleResult \/ Notify
    PROVE  TypeOK'
<1> USE DEF TypeOK, Fail, NoFault, Pcs, NotifyPcs, ResumePcs, AfterNotify
<1>1. CASE Start
  <2>1. watcher' \in BOOLEAN /\ watcherAvailable' \in BOOLEAN
    BY <1>1 DEF Start
  <2>2. faults' \in Nat
    BY <1>1 DEF Start
  <2>3. mode' \in {"Event", "Poll"} /\ pc' \in Pcs
    BY <1>1 DEF Start
  <2> QED BY <1>1, <2>1, <2>2, <2>3 DEF Start
<1>2. CASE StartMetadataWatcher
  <2>1. metaWatcher' \in BOOLEAN /\ mode' \in {"Event", "Poll"}
    BY <1>2 DEF StartMetadataWatcher
  <2>2. faults' \in Nat /\ resume' \in ResumePcs /\ pc' \in Pcs
    BY <1>2 DEF StartMetadataWatcher
  <2> QED BY <1>2, <2>1, <2>2 DEF StartMetadataWatcher
<1>3. ASSUME BeginFullRefresh \/ BeginPathRefresh PROVE TypeOK'
  BY <1>3, SMTT(30) DEF BeginFullRefresh, BeginPathRefresh, BeginRefresh, ReadBranch,
              RefreshUnchanged
<1>4. CASE FullScan
  <2>1. Applied(repo) \in Sources
    BY SourceTypes
  <2> QED BY <1>4, <2>1 DEF FullScan, Returned, Threw, RefreshUnchanged
<1>5. CASE PathScan
  <2> DEFINE tree == [i \in Items |-> IF i \in batch.files \cup {HEAD}
                                      THEN repo[i] ELSE source.tree[i]]
  <2>1. tree \in Trees
    BY DEF Trees
  <2>2. Applied(tree) \in Sources
    BY <2>1, SourceTypes
  <2> HIDE DEF tree
  <2>3. source' \in Sources
    BY <1>5, <2>2 DEF PathScan, ReadBranch, tree
  <2> QED BY <1>5, <2>3 DEF PathScan, ReadBranch, Returned, RefreshUnchanged
<1>6. CASE QueueBranchScan
  <2>1. pendingScans' \in Seq(Scans)
    <3>1. \/ pendingScans' = Append(pendingScans, BranchOnlyScan)
          \/ UNCHANGED pendingScans
      BY <1>6 DEF QueueBranchScan, Queue
    <3> QED BY <3>1, QueuedScanTypes
  <2>2. [source EXCEPT !.publishedBranch = source.branch] \in Sources
    OBVIOUS
  <2>3. source' \in Sources
    BY <1>6, <2>2 DEF QueueBranchScan
  <2>4. /\ pc' \in Pcs
        /\ UNCHANGED <<pendingWatchEvents, pendingFullReconcile>>
    BY <1>6 DEF QueueBranchScan, Queue
  <2> QED BY <1>6, <2>1, <2>3, <2>4 DEF QueueBranchScan
<1>7. CASE HandleResult
  <2>1. pendingScans' \in Seq(Scans)
    <3>1. \/ pendingScans' = Append(pendingScans, LatestAppliedScan)
          \/ UNCHANGED pendingScans
      BY <1>7 DEF HandleResult, Queue
    <3> QED BY <3>1, QueuedScanTypes
  <2>2. retryPending' \in BOOLEAN /\ retryDue' \in BOOLEAN
    BY <1>7 DEF HandleResult
  <2>3. /\ pc' \in Pcs
        /\ UNCHANGED <<pendingWatchEvents, pendingFullReconcile>>
    BY <1>7 DEF HandleResult, Queue
  <2> QED BY <1>7, <2>1, <2>2, <2>3 DEF HandleResult
<1>8. CASE Notify
  BY <1>8 DEF Notify
<1> QED BY <1>1, <1>2, <1>3, <1>4, <1>5, <1>6, <1>7, <1>8

\* A step of the loop keeps the types.
LEMMA LoopTypes ==
    ASSUME TypeOK, Loop
    PROVE  TypeOK'
<1> USE Empties
    DEF TypeOK, Fail, NoFault, Pcs, NotifyPcs, ResumePcs, AfterNotify
<1>1. CASE ObserveStop
  BY <1>1 DEF ObserveStop
<1>2. CASE PollWatcher
  BY <1>2 DEF PollWatcher
<1>3. CASE WatcherDies
  <2>1. /\ watcher' \in BOOLEAN /\ metaWatcher' \in BOOLEAN
        /\ watcherAvailable' \in BOOLEAN /\ metaSignal' \in BOOLEAN
    BY <1>3 DEF WatcherDies
  <2>2. faults' \in Nat
    BY <1>3 DEF WatcherDies
  <2> QED BY <1>3, <2>1, <2>2 DEF WatcherDies
<1>4. CASE RefreshAfterDeath
  BY <1>4 DEF RefreshAfterDeath
<1>5. CASE WaitWithoutWatcher
  BY <1>5 DEF WaitWithoutWatcher
<1>6. CASE QueueWatchEvents
  <2>1. pendingWatchEvents' \in SUBSET Files
    BY <1>6 DEF QueueWatchEvents, Events
  <2>2. pendingFullReconcile' \in BOOLEAN
    BY <1>6 DEF QueueWatchEvents
  <2>3. pc' \in Pcs
    BY <1>6 DEF QueueWatchEvents
  <2> QED BY <1>6, <2>1, <2>2, <2>3 DEF QueueWatchEvents
<1>7. CASE RefreshOnGitEvent
  BY <1>7 DEF RefreshOnGitEvent, Stage
<1>8. CASE RefreshOnOverflow
  BY <1>8 DEF RefreshOnOverflow, Stage
<1>9. CASE RefreshOnFileEvents
  BY <1>9 DEF RefreshOnFileEvents, Stage
<1>10. CASE PollMetadataWatcher
  BY <1>10 DEF PollMetadataWatcher, Stage
<1>11. CASE MetadataWatcherFails
  <2>1. metaWatcher' \in BOOLEAN /\ metaSignal' \in BOOLEAN
    BY <1>11 DEF MetadataWatcherFails
  <2>2. faults' \in Nat
    BY <1>11 DEF MetadataWatcherFails
  <2> QED BY <1>11, <2>1, <2>2 DEF MetadataWatcherFails
<1>12. CASE RefreshOnRetry
  BY <1>12 DEF RefreshOnRetry, Stage
<1>13. CASE RefreshOnPoll
  BY <1>13 DEF RefreshOnPoll, Stage
<1>14. CASE RefreshOnBackstop
  BY <1>14 DEF RefreshOnBackstop, Stage
<1> QED
  BY <1>1, <1>2, <1>3, <1>4, <1>5, <1>6, <1>7, <1>8, <1>9, <1>10, <1>11,
     <1>12, <1>13, <1>14 DEF Loop

\* A step of the editor thread keeps the types.
LEMMA EditorTypes ==
    ASSUME TypeOK, Pump \/ Stop \/ Join
    PROVE  TypeOK'
<1> USE Empties DEF TypeOK, Fail, NoFault, EditorPcs, EditorUnchanged
<1>1. CASE Construct
  BY <1>1 DEF Construct
<1>2. CASE Consume
  <2>1. wake' \in BOOLEAN
    BY <1>2 DEF Consume
  <2> QED BY <1>2, <2>1 DEF Consume
<1>3. CASE PublishAvailability
  BY <1>3 DEF PublishAvailability
<1>4. CASE Swap
  <2>1. inbox' \in Inboxes
    BY <1>4 DEF Swap, Inboxes
  <2>2. pendingScans' \in Seq(Scans)
    BY <1>4 DEF Swap
  <2>3. pendingFullReconcile' \in BOOLEAN
    BY <1>4 DEF Swap
  <2> QED BY <1>4, <2>1, <2>2, <2>3 DEF Swap
<1>5. CASE AdoptScan
  <2>1. Head(inbox.scans) \in Scans /\ Tail(inbox.scans) \in Seq(Scans)
    BY <1>5 DEF AdoptScan, Inboxes
  <2>2. inbox' \in Inboxes
    BY <1>5, <2>1 DEF AdoptScan, Inboxes
  <2>3. /\ shown' \in [tree : Trees, branch : Nat]
        /\ lastGitScanRevision' \in Nat /\ faults' \in Nat
    <3> DEFINE scan == Head(inbox.scans)
    <3>1. scan \in Scans
      BY <2>1
    <3>2. Adopt(scan)
      BY <1>5 DEF AdoptScan
    <3>3. /\ scan.tree \in Trees /\ scan.branch \in Nat
          /\ scan.revision \in Nat
      BY <3>1 DEF Scans
    <3>4. [shown EXCEPT !.branch = scan.branch] \in [tree : Trees, branch : Nat]
      BY <3>3
    <3> HIDE DEF scan
    <3> QED BY <3>2, <3>3, <3>4, SMTT(30) DEF Adopt
  <2> QED BY <1>5, <2>2, <2>3 DEF AdoptScan
<1>6. CASE IngestEvents
  BY <1>6 DEF IngestEvents
<1>7. CASE Stop
  BY <1>7 DEF Stop
<1>8. CASE Join
  BY <1>8 DEF Join
<1> QED BY <1>1, <1>2, <1>3, <1>4, <1>5, <1>6, <1>7, <1>8 DEF Pump

\* The model's variables keep their types in every behaviour.
THEOREM TypeCorrect == Spec => []TypeOK
<1>1. Init => TypeOK
  <2> SUFFICES ASSUME Init PROVE TypeOK
    OBVIOUS
  <2>1. repo \in Trees
    BY DEF Init, Trees
  <2>2. source \in Sources
    <3>1. GitUse \subseteq BOOLEAN /\ NoTree \in Trees
      BY ConstantsAssumption, Empties
    <3>2. source \in [usable : GitUse, tree : {NoTree}, revision : {1},
                      branch : {0}, publishedBranch : {0}]
      BY DEF Init
    <3> QED BY <3>1, <3>2
  <2>6. shown \in [tree : Trees, branch : Nat]
    BY Empties DEF Init
  <2>3. /\ kernel \in Events /\ batch \in Events /\ inbox \in Inboxes
        /\ pendingScans \in Seq(Scans)
    BY Empties DEF Init
  <2>4. mode \in {"Event", "Poll"} /\ watcherAvailable \in BOOLEAN
    BY ConstantsAssumption DEF Init
  <2>5. pc \in Pcs /\ resume \in ResumePcs /\ rpc \in EditorPcs
    BY DEF Init, Pcs, ResumePcs, EditorPcs
  <2> QED BY <2>1, <2>2, <2>3, <2>4, <2>5, <2>6 DEF Init, TypeOK
<1>2. TypeOK /\ [Next]_vars => TypeOK'
  <2> SUFFICES ASSUME TypeOK, [Next]_vars PROVE TypeOK'
    OBVIOUS
  <2>1. CASE UNCHANGED vars
    BY <2>1 DEF TypeOK
  <2>2. CASE Worker
    BY <2>2, RefreshTypes, LoopTypes DEF Worker
  <2> QED
    BY <2>1, <2>2, WorldTypes, EditorTypes DEF Next, Ended
<1> QED BY <1>1, <1>2, PTL DEF Spec

-----------------------------------------------------------------------------
\* Nothing the worker queues waits without a wake byte being on its way: each
\* queue operation announces itself if it finds every queue empty, and if it
\* does not the invariant already held of what it found.
THEOREM WakeupNotLost == Spec => []NoLostWakeup
<1>1. Init => NoLostWakeup
  BY DEF Init, NoLostWakeup, SomethingQueued
<1>2. NoLostWakeup /\ [Next]_vars => NoLostWakeup'
  <2> SUFFICES ASSUME NoLostWakeup, [Next]_vars PROVE NoLostWakeup'
    OBVIOUS
  <2> USE DEF NoLostWakeup, SomethingQueued, NotifyPcs, AfterNotify
  <2>1. CASE UNCHANGED vars
    BY <2>1
  <2>2. CASE World \/ Time
    BY <2>2 DEF World, Time, FileChanges, Commit, SwitchBranch, PollElapses,
                BackstopElapses, RetryElapses, DeadlineUnchanged
  <2>3. CASE Start \/ StartMetadataWatcher \/ BeginFullRefresh
             \/ BeginPathRefresh \/ FullScan \/ PathScan
    BY <2>3 DEF Start, StartMetadataWatcher, BeginFullRefresh,
                BeginPathRefresh, BeginRefresh, FullScan, PathScan,
                RefreshUnchanged
  <2>4. CASE QueueBranchScan
    BY <2>4 DEF QueueBranchScan, Queue
  <2>5. CASE HandleResult
    BY <2>5 DEF HandleResult, Queue
  <2>6. CASE Notify
    BY <2>6 DEF Notify
  <2>7. CASE Loop
    <3>1. CASE QueueWatchEvents
      BY <3>1 DEF QueueWatchEvents
    <3> QED
      BY <2>7, <3>1
      DEF Loop, ObserveStop, PollWatcher, WatcherDies, RefreshAfterDeath,
          WaitWithoutWatcher, RefreshOnGitEvent, RefreshOnOverflow,
          RefreshOnFileEvents, PollMetadataWatcher, MetadataWatcherFails,
          RefreshOnRetry, RefreshOnPoll, RefreshOnBackstop, Stage
  <2>8. CASE Swap
    BY <2>8 DEF Swap
  <2>9. CASE Consume \/ PublishAvailability
    BY <2>9 DEF Consume, PublishAvailability, EditorUnchanged
  <2>10. CASE Construct \/ AdoptScan \/ IngestEvents \/ Stop \/ Join
    BY <2>10 DEF Construct, AdoptScan, IngestEvents, Stop, Join,
                 EditorUnchanged
  <2> QED
    BY <2>1, <2>2, <2>3, <2>4, <2>5, <2>6, <2>7, <2>8, <2>9, <2>10
    DEF Next, Worker, Pump, Ended
<1> QED BY <1>1, <1>2, PTL DEF Spec

\* The editor thread is always about to learn the watcher's availability when
\* it differs from the one it published: both places where the worker clears
\* it lead to a wake byte, and drain() compares after it consumed that byte.
THEOREM AvailabilityReachesEditor == Spec => []AvailabilityCovered
<1>1. Init => AvailabilityCovered
  BY DEF Init, AvailabilityCovered
<1>2. AvailabilityCovered /\ [Next]_vars => AvailabilityCovered'
  <2> SUFFICES ASSUME AvailabilityCovered, [Next]_vars
               PROVE  AvailabilityCovered'
    OBVIOUS
  <2> USE DEF AvailabilityCovered
  <2>1. CASE UNCHANGED vars
    BY <2>1
  <2>2. CASE World \/ Time
    BY <2>2 DEF World, Time, FileChanges, Commit, SwitchBranch, PollElapses,
                BackstopElapses, RetryElapses, DeadlineUnchanged
  <2>3. CASE Start
    BY <2>3 DEF Start
  <2>4. CASE WatcherDies
    BY <2>4 DEF WatcherDies
  <2>5. CASE Notify
    BY <2>5 DEF Notify
  <2>6. CASE StartMetadataWatcher \/ BeginFullRefresh \/ BeginPathRefresh
             \/ FullScan \/ PathScan \/ QueueBranchScan \/ HandleResult
    BY <2>6 DEF StartMetadataWatcher, BeginFullRefresh, BeginPathRefresh,
                BeginRefresh, FullScan, PathScan, RefreshUnchanged,
                QueueBranchScan, HandleResult
  <2>7. CASE Loop /\ ~WatcherDies
    BY <2>7
    DEF Loop, ObserveStop, PollWatcher, RefreshAfterDeath, WaitWithoutWatcher,
        QueueWatchEvents, RefreshOnGitEvent, RefreshOnOverflow,
        RefreshOnFileEvents, PollMetadataWatcher, MetadataWatcherFails,
        RefreshOnRetry, RefreshOnPoll, RefreshOnBackstop, Stage
  <2>8. CASE Pump \/ Stop \/ Join
    BY <2>8 DEF Pump, Construct, Consume, PublishAvailability, Swap,
                AdoptScan, IngestEvents, Stop, Join, EditorUnchanged
  <2> QED
    BY <2>1, <2>2, <2>3, <2>4, <2>5, <2>6, <2>7, <2>8
    DEF Next, Worker, Ended
<1> QED BY <1>1, <1>2, PTL DEF Spec

-----------------------------------------------------------------------------
(* The hand-off of scans and events.                                        *)

\* The editor thread takes scans and events and adopts them between two
\* commands, and the session ends there.
Scheduled ==
    /\ rpc # "adopting" => inbox = EmptyInbox
    /\ stop <=> rpc \in {"joining", "joined"}

LEMMA ScheduledAlways == Spec => []Scheduled
<1>1. Init => Scheduled
  BY DEF Init, Scheduled
<1>2. Scheduled /\ [Next]_vars => Scheduled'
  <2> SUFFICES ASSUME Scheduled, [Next]_vars
               PROVE  Scheduled'
    OBVIOUS
  <2> USE DEF Scheduled
  <2>1. CASE UNCHANGED editorVars
    BY <2>1
  <2>2. CASE UNCHANGED vars \/ World \/ Time \/ Worker
    BY <2>1, <2>2
    DEF World, FileChanges, Commit, SwitchBranch, Time, PollElapses,
        BackstopElapses, RetryElapses, DeadlineUnchanged, Worker, Start,
        StartMetadataWatcher, BeginFullRefresh, BeginPathRefresh, BeginRefresh,
        FullScan, PathScan, RefreshUnchanged, QueueBranchScan, HandleResult,
        Notify, Loop, ObserveStop, PollWatcher, WatcherDies, RefreshAfterDeath,
        WaitWithoutWatcher, QueueWatchEvents, RefreshOnGitEvent,
        RefreshOnOverflow, RefreshOnFileEvents, PollMetadataWatcher,
        MetadataWatcherFails, RefreshOnRetry, RefreshOnPoll, RefreshOnBackstop,
        Stage
  <2>3. CASE Pump
    BY <2>3 DEF Pump, Construct, Consume, PublishAvailability, Swap, AdoptScan,
                IngestEvents, EditorUnchanged
  <2>4. CASE Stop \/ Join \/ Ended
    BY <2>4 DEF Stop, Join, Ended
  <2> QED BY <2>2, <2>3, <2>4 DEF Next
<1> QED BY <1>1, <1>2, PTL DEF Spec

\* What the steps of the worker and the world do to the queue of scans.
LEMMA WorkerQueues ==
    ASSUME World \/ Time \/ Worker
    PROVE  /\ UNCHANGED <<inbox, stop, lastGitScanRevision>>
           /\ \/ UNCHANGED pendingScans
              \/ /\ QueueBranchScan
                 /\ pendingScans' = Append(pendingScans, BranchOnlyScan)
              \/ /\ HandleResult /\ result = "applied"
                 /\ pendingScans' = Append(pendingScans, LatestAppliedScan)
<1>1. CASE UNCHANGED <<inbox, stop, lastGitScanRevision, pendingScans>>
  BY <1>1
<1>2. CASE World \/ Time
  BY <1>1, <1>2
  DEF World, FileChanges, Commit, SwitchBranch, Time, PollElapses,
      BackstopElapses, RetryElapses, DeadlineUnchanged
<1>3. CASE Start \/ StartMetadataWatcher \/ BeginFullRefresh
           \/ BeginPathRefresh \/ FullScan \/ PathScan \/ Notify
  BY <1>1, <1>3
  DEF Start, StartMetadataWatcher, BeginFullRefresh, BeginPathRefresh,
      BeginRefresh, FullScan, PathScan, RefreshUnchanged, Notify
<1>4. CASE QueueBranchScan
  BY <1>4 DEF QueueBranchScan, Queue
<1>5. CASE HandleResult
  BY <1>5 DEF HandleResult, Queue
<1>6. CASE Loop
  BY <1>1, <1>6
  DEF Loop, ObserveStop, PollWatcher, WatcherDies, RefreshAfterDeath,
      WaitWithoutWatcher, QueueWatchEvents, RefreshOnGitEvent,
      RefreshOnOverflow, RefreshOnFileEvents, PollMetadataWatcher,
      MetadataWatcherFails, RefreshOnRetry, RefreshOnPoll, RefreshOnBackstop,
      Stage
<1> QED BY <1>2, <1>3, <1>4, <1>5, <1>6 DEF Worker

\* The queue of scans keeps what a hand-off promises of every step: a queued
\* scan stays, all are taken together and in order, each is adopted once, and
\* none is taken once the session is over.
THEOREM ScansAreHandedOff == Spec => ScanHandOff!Safety
<1>1. Init => ScanHandOff!Init
  BY DEF Init, EmptyInbox, ScanHandOff!Init
<1>2. TypeOK /\ Scheduled /\ [Next]_vars
         => [ScanHandOff!Next]_(ScanHandOff!vars)
  <2> SUFFICES ASSUME TypeOK, Scheduled, [Next]_vars
               PROVE  ScanHandOff!Next \/ UNCHANGED <<pendingScans, inbox.scans, stop>>
    BY DEF ScanHandOff!vars
  <2> USE DEF EditorUnchanged, ScanHandOff!Next
  <2>1. CASE World \/ Time \/ Worker
    <3>1. ASSUME NEW scan, pendingScans' = Append(pendingScans, scan),
                 UNCHANGED <<inbox, stop>>
          PROVE  ScanHandOff!Post
      <4>1. /\ Len(pendingScans') > Len(pendingScans)
            /\ SubSeq(pendingScans', 1, Len(pendingScans)) = pendingScans
        BY <3>1 DEF TypeOK
      <4> QED BY <3>1, <4>1 DEF ScanHandOff!Post
    <3> QED BY <2>1, <3>1, WorkerQueues, SMTT(30)
  <2>2. CASE Construct \/ Consume \/ PublishAvailability \/ Join \/ UNCHANGED vars
    BY <2>2 DEF Construct, Consume, PublishAvailability, Join
  <2>3. CASE Swap
    <3>1. inbox.scans = <<>> /\ inbox'.scans = pendingScans /\ ~stop
      BY <2>3 DEF Swap, Scheduled, EmptyInbox
    <3> QED BY <2>3, <3>1 DEF Swap, ScanHandOff!Take
  <2>4. CASE AdoptScan
    <3>1. inbox'.scans = Tail(inbox.scans)
      BY <2>4 DEF AdoptScan, TypeOK, Inboxes
    <3> QED BY <2>4, <3>1 DEF AdoptScan, ScanHandOff!Handle
  <2>5. CASE IngestEvents
    BY <2>5 DEF IngestEvents, EmptyInbox
  <2>6. CASE Stop
    <3>1. inbox.scans = <<>>
      BY <2>6 DEF Stop, Scheduled, EmptyInbox
    <3>2. stop' = TRUE /\ UNCHANGED <<pendingScans, inbox.scans>>
      BY <2>6 DEF Stop
    <3> QED BY <3>1, <3>2 DEF ScanHandOff!Close
  <2> QED
    BY <2>1, <2>2, <2>3, <2>4, <2>5, <2>6 DEF Next, Pump, Ended
<1> QED
  BY <1>1, <1>2, TypeCorrect, ScheduledAlways, PTL DEF Spec, ScanHandOff!Safety

-----------------------------------------------------------------------------
(* Events.                                                                  *)

\* A change the watcher saw waits in one of the places events pass through, or
\* an overflow or a reconcile request stands for it, until the editor has
\* compared the open documents with the disk.
THEOREM ChangesReachEditor == Spec => []NoMissedChange
<1>1. Init => NoMissedChange
  BY DEF Init, NoMissedChange
<1>2. TypeOK /\ Scheduled /\ NoMissedChange /\ [Next]_vars => NoMissedChange'
  <2> SUFFICES ASSUME TypeOK, Scheduled, NoMissedChange, [Next]_vars
               PROVE  NoMissedChange'
    OBVIOUS
  <2> USE DEF NoMissedChange
  <2>1. ASSUME NEW f \in Files, FileChanges(f)
        PROVE  NoMissedChange'
    <3>1. CASE Enqueue(f) /\ unseen' = unseen \cup {f}
      <4>1. CASE kernel'.overflow
        BY <2>1, <4>1 DEF FileChanges
      <4>2. CASE ~kernel'.overflow
        <5>1. ~kernel.overflow /\ kernel' = [kernel EXCEPT !.files = @ \cup {f}]
          BY <3>1, <4>2 DEF Enqueue, NoEvents
        <5>2. kernel'.files = kernel.files \cup {f}
          BY <5>1 DEF TypeOK, Events
        <5> QED BY <2>1, <3>1, <5>1, <5>2 DEF FileChanges
      <4> QED BY <4>1, <4>2
    <3>2. CASE UNCHANGED <<kernel, unseen>>
      BY <2>1, <3>2 DEF FileChanges
    <3> QED BY <2>1, <3>1, <3>2 DEF FileChanges
  <2>2. CASE Commit \/ SwitchBranch
    <3>1. /\ kernel'.files = kernel.files /\ kernel'.overflow = kernel.overflow
          /\ UNCHANGED <<unseen, pendingWatchEvents, pendingFullReconcile, inbox,
                         pc, batch>>
      BY <2>2 DEF Commit, SwitchBranch, MetadataWritten, TypeOK, Events
    <3> QED BY <3>1
  <2>3. CASE Time \/ Construct \/ Consume \/ PublishAvailability \/ Stop \/ Join
             \/ UNCHANGED vars
    BY <2>3 DEF Time, PollElapses, BackstopElapses, RetryElapses,
                DeadlineUnchanged, Construct, Consume, PublishAvailability,
                Stop, Join, EditorUnchanged
  <2>4. CASE PollWatcher
    BY <2>4 DEF PollWatcher
  <2>5. CASE QueueWatchEvents
    BY <2>5 DEF QueueWatchEvents
  <2>6. CASE WatcherDies
    BY <2>6 DEF WatcherDies
  <2>7. CASE \/ Start \/ StartMetadataWatcher \/ BeginFullRefresh
             \/ BeginPathRefresh \/ FullScan \/ PathScan \/ QueueBranchScan
             \/ HandleResult \/ Notify
    <3>1. /\ pc # "events"
          /\ UNCHANGED <<unseen, kernel, pendingWatchEvents,
                         pendingFullReconcile, inbox>>
      BY <2>7 DEF Start, StartMetadataWatcher, BeginFullRefresh,
                  BeginPathRefresh, BeginRefresh, FullScan, PathScan,
                  RefreshUnchanged, QueueBranchScan, HandleResult, Queue, Notify,
                  NotifyPcs, AfterNotify
    <3> QED BY <3>1
  <2>8. CASE Loop /\ ~PollWatcher /\ ~QueueWatchEvents /\ ~WatcherDies
    <3>1. /\ pc # "events"
          /\ UNCHANGED <<unseen, kernel, pendingWatchEvents,
                         pendingFullReconcile, inbox>>
      BY <2>8 DEF Loop, ObserveStop, RefreshAfterDeath, WaitWithoutWatcher,
                  RefreshOnGitEvent, RefreshOnOverflow, RefreshOnFileEvents,
                  PollMetadataWatcher, MetadataWatcherFails, RefreshOnRetry,
                  RefreshOnPoll, RefreshOnBackstop, Stage
    <3> QED BY <3>1
  <2>9. CASE Swap
    <3>1. inbox.events = {} /\ ~inbox.reconcile
      BY <2>9 DEF Swap, Scheduled, EmptyInbox
    <3>2. inbox'.events = pendingWatchEvents /\ inbox'.reconcile = pendingFullReconcile
      BY <2>9 DEF Swap
    <3> QED BY <2>9, <3>1, <3>2 DEF Swap, EditorUnchanged
  <2>10. CASE AdoptScan
    <3>1. inbox'.events = inbox.events /\ inbox'.reconcile = inbox.reconcile
      BY <2>10 DEF AdoptScan, TypeOK, Inboxes
    <3> QED BY <2>10, <3>1 DEF AdoptScan, EditorUnchanged
  <2>11. CASE IngestEvents
    BY <2>11 DEF IngestEvents, EditorUnchanged
  <2> QED
    BY <2>1, <2>2, <2>3, <2>4, <2>5, <2>6, <2>7, <2>8, <2>9, <2>10, <2>11
    DEF Next, World, Worker, Pump, Ended
<1> QED
  BY <1>1, <1>2, TypeCorrect, ScheduledAlways, PTL DEF Spec

-----------------------------------------------------------------------------
(* The order of scans.                                                      *)

\* The revisions of a queue of scans rise from above low to below high.
Rising(queue, low, high) ==
    \A i \in DOMAIN queue : queue[i].revision # 0 =>
        /\ low < queue[i].revision /\ queue[i].revision < high
        /\ \A j \in 1..i - 1 : queue[j].revision < queue[i].revision

\* A scan was applied and is not queued yet: its revision, the last one the
\* source gave out, is still ahead of every revision in flight.
Applying == result = "applied" /\ pc \in {"branch", "branchNotify", "scan"}
NextQueued == IF Applying THEN source.revision - 1 ELSE source.revision

InOrder == /\ Rising(InFlight, lastGitScanRevision, NextQueued)
           /\ lastGitScanRevision < NextQueued

\* Adding a scan behind a rising queue.
LEMMA RisingAppend ==
    ASSUME NEW queue \in Seq(Scans), NEW scan \in Scans,
           NEW low \in Nat, NEW mid \in Nat, NEW high \in Nat,
           Rising(queue, low, mid), low < mid, mid <= high,
           scan.revision # 0 => mid <= scan.revision /\ scan.revision < high
    PROVE  Rising(Append(queue, scan), low, high)
<1> DEFINE longer == Append(queue, scan)
<1>1. /\ Len(longer) = Len(queue) + 1 /\ DOMAIN longer = 1..Len(queue) + 1
      /\ \A i \in 1..Len(queue) : longer[i] = queue[i]
      /\ longer[Len(queue) + 1] = scan /\ DOMAIN queue = 1..Len(queue)
      /\ Len(queue) \in Nat
  OBVIOUS
<1>2. \A i \in 1..Len(queue) : queue[i] \in Scans
  OBVIOUS
<1>3. \A i \in 1..Len(queue) : queue[i].revision \in Nat
  BY <1>2 DEF Scans
<1>4. scan.revision \in Nat
  BY DEF Scans
<1>5. \A i \in 1..Len(queue) : queue[i].revision = 0 \/ queue[i].revision < mid
  BY <1>1 DEF Rising
<1> HIDE DEF longer
<1>6. SUFFICES ASSUME NEW i \in 1..Len(queue) + 1, longer[i].revision # 0
               PROVE  /\ low < longer[i].revision /\ longer[i].revision < high
                      /\ \A j \in 1..i - 1 : longer[j].revision < longer[i].revision
  BY <1>1 DEF Rising, longer
<1>7. CASE i \in 1..Len(queue)
  <2>1. /\ low < queue[i].revision /\ queue[i].revision < mid
        /\ \A j \in 1..i - 1 : queue[j].revision < queue[i].revision
    BY <1>1, <1>6, <1>7 DEF Rising
  <2>2. \A j \in 1..i - 1 : longer[j] = queue[j]
    BY <1>1, <1>7
  <2> QED BY <1>1, <1>3, <1>7, <2>1, <2>2
<1>8. CASE i = Len(queue) + 1
  BY <1>1, <1>3, <1>4, <1>5, <1>6, <1>8
<1> QED BY <1>1, <1>7, <1>8

\* Taking the first scan off one: what remains is above it, too.
LEMMA RisingTail ==
    ASSUME NEW queue \in Seq(Scans), queue # <<>>,
           NEW low \in Nat, NEW high \in Nat, Rising(queue, low, high)
    PROVE  /\ Rising(Tail(queue), low, high)
           /\ Head(queue).revision > low =>
                 /\ Rising(Tail(queue), Head(queue).revision, high)
                 /\ Head(queue).revision < high
<1> DEFINE rest == Tail(queue)
<1>1. /\ DOMAIN rest = 1..Len(queue) - 1 /\ DOMAIN queue = 1..Len(queue)
      /\ \A i \in 1..Len(queue) - 1 : rest[i] = queue[i + 1]
      /\ Head(queue) = queue[1] /\ Len(queue) \in Nat \ {0}
  BY HeadTailProperties
<1>2. \A i \in 1..Len(queue) : queue[i].revision \in Nat
  <2>1. \A i \in 1..Len(queue) : queue[i] \in Scans
    OBVIOUS
  <2> QED BY <2>1 DEF Scans
<1> HIDE DEF rest
<1>3. ASSUME NEW i \in 1..Len(queue) - 1, rest[i].revision # 0
      PROVE  /\ low < rest[i].revision /\ rest[i].revision < high
             /\ queue[1].revision < rest[i].revision
             /\ \A j \in 1..i - 1 : rest[j].revision < rest[i].revision
  <2>1. i + 1 \in DOMAIN queue /\ rest[i] = queue[i + 1]
    BY <1>1
  <2>2. /\ low < queue[i + 1].revision /\ queue[i + 1].revision < high
        /\ \A j \in 1..(i + 1) - 1 : queue[j].revision < queue[i + 1].revision
    BY <1>3, <2>1 DEF Rising
  <2>3. \A j \in 1..i - 1 : rest[j] = queue[j + 1] /\ j + 1 \in 1..(i + 1) - 1
    BY <1>1
  <2>4. 1 \in 1..(i + 1) - 1
    OBVIOUS
  <2> QED BY <2>1, <2>2, <2>3, <2>4
<1>4. Rising(rest, low, high)
  BY <1>1, <1>3 DEF Rising
<1>5. ASSUME queue[1].revision > low
      PROVE  Rising(rest, queue[1].revision, high) /\ queue[1].revision < high
  <2>1. Rising(rest, queue[1].revision, high)
    BY <1>1, <1>3 DEF Rising
  <2>2. queue[1].revision < high
    BY <1>1, <1>2, <1>5 DEF Rising
  <2> QED BY <2>1, <2>2
<1> QED BY <1>1, <1>4, <1>5 DEF rest

\* Whatever a rising queue is below, it is below anything higher.
LEMMA RisingWeaken ==
    ASSUME NEW queue \in Seq(Scans), NEW low \in Nat, NEW high \in Nat,
           NEW higher \in Nat, high <= higher, Rising(queue, low, high)
    PROVE  Rising(queue, low, higher)
<1>1. \A i \in DOMAIN queue : queue[i] \in Scans
  OBVIOUS
<1>2. \A i \in DOMAIN queue : queue[i].revision \in Nat
  BY <1>1 DEF Scans
<1> QED BY <1>2 DEF Rising

\* What is in flight and how a step of either thread changes it.
LEMMA InFlightTypes ==
    ASSUME TypeOK
    PROVE  /\ InFlight \in Seq(Scans)
           /\ source.revision \in Nat \ {0} /\ NextQueued \in Nat
           /\ lastGitScanRevision \in Nat
<1>1. inbox.scans \in Seq(Scans) /\ pendingScans \in Seq(Scans)
  BY DEF TypeOK, Inboxes
<1>2. source.revision \in Nat \ {0}
  BY DEF TypeOK
<1>3. InFlight \in Seq(Scans)
  BY <1>1, ConcatProperties DEF InFlight
<1> QED BY <1>2, <1>3 DEF NextQueued, TypeOK

LEMMA AppendBehind ==
    ASSUME NEW S, NEW s \in Seq(S), NEW t \in Seq(S), NEW x \in S
    PROVE  s \o Append(t, x) = Append(s \o t, x)
<1>1. PICK m \in Nat, n \in Nat : m = Len(s) /\ n = Len(t)
  OBVIOUS
<1>2. PICK posted \in Seq(S) : posted = Append(t, x)
  BY AppendProperties
<1>3. PICK flight \in Seq(S) : flight = s \o t
  BY ConcatProperties
<1>4. PICK left \in Seq(S) : left = s \o posted
  BY ConcatProperties
<1>5. PICK right \in Seq(S) : right = Append(flight, x)
  BY AppendProperties
<1>6. /\ Len(posted) = n + 1 /\ posted[n + 1] = x
      /\ \A i \in 1..n : posted[i] = t[i]
  BY <1>1, <1>2, AppendProperties
<1>7. /\ Len(flight) = m + n
      /\ \A i \in 1..m + n : flight[i] = IF i <= m THEN s[i] ELSE t[i - m]
  BY <1>1, <1>3, ConcatProperties
<1>8. /\ Len(left) = m + (n + 1)
      /\ \A i \in 1..m + (n + 1) :
            left[i] = IF i <= m THEN s[i] ELSE posted[i - m]
  <2>1. /\ Len(left) = Len(s) + Len(posted)
        /\ \A i \in 1..Len(s) + Len(posted) :
              left[i] = IF i <= Len(s) THEN s[i] ELSE posted[i - Len(s)]
    BY <1>4, ConcatProperties
  <2> QED BY <1>1, <1>6, <2>1
<1>9. /\ Len(right) = (m + n) + 1 /\ right[(m + n) + 1] = x
      /\ \A i \in 1..m + n : right[i] = flight[i]
  BY <1>5, <1>7, AppendProperties
<1>10. ASSUME NEW i \in Nat, 1 <= i, i <= m
       PROVE  left[i] = right[i]
  <2>1. i \in 1..m + (n + 1) /\ i \in 1..m + n
    BY <1>10
  <2> QED BY <1>7, <1>8, <1>9, <1>10, <2>1
<1>11. ASSUME NEW i \in Nat, m < i, i <= m + n
       PROVE  left[i] = right[i]
  <2>1. i \in 1..m + (n + 1) /\ i \in 1..m + n /\ i - m \in 1..n /\ ~(i <= m)
    BY <1>11
  <2> QED BY <1>6, <1>7, <1>8, <1>9, <2>1
<1>12. left[(m + n) + 1] = right[(m + n) + 1]
  <2>1. /\ (m + n) + 1 \in 1..m + (n + 1) /\ ~((m + n) + 1 <= m)
        /\ ((m + n) + 1) - m = n + 1
    OBVIOUS
  <2> QED BY <1>6, <1>8, <1>9, <2>1
<1>13. ASSUME NEW i \in 1..(m + n) + 1
       PROVE  left[i] = right[i]
  <2>1. /\ i \in Nat
        /\ \/ 1 <= i /\ i <= m
           \/ m < i /\ i <= m + n
           \/ i = (m + n) + 1
    OBVIOUS
  <2> QED BY <1>10, <1>11, <1>12, <2>1
<1>14. Len(left) = (m + n) + 1
  BY <1>8
<1>15. left = right
  BY <1>9, <1>13, <1>14, SeqEqual
<1> QED BY <1>2, <1>3, <1>4, <1>5, <1>15

LEMMA PostedInFlight ==
    ASSUME TypeOK, NEW scan \in Scans, UNCHANGED inbox,
           pendingScans' = Append(pendingScans, scan)
    PROVE  InFlight' = Append(InFlight, scan)
<1>1. inbox.scans \in Seq(Scans) /\ pendingScans \in Seq(Scans)
  BY DEF TypeOK, Inboxes
<1>2. InFlight' = inbox.scans \o Append(pendingScans, scan)
  BY DEF InFlight
<1>3. ASSUME NEW s \in Seq(Scans), NEW t \in Seq(Scans)
      PROVE  s \o Append(t, scan) = Append(s \o t, scan)
  BY AppendBehind
<1> QED BY <1>1, <1>2, <1>3 DEF InFlight

LEMMA AdoptedInFlight ==
    ASSUME TypeOK, inbox.scans # <<>>, UNCHANGED pendingScans,
           inbox' = [inbox EXCEPT !.scans = Tail(@)]
    PROVE  /\ InFlight # <<>> /\ Head(InFlight) = Head(inbox.scans)
           /\ InFlight' = Tail(InFlight)
<1> DEFINE s == inbox.scans
           t == pendingScans
           S == Scans
<1>1. s \in Seq(S) /\ t \in Seq(S) /\ inbox'.scans = Tail(s)
  BY DEF TypeOK, Inboxes
<1> HIDE DEF S
<1>2. /\ s \o t \in Seq(S) /\ Len(s \o t) = Len(s) + Len(t)
      /\ \A i \in 1..Len(s) + Len(t) :
            (s \o t)[i] = IF i <= Len(s) THEN s[i] ELSE t[i - Len(s)]
  BY <1>1, ConcatProperties
<1>3. Len(s) \in Nat \ {0} /\ Len(t) \in Nat
  BY <1>1
<1>4. s \o t # <<>> /\ Head(s \o t) = Head(s)
  BY <1>1, <1>2, <1>3
<1>5. /\ Tail(s) \in Seq(S) /\ Len(Tail(s)) = Len(s) - 1
      /\ \A i \in 1..Len(s) - 1 : Tail(s)[i] = s[i + 1]
  BY <1>1, HeadTailProperties
<1>6. /\ Tail(s) \o t \in Seq(S) /\ Len(Tail(s) \o t) = Len(s) - 1 + Len(t)
      /\ \A i \in 1..Len(s) - 1 + Len(t) :
            (Tail(s) \o t)[i] = IF i <= Len(s) - 1 THEN Tail(s)[i]
                                ELSE t[i - (Len(s) - 1)]
  BY <1>1, <1>5, ConcatProperties
<1>7. /\ Tail(s \o t) \in Seq(S) /\ Len(Tail(s \o t)) = Len(s) + Len(t) - 1
      /\ \A i \in 1..Len(s) + Len(t) - 1 : Tail(s \o t)[i] = (s \o t)[i + 1]
  BY <1>2, <1>4, HeadTailProperties
<1>8. \A i \in 1..Len(s) + Len(t) - 1 : (Tail(s) \o t)[i] = Tail(s \o t)[i]
  BY <1>2, <1>3, <1>5, <1>6, <1>7
<1>9. Tail(s) \o t = Tail(s \o t)
  BY <1>3, <1>6, <1>7, <1>8, SeqEqual, SMTT(30)
<1> QED BY <1>1, <1>4, <1>9 DEF InFlight

\* The editor's revision check never drops a scan of this worker: what is in
\* flight is newer than what was adopted, and older than what comes next.
THEOREM ScansInOrder == Spec => []PublishedInOrder
<1>1. Init => InOrder
  <2> SUFFICES ASSUME Init PROVE InOrder
    OBVIOUS
  <2>1. InFlight = <<>> /\ lastGitScanRevision = 0 /\ NextQueued = 1
    BY DEF Init, EmptyInbox, InFlight, NextQueued, Applying
  <2> QED BY <2>1 DEF InOrder, Rising
<1>2. TypeOK /\ TypeOK' /\ Scheduled /\ InOrder /\ [Next]_vars => InOrder'
  <2> SUFFICES ASSUME TypeOK, TypeOK', Scheduled, InOrder, [Next]_vars
               PROVE  InOrder'
    OBVIOUS
  <2> USE InFlightTypes DEF InOrder
  <2>0. /\ NextQueued' \in Nat /\ source'.revision \in Nat
        /\ lastGitScanRevision' \in Nat
    BY SMTT(30) DEF TypeOK, NextQueued
  <2>1. ASSUME UNCHANGED <<InFlight, lastGitScanRevision>>,
               NextQueued' >= NextQueued
        PROVE  InOrder'
    BY <2>0, <2>1, RisingWeaken
  <2>2. ASSUME NEW scan \in Scans, pendingScans' = Append(pendingScans, scan),
               UNCHANGED <<inbox, lastGitScanRevision>>,
               NextQueued' >= NextQueued,
               scan.revision # 0 => /\ NextQueued <= scan.revision
                                    /\ scan.revision < NextQueued'
        PROVE  InOrder'
    <3>1. InFlight' = Append(InFlight, scan)
      BY <2>2, PostedInFlight
    <3> QED BY <2>0, <2>2, <3>1, RisingAppend
  <2>3. CASE QueueBranchScan
    <3>1. NextQueued' = NextQueued
      BY <2>3 DEF QueueBranchScan, Queue, NextQueued, Applying, TypeOK
    <3>2. BranchOnlyScan \in Scans /\ BranchOnlyScan.revision = 0
      BY QueuedScanTypes DEF BranchOnlyScan
    <3>3. CASE pendingScans' = Append(pendingScans, BranchOnlyScan)
      BY <2>2, <2>3, <3>1, <3>2, <3>3 DEF QueueBranchScan
    <3>4. CASE UNCHANGED pendingScans
      BY <2>1, <2>3, <3>1, <3>4 DEF QueueBranchScan, InFlight
    <3> QED BY <2>3, <3>3, <3>4 DEF QueueBranchScan, Queue
  <2>4. CASE HandleResult
    <3>1. CASE result = "applied"
      <4>1. /\ pendingScans' = Append(pendingScans, LatestAppliedScan)
            /\ pc' \notin {"branch", "branchNotify", "scan"}
        BY <2>4, <3>1 DEF HandleResult, Queue, TypeOK, ResumePcs
      <4>2. NextQueued' = source.revision /\ NextQueued = source.revision - 1
        BY <2>4, <3>1, <4>1 DEF HandleResult, NextQueued, Applying
      <4>3. LatestAppliedScan \in Scans
        BY QueuedScanTypes
      <4>4. LatestAppliedScan.revision = source.revision - 1
        BY DEF LatestAppliedScan
      <4> QED BY <2>2, <2>4, <4>1, <4>2, <4>3, <4>4 DEF HandleResult
    <3>2. CASE result # "applied"
      <4>1. NextQueued' = NextQueued
        BY <2>4, <3>2 DEF HandleResult, NextQueued, Applying
      <4> QED BY <2>1, <2>4, <3>2, <4>1 DEF HandleResult, InFlight
    <3> QED BY <3>1, <3>2
  <2>5. CASE FullScan \/ PathScan
    <3>1. pc \in {"fullScan", "pathScan"} /\ NextQueued = source.revision
      BY <2>5 DEF FullScan, PathScan, NextQueued, Applying
    <3>2. \/ source'.revision = source.revision /\ ~Applying'
          \/ source'.revision = source.revision + 1
      BY <2>5 DEF FullScan, PathScan, Applied, Returned, Threw, ReadBranch,
                  Applying, TypeOK
    <3>3. UNCHANGED <<InFlight, lastGitScanRevision>>
      BY <2>5 DEF FullScan, PathScan, RefreshUnchanged, InFlight
    <3> QED BY <2>1, <3>1, <3>2, <3>3 DEF NextQueued
  <2>6. CASE \/ UNCHANGED vars \/ World \/ Time
             \/ Start \/ StartMetadataWatcher \/ BeginFullRefresh
             \/ BeginPathRefresh \/ Notify \/ Loop
    <3>1. UNCHANGED <<inbox, pendingScans, lastGitScanRevision>>
      BY <2>6
      DEF World, FileChanges, Commit, SwitchBranch, Time, PollElapses,
          BackstopElapses, RetryElapses, DeadlineUnchanged, Start,
          StartMetadataWatcher, BeginFullRefresh, BeginPathRefresh,
          BeginRefresh, RefreshUnchanged, Notify, Loop, ObserveStop,
          PollWatcher, WatcherDies, RefreshAfterDeath, WaitWithoutWatcher,
          QueueWatchEvents, RefreshOnGitEvent, RefreshOnOverflow,
          RefreshOnFileEvents, PollMetadataWatcher, MetadataWatcherFails,
          RefreshOnRetry, RefreshOnPoll, RefreshOnBackstop, Stage
    <3>2. source'.revision = source.revision /\ (Applying' => Applying)
      <4>1. CASE UNCHANGED <<result, source, pc>>
        BY <4>1 DEF Applying
      <4>2. CASE World \/ Time
        BY <4>1, <4>2
        DEF World, FileChanges, Commit, SwitchBranch, Time, PollElapses,
            BackstopElapses, RetryElapses, DeadlineUnchanged
      <4>3. CASE BeginFullRefresh \/ BeginPathRefresh
        BY <4>3 DEF BeginFullRefresh, BeginPathRefresh, BeginRefresh,
                    ReadBranch, Applying, TypeOK
      <4>4. CASE Notify
        BY <4>4 DEF Notify, NotifyPcs, AfterNotify, Applying, TypeOK, ResumePcs
      <4>5. CASE Start \/ StartMetadataWatcher
        BY <4>5 DEF Start, StartMetadataWatcher, Applying
      <4>6. CASE Loop
        BY <4>6
        DEF Loop, ObserveStop, PollWatcher, WatcherDies, RefreshAfterDeath,
            WaitWithoutWatcher, QueueWatchEvents, RefreshOnGitEvent,
            RefreshOnOverflow, RefreshOnFileEvents, PollMetadataWatcher,
            MetadataWatcherFails, RefreshOnRetry, RefreshOnPoll,
            RefreshOnBackstop, Stage, Applying
      <4> QED BY <2>6, <4>1, <4>2, <4>3, <4>4, <4>5, <4>6
    <3>3. NextQueued' >= NextQueued
      BY <3>2 DEF NextQueued
    <3> QED BY <2>1, <3>1, <3>3 DEF InFlight
  <2>7. CASE Construct \/ Consume \/ PublishAvailability \/ Stop \/ Join
    <3>1. UNCHANGED <<inbox, pendingScans, lastGitScanRevision, source, result, pc>>
      BY <2>7 DEF Construct, Consume, PublishAvailability, Stop, Join,
                  EditorUnchanged
    <3>2. UNCHANGED <<InFlight, NextQueued>>
      BY <3>1 DEF InFlight, NextQueued, Applying
    <3> QED BY <2>1, <3>1, <3>2
  <2>8. CASE Swap
    <3>1. inbox.scans = <<>> /\ inbox'.scans = pendingScans /\ pendingScans' = <<>>
      BY <2>8 DEF Swap, Scheduled, EmptyInbox
    <3>2. UNCHANGED InFlight
      BY <3>1, ConcatEmptySeq DEF InFlight, TypeOK
    <3>3. UNCHANGED <<NextQueued, lastGitScanRevision>>
      BY <2>8 DEF Swap, EditorUnchanged, NextQueued, Applying
    <3> QED BY <2>1, <3>2, <3>3
  <2>9. CASE AdoptScan
    <3> DEFINE scan == Head(InFlight)
    <3>1. /\ InFlight # <<>> /\ InFlight' = Tail(InFlight)
          /\ Head(inbox.scans) = scan
      BY <2>9, AdoptedInFlight DEF AdoptScan
    <3>2. UNCHANGED NextQueued
      BY <2>9 DEF AdoptScan, EditorUnchanged, NextQueued, Applying
    <3>3. \/ UNCHANGED lastGitScanRevision
          \/ /\ scan.revision > lastGitScanRevision
             /\ lastGitScanRevision' = scan.revision
      BY <2>9, <3>1 DEF AdoptScan, Adopt
    <3> HIDE DEF scan
    <3> QED BY <2>0, <3>1, <3>2, <3>3, RisingTail DEF scan
  <2>10. CASE IngestEvents
    <3>1. inbox.scans = <<>> /\ inbox'.scans = <<>> /\ UNCHANGED pendingScans
      BY <2>10 DEF IngestEvents, EmptyInbox
    <3>2. UNCHANGED <<InFlight, NextQueued, lastGitScanRevision>>
      BY <2>10, <3>1
      DEF IngestEvents, EditorUnchanged, InFlight, NextQueued, Applying
    <3> QED BY <2>1, <3>2
  <2> QED
    BY <2>3, <2>4, <2>5, <2>6, <2>7, <2>8, <2>9, <2>10
    DEF Next, Worker, Pump, Ended
<1>3. TypeOK /\ InOrder => PublishedInOrder
  <2> SUFFICES ASSUME TypeOK, InOrder PROVE PublishedInOrder
    OBVIOUS
  <2>1. Rising(InFlight, lastGitScanRevision, source.revision)
    BY InFlightTypes, RisingWeaken DEF InOrder, NextQueued
  <2>2. lastGitScanRevision < source.revision
    BY InFlightTypes DEF InOrder, NextQueued
  <2> QED BY <2>1, <2>2 DEF PublishedInOrder, Rising
<1> QED
  BY <1>1, <1>2, <1>3, TypeCorrect, ScheduledAlways, PTL DEF Spec

-----------------------------------------------------------------------------
(* The branch.                                                              *)

\* The branch that will be shown once everything in flight was adopted.
LastBranch == IF InFlight = <<>> THEN shown.branch
              ELSE InFlight[Len(InFlight)].branch

\* A full refresh failed and its retry is not ordered yet.
Failing == /\ refresh = "full" /\ result = "retry"
           /\ pc \in {"branch", "branchNotify", "scan"}

\* The last applied scan is not queued and newer than all that were.
Owed == /\ lastGitScanRevision < source.revision - 1
        /\ \A i \in DOMAIN InFlight : InFlight[i].revision < source.revision - 1

\* Between the read of a branch and its publication the two may differ; a scan
\* that published its branch is in flight, about to be queued, or owed by the
\* retry of the refresh that applied it and then threw.
BranchSettled ==
    /\ \/ pc \in {"fullScan", "pathScan", "branch", "done"} /\ ~Applying
       \/ source.branch = source.publishedBranch
    /\ \/ pc = "done"
       \/ LastBranch = source.publishedBranch
       \/ Applying
       \/ Owed /\ (retryPending \/ Failing)

\* A queued scan's branch is the one that will be shown last.
LEMMA LastOfAppend ==
    ASSUME NEW S, NEW s \in Seq(S), NEW x \in S
    PROVE  /\ Append(s, x) # <<>>
           /\ Append(s, x)[Len(Append(s, x))] = x
OBVIOUS

\* Adopting the head of the queue leaves the last one last.
LEMMA LastOfTail ==
    ASSUME NEW S, NEW s \in Seq(S), s # <<>>
    PROVE  IF Tail(s) = <<>> THEN Head(s) = s[Len(s)]
           ELSE Tail(s)[Len(Tail(s))] = s[Len(s)]
<1> DEFINE rest == Tail(s)
<1>1. /\ Len(s) \in Nat \ {0} /\ Head(s) = s[1]
      /\ rest \in Seq(S) /\ Len(rest) = Len(s) - 1
      /\ \A i \in 1..Len(s) - 1 : rest[i] = s[i + 1]
  BY HeadTailProperties
<1> HIDE DEF rest
<1>2. CASE rest = <<>>
  <2>1. Len(rest) = 0
    BY <1>2
  <2>2. Len(s) - 1 = 0 /\ Len(s) \in Nat
    BY <1>1, <2>1, Zenon
  <2>3. Len(s) = 1
    BY <2>2
  <2>4. Head(s) = s[Len(s)]
    BY <1>1, <2>3, Zenon
  <2> QED BY <1>2, <2>4 DEF rest
<1>3. CASE rest # <<>>
  <2>1. Len(rest) # 0
    BY <1>1, <1>3, EmptySeq
  <2>2. Len(s) - 1 \in 1..Len(s) - 1 /\ Len(s) - 1 + 1 = Len(s)
    BY <1>1, <2>1
  <2> QED BY <1>1, <1>3, <2>2 DEF rest
<1> QED BY <1>2, <1>3 DEF rest

\* Where nothing is queued, adopted, read or retried, the branch stays settled.
LEMMA BranchKept ==
    ASSUME BranchSettled,
           UNCHANGED <<InFlight, shown, lastGitScanRevision, source>>,
           retryPending => retryPending' \/ Failing',
           Failing => retryPending' \/ Failing',
           \/ pc' = "done"
           \/ UNCHANGED <<pc, result, refresh>>
           \/ /\ pc \notin {"fullScan", "pathScan", "done"}
              /\ pc = "branch" => source.branch = source.publishedBranch
              /\ Applying => Applying'
    PROVE  BranchSettled'
BY DEF BranchSettled, LastBranch, Owed, Applying, Failing

\* The last branch the worker read outside a refresh is the last one published,
\* or the applied scan that published it is still owed and will be retried:
\* handleResult queues a branch that changed before the scan, and whether or not
\* there is one.
THEOREM BranchIsPublished == Spec => []BranchPublished
<1>1. Init => BranchSettled
  BY DEF Init, BranchSettled, Applying, LastBranch, InFlight, EmptyInbox
<1>2. TypeOK /\ TypeOK' /\ Scheduled /\ PublishedInOrder /\ BranchSettled
      /\ [Next]_vars => BranchSettled'
  <2> SUFFICES ASSUME TypeOK, TypeOK', Scheduled, PublishedInOrder,
                      BranchSettled, [Next]_vars
               PROVE  BranchSettled'
    OBVIOUS
  <2> USE InFlightTypes
  <2>1. ASSUME NEW scan \in Scans, pendingScans' = Append(pendingScans, scan),
               UNCHANGED inbox,
               scan.branch = source.branch,
               source.branch = source'.publishedBranch,
               source'.branch = source.branch
        PROVE  BranchSettled'
    <3>1. InFlight' = Append(InFlight, scan)
      BY <2>1, PostedInFlight
    <3>2. LastBranch' = source'.publishedBranch
      BY <2>1, <3>1, LastOfAppend DEF LastBranch
    <3> QED BY <2>1, <3>2 DEF BranchSettled
  <2>2. CASE QueueBranchScan
    <3>1. CASE pendingScans' = Append(pendingScans, BranchOnlyScan)
               /\ source' = [source EXCEPT !.publishedBranch = source.branch]
      <4>1. /\ source'.publishedBranch = source.branch
            /\ source'.branch = source.branch
        BY <3>1 DEF TypeOK, Sources
      <4>2. BranchOnlyScan \in Scans /\ BranchOnlyScan.branch = source.branch
        BY QueuedScanTypes DEF BranchOnlyScan
      <4> QED BY <2>1, <2>2, <3>1, <4>1, <4>2 DEF QueueBranchScan
    <3>2. CASE /\ source.branch = source.publishedBranch /\ pc' = "scan"
               /\ UNCHANGED <<source, boxVars>>
      <4>1. /\ pc = "branch"
            /\ UNCHANGED <<InFlight, shown, lastGitScanRevision, source,
                           retryPending, result, refresh>>
        BY <2>2, <3>2 DEF QueueBranchScan, InFlight
      <4> QED BY <3>2, <4>1, BranchKept DEF Applying, Failing
    <3> QED BY <2>2, <3>1, <3>2 DEF QueueBranchScan, Queue
  <2>3. CASE HandleResult
    <3>1. pc = "scan" /\ UNCHANGED <<source, inbox, shown, lastGitScanRevision>>
      BY <2>3 DEF HandleResult
    <3>2. source.branch = source.publishedBranch
      BY <3>1 DEF BranchSettled
    <3>3. CASE result = "applied"
      <4>1. pendingScans' = Append(pendingScans, LatestAppliedScan)
        BY <2>3, <3>3 DEF HandleResult, Queue
      <4>2. /\ LatestAppliedScan \in Scans
            /\ LatestAppliedScan.branch = source.branch
        BY QueuedScanTypes DEF LatestAppliedScan
      <4> QED BY <2>1, <3>1, <3>2, <4>1, <4>2
    <3>4. CASE result # "applied"
      <4>1. /\ UNCHANGED <<InFlight, result, refresh>>
            /\ \/ refresh = "paths" /\ UNCHANGED retryPending
               \/ refresh = "full" /\ retryPending'
        BY <2>3, <3>4 DEF HandleResult, InFlight
      <4> QED
        BY <3>1, <3>2, <3>4, <4>1, BranchKept DEF Applying, Failing
    <3> QED BY <3>3, <3>4
  <2>4. CASE BeginFullRefresh \/ BeginPathRefresh
    <3>1. /\ pc \in {"full", "paths"}
          /\ UNCHANGED <<InFlight, shown, lastGitScanRevision, retryPending>>
          /\ source'.publishedBranch = source.publishedBranch
          /\ source'.revision = source.revision
      BY <2>4 DEF BeginFullRefresh, BeginPathRefresh, BeginRefresh, ReadBranch,
                  RefreshUnchanged, InFlight, TypeOK, Sources
    <3>2. \/ pc' \in {"done", "fullScan", "pathScan"}
          \/ pc' = "branch" /\ result' = "retry"
      BY <2>4 DEF BeginFullRefresh, BeginPathRefresh, BeginRefresh, ReadBranch
    <3> QED
      BY <3>1, <3>2 DEF BranchSettled, LastBranch, Owed, Applying, Failing
  <2>5. CASE FullScan \/ PathScan
    <3>1. /\ pc \in {"fullScan", "pathScan"}
          /\ UNCHANGED <<InFlight, shown, lastGitScanRevision, retryPending>>
      BY <2>5 DEF FullScan, PathScan, RefreshUnchanged, InFlight
    <3>2. \/ LastBranch = source.publishedBranch
          \/ Owed /\ retryPending
      BY <3>1 DEF BranchSettled, Applying, Failing
    <3>3. CASE /\ source'.publishedBranch = source.publishedBranch
               /\ source'.revision = source.revision
               /\ \/ pc' \in {"done", "fullScan"}
                  \/ pc' = "branch" /\ result' = "retry"
      BY <3>1, <3>2, <3>3 DEF BranchSettled, LastBranch, Owed, Applying, Failing
    <3>4. CASE /\ source'.publishedBranch = source'.branch
               /\ \/ pc' = "done"
                  \/ pc' = "branch" /\ result' = "applied"
      BY <3>4 DEF BranchSettled, Applying
    <3>5. CASE /\ source'.publishedBranch = source'.branch
               /\ source'.revision = source.revision + 1
               /\ pc' = "branch" /\ result' = "retry" /\ refresh' = "full"
      <4>1. Owed'
        <5>1. \A i \in DOMAIN InFlight : InFlight[i].revision < source.revision
          BY DEF PublishedInOrder
        <5>2. source'.revision - 1 = source.revision
          BY <3>5
        <5> QED BY <3>1, <5>1, <5>2 DEF Owed, PublishedInOrder
      <4> QED BY <3>5, <4>1 DEF BranchSettled, Failing
    <3>6. CASE FullScan
      BY <2>5, <3>3, <3>4, <3>5, <3>6
      DEF FullScan, Applied, Returned, Threw, TypeOK, Sources
    <3>7. CASE PathScan
      <4>1. /\ source.branch \in Nat /\ source.revision \in Nat
            /\ source \in Sources
        BY DEF TypeOK, Sources
      <4>2. CASE ReadBranch("fullScan")
        BY <3>3, <4>1, <4>2 DEF ReadBranch, Sources
      <4>3. CASE Returned("retry") /\ UNCHANGED source
        BY <3>3, <4>3 DEF Returned
      <4>4. CASE /\ \E tree : source' = Applied(tree)
                 /\ Returned("applied")
        BY <3>4, <4>1, <4>4 DEF Applied, Returned, Sources
      <4> QED BY <3>7, <4>2, <4>3, <4>4 DEF PathScan
    <3> QED BY <2>5, <3>6, <3>7
  <2>6. CASE \/ UNCHANGED vars \/ World \/ Time
             \/ Start \/ StartMetadataWatcher \/ Notify \/ Loop
    <3>1. UNCHANGED <<InFlight, shown, lastGitScanRevision, source,
                      retryPending, result, refresh>>
      BY <2>6
      DEF World, FileChanges, Commit, SwitchBranch, Time, PollElapses,
          BackstopElapses, RetryElapses, DeadlineUnchanged, Start,
          StartMetadataWatcher, Notify, Loop, ObserveStop,
          PollWatcher, WatcherDies, RefreshAfterDeath, WaitWithoutWatcher,
          QueueWatchEvents, RefreshOnGitEvent, RefreshOnOverflow,
          RefreshOnFileEvents, PollMetadataWatcher, MetadataWatcherFails,
          RefreshOnRetry, RefreshOnPoll, RefreshOnBackstop, Stage, InFlight
    <3>2. CASE UNCHANGED vars \/ World \/ Time
      <4>1. UNCHANGED pc
        BY <3>2 DEF World, FileChanges, Commit, SwitchBranch, Time,
                    PollElapses, BackstopElapses, RetryElapses,
                    DeadlineUnchanged
      <4> QED BY <3>1, <4>1, BranchKept DEF Failing
    <3>3. CASE Notify
      BY <3>1, <3>3, BranchKept
      DEF Notify, NotifyPcs, AfterNotify, Applying, Failing
    <3>4. CASE Start \/ StartMetadataWatcher
      BY <3>1, <3>4, BranchKept
      DEF Start, StartMetadataWatcher, Applying, Failing
    <3>5. CASE Loop
      <4>1. pc \notin {"fullScan", "pathScan", "branch", "branchNotify", "scan",
                       "done"}
        BY <3>5
        DEF Loop, ObserveStop, PollWatcher, WatcherDies, RefreshAfterDeath,
            WaitWithoutWatcher, QueueWatchEvents, RefreshOnGitEvent,
            RefreshOnOverflow, RefreshOnFileEvents, PollMetadataWatcher,
            MetadataWatcherFails, RefreshOnRetry, RefreshOnPoll,
            RefreshOnBackstop, Stage
      <4> QED BY <3>1, <4>1, BranchKept DEF Applying, Failing
    <3> QED BY <2>6, <3>2, <3>3, <3>4, <3>5
  <2>7. CASE \/ Construct \/ Consume \/ PublishAvailability \/ Swap
             \/ IngestEvents \/ Stop \/ Join
    <3>1. UNCHANGED <<source, shown, lastGitScanRevision, retryPending, result,
                      refresh, pc>>
      BY <2>7 DEF Construct, Consume, PublishAvailability, Swap, IngestEvents,
                  Stop, Join, EditorUnchanged
    <3>2. UNCHANGED InFlight
      <4>1. CASE Swap
        <5>1. inbox.scans = <<>> /\ inbox'.scans = pendingScans
              /\ pendingScans' = <<>>
          BY <4>1 DEF Swap, Scheduled, EmptyInbox
        <5> QED BY <5>1, ConcatEmptySeq DEF InFlight, TypeOK
      <4>2. CASE IngestEvents
        BY <4>2 DEF IngestEvents, EmptyInbox, InFlight
      <4>3. CASE ~Swap /\ ~IngestEvents
        BY <2>7, <4>3 DEF Construct, Consume, PublishAvailability, Stop, Join,
                          EditorUnchanged, InFlight
      <4> QED BY <4>1, <4>2, <4>3
    <3> QED BY <3>1, <3>2, BranchKept DEF Failing
  <2>8. CASE AdoptScan
    <3> DEFINE scan == Head(InFlight)
    <3>1. /\ InFlight # <<>> /\ InFlight' = Tail(InFlight)
          /\ Head(inbox.scans) = scan
      BY <2>8, AdoptedInFlight DEF AdoptScan
    <3>2. UNCHANGED <<source, retryPending, result, refresh, pc>>
      BY <2>8 DEF AdoptScan, EditorUnchanged
    <3>3. /\ scan \in Scans /\ Len(InFlight) \in Nat \ {0} /\ scan = InFlight[1]
          /\ DOMAIN InFlight = 1..Len(InFlight)
          /\ DOMAIN Tail(InFlight) = 1..Len(InFlight) - 1
          /\ \A i \in 1..Len(InFlight) - 1 : Tail(InFlight)[i] = InFlight[i + 1]
      BY <3>1, HeadTailProperties
    <3>4. scan.revision = 0 \/ lastGitScanRevision < scan.revision
      BY <3>3 DEF PublishedInOrder
    <3>5. /\ scan.revision \in Nat /\ shown'.branch = scan.branch
          /\ lastGitScanRevision' \in {lastGitScanRevision, scan.revision}
      <4>1. scan.revision \in Nat /\ scan.branch \in Nat
        BY <3>3 DEF Scans
      <4>2. /\ lastGitScanRevision \in Nat
            /\ shown \in [tree : Trees, branch : Nat]
        BY DEF TypeOK
      <4> HIDE DEF scan
      <4>3. Adopt(scan)
        BY <2>8, <3>1 DEF AdoptScan
      <4>4. /\ shown'.branch = scan.branch
            /\ \/ UNCHANGED lastGitScanRevision
               \/ lastGitScanRevision' = scan.revision
        BY <3>4, <4>1, <4>2, <4>3 DEF Adopt
      <4> QED BY <4>1, <4>4
    <3>6. LastBranch' = LastBranch
      BY <3>1, <3>3, <3>5, LastOfTail DEF LastBranch
    <3>7. Owed => Owed'
      BY <3>1, <3>2, <3>3, <3>5 DEF Owed
    <3> QED BY <3>2, <3>6, <3>7 DEF BranchSettled, Applying, Failing
  <2> QED
    BY <2>2, <2>3, <2>4, <2>5, <2>6, <2>7, <2>8
    DEF Next, Worker, Pump, Ended
<1>3. TypeOK /\ BranchSettled => BranchPublished
  <2> SUFFICES ASSUME TypeOK, BranchSettled, pc \in ResumePcs
               PROVE  \/ LastBranch = source.branch
                      \/ /\ retryPending
                         /\ lastGitScanRevision < source.revision - 1
                         /\ \A i \in DOMAIN InFlight :
                               InFlight[i].revision < source.revision - 1
    BY DEF BranchPublished, LastBranch
  <2> QED BY DEF BranchSettled, Owed, Applying, Failing, ResumePcs
<1> QED
  BY <1>1, <1>2, <1>3, TypeCorrect, ScheduledAlways, ScansInOrder, PTL DEF Spec

-----------------------------------------------------------------------------
(* The age of what is shown.                                                *)

Older(t, u) == \A item \in Items : t[item] <= u[item]

Views == [tree : Trees, branch : Nat]

\* The branches of a queue of scans, and the trees of those that have one, age
\* from the view low to the view high.
Ageing(queue, low, high) ==
    \A i \in DOMAIN queue :
        /\ low.branch <= queue[i].branch /\ queue[i].branch <= high.branch
        /\ queue[i].revision # 0 => /\ Older(low.tree, queue[i].tree)
                                    /\ Older(queue[i].tree, high.tree)
        /\ \A j \in 1..i - 1 :
              /\ queue[j].branch <= queue[i].branch
              /\ queue[j].revision # 0 /\ queue[i].revision # 0
                    => Older(queue[j].tree, queue[i].tree)

\* What the source read last: every scan in flight lies between what is shown
\* and this, and the repository has gone on since.
Read == [tree |-> source.tree, branch |-> source.branch]

Aged == /\ Ageing(InFlight, shown, Read)
        /\ Older(shown.tree, source.tree) /\ shown.branch <= source.branch
        /\ Older(source.tree, repo) /\ source.branch <= branch

LEMMA OlderTransitive ==
    ASSUME NEW t \in Trees, NEW u \in Trees, NEW v \in Trees,
           Older(t, u), Older(u, v)
    PROVE  Older(t, v)
BY DEF Older, Trees

LEMMA ScanFields ==
    ASSUME NEW queue \in Seq(Scans)
    PROVE  \A i \in DOMAIN queue : /\ queue[i].branch \in Nat
                                   /\ queue[i].tree \in Trees
                                   /\ queue[i].revision \in Nat
<1>1. \A i \in DOMAIN queue : queue[i] \in Scans
  OBVIOUS
<1> QED BY <1>1 DEF Scans

\* A scan behind an ageing queue that is as old as the view it ages to.
LEMMA AgeingAppend ==
    ASSUME NEW queue \in Seq(Scans), NEW scan \in Scans,
           NEW low \in Views, NEW high \in Views, Ageing(queue, low, high),
           low.branch <= high.branch, Older(low.tree, high.tree),
           scan.branch = high.branch,
           scan.revision # 0 => scan.tree = high.tree
    PROVE  Ageing(Append(queue, scan), low, high)
<1>1. PICK longer \in Seq(Scans) : longer = Append(queue, scan)
  BY AppendProperties
<1>2. /\ DOMAIN longer = 1..Len(queue) + 1 /\ DOMAIN queue = 1..Len(queue)
      /\ \A i \in 1..Len(queue) : longer[i] = queue[i]
      /\ longer[Len(queue) + 1] = scan /\ Len(queue) \in Nat
  BY <1>1
<1>3. ASSUME NEW i \in 1..Len(queue)
      PROVE  /\ low.branch <= longer[i].branch /\ longer[i].branch <= high.branch
             /\ longer[i].revision # 0 => /\ Older(low.tree, longer[i].tree)
                                          /\ Older(longer[i].tree, high.tree)
             /\ \A j \in 1..i - 1 :
                   /\ longer[j].branch <= longer[i].branch
                   /\ longer[j].revision # 0 /\ longer[i].revision # 0
                         => Older(longer[j].tree, longer[i].tree)
  <2>1. longer[i] = queue[i] /\ \A j \in 1..i - 1 : longer[j] = queue[j]
    BY <1>2
  <2> QED BY <1>2, <2>1 DEF Ageing
<1>4. Older(high.tree, high.tree) /\ high.branch \in Nat
  BY DEF Older, Views, Trees
<1>5. /\ low.branch <= scan.branch /\ scan.branch <= high.branch
      /\ scan.revision # 0 => /\ Older(low.tree, scan.tree)
                              /\ Older(scan.tree, high.tree)
      /\ \A j \in 1..Len(queue) :
            /\ longer[j].branch <= scan.branch
            /\ longer[j].revision # 0 /\ scan.revision # 0
                  => Older(longer[j].tree, scan.tree)
  BY <1>3, <1>4
<1>6. \A i \in DOMAIN longer : i \in 1..Len(queue) \/ i = Len(queue) + 1
  BY <1>2
<1>7. (Len(queue) + 1) - 1 = Len(queue)
  BY <1>2
<1> QED BY <1>1, <1>2, <1>3, <1>5, <1>6, <1>7 DEF Ageing

\* Taking the first scan off an ageing queue, and showing it or its branch.
LEMMA AgeingTail ==
    ASSUME NEW queue \in Seq(Scans), queue # <<>>,
           NEW low \in Views, NEW high \in Views, Ageing(queue, low, high)
    PROVE  LET first == Head(queue) IN
           /\ Ageing(Tail(queue), low, high)
           /\ Ageing(Tail(queue), [low EXCEPT !.branch = first.branch], high)
           /\ first.revision # 0 =>
                 Ageing(Tail(queue),
                        [tree |-> first.tree, branch |-> first.branch], high)
           /\ low.branch <= first.branch /\ first.branch <= high.branch
           /\ first.revision # 0 => /\ Older(low.tree, first.tree)
                                    /\ Older(first.tree, high.tree)
<1>1. PICK rest \in Seq(Scans) : rest = Tail(queue)
  BY HeadTailProperties
<1>2. /\ DOMAIN rest = 1..Len(queue) - 1 /\ DOMAIN queue = 1..Len(queue)
      /\ \A i \in 1..Len(queue) - 1 : rest[i] = queue[i + 1]
      /\ Head(queue) = queue[1] /\ Len(queue) \in Nat \ {0}
  BY <1>1, HeadTailProperties
<1>3. ASSUME NEW i \in DOMAIN rest
      PROVE  /\ low.branch <= rest[i].branch /\ rest[i].branch <= high.branch
             /\ queue[1].branch <= rest[i].branch
             /\ rest[i].revision # 0 => /\ Older(low.tree, rest[i].tree)
                                        /\ Older(rest[i].tree, high.tree)
             /\ rest[i].revision # 0 /\ queue[1].revision # 0
                   => Older(queue[1].tree, rest[i].tree)
             /\ \A j \in 1..i - 1 :
                   /\ rest[j].branch <= rest[i].branch
                   /\ rest[j].revision # 0 /\ rest[i].revision # 0
                         => Older(rest[j].tree, rest[i].tree)
  <2>1. i + 1 \in DOMAIN queue /\ rest[i] = queue[i + 1]
    BY <1>2
  <2>2. /\ 1 \in 1..(i + 1) - 1
        /\ \A j \in 1..i - 1 : rest[j] = queue[j + 1] /\ j + 1 \in 1..(i + 1) - 1
    BY <1>2
  <2> QED BY <2>1, <2>2 DEF Ageing
<1>4. [low EXCEPT !.branch = queue[1].branch]
         = [tree |-> low.tree, branch |-> queue[1].branch]
  BY DEF Views
<1>5. /\ low.branch <= queue[1].branch /\ queue[1].branch <= high.branch
      /\ queue[1].revision # 0 => /\ Older(low.tree, queue[1].tree)
                                  /\ Older(queue[1].tree, high.tree)
  BY <1>2 DEF Ageing
<1>6. Ageing(rest, low, high)
  BY <1>3 DEF Ageing
<1>7. Ageing(rest, [tree |-> low.tree, branch |-> queue[1].branch], high)
  BY <1>3 DEF Ageing
<1>8. queue[1].revision # 0 =>
         Ageing(rest, [tree |-> queue[1].tree, branch |-> queue[1].branch], high)
  BY <1>3 DEF Ageing
<1> QED BY <1>1, <1>2, <1>4, <1>5, <1>6, <1>7, <1>8

\* An ageing queue ages to anything newer.
LEMMA AgeingWeaken ==
    ASSUME NEW queue \in Seq(Scans), NEW low \in Views, NEW high \in Views,
           NEW higher \in Views, Ageing(queue, low, high),
           high.branch <= higher.branch, Older(high.tree, higher.tree)
    PROVE  Ageing(queue, low, higher)
<1>1. /\ high.branch \in Nat /\ higher.branch \in Nat
      /\ high.tree \in Trees /\ higher.tree \in Trees
  BY DEF Views
<1>2. ASSUME NEW i \in DOMAIN queue
      PROVE  /\ queue[i].branch <= higher.branch
             /\ queue[i].revision # 0 => Older(queue[i].tree, higher.tree)
  BY <1>1, ScanFields, OlderTransitive DEF Ageing
<1> QED BY <1>2 DEF Ageing

LEMMA ViewTypes ==
    ASSUME TypeOK
    PROVE  /\ shown \in Views /\ Read \in Views
           /\ shown.tree \in Trees /\ shown.branch \in Nat
           /\ source.tree \in Trees /\ source.branch \in Nat
           /\ repo \in Trees /\ branch \in Nat
           /\ Read.tree = source.tree /\ Read.branch = source.branch
BY DEF TypeOK, Views, Read

\* Where a scan is adopted, the view ages and so does what remains in flight.
LEMMA AdoptAges ==
    ASSUME TypeOK, TypeOK', Aged, AdoptScan
    PROVE  /\ Aged'
           /\ Older(shown.tree, shown'.tree) /\ shown.branch <= shown'.branch
<1> DEFINE scan == Head(InFlight)
<1> USE InFlightTypes, ViewTypes DEF Aged
<1>1. /\ InFlight # <<>> /\ InFlight' = Tail(InFlight)
      /\ Head(inbox.scans) = scan
  BY AdoptedInFlight DEF AdoptScan
<1>2. UNCHANGED <<source, repo, branch, Read>>
  BY DEF AdoptScan, EditorUnchanged, Read
<1>3. scan \in Scans
  BY <1>1, HeadTailProperties
<1>4. /\ scan.branch \in Nat /\ scan.revision \in Nat /\ scan.tree \in Trees
  BY <1>3 DEF Scans
<1>5. \/ UNCHANGED shown
      \/ shown' = [shown EXCEPT !.branch = scan.branch]
      \/ /\ scan.revision # 0
         /\ shown' = [tree |-> scan.tree, branch |-> scan.branch]
  BY <1>1, <1>4, SMTT(30) DEF AdoptScan, Adopt
<1>6. /\ Ageing(Tail(InFlight), shown, Read)
      /\ Ageing(Tail(InFlight), [shown EXCEPT !.branch = scan.branch], Read)
      /\ scan.revision # 0 =>
            Ageing(Tail(InFlight),
                   [tree |-> scan.tree, branch |-> scan.branch], Read)
      /\ shown.branch <= scan.branch /\ scan.branch <= Read.branch
      /\ scan.revision # 0 => /\ Older(shown.tree, scan.tree)
                              /\ Older(scan.tree, Read.tree)
  BY <1>1, AgeingTail
<1> HIDE DEF scan
<1>7. Older(shown.tree, shown.tree)
  BY DEF Older, Trees
<1>8. CASE UNCHANGED shown
  BY <1>1, <1>2, <1>6, <1>7, <1>8
<1>9. CASE shown' = [shown EXCEPT !.branch = scan.branch]
  <2>1. shown'.tree = shown.tree /\ shown'.branch = scan.branch
    BY <1>9 DEF Views
  <2> QED BY <1>1, <1>2, <1>6, <1>7, <1>9, <2>1
<1>10. CASE /\ scan.revision # 0
            /\ shown' = [tree |-> scan.tree, branch |-> scan.branch]
  BY <1>1, <1>2, <1>6, <1>10
<1> QED BY <1>5, <1>8, <1>9, <1>10

\* The editor never goes back to an older version of a file, of the baseline or
\* of the branch, although path refreshes patch single files into the last
\* tree, the branch is read apart from the tree, and scans wait in a queue.
THEOREM NeverBack == Spec => NeverShowsOlder
<1>1. Init => Aged
  <2> SUFFICES ASSUME Init PROVE Aged
    OBVIOUS
  <2>1. InFlight = <<>>
    BY DEF Init, EmptyInbox, InFlight
  <2>2. /\ shown.tree = NoTree /\ source.tree = NoTree
        /\ shown.branch = 0 /\ source.branch = 0 /\ branch = 1
        /\ repo = [i \in Items |-> 1]
    BY DEF Init
  <2> QED BY <2>1, <2>2 DEF Aged, Ageing, Older, NoTree
<1>2. TypeOK /\ TypeOK' /\ Scheduled /\ Aged /\ [Next]_vars => Aged'
  <2> SUFFICES ASSUME TypeOK, TypeOK', Scheduled, Aged, [Next]_vars
               PROVE  Aged'
    OBVIOUS
  <2> USE InFlightTypes, ViewTypes
  <2>0. /\ source'.tree \in Trees /\ source'.branch \in Nat
        /\ shown' \in Views /\ Read' \in Views
        /\ Read'.tree = source'.tree /\ Read'.branch = source'.branch
    BY DEF TypeOK, Views, Read
  <2>1. ASSUME UNCHANGED <<InFlight, shown>>,
               Older(source.tree, source'.tree), source.branch <= source'.branch,
               Older(source'.tree, repo'), source'.branch <= branch'
        PROVE  Aged'
    <3>1. Ageing(InFlight, shown, Read')
      BY <2>0, <2>1, AgeingWeaken DEF Aged
    <3>2. Older(shown.tree, source'.tree) /\ shown.branch <= source'.branch
      BY <2>0, <2>1, OlderTransitive DEF Aged
    <3> QED BY <2>1, <3>1, <3>2 DEF Aged
  <2>2. ASSUME UNCHANGED <<InFlight, shown, source, repo, branch>>
        PROVE  Aged'
    BY <2>2 DEF Aged, Read
  <2>3. ASSUME NEW scan \in Scans, pendingScans' = Append(pendingScans, scan),
               UNCHANGED <<inbox, shown, repo, branch>>, Read' = Read,
               scan.branch = source.branch,
               scan.revision # 0 => scan.tree = source.tree
        PROVE  Aged'
    <3>1. InFlight' = Append(InFlight, scan)
      BY <2>3, PostedInFlight
    <3>2. Ageing(Append(InFlight, scan), shown, Read)
      BY <2>3, AgeingAppend DEF Aged
    <3> QED BY <2>0, <2>3, <3>1, <3>2 DEF Aged
  <2>4. CASE World
    <3>1. UNCHANGED <<InFlight, shown, source>>
      BY <2>4 DEF World, FileChanges, Commit, SwitchBranch, InFlight
    <3>2. Older(repo, repo') /\ branch <= branch'
      <4>1. ASSUME NEW item \in Items,
                   repo' = [repo EXCEPT ![item] = repo[item] + 1]
            PROVE  Older(repo, repo')
        BY <4>1 DEF Older, Trees
      <4>2. Older(repo, repo) /\ branch <= branch /\ branch <= branch + 1
        BY DEF Older, Trees
      <4> QED
        BY <2>4, <4>1, <4>2 DEF World, FileChanges, Commit, SwitchBranch, Items
    <3>3. Older(source.tree, repo')
      BY <3>2, OlderTransitive DEF Aged, TypeOK
    <3>4. Older(source.tree, source.tree) /\ branch' \in Nat
      BY DEF Older, Trees, TypeOK
    <3> QED BY <2>1, <3>1, <3>2, <3>3, <3>4 DEF Aged
  <2>5. CASE BeginFullRefresh \/ BeginPathRefresh \/ FullScan \/ PathScan
    <3>1. UNCHANGED <<InFlight, shown, repo, branch>>
      BY <2>5 DEF BeginFullRefresh, BeginPathRefresh, BeginRefresh, FullScan,
                  PathScan, RefreshUnchanged, InFlight
    <3>2. Older(source.tree, source.tree) /\ Older(repo, repo)
      BY DEF Older, Trees
    <3>3. CASE source'.tree = source.tree /\ source'.branch = branch
      BY <2>1, <3>1, <3>2, <3>3 DEF Aged
    <3>4. CASE UNCHANGED source
      BY <2>2, <3>1, <3>4
    <3>5. ASSUME NEW tree \in Trees, source' = Applied(tree),
                 \A i \in Items : tree[i] \in {repo[i], source.tree[i]}
          PROVE  Aged'
      <4>1. source'.tree = tree /\ source'.branch = source.branch
        BY <3>5 DEF Applied, TypeOK
      <4>2. ASSUME NEW i \in Items
            PROVE  source.tree[i] <= tree[i] /\ tree[i] <= repo[i]
        <5>1. source.tree[i] \in Nat /\ repo[i] \in Nat
          BY DEF Trees
        <5>2. source.tree[i] <= repo[i]
          BY DEF Aged, Older
        <5> QED BY <3>5, <5>1, <5>2
      <4>3. Older(source.tree, tree) /\ Older(tree, repo)
        BY <4>2 DEF Older
      <4> QED BY <2>1, <3>1, <4>1, <4>3 DEF Aged
    <3>6. CASE BeginFullRefresh \/ BeginPathRefresh
      BY <3>3, <3>4, <3>6
      DEF BeginFullRefresh, BeginPathRefresh, BeginRefresh, ReadBranch, TypeOK
    <3>7. CASE FullScan
      BY <3>4, <3>5, <3>7 DEF FullScan
    <3>8. CASE PathScan
      <4> DEFINE patched == [i \in Items |-> IF i \in batch.files \cup {HEAD}
                                             THEN repo[i] ELSE source.tree[i]]
      <4>1. /\ patched \in Trees
            /\ \A i \in Items : patched[i] \in {repo[i], source.tree[i]}
        BY DEF Trees
      <4>2. \/ source' = Applied(patched)
            \/ source'.tree = source.tree /\ source'.branch = branch
            \/ UNCHANGED source
        BY <3>8 DEF PathScan, ReadBranch, TypeOK
      <4> HIDE DEF patched
      <4> QED BY <3>3, <3>4, <3>5, <4>1, <4>2
    <3> QED BY <2>5, <3>6, <3>7, <3>8
  <2>6. CASE QueueBranchScan
    <3>1. Read' = Read
      BY <2>6 DEF QueueBranchScan, Read, TypeOK
    <3>2. /\ BranchOnlyScan \in Scans /\ BranchOnlyScan.revision = 0
          /\ BranchOnlyScan.branch = source.branch
      BY QueuedScanTypes DEF BranchOnlyScan
    <3>3. CASE pendingScans' = Append(pendingScans, BranchOnlyScan)
      BY <2>3, <2>6, <3>1, <3>2, <3>3 DEF QueueBranchScan
    <3>4. CASE UNCHANGED <<pendingScans, source>>
      BY <2>2, <2>6, <3>4 DEF QueueBranchScan, InFlight
    <3> QED BY <2>6, <3>3, <3>4 DEF QueueBranchScan, Queue
  <2>7. CASE HandleResult
    <3>1. UNCHANGED <<inbox, shown, repo, branch, source, Read>>
      BY <2>7 DEF HandleResult, Read
    <3>2. /\ LatestAppliedScan \in Scans
          /\ LatestAppliedScan.branch = source.branch
          /\ LatestAppliedScan.tree = source.tree
      BY QueuedScanTypes DEF LatestAppliedScan
    <3>3. CASE pendingScans' = Append(pendingScans, LatestAppliedScan)
      BY <2>3, <3>1, <3>2, <3>3
    <3>4. CASE UNCHANGED pendingScans
      BY <2>2, <3>1, <3>4 DEF InFlight
    <3> QED BY <2>7, <3>3, <3>4 DEF HandleResult, Queue
  <2>8. CASE \/ UNCHANGED vars \/ Time \/ Start \/ StartMetadataWatcher
             \/ Notify \/ Loop \/ Construct \/ Consume \/ PublishAvailability
             \/ Stop \/ Join
    <3>1. UNCHANGED <<inbox, pendingScans, shown, source, repo, branch>>
      BY <2>8
      DEF Time, PollElapses, BackstopElapses, RetryElapses, DeadlineUnchanged,
          Start, StartMetadataWatcher, Notify, Loop, ObserveStop, PollWatcher,
          WatcherDies, RefreshAfterDeath, WaitWithoutWatcher, QueueWatchEvents,
          RefreshOnGitEvent, RefreshOnOverflow, RefreshOnFileEvents,
          PollMetadataWatcher, MetadataWatcherFails, RefreshOnRetry,
          RefreshOnPoll, RefreshOnBackstop, Stage, Construct, Consume,
          PublishAvailability, Stop, Join, EditorUnchanged
    <3> QED BY <2>2, <3>1 DEF InFlight
  <2>9. CASE Swap
    <3>1. inbox.scans = <<>> /\ inbox'.scans = pendingScans /\ pendingScans' = <<>>
      BY <2>9 DEF Swap, Scheduled, EmptyInbox
    <3>2. UNCHANGED InFlight
      BY <3>1, ConcatEmptySeq DEF InFlight, TypeOK
    <3> QED BY <2>2, <2>9, <3>2 DEF Swap, EditorUnchanged
  <2>10. CASE IngestEvents
    <3>1. inbox.scans = <<>> /\ inbox'.scans = <<>> /\ UNCHANGED pendingScans
      BY <2>10 DEF IngestEvents, EmptyInbox
    <3> QED BY <2>2, <2>10, <3>1 DEF IngestEvents, EditorUnchanged, InFlight
  <2>11. CASE AdoptScan
    BY <2>11, AdoptAges
  <2> QED
    BY <2>4, <2>5, <2>6, <2>7, <2>8, <2>9, <2>10, <2>11
    DEF Next, Worker, Pump, Ended
<1>3. TypeOK /\ TypeOK' /\ Aged /\ [Next]_vars
         => [ /\ \A i \in Items : shown'.tree[i] >= shown.tree[i]
              /\ shown'.branch >= shown.branch ]_shown
  <2> SUFFICES ASSUME TypeOK, TypeOK', Aged, [Next]_vars, shown' # shown
               PROVE  /\ \A i \in Items : shown'.tree[i] >= shown.tree[i]
                      /\ shown'.branch >= shown.branch
    OBVIOUS
  <2>1. AdoptScan
    <3>1. CASE World \/ Time
      BY <3>1 DEF World, FileChanges, Commit, SwitchBranch, Time, PollElapses,
                  BackstopElapses, RetryElapses, DeadlineUnchanged
    <3>2. CASE Worker
      BY <3>2
      DEF Worker, Start, StartMetadataWatcher, BeginFullRefresh,
          BeginPathRefresh, BeginRefresh, FullScan, PathScan, RefreshUnchanged,
          QueueBranchScan, HandleResult, Notify, Loop, ObserveStop,
          PollWatcher, WatcherDies, RefreshAfterDeath, WaitWithoutWatcher,
          QueueWatchEvents, RefreshOnGitEvent, RefreshOnOverflow,
          RefreshOnFileEvents, PollMetadataWatcher, MetadataWatcherFails,
          RefreshOnRetry, RefreshOnPoll, RefreshOnBackstop, Stage
    <3> QED
      BY <3>1, <3>2 DEF Next, Pump, Construct, Consume, PublishAvailability,
                        Swap, IngestEvents, Stop, Join, Ended
  <2>2. Older(shown.tree, shown'.tree) /\ shown.branch <= shown'.branch
    BY <2>1, AdoptAges
  <2>3. /\ shown.tree \in Trees /\ shown'.tree \in Trees
        /\ shown.branch \in Nat /\ shown'.branch \in Nat
    BY DEF TypeOK
  <2> QED BY <2>2, <2>3 DEF Older, Trees
<1> QED
  BY <1>1, <1>2, <1>3, TypeCorrect, ScheduledAlways, PTL DEF Spec, NeverShowsOlder
=============================================================================
