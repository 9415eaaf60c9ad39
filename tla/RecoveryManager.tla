--------------------------- MODULE RecoveryManager ---------------------------
(***************************************************************************)
(* Renaming and deleting files so that a failure or a crash undoes them    *)
(* (src/RecoveryManager.cpp), with the archive that every deleted file     *)
(* goes to first (Workspace::deleteFile, src/FileArchive.cpp).             *)
(*                                                                         *)
(* A path holds one content or nothing; directories, symbolic links and    *)
(* byte budgets are left out, and so are the records of closed documents.  *)
(* Record files are replaced atomically and flushed, so a crash may happen *)
(* between any two steps and loses no step; removing a record directory    *)
(* may be cut off between its files.  The next start uses the same         *)
(* recovery root.  Other programs write anywhere and at any time.          *)
(***************************************************************************)
EXTENDS Naturals, Sequences, SequencesExt

CONSTANTS
    Paths, Contents,
    MaxRecords,     \* RecoveryConfig::maximumRecords
    MaxOperations,  \* bound: renames and deletions
    MaxWrites,      \* bound: changes by other programs
    MaxFailures,    \* bound: steps that fail
    MaxCrashes      \* bound: crashes

ASSUME RecoveryAssumption ==
    /\ MaxRecords \in Nat \ {0}
    /\ MaxOperations \in Nat /\ MaxWrites \in Nat
    /\ MaxFailures \in Nat /\ MaxCrashes \in Nat

VARIABLES
    disk,           \* what the paths hold
    archive,        \* contents that have a durable copy in the archive
    store,          \* record directories, by id
    records,        \* records_: ids, oldest first
    up,             \* the editor runs
    step,           \* where prepareAndPerform or loadRecords is
    op,             \* the operation under way
    id,             \* its record, or the one being loaded
    todo,           \* records still to be loaded
    lastId,
    done,           \* operations that succeeded
    broken,         \* observer: paths of an operation that could not be undone, or not soundly
    stake,          \* observer: contents of the files operations touched
    disturbed,      \* observer: ids of records that cannot be undone soundly
    operations, writes, failures, crashes

diskVars == <<disk, archive>>
recordVars == <<store, records>>
opVars == <<step, op, id, todo>>
countVars == <<operations, writes, crashes>>
vars == <<diskVars, recordVars, opVars, countVars, up, lastId, done, broken,
          stake, disturbed, failures>>

Absent == "absent"
NoOp == [kind |-> "Nothing"]
NoId == 0
Operations == [kind : {"Rename", "Delete"}, source : Paths, destination : Paths]
Held == Contents \cup {Absent}

\* A record directory: its snapshots, and which of its files are there.
Parts == {"manifest", "artifacts", "state", "restored"}
States == {"InProgress", "Published"}
Records == [op : Operations, before : [Paths -> Held], state : States,
            parts : SUBSET Parts]

PathsOf(o) == IF o.kind = "Delete" THEN {o.source} ELSE {o.source, o.destination}
Has(r, part) == part \in store[r].parts

\* A record the next start undoes.
Live(r) == /\ {"manifest", "state"} \subseteq store[r].parts
           /\ ~Has(r, "restored") /\ store[r].state = "InProgress"

\* Paths of the operation under way, and the record it has or will have.
Busy == IF op = NoOp THEN {} ELSE PathsOf(op)
Ticket == IF id = NoId THEN lastId + 1 ELSE id

\* Records the next start undoes on one of these paths.
Touching(ps) == {r \in DOMAIN store : Live(r) /\ PathsOf(store[r].op) \cap ps # {}}

\* The paths hold what they held before the record's operation.
Before(r) == \A p \in PathsOf(store[r].op) : disk[p] = store[r].before[p]

Init ==
    /\ disk \in [Paths -> Held]
    /\ archive = {} /\ store = <<>> /\ records = <<>>
    /\ up = TRUE /\ step = "idle" /\ op = NoOp /\ id = NoId /\ todo = {}
    /\ lastId = 0 /\ done = 0
    /\ broken = {} /\ stake = {} /\ disturbed = {}
    /\ operations = 0 /\ writes = 0 /\ failures = 0 /\ crashes = 0

NoFailure == UNCHANGED failures
Fails == failures < MaxFailures /\ failures' = failures + 1

\* A step of the editor at this place, going on at that one.
At(here, next) == up /\ step = here /\ step' = next
Same == UNCHANGED <<countVars, up, lastId, done>>
SameOp == UNCHANGED <<op, id, todo>>

\* The operation ends here; the answer is a failure unless done counts it.
Idle == op' = NoOp /\ id' = NoId /\ UNCHANGED todo

-----------------------------------------------------------------------------
(* Record directories.                                                      *)

Without(r) == [s \in DOMAIN store \ {r} |-> store[s]]
Stored(r, record) == [s \in DOMAIN store \cup {r} |->
                        IF s = r THEN record ELSE store[s]]
Marked(r, state) == [store EXCEPT ![r].state = state,
                                  ![r].parts = @ \cup {"state"}]

\* What removing a directory leaves when it is interrupted: any of its files.
\* Losing the restored marker first makes an undone record one to undo again,
\* and losing the artifacts first makes the next start undo to nothing.
Remains(r) == {[store EXCEPT ![r].parts = parts] : parts \in SUBSET store[r].parts}

\* The observers of what the code gives no answer to: undoing these records, and
\* those of the paths they meet, may remove what has come to the paths since.
Disturb(rs, ps) ==
    LET met == ps \cup UNION {PathsOf(store[r].op) : r \in Touching(ps)}
    IN  /\ disturbed' = disturbed \cup rs \cup Touching(ps)
        /\ broken' = broken \cup met
        /\ stake' = stake \ {disk[p] : p \in met}

\* Removing the directory is interrupted.  A record that was undone and now
\* would be undone again is sound only where its paths are as it left them.
Sound(r) == Before(r) /\ r \notin disturbed /\ Touching(PathsOf(store[r].op)) = {}
Revives(r) ==
    /\ Has(r, "restored") /\ store[r].state = "InProgress"
    /\ store'[r].parts \cap {"manifest", "state", "restored"} = {"manifest", "state"}
CutOff(r) ==
    /\ store' \in Remains(r)
    /\ IF Revives(r) /\ ~Sound(r) THEN Disturb({r}, PathsOf(store[r].op))
       ELSE UNCHANGED <<broken, stake, disturbed>>

\* replaceFileAtomically may fail before or after the file is there.
Mark(r, state, ok, failed) ==
    \/ store' = Marked(r, state) /\ NoFailure /\ ok
    \/ Fails /\ store' \in {store, Marked(r, state)} /\ failed

-----------------------------------------------------------------------------
(* Workspace::renameFile and deleteFile, prepareAndPerform.                 *)

Begin(o) ==
    /\ At("idle", IF o.kind = "Delete" THEN "archive" ELSE "prepare")
    /\ operations < MaxOperations /\ operations' = operations + 1
    /\ op' = o
    /\ IF Touching(PathsOf(o)) # {} THEN Disturb({lastId + 1}, PathsOf(o))
       ELSE /\ disturbed' = disturbed \ {lastId + 1}
            /\ stake' = stake \cup {disk[o.source]} /\ UNCHANGED broken
    /\ UNCHANGED <<diskVars, recordVars, id, todo, writes, crashes, up, lastId,
                   done, failures>>

RenamePath(p, q) ==
    /\ p # q /\ disk[p] # Absent /\ disk[q] = Absent
    /\ Begin([kind |-> "Rename", source |-> p, destination |-> q])

DeletePath(p) ==
    /\ disk[p] # Absent
    /\ Begin([kind |-> "Delete", source |-> p, destination |-> p])

\* Mutant: the file is deleted whether or not it could be archived.
ArchiveAnyway ==
    /\ At("archive", "prepare")
    /\ \/ archive' = archive \cup {disk[op.source]} /\ NoFailure
       \/ Fails /\ UNCHANGED archive
    /\ SameOp /\ Same
    /\ UNCHANGED <<disk, recordVars, broken, stake, disturbed>>

\* FileArchive::archive: a copy, flushed with all of its directories.
Archive ==
    /\ \/ /\ At("archive", "prepare") /\ disk[op.source] # Absent
          /\ archive' = archive \cup {disk[op.source]} /\ NoFailure /\ SameOp
       \/ /\ At("archive", "idle")
          /\ IF disk[op.source] = Absent THEN NoFailure ELSE Fails
          /\ Idle /\ UNCHANGED archive
    /\ Same /\ UNCHANGED <<disk, recordVars, broken, stake, disturbed>>

Prepared == [op |-> op, before |-> disk, state |-> "InProgress",
             parts |-> {"manifest", "artifacts"}]

\* prepareRecord: the snapshots and the manifest, installed by a rename that
\* may fail when it is done.  (A record over the byte budget fails as well.)
PrepareRecord ==
    /\ lastId' = lastId + 1
    /\ \/ /\ At("prepare", "activate") /\ NoFailure
          /\ op.kind = "Delete" => disk[op.source] # Absent
          /\ store' = Stored(lastId', Prepared)
          /\ id' = lastId' /\ UNCHANGED <<op, todo>>
       \/ /\ At("prepare", "idle") /\ Fails
          /\ store' \in {store, Stored(lastId', Prepared)}
          /\ Idle
       \/ /\ At("prepare", "idle") /\ NoFailure
          /\ op.kind = "Delete" /\ disk[op.source] = Absent
          /\ UNCHANGED store /\ Idle
    /\ UNCHANGED <<diskVars, records, countVars, up, done, broken, stake, disturbed>>

Activate ==
    /\ up /\ step = "activate"
    /\ Mark(id, "InProgress", step' = "mutate", step' = "abandon")
    /\ SameOp /\ Same /\ UNCHANGED <<diskVars, records, broken, stake, disturbed>>

\* The record that could not be activated is removed; that may fail too.
Abandon ==
    /\ At("abandon", "idle")
    /\ \/ store' = Without(id) /\ NoFailure /\ UNCHANGED broken
       \/ Fails /\ store' \in Remains(id) /\ broken' = broken \cup PathsOf(op)
    /\ Idle /\ Same /\ UNCHANGED <<diskVars, records, stake, disturbed>>

Moved == [disk EXCEPT ![op.destination] = disk[op.source], ![op.source] = Absent]
Linked == [disk EXCEPT ![op.destination] = disk[op.source]]
Deleted == [disk EXCEPT ![op.source] = Absent]
MayMove == op.kind = "Rename" /\ disk[op.source] # Absent
           /\ disk[op.destination] = Absent

\* renameFileNoClobber or removeTree, and the flush of the directories.  A
\* rename may fail before, after or, where it is a link and an unlink, between.
Mutate ==
    /\ up /\ step = "mutate"
    /\ \/ /\ op.kind = "Delete" /\ NoFailure
          /\ disk' = Deleted /\ step' = "publish"
       \/ /\ op.kind = "Delete" /\ Fails
          /\ disk' \in {disk, Deleted} /\ step' = "rollback"
       \/ /\ MayMove /\ NoFailure /\ disk' = Moved /\ step' = "publish"
       \/ /\ MayMove /\ Fails
          /\ disk' \in {disk, Moved, Linked} /\ step' = "rollback"
       \/ /\ op.kind = "Rename" /\ ~MayMove /\ NoFailure
          /\ UNCHANGED disk /\ step' = "rollback"
    /\ SameOp /\ Same
    /\ UNCHANGED <<archive, recordVars, broken, stake, disturbed>>

\* The files are flushed and the record is published: the operation is done.
Publish ==
    /\ up /\ step = "publish"
    /\ Mark(id, "Published",
            /\ step' = "evict" /\ done' = done + 1
            /\ records' = Append(records, id) /\ Idle,
            step' = "rollback" /\ SameOp /\ UNCHANGED <<records, done>>)
    /\ UNCHANGED <<diskVars, countVars, up, lastId, broken, stake, disturbed>>

-----------------------------------------------------------------------------
(* Undoing an operation: after a failure, or when the next start finds its  *)
(* record in progress (op is NoOp then).                                    *)

Starting == op = NoOp
After == IF Starting THEN "load" ELSE "evict"

\* The record is kept, for the next start to try again.
Keep ==
    /\ step' = After /\ records' = Append(records, id)
    /\ broken' = IF Live(id) THEN broken \cup PathsOf(store[id].op) ELSE broken
    /\ op' = NoOp /\ id' = NoId /\ UNCHANGED todo

Rollback ==
    /\ up /\ step = "rollback"
    /\ \/ /\ store' = Marked(id, "InProgress") /\ NoFailure
          /\ step' = "restore" /\ SameOp /\ UNCHANGED <<records, broken>>
       \/ /\ Fails /\ store' \in {store, Marked(id, "InProgress")}
          /\ step' = "evict" /\ records' = Append(records, id)
          /\ broken' = broken \cup PathsOf(op) /\ Idle
    /\ Same /\ UNCHANGED <<diskVars, stake, disturbed>>

RestoreUnchanged == SameOp /\ Same /\ UNCHANGED <<archive, recordVars, broken, stake, disturbed>>
Restored(d) == /\ disk' = d
               /\ NoFailure

\* restoreSnapshot removes what is at the deleted path; restoreRename renames
\* back, or restores the source's snapshot, or leaves the source alone.
RestoreSource ==
    up /\ step = "restore" /\
    LET o == store[id].op
    IN  /\ \/ /\ o.kind = "Delete" /\ At("restore", "copyBack")
              /\ Restored([disk EXCEPT ![o.source] = Absent])
           \/ /\ o.kind = "Rename" /\ At("restore", "clear")
              /\ disk[o.source] = Absent /\ disk[o.destination] # Absent
              /\ Restored([disk EXCEPT ![o.source] = disk[o.destination],
                                       ![o.destination] = Absent])
           \/ /\ o.kind = "Rename" /\ At("restore", "copyBack")
              /\ disk[o.source] = Absent /\ disk[o.destination] = Absent
              /\ UNCHANGED diskVars /\ NoFailure
           \/ /\ o.kind = "Rename" /\ At("restore", "clear")
              /\ disk[o.source] # Absent
              /\ UNCHANGED diskVars /\ NoFailure
        /\ RestoreUnchanged

\* restoreSnapshot copies the snapshot of the source.
CopyBack ==
    up /\ step = "copyBack" /\
    LET o == store[id].op
    IN  /\ Has(id, "artifacts")
        /\ At("copyBack", IF o.kind = "Delete" THEN "undone" ELSE "clear")
        /\ Restored([disk EXCEPT ![o.source] = store[id].before[o.source]])
        /\ RestoreUnchanged

\* The destination becomes what it was: nothing, unless another program was
\* faster than the snapshot.
ClearDestination ==
    up /\ step = "clear" /\
    LET o == store[id].op
    IN  /\ At("clear", "undone")
        /\ Restored([disk EXCEPT ![o.destination] = store[id].before[o.destination]])
        /\ RestoreUnchanged

\* Any of these may fail; a lost snapshot cannot be copied.
RestoreFails ==
    /\ up /\ step \in {"restore", "copyBack", "clear"}
    /\ IF step = "copyBack" /\ ~Has(id, "artifacts") THEN NoFailure ELSE Fails
    /\ Keep /\ Same /\ UNCHANGED <<diskVars, store, stake, disturbed>>

\* The files are flushed and marked, so that the next start will not undo the
\* record again.
MarkRestored ==
    LET marked == [store EXCEPT ![id].parts = @ \cup {"restored"}]
    IN  /\ up /\ step = "undone"
        /\ \/ /\ store' = marked /\ NoFailure
              /\ step' = "discard" /\ SameOp /\ UNCHANGED <<records, broken>>
           \/ /\ Fails /\ store' \in {store, marked} /\ Keep
        /\ Same /\ UNCHANGED <<diskVars, stake, disturbed>>

\* The undone record is removed, or kept without effect.
Discard ==
    /\ up /\ step = "discard"
    /\ \/ /\ store' = Without(id) /\ NoFailure
          /\ UNCHANGED <<records, broken, stake, disturbed>>
       \/ Fails /\ CutOff(id) /\ records' = Append(records, id)
    /\ step' = (IF Starting THEN "load" ELSE "idle")
    /\ op' = NoOp /\ id' = NoId /\ UNCHANGED todo
    /\ Same /\ UNCHANGED diskVars

-----------------------------------------------------------------------------
(* enforceBudgets, crashes and loadRecords.                                 *)

Interrupted ==
    /\ up' = FALSE /\ step' = "idle" /\ op' = NoOp /\ id' = NoId /\ todo' = {}
    /\ records' = <<>>

\* enforceBudgets: the oldest records go until the others fit.
Evict ==
    /\ up /\ step \in {"evict", "fit"}
    /\ \/ /\ Len(records) > MaxRecords /\ NoFailure
          /\ store' = Without(records[1]) /\ records' = Tail(records)
          /\ UNCHANGED step
       \/ /\ Len(records) <= MaxRecords /\ NoFailure
          /\ step' = "idle" /\ UNCHANGED recordVars
    /\ SameOp /\ Same /\ UNCHANGED <<diskVars, broken, stake, disturbed>>

\* A failed removal ends it: the answer is a failure although the operation is
\* done, and at a start the editor does not come up.
EvictionFails ==
    /\ up /\ step \in {"evict", "fit"}
    /\ Len(records) > MaxRecords /\ Fails
    /\ CutOff(records[1])
    /\ \/ /\ step = "evict" /\ step' = "idle"
          /\ SameOp /\ UNCHANGED <<records, up>>
       \/ step = "fit" /\ Interrupted
    /\ UNCHANGED <<countVars, lastId, done, diskVars>>

\* The directory being removed when the editor is interrupted.
BeingRemoved == CASE step \in {"discard", "abandon"} -> {id}
                  [] step \in {"evict", "fit"} /\ Len(records) > MaxRecords -> {records[1]}
                  [] OTHER -> {}

Crash ==
    /\ up /\ crashes < MaxCrashes /\ crashes' = crashes + 1
    /\ Interrupted
    /\ \/ UNCHANGED <<store, broken, stake, disturbed>>
       \/ \E r \in BeingRemoved : CutOff(r)
    /\ UNCHANGED <<diskVars, operations, writes, lastId, done, failures>>

Start ==
    /\ ~up /\ up' = TRUE /\ step' = "load" /\ todo' = DOMAIN store
    /\ UNCHANGED <<op, id, diskVars, recordVars, countVars, lastId, done, broken,
                   stake, disturbed, failures>>

\* Mutant: a record in progress is loaded like any other.
LoadAsIs ==
    /\ up /\ step = "load" /\ todo # {}
    /\ LET r == CHOOSE r \in todo : \A s \in todo : r <= s
       IN  /\ todo' = todo \ {r} /\ records' = Append(records, r)
    /\ NoFailure
    /\ Same /\ UNCHANGED <<diskVars, store, step, op, id, broken, stake, disturbed>>

\* The oldest record not looked at: undecodable ones and those without a state
\* are removed, one in progress is undone, any other is kept.
LoadRecord ==
    /\ up /\ step = "load" /\ todo # {}
    /\ LET r == CHOOSE r \in todo : \A s \in todo : r <= s
       IN  /\ todo' = todo \ {r}
           /\ \/ /\ ~({"manifest", "state"} \subseteq store[r].parts)
                 /\ store' = Without(r) /\ UNCHANGED <<records, step, id>>
              \/ /\ Live(r)
                 /\ step' = "restore" /\ id' = r /\ UNCHANGED recordVars
              \/ /\ {"manifest", "state"} \subseteq store[r].parts /\ ~Live(r)
                 /\ records' = Append(records, r) /\ UNCHANGED <<store, step, id>>
    /\ NoFailure /\ UNCHANGED op
    /\ Same /\ UNCHANGED <<diskVars, broken, stake, disturbed>>

\* Without a directory it cannot remove the editor does not start.
StartFails ==
    /\ up /\ step = "load" /\ todo # {} /\ Fails
    /\ Interrupted
    /\ UNCHANGED <<diskVars, store, countVars, lastId, done, broken, stake, disturbed>>

Loaded ==
    /\ At("load", "fit") /\ todo = {} /\ NoFailure
    /\ SameOp /\ Same /\ UNCHANGED <<diskVars, recordVars, broken, stake, disturbed>>

-----------------------------------------------------------------------------
(* Other programs.                                                          *)

WriteFile(p, c) ==
    /\ writes < MaxWrites /\ writes' = writes + 1
    /\ c # disk[p]
    /\ disk' = [disk EXCEPT ![p] = c]
    /\ \/ p \in Busy /\ Disturb({Ticket}, Busy)
       \/ p \notin Busy /\ Touching({p}) # {} /\ Disturb({}, {p})
       \/ /\ p \notin Busy /\ Touching({p}) = {}
          /\ stake' = stake \ {disk[p]} /\ UNCHANGED <<broken, disturbed>>
    /\ UNCHANGED <<archive, recordVars, opVars, up, lastId, done,
                   operations, crashes, failures>>

Operation == \E p \in Paths : DeletePath(p) \/ \E q \in Paths : RenamePath(p, q)
Perform == Archive \/ PrepareRecord \/ Activate \/ Abandon \/ Mutate \/ Publish
Undo == \/ Rollback \/ RestoreSource \/ CopyBack \/ ClearDestination
        \/ RestoreFails \/ MarkRestored \/ Discard
Life == Evict \/ EvictionFails \/ Crash \/ Start \/ LoadRecord \/ StartFails \/ Loaded

Next == \/ Operation \/ Perform \/ Undo \/ Life
        \/ \E p \in Paths, c \in Held : WriteFile(p, c)

Spec == Init /\ [][Next]_vars

-----------------------------------------------------------------------------
(* Properties.                                                              *)

Steps == {"idle", "archive", "prepare", "activate", "abandon", "mutate",
          "publish", "rollback", "restore", "copyBack", "clear", "undone",
          "discard", "evict", "load", "fit"}

\* Type invariant.
TypeOK ==
    /\ disk \in [Paths -> Held] /\ archive \subseteq Held
    /\ DOMAIN store \subseteq 1..lastId
    /\ \A r \in DOMAIN store : store[r] \in Records
    /\ records \in Seq(DOMAIN store)
    /\ up \in BOOLEAN /\ step \in Steps
    /\ op \in Operations \cup {NoOp}
    /\ id \in DOMAIN store \cup {NoId}
    /\ todo \subseteq DOMAIN store
    /\ lastId \in Nat /\ done \in Nat
    /\ broken \subseteq Paths /\ stake \subseteq Held
    /\ disturbed \subseteq 1..(lastId + 1)
    /\ operations \in Nat /\ writes \in Nat /\ failures \in Nat /\ crashes \in Nat

\* "A delete must never reduce the number of copies below one"
\* (Workspace.cpp:1151), nor a rename: what a file held when an operation on
\* it began is held by a path or by the archive, whatever fails and crashes and
\* in the middle of every operation and of undoing it; no snapshot is needed for
\* it, so that records may be evicted.  Not counted is what another program's
\* change, or an operation begun where a record is still to be undone, puts in the
\* way of undoing (Disturb).  And the store of records stays what TypeOK says.
NothingLost ==
    /\ TypeOK
    /\ \A c \in stake : c \in archive \/ \E p \in Paths : disk[p] = c

\* What the paths hold as far as it is decided: the record of an operation
\* that is not done, and of one the next start undoes, speaks for its paths.
Deciding == {r \in DOMAIN store :
               Live(r) \/ (r = id /\ step \in {"publish", "rollback"})}
Decided(p) ==
    IF \E r \in Deciding : p \in PathsOf(store[r].op)
    THEN store[CHOOSE r \in Deciding : p \in PathsOf(store[r].op)].before[p]
    ELSE disk[p]

\* Renames and deletions are atomic, through failures at every step, crashes,
\* restarts and removals cut off, but on broken paths.
AtomicOperations ==
    INSTANCE AtomicFiles WITH files <- [p \in Paths |-> Decided(p)],
                              asked <- op
ImplementsAtomicFiles == AtomicOperations!Spec
=============================================================================
