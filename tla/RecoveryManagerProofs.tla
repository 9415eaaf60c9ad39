------------------------ MODULE RecoveryManagerProofs ------------------------
(***************************************************************************)
(* Proofs about RecoveryManager for all paths, contents and bounds.        *)
(*                                                                         *)
(* At every place of prepareAndPerform and of loadRecords, what the paths  *)
(* of an undecided operation hold is known from its snapshot: all of it    *)
(* before the operation, all of it after, or a rename's link next to the   *)
(* file it names (Halfway).  Undecided operations have no path in common   *)
(* (Apart), so each decides what its own paths are taken to hold.  Only    *)
(* the disturbed ones are excepted, and their paths are broken (Exempt).   *)
(***************************************************************************)
EXTENDS RecoveryManager, SequenceTheorems, WellFoundedInduction, TLAPS

\* Places of prepareAndPerform that own the operation's record, and the places
\* of restoreOperation, at run time or at a start.
Own == {"activate", "abandon", "mutate", "publish", "rollback"}
Undoing == {"restore", "copyBack", "clear", "undone", "discard"}

\* What each place has in hand: no operation, one without a record, one with its
\* record, or (at a start) only a record.
Control ==
    /\ step \in {"idle", "evict", "load", "fit"} => op = NoOp /\ id = NoId
    /\ step \in {"archive", "prepare"} => op \in Operations /\ id = NoId
    /\ step \in Own => op \in Operations /\ id \in DOMAIN store /\ op = store[id].op
    /\ step \in Undoing => id \in DOMAIN store /\ op \in {NoOp, store[id].op}
    /\ ~up => step = "idle" /\ records = <<>>
    /\ todo # {} => step = "load" \/ (step \in Undoing /\ op = NoOp)

\* A record is in the list of records once, and the one being worked on or still
\* to be loaded is not in it.
Once ==
    /\ \A i, j \in DOMAIN records : records[i] = records[j] => i = j
    /\ \A i \in DOMAIN records : records[i] # id /\ records[i] \notin todo
    /\ id \notin todo

\* Which files the record in hand has at each place.
Phases ==
    /\ step = "activate" => store[id].parts = {"manifest", "artifacts"} /\ store[id].state = "InProgress"
    /\ step \in {"mutate", "publish", "restore", "copyBack", "clear", "undone"} => Live(id)
    /\ step = "rollback" => {"manifest", "state"} \subseteq store[id].parts /\ ~Has(id, "restored")
    /\ step = "abandon" => ~Has(id, "restored")
    /\ step = "discard" => Has(id, "restored")

\* A rename has two paths, a deletion one.
WellFormed(o) == o.kind = "Rename" <=> o.source # o.destination
Shapes == /\ op # NoOp => WellFormed(op)
          /\ \A r \in DOMAIN store : WellFormed(store[r].op)

\* What an operation finds when its snapshots are taken, and what its snapshots
\* then say: a file to move, nothing in its way, and a copy of a deleted file.
MayPerform(o, d) ==
    /\ d[o.source] # Absent
    /\ o.kind = "Rename" => d[o.destination] = Absent
    /\ o.kind = "Delete" => d[o.source] \in archive
Snapshots ==
    /\ step = "archive" => op.kind = "Delete"
    /\ step = "archive" /\ Ticket \notin disturbed => disk[op.source] # Absent
    /\ step = "prepare" /\ Ticket \notin disturbed => MayPerform(op, disk)
    /\ \A r \in DOMAIN store \ disturbed : MayPerform(store[r].op, store[r].before)

\* What the paths of a record's operation may hold: what its snapshots say, what
\* the operation makes of it, or a rename's new link beside the old file.
Performed(r) == LET o == store[r].op
    IN  /\ disk[o.source] = Absent
        /\ o.kind = "Rename" => disk[o.destination] = store[r].before[o.source]
Between(r) == LET o == store[r].op
    IN  /\ o.kind = "Rename" /\ disk[o.source] = store[r].before[o.source]
        /\ disk[o.destination] = store[r].before[o.source]

\* Each place knows in which of these three ways the paths are left.
PlaceOf ==
    /\ step \in {"activate", "abandon", "mutate", "undone"} => Before(id)
    /\ step = "publish" => Performed(id)
    /\ step = "rollback" /\ store[id].state = "Published" => Performed(id)
    /\ step = "copyBack" => store[id].op.kind = "Delete" /\ Performed(id)
    /\ step = "clear" => store[id].op.kind = "Rename" /\ (Before(id) \/ Between(id))
Halfway ==
    /\ \A r \in DOMAIN store \ disturbed :
          Live(r) => Before(r) \/ Performed(r) \/ Between(r)
    /\ id \notin disturbed => PlaceOf

\* Undecided operations, the one under way included, have no path in common,
\* unless both are disturbed.
Apart ==
    /\ \A r, s \in DOMAIN store : Live(r) /\ Live(s) /\ r # s =>
          \/ PathsOf(store[r].op) \cap PathsOf(store[s].op) = {}
          \/ {r, s} \subseteq disturbed
    /\ op # NoOp => \A r \in DOMAIN store : Live(r) /\ r # id =>
          \/ PathsOf(op) \cap PathsOf(store[r].op) = {}
          \/ {r, Ticket} \subseteq disturbed

\* Where it is disturbed no more is known of its paths than that they are broken.
Exempt ==
    /\ \A r \in DOMAIN store \cap disturbed :
          Live(r) => PathsOf(store[r].op) \subseteq broken
    /\ op # NoOp /\ Ticket \in disturbed => PathsOf(op) \subseteq broken

\* A listed record that is still undecided could not be undone by this run, and
\* its paths are broken, or it was undone and its paths are as they were before.
GivenUp == \A i \in DOMAIN records : Live(records[i]) =>
    \/ PathsOf(store[records[i]].op) \subseteq broken
    \/ records[i] \notin disturbed /\ Before(records[i])

\* What an operation touched is in the archive or under a path that no disturbed
\* operation has.
Unsafe(p) == \/ \E r \in DOMAIN store \cap disturbed : Live(r) /\ p \in PathsOf(store[r].op)
             \/ Ticket \in disturbed /\ p \in Busy
Kept == /\ Absent \notin stake
        /\ \A c \in stake : c \in archive \/ \E p \in Paths : disk[p] = c /\ ~Unsafe(p)

\* The inductive invariant.
IInv == /\ TypeOK /\ Control /\ Once /\ Phases /\ Shapes /\ Snapshots /\ Halfway
        /\ Apart /\ Exempt /\ GivenUp /\ Kept

-----------------------------------------------------------------------------
\* The record that is loaded next is one of those to be loaded.
LEMMA LeastRecord ==
    ASSUME NEW S, S \subseteq Nat, S # {}
    PROVE  \E r \in S : \A s \in S : r <= s
<1> DEFINE R == OpToRel(<, Nat)
<1>1. IsWellFoundedOn(R, Nat)
  BY NatLessThanWellFounded
<1>2. \A m, n \in Nat : m < n => <<m, n>> \in R
  BY DEF OpToRel
<1> HIDE DEF R
<1>3. PICK r \in S : \A s \in S : ~ (<<s, r>> \in R)
  BY <1>1, WFMin
<1>4. ASSUME NEW s \in S PROVE r <= s
  <2>1. ~(s < r)
    BY <1>2, <1>3
  <2> QED BY <2>1
<1> QED BY <1>4

-----------------------------------------------------------------------------
(* What the steps come to.                                                  *)

Begins(o) ==
    /\ Begin(o) /\ WellFormed(o) /\ disk[o.source] # Absent
    /\ o.kind = "Rename" => disk[o.destination] = Absent

\* An operation begins on a file, and a rename on a path without one.
LEMMA OperationBegins ==
    ASSUME Operation
    PROVE  \E o \in Operations : Begins(o)
<1>1. ASSUME NEW p \in Paths, DeletePath(p)
      PROVE  \E o \in Operations : Begins(o)
  <2> DEFINE o == [kind |-> "Delete", source |-> p, destination |-> p]
  <2>1. o \in Operations
    BY DEF Operations
  <2>2. Begins(o)
    BY <1>1 DEF DeletePath, Begins, WellFormed
  <2> QED BY <2>1, <2>2
<1>2. ASSUME NEW p \in Paths, NEW q \in Paths, RenamePath(p, q)
      PROVE  \E o \in Operations : Begins(o)
  <2> DEFINE o == [kind |-> "Rename", source |-> p, destination |-> q]
  <2>1. o \in Operations
    BY DEF Operations
  <2>2. Begins(o)
    BY <1>2 DEF RenamePath, Begins, WellFormed
  <2> QED BY <2>1, <2>2
<1> QED BY <1>1, <1>2 DEF Operation

\* Records and their operations.
LEMMA RecordTypes ==
    ASSUME TypeOK, NEW r \in DOMAIN store
    PROVE  /\ store[r] \in Records /\ store[r].op \in Operations
           /\ store[r].before \in [Paths -> Held]
           /\ store[r].parts \subseteq Parts /\ store[r].state \in States
           /\ r \in Nat /\ r <= lastId /\ r # NoId
BY DEF TypeOK, Records, NoId

\* The paths of an operation.
LEMMA OperationTypes ==
    ASSUME NEW o \in Operations
    PROVE  /\ o.kind \in {"Rename", "Delete"} /\ o # NoOp
           /\ o.source \in Paths /\ o.destination \in Paths
           /\ PathsOf(o) \subseteq Paths /\ o.source \in PathsOf(o)
           /\ o.kind = "Rename" => o.destination \in PathsOf(o)
BY DEF Operations, NoOp, PathsOf

\* The oldest record is one of the store.
LEMMA Oldest ==
    ASSUME TypeOK, Len(records) > MaxRecords
    PROVE  records[1] \in DOMAIN store /\ 1 \in DOMAIN records
<1>1. Len(records) \in Nat /\ DOMAIN records = 1..Len(records)
  BY LenProperties DEF TypeOK
<1>2. 1 \in 1..Len(records)
  BY <1>1, RecoveryAssumption
<1> QED BY <1>1, <1>2, ElementOfSeq DEF TypeOK

\* What a step may do to the store.
Installed == /\ step = "prepare" /\ lastId' = lastId + 1
             /\ store' = Stored(lastId + 1, Prepared)
MarkedAs(state) ==
    /\ step \in {"activate", "publish", "rollback"}
    /\ state = "Published" <=> step = "publish"
    /\ store' = Marked(id, state)
MarkedRestored == step = "undone" /\ store' = [store EXCEPT ![id].parts = @ \cup {"restored"}]
Shrinks(r) == \/ store' = Without(r)
              \/ store' \in Remains(r) /\ (Has(r, "restored") => CutOff(r))

\* Every step changes the store in one of these ways.
LEMMA StoreSteps ==
    ASSUME TypeOK, Control, Phases, Next
    PROVE  \/ UNCHANGED store
           \/ Installed \/ MarkedRestored
           \/ \E state \in States : MarkedAs(state)
           \/ \E r \in DOMAIN store : Shrinks(r)
<1> DEFINE Kinds == \/ UNCHANGED store
                    \/ Installed \/ MarkedRestored
                    \/ \E state \in States : MarkedAs(state)
                    \/ \E r \in DOMAIN store : Shrinks(r)
<1>1. CASE Operation
  BY <1>1, OperationBegins DEF Begins, Begin, recordVars
<1>2. CASE Archive
  BY <1>2 DEF Archive, recordVars
<1>3. CASE PrepareRecord
  BY <1>3 DEF PrepareRecord, At, Installed
<1>4. CASE Activate
  BY <1>4 DEF Activate, Mark, MarkedAs, States
<1>5. CASE Abandon
  BY <1>5 DEF Abandon, At, Shrinks, Control, Own, Phases
<1>6. CASE Mutate
  BY <1>6 DEF Mutate, recordVars
<1>7. CASE Publish
  BY <1>7 DEF Publish, Mark, MarkedAs, States
<1>8. CASE Rollback
  BY <1>8 DEF Rollback, MarkedAs, States
<1>9. CASE RestoreSource \/ CopyBack \/ ClearDestination \/ RestoreFails
  BY <1>9 DEF RestoreSource, CopyBack, ClearDestination, RestoreFails, RestoreUnchanged, recordVars
<1>10. CASE MarkRestored
  BY <1>10 DEF MarkRestored, MarkedRestored
<1>11. CASE Discard
  <2>1. store' = Without(id) \/ CutOff(id)
    BY <1>11 DEF Discard
  <2> QED BY <1>11, <2>1 DEF Discard, Shrinks, CutOff, Control, Undoing
<1>12. CASE Evict \/ EvictionFails
  <2>1. \/ store' = store
        \/ Len(records) > MaxRecords /\ (store' = Without(records[1]) \/ CutOff(records[1]))
    BY <1>12 DEF Evict, EvictionFails, recordVars
  <2> QED BY <2>1, Oldest DEF Shrinks, CutOff
<1>13. CASE Crash
  <2>1. ASSUME NEW r \in BeingRemoved PROVE r \in DOMAIN store
    BY <2>1, Oldest DEF BeingRemoved, Control, Own, Undoing
  <2>2. store' = store \/ \E r \in BeingRemoved : CutOff(r)
    BY <1>13 DEF Crash
  <2> QED BY <2>1, <2>2 DEF Shrinks, CutOff
<1>14. CASE LoadRecord
  <2>1. \A r \in todo : r \in DOMAIN store /\ r \in Nat
    BY RecordTypes DEF TypeOK
  <2>2. todo # {} => \E r \in todo : \A s \in todo : r <= s
    BY <2>1, LeastRecord
  <2> QED BY <1>14, <2>1, <2>2 DEF LoadRecord, Shrinks, recordVars
<1>15. CASE Start \/ StartFails \/ Loaded
  BY <1>15 DEF Start, StartFails, Loaded, recordVars
<1>16. CASE \E p \in Paths, c \in Held : WriteFile(p, c)
  BY <1>16 DEF WriteFile, recordVars
<1> QED
  BY <1>1, <1>2, <1>3, <1>4, <1>5, <1>6, <1>7, <1>8, <1>9, <1>10, <1>11, <1>12,
     <1>13, <1>14, <1>15, <1>16 DEF Next, Perform, Undo, Life

\* A record keeps its operation and its snapshot for as long as it is there,
\* and is not live again once it is not: only the record of the operation under
\* way becomes live, and one whose removal is interrupted.
Kin(r) ==
    /\ store'[r] \in Records
    /\ r \in DOMAIN store =>
          store'[r].op = store[r].op /\ store'[r].before = store[r].before
    /\ r \notin DOMAIN store =>
          /\ step = "prepare" /\ r = lastId + 1 /\ lastId' = lastId + 1
          /\ store'[r] = Prepared
    /\ Live(r)' => r \in DOMAIN store
                   /\ \/ Live(r) \/ (r = id /\ step \in {"activate", "rollback"})
                      \/ Revives(r) /\ CutOff(r)

\* A record that is installed is a record, under an id of its own.
LEMMA PreparedIs ==
    ASSUME TypeOK, Control, step = "prepare"
    PROVE  Prepared \in Records /\ lastId + 1 \notin DOMAIN store
<1>1. op \in Operations /\ disk \in [Paths -> Held]
  BY DEF Control, TypeOK
<1>2. Prepared \in Records
  BY <1>1 DEF Prepared, Records, States, Parts
<1>3. lastId + 1 \notin DOMAIN store
  BY DEF TypeOK
<1> QED BY <1>2, <1>3

\* Every record after a step is kin to what was there before.
LEMMA StoreKeeps ==
    ASSUME TypeOK, Control, Phases, Next
    PROVE  \A r \in DOMAIN store' : Kin(r)
<1> SUFFICES ASSUME NEW r \in DOMAIN store' PROVE Kin(r)
  OBVIOUS
<1>1. CASE UNCHANGED store
  BY <1>1, RecordTypes DEF Kin, Live, Has
<1>2. CASE Installed
  <2>1. r \in DOMAIN store \/ r = lastId + 1
    BY <1>2 DEF Installed, Stored
  <2>2. ASSUME r = lastId + 1 PROVE store'[r] = Prepared
    BY <1>2, <2>2 DEF Installed, Stored
  <2>3. ASSUME r # lastId + 1 PROVE store'[r] = store[r]
    BY <1>2, <2>3 DEF Installed, Stored
  <2>4. CASE r = lastId + 1
    <3>1. ~Live(r)'
      BY <2>2, <2>4 DEF Live, Prepared
    <3> QED BY <1>2, <2>2, <2>4, <3>1, PreparedIs DEF Kin, Installed
  <2>5. CASE r # lastId + 1
    BY <2>1, <2>3, <2>5, RecordTypes DEF Kin, Live, Has
  <2> QED BY <2>4, <2>5
<1>3. CASE MarkedRestored
  <2>1. DOMAIN store' = DOMAIN store
    BY <1>3 DEF MarkedRestored
  <2>2. CASE r = id
    <3>1. store[r] \in Records
      BY <2>1, RecordTypes
    <3>2. store'[r] = [store[r] EXCEPT !.parts = @ \cup {"restored"}]
      BY <1>3, <2>1, <2>2 DEF MarkedRestored
    <3>3. /\ store'[r].op = store[r].op /\ store'[r].before = store[r].before
          /\ store'[r].parts = store[r].parts \cup {"restored"}
          /\ store'[r] \in Records
      BY <3>1, <3>2 DEF Records, Parts
    <3> QED BY <2>1, <3>3 DEF Kin, Live, Has
  <2>3. CASE r # id
    <3>1. store'[r] = store[r]
      BY <1>3, <2>1, <2>3 DEF MarkedRestored
    <3> QED BY <2>1, <3>1, RecordTypes DEF Kin, Live, Has
  <2> QED BY <2>2, <2>3
<1>4. ASSUME NEW state \in States, MarkedAs(state) PROVE Kin(r)
  <2>1. DOMAIN store' = DOMAIN store
    BY <1>4 DEF MarkedAs, Marked
  <2>2. CASE r = id
    <3>1. store[r] \in Records
      BY <2>1, RecordTypes
    <3>2. store'[r] = [store[r] EXCEPT !.state = state, !.parts = @ \cup {"state"}]
      BY <1>4, <2>1, <2>2, <3>1 DEF MarkedAs, Marked
    <3>3. /\ store'[r].op = store[r].op /\ store'[r].before = store[r].before
          /\ store'[r].state = state
          /\ store'[r].parts = store[r].parts \cup {"state"}
          /\ store'[r] \in Records
      BY <3>1, <3>2 DEF Records, Parts
    <3> QED BY <1>4, <2>1, <2>2, <3>3 DEF Kin, MarkedAs, Live, Has
  <2>3. CASE r # id
    <3>1. store'[r] = store[r]
      BY <1>4, <2>1, <2>3 DEF MarkedAs, Marked
    <3> QED BY <2>1, <3>1, RecordTypes DEF Kin, Live, Has
  <2> QED BY <2>2, <2>3
<1>5. ASSUME NEW s \in DOMAIN store, Shrinks(s) PROVE Kin(r)
  <2>1. CASE store' = Without(s)
    BY <2>1, RecordTypes DEF Without, Kin, Live, Has
  <2>2. CASE store' \in Remains(s)
    <3>1. PICK parts \in SUBSET store[s].parts : store' = [store EXCEPT ![s].parts = parts]
      BY <2>2 DEF Remains
    <3>2. CASE r = s
      <4>1. store[r] \in Records
        BY <3>2, RecordTypes
      <4>2. store'[r] = [store[r] EXCEPT !.parts = parts]
        BY <3>1, <3>2
      <4>3. /\ store'[r].op = store[r].op /\ store'[r].before = store[r].before
            /\ store'[r].state = store[r].state /\ store'[r].parts = parts
            /\ store'[r] \in Records
        BY <3>2, <4>1, <4>2 DEF Records
      <4>4. ASSUME Live(r)', ~Live(r) PROVE Revives(r) /\ CutOff(r)
        <5>1. /\ {"manifest", "state"} \subseteq parts /\ "restored" \notin parts
              /\ store[r].state = "InProgress" /\ parts \subseteq store[r].parts
          BY <3>1, <3>2, <4>3, <4>4 DEF Live, Has
        <5>2. Has(r, "restored")
          BY <4>4, <5>1 DEF Live, Has
        <5>3. Revives(r)
          BY <4>3, <5>1, <5>2 DEF Revives
        <5>4. store' # Without(s)
          BY <3>2 DEF Without
        <5> QED BY <1>5, <3>2, <5>2, <5>3, <5>4 DEF Shrinks
      <4> QED BY <3>1, <3>2, <4>3, <4>4 DEF Kin
    <3>3. CASE r # s
      BY <3>1, <3>3, RecordTypes DEF Kin, Live, Has
    <3> QED BY <3>2, <3>3
  <2> QED BY <1>5, <2>1, <2>2 DEF Shrinks
<1> QED BY <1>1, <1>2, <1>3, <1>4, <1>5, StoreSteps

-----------------------------------------------------------------------------
(* Types.                                                                   *)

USE DEF diskVars, recordVars, opVars, countVars, Same, SameOp, NoFailure, Fails,
        At, Idle

\* The disk and the archive hold contents.
LEMMA DiskTypes ==
    ASSUME TypeOK, Control, Next
    PROVE  disk' \in [Paths -> Held]
<1> USE DEF TypeOK
<1>0. Absent \in Held
  BY DEF Held
<1>1. CASE Operation
  BY <1>1, OperationBegins DEF Begins, Begin
<1>2. CASE Archive \/ PrepareRecord \/ Activate \/ Abandon \/ Publish
  BY <1>2 DEF Archive, PrepareRecord, Activate, Abandon, Publish
<1>3. CASE Mutate
  <2>1. op \in Operations
    BY <1>3 DEF Mutate, Control, Own
  <2>2. disk[op.source] \in Held
    BY <2>1, OperationTypes
  <2>3. Moved \in [Paths -> Held] /\ Linked \in [Paths -> Held] /\ Deleted \in [Paths -> Held]
    BY <1>0, <2>2 DEF Moved, Linked, Deleted
  <2> QED BY <1>3, <2>3 DEF Mutate
<1>4. CASE RestoreSource \/ CopyBack \/ ClearDestination
  <2>1. id \in DOMAIN store
    BY <1>4 DEF RestoreSource, CopyBack, ClearDestination, Control, Undoing
  <2> DEFINE o == store[id].op
             b == store[id].before
  <2>2. /\ disk[o.destination] \in Held
        /\ b[o.source] \in Held /\ b[o.destination] \in Held
    BY <2>1, RecordTypes, OperationTypes
  <2>3. /\ [disk EXCEPT ![o.source] = Absent] \in [Paths -> Held]
        /\ [disk EXCEPT ![o.source] = disk[o.destination], ![o.destination] = Absent]
             \in [Paths -> Held]
        /\ [disk EXCEPT ![o.source] = b[o.source]] \in [Paths -> Held]
        /\ [disk EXCEPT ![o.destination] = b[o.destination]] \in [Paths -> Held]
    BY <1>0, <2>2
  <2> HIDE DEF o, b
  <2> QED BY <1>4, <2>3 DEF RestoreSource, CopyBack, ClearDestination, Restored, o, b
<1>5. CASE Rollback \/ RestoreFails \/ MarkRestored \/ Discard
  BY <1>5 DEF Rollback, RestoreFails, MarkRestored, Discard
<1>6. CASE Evict \/ EvictionFails \/ Crash \/ Start \/ LoadRecord \/ StartFails \/ Loaded
  BY <1>6 DEF Evict, EvictionFails, Crash, Start, LoadRecord, StartFails, Loaded
<1>7. CASE \E p \in Paths, c \in Held : WriteFile(p, c)
  BY <1>7 DEF WriteFile
<1> QED BY <1>1, <1>2, <1>3, <1>4, <1>5, <1>6, <1>7 DEF Next, Perform, Undo, Life

\* The counters, and the ids of records.
LEMMA CounterTypes ==
    ASSUME TypeOK, Next
    PROVE  /\ operations' \in Nat /\ writes' \in Nat /\ failures' \in Nat
           /\ crashes' \in Nat /\ done' \in Nat /\ lastId' \in {lastId, lastId + 1}
<1> USE DEF TypeOK
<1>1. CASE Operation
  BY <1>1, OperationBegins DEF Begins, Begin
<1>2. CASE Archive \/ PrepareRecord \/ Activate \/ Abandon \/ Mutate
  BY <1>2 DEF Archive, PrepareRecord, Activate, Abandon, Mutate, Mark
<1>3. CASE Publish
  BY <1>3 DEF Publish, Mark
<1>4. CASE Rollback \/ RestoreFails \/ MarkRestored \/ Discard
  BY <1>4 DEF Rollback, RestoreFails, MarkRestored, Discard
<1>5. CASE RestoreSource \/ CopyBack \/ ClearDestination
  BY <1>5 DEF RestoreSource, CopyBack, ClearDestination, Restored, RestoreUnchanged
<1>6. CASE Life
  <2>1. CASE Evict \/ EvictionFails
    BY <2>1 DEF Evict, EvictionFails, Interrupted
  <2>2. CASE Crash \/ StartFails
    BY <2>2 DEF Crash, StartFails, Interrupted
  <2>3. CASE Start \/ LoadRecord \/ Loaded
    BY <2>3 DEF Start, LoadRecord, Loaded
  <2> QED BY <1>6, <2>1, <2>2, <2>3 DEF Life
<1>7. CASE \E p \in Paths, c \in Held : WriteFile(p, c)
  BY <1>7 DEF WriteFile
<1> QED BY <1>1, <1>2, <1>3, <1>4, <1>5, <1>6, <1>7 DEF Next, Perform, Undo, Life

\* Ids of records grow.
LEMMA IdsGrow ==
    ASSUME NEW m \in Nat, NEW n \in Nat, m <= n
    PROVE  1..(m + 1) \subseteq 1..(n + 1)
OBVIOUS

\* What the observers and the archive hold.
LEMMA ObserverTypes ==
    ASSUME TypeOK, Control, Next
    PROVE  /\ archive' \subseteq Held /\ broken' \subseteq Paths /\ stake' \subseteq Held
           /\ disturbed' \subseteq 1..(lastId' + 1)
<1> USE DEF TypeOK
<1>0. /\ lastId \in Nat /\ lastId' \in {lastId, lastId + 1}
      /\ disturbed \subseteq 1..(lastId' + 1)
  BY CounterTypes
<1>d. ASSUME NEW rs, NEW ps \in SUBSET Paths, rs \subseteq 1..(lastId + 1), Disturb(rs, ps)
      PROVE  /\ broken' \subseteq Paths /\ stake' \subseteq Held
             /\ disturbed' \subseteq 1..(lastId' + 1)
  <2>1. \A r \in Touching(ps) : r \in DOMAIN store /\ r \in 1..(lastId + 1) /\ PathsOf(store[r].op) \subseteq Paths
    BY <1>0, RecordTypes, OperationTypes DEF Touching
  <2>2. UNION {PathsOf(store[r].op) : r \in Touching(ps)} \subseteq Paths
    BY <2>1
  <2>3. broken' \subseteq Paths
    BY <1>d, <2>2 DEF Disturb
  <2>4. stake' \subseteq Held
    BY <1>d DEF Disturb
  <2>5. disturbed' \subseteq 1..(lastId' + 1)
    <3>1. disturbed' = disturbed \cup rs \cup Touching(ps)
      BY <1>d DEF Disturb
    <3>2. 1..(lastId + 1) \subseteq 1..(lastId' + 1)
      <4>1. lastId \in Nat /\ lastId' \in Nat /\ lastId <= lastId'
        BY <1>0
      <4> QED BY <4>1, IdsGrow
    <3>3. rs \subseteq 1..(lastId + 1) /\ Touching(ps) \subseteq 1..(lastId + 1)
      BY <1>d, <2>1
    <3> QED BY <1>0, <3>1, <3>2, <3>3
  <2> QED BY <2>3, <2>4, <2>5
<1>c. ASSUME NEW r \in DOMAIN store, CutOff(r)
      PROVE  /\ broken' \subseteq Paths /\ stake' \subseteq Held
             /\ disturbed' \subseteq 1..(lastId' + 1)
  <2>1. {r} \subseteq 1..(lastId + 1) /\ PathsOf(store[r].op) \in SUBSET Paths
    BY <1>0, RecordTypes, OperationTypes
  <2> QED BY <1>0, <1>c, <1>d, <2>1 DEF CutOff
<1>1. CASE Operation
  <2>1. PICK o \in Operations : Begins(o)
    BY <1>1, OperationBegins
  <2>2. disk[o.source] \in Held /\ PathsOf(o) \in SUBSET Paths /\ {lastId + 1} \subseteq 1..(lastId + 1)
    BY <1>0, OperationTypes
  <2>3. CASE Disturb({lastId + 1}, PathsOf(o))
    BY <1>d, <2>1, <2>2, <2>3 DEF Begins, Begin
  <2> QED BY <1>0, <2>1, <2>2, <2>3 DEF Begins, Begin
<1>2. CASE Archive
  <2>1. op \in Operations
    BY <1>2 DEF Archive, Control
  <2>2. disk[op.source] \in Held
    BY <2>1, OperationTypes
  <2> QED BY <1>0, <1>2, <2>2 DEF Archive
<1>3. ASSUME op \in Operations PROVE PathsOf(op) \subseteq Paths
  BY <1>3, OperationTypes
<1>4. ASSUME id \in DOMAIN store PROVE PathsOf(store[id].op) \subseteq Paths
  BY <1>4, RecordTypes, OperationTypes
<1>5. CASE Abandon
  BY <1>0, <1>3, <1>5 DEF Abandon, Control, Own
<1>6. CASE Rollback
  BY <1>0, <1>3, <1>6 DEF Rollback, Control, Own
<1>7. CASE RestoreFails \/ MarkRestored
  BY <1>0, <1>4, <1>7 DEF RestoreFails, MarkRestored, Keep, Control, Undoing
<1>8. CASE PrepareRecord \/ Activate \/ Mutate \/ Publish
  BY <1>0, <1>8 DEF PrepareRecord, Activate, Mutate, Publish
<1>9. CASE RestoreSource \/ CopyBack \/ ClearDestination
  BY <1>0, <1>9 DEF RestoreSource, CopyBack, ClearDestination, RestoreUnchanged
<1>10. CASE Evict \/ Start \/ LoadRecord \/ StartFails \/ Loaded
  BY <1>0, <1>10 DEF Evict, Start, LoadRecord, StartFails, Loaded
<1>11. CASE Discard
  BY <1>0, <1>4, <1>c, <1>11 DEF Discard, Control, Undoing
<1>12. CASE EvictionFails
  BY <1>c, <1>12, Oldest DEF EvictionFails
<1>13. CASE Crash
  <2>1. ASSUME NEW r \in BeingRemoved PROVE r \in DOMAIN store
    BY <2>1, Oldest DEF BeingRemoved, Control, Own, Undoing
  <2> QED BY <1>0, <1>c, <1>13, <2>1 DEF Crash
<1>14. ASSUME NEW p \in Paths, NEW c \in Held, WriteFile(p, c)
       PROVE  /\ archive' \subseteq Held /\ broken' \subseteq Paths /\ stake' \subseteq Held
              /\ disturbed' \subseteq 1..(lastId' + 1)
  <2>1. Ticket \in 1..(lastId + 1) /\ Busy \in SUBSET Paths /\ {p} \in SUBSET Paths /\ {} \subseteq 1..(lastId + 1)
    BY <1>0, RecordTypes, OperationTypes DEF Ticket, Busy
  <2>2. {Ticket} \subseteq 1..(lastId + 1)
    BY <2>1
  <2>3. CASE Disturb({Ticket}, Busy)
    BY <1>14, <1>d, <2>1, <2>2, <2>3 DEF WriteFile
  <2>4. CASE Disturb({}, {p})
    BY <1>14, <1>d, <2>1, <2>4 DEF WriteFile
  <2> QED BY <1>0, <1>14, <2>3, <2>4 DEF WriteFile
<1> QED
  BY <1>0, <1>1, <1>2, <1>5, <1>6, <1>7, <1>8, <1>9, <1>10, <1>11, <1>12, <1>13, <1>14
  DEF Next, Perform, Undo, Life

\* The editor is stopped by a crash, a failed start or a failed eviction.
LEMMA UpTypes ==
    ASSUME TypeOK, Next
    PROVE  up' \in BOOLEAN /\ (up' # up => Interrupted \/ Start)
<1>0. up \in BOOLEAN
  BY DEF TypeOK
<1>1. CASE Operation
  <2>1. up' = up
    BY <1>1, OperationBegins DEF Begins, Begin
  <2> QED BY <1>0, <2>1
<1>2. CASE Perform
  <2>1. up' = up
    BY <1>2 DEF Perform, Archive, PrepareRecord, Activate, Abandon, Mutate, Publish
  <2> QED BY <1>0, <2>1
<1>3. CASE Undo
  <2>1. up' = up
    BY <1>3 DEF Undo, Rollback, RestoreSource, CopyBack, ClearDestination, RestoreFails,
                MarkRestored, Discard, RestoreUnchanged
  <2> QED BY <1>0, <2>1
<1>4. CASE Evict \/ LoadRecord \/ Loaded
  <2>1. up' = up
    BY <1>4 DEF Evict, LoadRecord, Loaded
  <2> QED BY <1>0, <2>1
<1>5. CASE EvictionFails \/ Crash \/ StartFails
  <2>1. up' = up \/ Interrupted
    BY <1>5 DEF EvictionFails, Crash, StartFails
  <2>2. Interrupted => up' = FALSE
    BY DEF Interrupted
  <2>3. FALSE \in BOOLEAN
    OBVIOUS
  <2> QED BY <1>0, <2>1, <2>2, <2>3
<1>6. CASE Start
  <2>1. up' = TRUE
    BY <1>6 DEF Start
  <2> QED BY <1>6, <2>1
<1>7. CASE \E p \in Paths, c \in Held : WriteFile(p, c)
  <2>1. up' = up
    BY <1>7 DEF WriteFile
  <2> QED BY <1>0, <2>1
<1> QED BY <1>1, <1>2, <1>3, <1>4, <1>5, <1>6, <1>7 DEF Next, Life

-----------------------------------------------------------------------------
(* Where the editor is, and whose records it holds.                         *)

\* The editor starts with nothing in hand.
LEMMA ControlInit ==
    ASSUME Init
    PROVE  Control /\ Once
BY DEF Init, Control, Once, Own, Undoing, NoId

\* Only these records leave the store.
LEMMA StoreLoses ==
    ASSUME TypeOK, Control, Next, NEW r \in DOMAIN store, r \notin DOMAIN store'
    PROVE  \/ r = id /\ step \in {"abandon", "discard"} /\ id' = NoId
           \/ /\ step \in {"evict", "fit"} /\ r = records[1] /\ UNCHANGED <<id, todo>>
              /\ records' = Tail(records) /\ Len(records) > 0
           \/ /\ step = "load" /\ r \in todo /\ todo' = todo \ {r}
              /\ UNCHANGED <<id, records>>
<1> USE DEF TypeOK
<1>1. ASSUME NEW s, store' \in Remains(s) PROVE FALSE
  BY <1>1 DEF Remains
<1>2. ASSUME NEW state, store' = Marked(id, state) PROVE FALSE
  BY <1>2 DEF Marked
<1>3. ASSUME NEW s, NEW record, store' = Stored(s, record) PROVE FALSE
  BY <1>3 DEF Stored
<1>4. ASSUME NEW s, store' = Without(s) PROVE r = s
  BY <1>4 DEF Without
<1>5. ASSUME Operation PROVE FALSE
  BY <1>5, OperationBegins DEF Begins, Begin
<1>6. ASSUME Archive \/ Mutate PROVE FALSE
  BY <1>6 DEF Archive, Mutate
<1>7. ASSUME PrepareRecord PROVE FALSE
  BY <1>3, <1>7 DEF PrepareRecord
<1>8. ASSUME Activate \/ Publish \/ Rollback PROVE FALSE
  BY <1>2, <1>8 DEF Activate, Publish, Rollback, Mark
<1>9. ASSUME RestoreSource \/ CopyBack \/ ClearDestination \/ RestoreFails PROVE FALSE
  BY <1>9 DEF RestoreSource, CopyBack, ClearDestination, RestoreFails, RestoreUnchanged
<1>10. ASSUME MarkRestored PROVE FALSE
  BY <1>10 DEF MarkRestored
<1>11. ASSUME Abandon \/ Discard 
       PROVE  r = id /\ step \in {"abandon", "discard"} /\ id' = NoId
  BY <1>1, <1>4, <1>11 DEF Abandon, Discard, CutOff
<1>12. ASSUME Evict
       PROVE  /\ step \in {"evict", "fit"} /\ r = records[1] /\ UNCHANGED <<id, todo>>
              /\ records' = Tail(records) /\ Len(records) > 0
  <2>1. Len(records) > MaxRecords => Len(records) > 0
    BY LenProperties, RecoveryAssumption
  <2> QED BY <1>4, <1>12, <2>1 DEF Evict
<1>13. ASSUME EvictionFails \/ Crash PROVE FALSE
  BY <1>1, <1>13 DEF EvictionFails, Crash, CutOff
<1>14. ASSUME LoadRecord
       PROVE  /\ step = "load" /\ r \in todo /\ todo' = todo \ {r}
              /\ UNCHANGED <<id, records>>
  <2>1. \A s \in todo : s \in Nat
    BY RecordTypes
  <2>2. todo # {} => \E s \in todo : \A t \in todo : s <= t
    BY <2>1, LeastRecord
  <2> QED BY <1>4, <1>14, <2>2 DEF LoadRecord
<1>15. ASSUME Start \/ StartFails \/ Loaded PROVE FALSE
  BY <1>15 DEF Start, StartFails, Loaded
<1>16. ASSUME \E p \in Paths, c \in Held : WriteFile(p, c) PROVE FALSE
  BY <1>16 DEF WriteFile
<1> QED
  BY <1>5, <1>6, <1>7, <1>8, <1>9, <1>10, <1>11, <1>12, <1>13, <1>14, <1>15, <1>16
  DEF Next, Perform, Undo, Life

\* The step, the operation, its record and what is left to load go together.
LEMMA ControlKept ==
    ASSUME TypeOK, Control, Phases, Next
    PROVE  Control'
<1> USE DEF Own, Undoing
<1>1. ASSUME step \notin {"abandon", "discard", "evict", "fit", "load"}, NEW r \in DOMAIN store
      PROVE  r \in DOMAIN store'
  BY <1>1, StoreLoses
<1>2. ASSUME NEW r \in DOMAIN store, r \in DOMAIN store'
      PROVE  store'[r].op = store[r].op
  BY <1>2, StoreKeeps DEF Kin
<1>3. CASE Operation
  BY <1>3, OperationBegins DEF Begins, Begin, Control
<1>4. CASE Archive
  BY <1>4 DEF Archive, Control
<1>5. CASE PrepareRecord
  <2>1. CASE step' = "activate"
    <3>1. store' = Stored(lastId', Prepared) /\ id' = lastId' /\ op' = op /\ todo' = todo /\ up'
      BY <1>5, <2>1 DEF PrepareRecord
    <3>2. id' \in DOMAIN store' /\ store'[id'].op = op'
      BY <3>1 DEF Stored, Prepared
    <3> QED BY <1>5, <2>1, <3>1, <3>2 DEF PrepareRecord, Control
  <2>2. CASE step' # "activate"
    BY <1>5, <2>2 DEF PrepareRecord, Control
  <2> QED BY <2>1, <2>2
<1>6. CASE Activate
  BY <1>1, <1>2, <1>6 DEF Activate, Mark, Control
<1>7. CASE Abandon \/ Discard
  BY <1>7 DEF Abandon, Discard, Starting, Control
<1>8. CASE Mutate
  BY <1>1, <1>2, <1>8 DEF Mutate, Control
<1>9. CASE Publish
  BY <1>1, <1>2, <1>9 DEF Publish, Mark, Control
<1>10. CASE Rollback
  BY <1>1, <1>2, <1>10 DEF Rollback, Control
<1>11. CASE RestoreSource \/ CopyBack \/ ClearDestination
  BY <1>1, <1>2, <1>11 DEF RestoreSource, CopyBack, ClearDestination, RestoreUnchanged, Restored, Control
<1>12. CASE RestoreFails
  BY <1>12 DEF RestoreFails, Keep, After, Starting, Control
<1>13. CASE MarkRestored
  BY <1>1, <1>2, <1>13 DEF MarkRestored, Keep, After, Starting, Control
<1>14. CASE Evict
  BY <1>14 DEF Evict, Control
<1>15. CASE EvictionFails
  BY <1>15 DEF EvictionFails, Interrupted, Control
<1>16. CASE Crash \/ StartFails
  BY <1>16 DEF Crash, StartFails, Interrupted, Control
<1>17. CASE Start \/ Loaded
  BY <1>17 DEF Start, Loaded, Control
<1>18. CASE LoadRecord
  <2>1. \A s \in todo : s \in Nat /\ s \in DOMAIN store
    BY RecordTypes DEF TypeOK
  <2>2. todo # {} => \E s \in todo : \A t \in todo : s <= t
    BY <2>1, LeastRecord
  <2> QED BY <1>18, <2>1, <2>2 DEF LoadRecord, Control
<1>19. CASE \E p \in Paths, c \in Held : WriteFile(p, c)
  BY <1>1, <1>2, <1>19 DEF WriteFile, Control
<1> QED
  BY <1>3, <1>4, <1>5, <1>6, <1>7, <1>8, <1>9, <1>10, <1>11, <1>12, <1>13, <1>14, <1>15,
     <1>16, <1>17, <1>18, <1>19 DEF Next, Perform, Undo, Life

\* Who holds a record: the step under way, the list, or what is left to load.
LEMMA RecordsStayInStore ==
    ASSUME TypeOK, Control, Once, Next
    PROVE  /\ \A i \in DOMAIN records : records[i] \notin DOMAIN store' =>
                 i = 1 /\ records' = Tail(records) /\ Len(records) > 0
           /\ id \in DOMAIN store /\ id' = id => id \in DOMAIN store'
           /\ \A r \in todo : r \notin DOMAIN store' => todo' = todo \ {r}
<1>0. /\ Len(records) \in Nat /\ DOMAIN records = 1..Len(records)
      /\ \A i \in DOMAIN records : records[i] \in DOMAIN store
      /\ todo \subseteq DOMAIN store
  BY LenProperties, ElementOfSeq DEF TypeOK
<1>1. ASSUME NEW i \in DOMAIN records, records[i] \notin DOMAIN store'
      PROVE  i = 1 /\ records' = Tail(records) /\ Len(records) > 0
  BY <1>0, <1>1, StoreLoses DEF Once
<1>2. ASSUME id \in DOMAIN store, id' = id, id \notin DOMAIN store'
      PROVE  FALSE
  <2>1. /\ step \in {"evict", "fit", "load"} => id = NoId
        /\ NoId \notin DOMAIN store
    BY RecordTypes DEF Control
  <2> QED BY <1>2, <2>1, StoreLoses
<1>3. ASSUME NEW r \in todo, r \notin DOMAIN store'
      PROVE  todo' = todo \ {r}
  BY <1>0, <1>3, StoreLoses DEF Once, Control
<1> QED BY <1>1, <1>2, <1>3

Handed ==
    \/ UNCHANGED <<records, todo>> /\ id' \in {id, NoId}
    \/ UNCHANGED <<records, todo>> /\ step = "prepare" /\ id' = lastId + 1 /\ id' \in DOMAIN store'
    \/ Interrupted
    \/ UNCHANGED <<records, id, store>> /\ ~up /\ todo' = DOMAIN store
    \/ /\ id \in DOMAIN store /\ DOMAIN store' = DOMAIN store
       /\ records' = Append(records, id) /\ id' = NoId /\ UNCHANGED todo
    \/ \E r \in todo : /\ todo' = todo \ {r} /\ step = "load"
                       /\ \/ UNCHANGED <<records, id>>
                          \/ UNCHANGED <<records, store>> /\ id' = r
                          \/ UNCHANGED <<id, store>> /\ records' = Append(records, r)
    \/ records' = Tail(records) /\ Len(records) > 0 /\ UNCHANGED <<id, todo>>

\* Every step hands the records on in one of these ways.
LEMMA RecordsAreHanded ==
    ASSUME TypeOK, Control, Next
    PROVE  Handed
<1> USE DEF Own, Undoing
<1>1. CASE Operation
  <2>1. UNCHANGED <<records, todo, id>>
    BY <1>1, OperationBegins DEF Begins, Begin
  <2> QED BY <2>1 DEF Handed
<1>2. CASE Archive \/ Activate \/ Abandon \/ Mutate
  <2>1. UNCHANGED <<records, todo>> /\ id' \in {id, NoId}
    BY <1>2 DEF Archive, Activate, Mark, Abandon, Mutate
  <2> QED BY <2>1 DEF Handed
<1>3. CASE PrepareRecord
  <2>1. /\ UNCHANGED <<records, todo>>
        /\ \/ id' \in {id, NoId}
           \/ /\ step = "prepare" /\ id' = lastId + 1
              /\ store' = Stored(lastId + 1, Prepared)
    BY <1>3 DEF PrepareRecord, Control
  <2> QED BY <2>1 DEF Stored, Handed
<1>4. CASE Publish \/ Rollback \/ Discard
  <2>1. id \in DOMAIN store
    BY <1>4 DEF Publish, Rollback, Discard, Control
  <2>2. \/ UNCHANGED <<records, todo>> /\ id' \in {id, NoId}
        \/ /\ records' = Append(records, id) /\ id' = NoId /\ UNCHANGED todo
           /\ DOMAIN store' = DOMAIN store
    BY <1>4 DEF Publish, Mark, Marked, Rollback, Discard, CutOff, Remains
  <2> QED BY <2>1, <2>2 DEF Handed
<1>5. CASE RestoreFails \/ MarkRestored
  <2>1. id \in DOMAIN store
    BY <1>5 DEF RestoreFails, MarkRestored, Control
  <2>2. \/ UNCHANGED <<records, todo>> /\ id' \in {id, NoId}
        \/ /\ records' = Append(records, id) /\ id' = NoId /\ UNCHANGED todo
           /\ DOMAIN store' = DOMAIN store
    BY <1>5 DEF RestoreFails, MarkRestored, Keep
  <2> QED BY <2>1, <2>2 DEF Handed
<1>6. CASE RestoreSource \/ CopyBack \/ ClearDestination \/ Loaded
  <2>1. UNCHANGED <<records, todo, id>>
    BY <1>6 DEF RestoreSource, CopyBack, ClearDestination, RestoreUnchanged, Loaded
  <2> QED BY <2>1 DEF Handed
<1>7. CASE Evict
  <2>1. Len(records) > MaxRecords => Len(records) > 0
    BY LenProperties, RecoveryAssumption DEF TypeOK
  <2> QED BY <1>7, <2>1 DEF Evict, Handed
<1>8. CASE EvictionFails
  <2>1. UNCHANGED <<records, todo, id>> \/ Interrupted
    BY <1>8 DEF EvictionFails
  <2> QED BY <2>1 DEF Handed
<1>9. CASE Crash \/ StartFails
  BY <1>9 DEF Crash, StartFails, Handed
<1>10. CASE Start
  BY <1>10 DEF Start, Handed
<1>11. CASE LoadRecord
  <2>1. \A s \in todo : s \in Nat
    BY RecordTypes DEF TypeOK
  <2>2. todo # {} => \E s \in todo : \A t \in todo : s <= t
    BY <2>1, LeastRecord
  <2>3. PICK r \in todo :
          /\ todo' = todo \ {r}
          /\ \/ UNCHANGED <<records, id>>
             \/ UNCHANGED <<records, store>> /\ id' = r
             \/ UNCHANGED <<id, store>> /\ records' = Append(records, r)
    BY <1>11, <2>2 DEF LoadRecord
  <2>4. step = "load"
    BY <1>11 DEF LoadRecord
  <2> QED BY <2>3, <2>4 DEF Handed
<1>12. CASE \E p \in Paths, c \in Held : WriteFile(p, c)
  <2>1. UNCHANGED <<records, todo, id>>
    BY <1>12 DEF WriteFile
  <2> QED BY <2>1 DEF Handed
<1> QED
  BY <1>1, <1>2, <1>3, <1>4, <1>5, <1>6, <1>7, <1>8, <1>9, <1>10, <1>11, <1>12
  DEF Next, Perform, Undo, Life

\* A sequence whose elements are in T is a sequence over T.
LEMMA SeqOver ==
    ASSUME NEW S, NEW T, NEW s \in Seq(S), \A i \in DOMAIN s : s[i] \in T
    PROVE  s \in Seq(T)
<1>1. s \in [1..Len(s) -> S] /\ Len(s) \in Nat /\ DOMAIN s = 1..Len(s)
  BY LenProperties
<1>2. s \in [1..Len(s) -> T]
  BY <1>1
<1> QED BY <1>1, <1>2, SeqDef

\* No record is held twice, and every one that is held is in the store.
LEMMA HoldingsKept ==
    ASSUME TypeOK, Control, Once, Next
    PROVE  /\ records' \in Seq(DOMAIN store') /\ todo' \subseteq DOMAIN store'
           /\ id' \in DOMAIN store' \cup {NoId}
           /\ Once'
<1> DEFINE Goal == /\ records' \in Seq(DOMAIN store') /\ todo' \subseteq DOMAIN store'
                   /\ id' \in DOMAIN store' \cup {NoId}
                   /\ Once'
<1>0. /\ Len(records) \in Nat /\ DOMAIN records = 1..Len(records)
      /\ \A i \in DOMAIN records : records[i] \in DOMAIN store
      /\ todo \subseteq DOMAIN store /\ id \in DOMAIN store \cup {NoId}
      /\ records \in Seq(DOMAIN store)
  BY LenProperties, ElementOfSeq DEF TypeOK
<1>1. NoId \notin DOMAIN store /\ lastId \in Nat /\ \A r \in DOMAIN store : r \in Nat /\ r <= lastId
  BY RecordTypes DEF TypeOK
<1>3. ASSUME NEW r \in DOMAIN store
      PROVE  /\ Append(records, r) \in Seq(DOMAIN store)
             /\ \A i \in DOMAIN Append(records, r) : \/ i \in DOMAIN records /\ Append(records, r)[i] = records[i]
                                                     \/ i = Len(records) + 1 /\ Append(records, r)[i] = r
  BY <1>0, AppendProperties
<1>2. ASSUME Len(records) > 0
      PROVE  /\ Len(Tail(records)) = Len(records) - 1
             /\ \A i \in 1..(Len(records) - 1) : Tail(records)[i] = records[i + 1]
             /\ Tail(records) \in Seq(DOMAIN store)
  BY <1>0, <1>2, EmptySeq, HeadTailProperties
<1>4. ASSUME UNCHANGED records PROVE records' \in Seq(DOMAIN store')
  <2>1. ASSUME records' = Tail(records), Len(records) > 0 PROVE FALSE
    BY <1>0, <1>2, <1>4, <2>1
  <2>2. \A i \in DOMAIN records : records[i] \in DOMAIN store'
    BY <2>1, RecordsStayInStore
  <2> QED BY <1>0, <1>4, <2>2, SeqOver
<1>5. CASE UNCHANGED <<records, todo>> /\ id' \in {id, NoId}
  <2>1. id' \in DOMAIN store' \cup {NoId}
    BY <1>0, <1>5, RecordsStayInStore
  <2>2. Once'
    BY <1>0, <1>1, <1>5 DEF Once
  <2>3. todo' \subseteq DOMAIN store'
    BY <1>0, <1>5, RecordsStayInStore
  <2> QED BY <1>4, <1>5, <2>1, <2>2, <2>3
<1>6. CASE UNCHANGED <<records, todo>> /\ step = "prepare" /\ id' = lastId + 1 /\ id' \in DOMAIN store'
  <2>1. lastId + 1 \notin DOMAIN store
    BY <1>1
  <2>2. Once'
    BY <1>0, <1>6, <2>1 DEF Once
  <2>3. todo' \subseteq DOMAIN store'
    BY <1>0, <1>6, RecordsStayInStore
  <2> QED BY <1>4, <1>6, <2>2, <2>3
<1>7. CASE Interrupted
  <2>1. records' = <<>> /\ todo' = {} /\ id' = NoId
    BY <1>7 DEF Interrupted
  <2> QED BY <2>1, EmptySeq DEF Once
<1>8. CASE UNCHANGED <<records, id, store>> /\ ~up /\ todo' = DOMAIN store
  <2>1. records = <<>> /\ id = NoId
    BY <1>8 DEF Control
  <2> QED BY <1>1, <1>8, <2>1, EmptySeq DEF Once
<1>9. CASE /\ id \in DOMAIN store /\ DOMAIN store' = DOMAIN store
           /\ records' = Append(records, id) /\ id' = NoId /\ UNCHANGED todo
  <2>1. Once'
    BY <1>0, <1>1, <1>3, <1>9 DEF Once
  <2> QED BY <1>0, <1>3, <1>9, <2>1
<1>10. ASSUME NEW r \in todo, todo' = todo \ {r}, step = "load",
              \/ UNCHANGED <<records, id>>
              \/ UNCHANGED <<records, store>> /\ id' = r
              \/ UNCHANGED <<id, store>> /\ records' = Append(records, r)
       PROVE  Goal
  <2>1. id = NoId
    BY <1>10 DEF Control
  <2>2. todo' \subseteq DOMAIN store'
    BY <1>0, <1>10, RecordsStayInStore
  <2>3. CASE UNCHANGED <<records, id>>
    <3>1. Once'
      BY <1>0, <1>10, <2>3 DEF Once
    <3> QED BY <1>4, <2>1, <2>2, <2>3, <3>1
  <2>4. CASE UNCHANGED <<records, store>> /\ id' = r
    <3>1. Once'
      BY <1>0, <1>10, <2>1, <2>4 DEF Once
    <3> QED BY <1>0, <1>4, <2>2, <2>4, <3>1
  <2>5. CASE UNCHANGED <<id, store>> /\ records' = Append(records, r)
    <3>1. Once'
      BY <1>0, <1>1, <1>3, <1>10, <2>1, <2>5 DEF Once
    <3> QED BY <1>0, <1>3, <2>1, <2>2, <2>5, <3>1
  <2> QED BY <1>10, <2>3, <2>4, <2>5
<1>11. CASE records' = Tail(records) /\ Len(records) > 0 /\ UNCHANGED <<id, todo>>
  <2>1. records' \in Seq(DOMAIN store) /\ DOMAIN records' = 1..(Len(records) - 1)
    BY <1>2, <1>11, LenProperties
  <2>2. \A i \in DOMAIN records' : /\ i + 1 \in DOMAIN records /\ i + 1 # 1
                                   /\ records'[i] = records[i + 1]
    BY <1>0, <1>2, <1>11, <2>1
  <2>3. \A i \in DOMAIN records' : records'[i] \in DOMAIN store'
    BY <2>2, RecordsStayInStore
  <2>4. todo' \subseteq DOMAIN store' /\ id' \in DOMAIN store' \cup {NoId}
    BY <1>0, <1>11, RecordsStayInStore
  <2>5. Once'
    BY <1>0, <1>11, <2>1, <2>2 DEF Once
  <2> QED BY <2>1, <2>3, <2>4, <2>5, SeqOver
<1> QED BY <1>5, <1>6, <1>7, <1>8, <1>9, <1>10, <1>11, RecordsAreHanded DEF Handed

\* The place and the operation.
LEMMA StepTypes ==
    ASSUME TypeOK, Next
    PROVE  step' \in Steps /\ op' \in Operations \cup {NoOp}
<1>0. step \in Steps /\ op \in Operations \cup {NoOp}
  BY DEF TypeOK
<1> USE DEF Steps
<1>1. CASE Operation
  BY <1>1, OperationBegins DEF Begins, Begin
<1>2. CASE Archive \/ PrepareRecord \/ Activate \/ Abandon \/ Mutate \/ Publish
  BY <1>0, <1>2 DEF Archive, PrepareRecord, Activate, Abandon, Mutate, Publish, Mark
<1>3. CASE Rollback \/ RestoreFails \/ MarkRestored \/ Discard
  BY <1>0, <1>3 DEF Rollback, RestoreFails, MarkRestored, Discard, Keep, After
<1>4. CASE RestoreSource \/ CopyBack \/ ClearDestination
  BY <1>0, <1>4 DEF RestoreSource, CopyBack, ClearDestination, RestoreUnchanged
<1>5. CASE Evict \/ EvictionFails \/ Crash
  BY <1>0, <1>5 DEF Evict, EvictionFails, Crash, Interrupted
<1>6. CASE Start \/ StartFails \/ LoadRecord \/ Loaded
  BY <1>0, <1>6 DEF Start, StartFails, LoadRecord, Loaded, Interrupted
<1>7. CASE \E p \in Paths, c \in Held : WriteFile(p, c)
  BY <1>0, <1>7 DEF WriteFile
<1> QED BY <1>1, <1>2, <1>3, <1>4, <1>5, <1>6, <1>7 DEF Next, Perform, Undo, Life

\* Every step keeps the types.
LEMMA TypesKept ==
    ASSUME TypeOK, Control, Once, Phases, Next
    PROVE  TypeOK'
<1>1. \A r \in DOMAIN store' : store'[r] \in Records
  BY StoreKeeps DEF Kin
<1>2. DOMAIN store' \subseteq 1..lastId' /\ lastId' \in Nat
  <2>1. lastId \in Nat /\ lastId' \in {lastId, lastId + 1} /\ DOMAIN store \subseteq 1..lastId
    BY CounterTypes DEF TypeOK
  <2>2. \A r \in DOMAIN store' : r \in DOMAIN store \/ (r = lastId + 1 /\ lastId' = lastId + 1)
    BY StoreKeeps DEF Kin
  <2> QED BY <2>1, <2>2
<1> QED
  BY <1>1, <1>2, DiskTypes, ObserverTypes, CounterTypes, UpTypes, HoldingsKept, StepTypes
  DEF TypeOK

-----------------------------------------------------------------------------
(* The record under way, and what records say.                              *)

\* Every step leaves its record with the files the next place expects.
LEMMA PhasesKept ==
    ASSUME TypeOK, Control, Once, Phases, Next
    PROVE  Phases'
<1> USE DEF Own, Undoing
<1>0. \A r \in DOMAIN store : store[r] \in Records
  BY DEF TypeOK
<1>1. ASSUME UNCHANGED store, UNCHANGED id, Phases, step' \in {step, "idle", "evict", "load", "fit", "archive", "prepare"}
      PROVE  Phases'
  BY <1>1 DEF Phases, Live, Has
<1>2. ASSUME step' \in {"idle", "evict", "load", "fit", "archive", "prepare"}
      PROVE  Phases'
  BY <1>2 DEF Phases
<1>3. CASE Operation
  BY <1>2, <1>3, OperationBegins DEF Begins, Begin
<1>4. CASE Archive \/ Abandon
  BY <1>2, <1>4 DEF Archive, Abandon
<1>5. CASE PrepareRecord
  <2>1. CASE step' = "activate"
    <3>1. store' = Stored(lastId', Prepared) /\ id' = lastId'
      BY <1>5, <2>1 DEF PrepareRecord
    <3>2. store'[id'] = Prepared
      BY <3>1 DEF Stored
    <3> QED BY <2>1, <3>2 DEF Prepared, Phases
  <2>2. CASE step' # "activate"
    BY <1>2, <1>5, <2>2 DEF PrepareRecord
  <2> QED BY <2>1, <2>2
<1>6. CASE Activate
  <2>1. CASE step' = "mutate"
    <3>1. store' = Marked(id, "InProgress") /\ id' = id
      BY <1>6, <2>1 DEF Activate, Mark
    <3>2. id \in DOMAIN store /\ store[id].parts = {"manifest", "artifacts"}
      BY <1>6 DEF Activate, Control, Phases
    <3>3. store'[id].parts = {"manifest", "artifacts"} \cup {"state"} /\ store'[id].state = "InProgress"
      BY <1>0, <3>1, <3>2 DEF Marked, Records
    <3> QED BY <2>1, <3>1, <3>3 DEF Phases, Live, Has
  <2>2. CASE step' # "mutate"
    <3>1. step' = "abandon" /\ store' \in {store, Marked(id, "InProgress")} /\ id' = id
      BY <1>6, <2>2 DEF Activate, Mark
    <3>2. id \in DOMAIN store /\ store[id].parts = {"manifest", "artifacts"}
      BY <1>6 DEF Activate, Control, Phases
    <3>3. "restored" \notin store'[id].parts
      BY <1>0, <3>1, <3>2 DEF Marked, Records
    <3> QED BY <3>1, <3>3 DEF Phases, Has
  <2> QED BY <2>1, <2>2
<1>7. CASE Mutate
  BY <1>7 DEF Mutate, Phases, Live, Has
<1>8. CASE Publish
  <2>1. CASE step' = "rollback"
    <3>1. store' \in {store, Marked(id, "Published")} /\ id' = id
      BY <1>8, <2>1 DEF Publish, Mark
    <3>2. id \in DOMAIN store /\ Live(id)
      BY <1>8 DEF Publish, Control, Phases
    <3>3. store'[id].parts = store[id].parts \cup {"state"}
      BY <1>0, <3>1, <3>2 DEF Marked, Records, Live
    <3> QED BY <2>1, <3>1, <3>2, <3>3 DEF Phases, Live, Has
  <2>2. CASE step' # "rollback"
    BY <1>2, <1>8, <2>2 DEF Publish, Mark
  <2> QED BY <2>1, <2>2
<1>9. CASE Rollback
  <2>1. CASE step' = "restore"
    <3>1. store' = Marked(id, "InProgress") /\ id' = id
      BY <1>9, <2>1 DEF Rollback
    <3>2. id \in DOMAIN store /\ {"manifest", "state"} \subseteq store[id].parts /\ ~Has(id, "restored")
      BY <1>9 DEF Rollback, Control, Phases
    <3>3. store'[id].parts = store[id].parts \cup {"state"} /\ store'[id].state = "InProgress"
      BY <1>0, <3>1, <3>2 DEF Marked, Records
    <3> QED BY <2>1, <3>1, <3>2, <3>3 DEF Phases, Live, Has
  <2>2. CASE step' # "restore"
    BY <1>2, <1>9, <2>2 DEF Rollback
  <2> QED BY <2>1, <2>2
<1>10. CASE RestoreSource \/ CopyBack \/ ClearDestination
  <2>1. UNCHANGED <<store, id>> /\ Live(id) /\ step' \in {"copyBack", "clear", "undone"}
    BY <1>10 DEF RestoreSource, CopyBack, ClearDestination, RestoreUnchanged, Phases
  <2> QED BY <2>1 DEF Phases, Live, Has
<1>11. CASE RestoreFails \/ Discard
  BY <1>2, <1>11 DEF RestoreFails, Keep, After, Discard
<1>12. CASE MarkRestored
  <2>1. CASE step' = "discard"
    <3>1. store' = [store EXCEPT ![id].parts = @ \cup {"restored"}] /\ id' = id
      BY <1>12, <2>1 DEF MarkRestored, Keep, After
    <3>2. id \in DOMAIN store
      BY <1>12 DEF MarkRestored, Control
    <3>3. "restored" \in store'[id].parts
      BY <1>0, <3>1, <3>2 DEF Records
    <3> QED BY <2>1, <3>1, <3>3 DEF Phases, Has
  <2>2. CASE step' # "discard"
    BY <1>2, <1>12, <2>2 DEF MarkRestored, Keep, After
  <2> QED BY <2>1, <2>2
<1>13. CASE Evict \/ EvictionFails \/ Crash \/ Start \/ StartFails \/ Loaded
  BY <1>2, <1>13 DEF Evict, EvictionFails, Crash, Start, StartFails, Loaded, Interrupted
<1>14. CASE LoadRecord
  <2>1. \A s \in todo : s \in Nat
    BY RecordTypes DEF TypeOK
  <2>2. todo # {} => \E s \in todo : \A t \in todo : s <= t
    BY <2>1, LeastRecord
  <2>3. step' = "load" \/ (step' = "restore" /\ Live(id') /\ UNCHANGED store)
    BY <1>14, <2>2 DEF LoadRecord
  <2> QED BY <1>2, <2>3 DEF Phases, Live, Has
<1>15. CASE \E p \in Paths, c \in Held : WriteFile(p, c)
  BY <1>1, <1>15 DEF WriteFile
<1> QED
  BY <1>3, <1>4, <1>5, <1>6, <1>7, <1>8, <1>9, <1>10, <1>11, <1>12, <1>13, <1>14, <1>15
  DEF Next, Perform, Undo, Life

\* The operation under way stays the one that was asked for until it is answered.
LEMMA OperationSteps ==
    ASSUME TypeOK, Control, Next
    PROVE  \/ op' = op /\ op # NoOp /\ Ticket' = Ticket /\ (id' = id \/ id = NoId)
           \/ op' = NoOp
           \/ \E o \in Operations : Begins(o) /\ op' = o
<1>0. NoId \notin DOMAIN store /\ lastId + 1 # NoId
  BY RecordTypes DEF TypeOK, NoId
<1>1. CASE Operation
  BY <1>1, OperationBegins DEF Begins, Begin
<1>2. CASE PrepareRecord
  <2>1. CASE step' = "activate"
    BY <1>0, <1>2, <2>1 DEF PrepareRecord, Control, Ticket, NoOp
  <2> QED BY <1>2, <2>1 DEF PrepareRecord
<1>3. CASE Archive \/ Activate \/ Abandon \/ Mutate \/ Publish
  BY <1>3 DEF Archive, Activate, Abandon, Mutate, Publish, Mark, Ticket
<1>4. CASE Undo
  BY <1>4 DEF Undo, Rollback, RestoreSource, CopyBack, ClearDestination, RestoreFails,
              MarkRestored, Discard, Keep, RestoreUnchanged, Ticket
<1>5. CASE Life
  BY <1>5 DEF Life, Evict, EvictionFails, Crash, Start, LoadRecord, StartFails, Loaded, Interrupted,
              Control
<1>6. CASE \E p \in Paths, c \in Held : WriteFile(p, c)
  BY <1>6 DEF WriteFile, Ticket
<1> QED BY <1>1, <1>2, <1>3, <1>4, <1>5, <1>6 DEF Next, Perform

\* Operations under way and recorded keep the shape they began with.
LEMMA ShapesKept ==
    ASSUME TypeOK, Control, Phases, Shapes, Next
    PROVE  Shapes'
<1>1. op' # NoOp => WellFormed(op')
  BY OperationSteps DEF Shapes, Begins
<1>2. ASSUME NEW r \in DOMAIN store' PROVE WellFormed(store'[r].op)
  <2>1. CASE r \in DOMAIN store
    BY <2>1, StoreKeeps DEF Kin, Shapes
  <2>2. CASE r \notin DOMAIN store
    <3>1. store'[r].op = op /\ step = "prepare"
      BY <2>2, StoreKeeps DEF Kin, Prepared
    <3> QED BY <3>1, OperationTypes DEF Shapes, Control
  <2> QED BY <2>1, <2>2
<1> QED BY <1>1, <1>2 DEF Shapes

-----------------------------------------------------------------------------
(* What is disturbed.                                                       *)

\* A path that was given up stays so.
LEMMA BrokenGrows ==
    ASSUME Next
    PROVE  broken \subseteq broken'
<1>1. CASE Operation
  BY <1>1, OperationBegins DEF Begins, Begin, Disturb
<1>2. CASE Perform
  BY <1>2 DEF Perform, Archive, PrepareRecord, Activate, Abandon, Mutate, Publish
<1>3. CASE Undo
  BY <1>3 DEF Undo, Rollback, RestoreSource, CopyBack, ClearDestination, RestoreFails,
              MarkRestored, Discard, Keep, RestoreUnchanged, CutOff, Disturb
<1>4. CASE Life
  BY <1>4 DEF Life, Evict, EvictionFails, Crash, Start, LoadRecord, StartFails, Loaded, CutOff, Disturb
<1>5. CASE \E p \in Paths, c \in Held : WriteFile(p, c)
  BY <1>5 DEF WriteFile, Disturb
<1> QED BY <1>1, <1>2, <1>3, <1>4, <1>5 DEF Next

\* The step cuts off the removal of a record, which does nothing else.
CutsOff(r) == /\ CutOff(r) /\ step \in {"discard", "evict", "fit"}
              /\ op' = NoOp /\ id' = NoId /\ UNCHANGED <<disk, archive, lastId, writes, done>>

\* Only these steps change what is disturbed.
LEMMA Disturbances ==
    ASSUME TypeOK, Control, Phases, Next
    PROVE  \/ UNCHANGED disturbed
           \/ \E o \in Operations : Begins(o)
           \/ \E p \in Paths, c \in Held : WriteFile(p, c)
           \/ \E r \in DOMAIN store : CutsOff(r)
<1> USE DEF Own, Undoing
<1>1. CASE Operation
  BY <1>1, OperationBegins
<1>2. CASE Perform
  BY <1>2 DEF Perform, Archive, PrepareRecord, Activate, Abandon, Mutate, Publish
<1>3. CASE Rollback \/ RestoreSource \/ CopyBack \/ ClearDestination \/ RestoreFails \/ MarkRestored
  BY <1>3 DEF Rollback, RestoreSource, CopyBack, ClearDestination, RestoreFails,
              MarkRestored, RestoreUnchanged
<1>4. CASE Discard
  <2>1. UNCHANGED disturbed \/ CutOff(id)
    BY <1>4 DEF Discard
  <2>2. /\ id \in DOMAIN store /\ step = "discard" /\ op' = NoOp /\ id' = NoId
        /\ UNCHANGED <<disk, archive, lastId, writes, done>>
    BY <1>4 DEF Discard, Control
  <2> QED BY <2>1, <2>2 DEF CutsOff
<1>5. CASE EvictionFails
  <2>1. /\ CutOff(records[1]) /\ records[1] \in DOMAIN store /\ step \in {"evict", "fit"}
        /\ op' = NoOp /\ id' = NoId /\ UNCHANGED <<disk, archive, lastId, writes, done>>
    BY <1>5, Oldest DEF EvictionFails, Interrupted, Control
  <2> QED BY <2>1 DEF CutsOff
<1>6. CASE Crash
  <2>1. ASSUME NEW r \in BeingRemoved, CutOff(r), step = "abandon" PROVE UNCHANGED disturbed
    <3>1. r = id /\ ~Has(r, "restored")
      BY <2>1 DEF BeingRemoved, Phases
    <3> QED BY <2>1, <3>1 DEF CutOff, Revives
  <2>2. ASSUME NEW r \in BeingRemoved, CutOff(r), step # "abandon" PROVE CutsOff(r) /\ r \in DOMAIN store
    <3>1. r \in DOMAIN store /\ step \in {"discard", "evict", "fit"}
      BY <2>2, Oldest DEF BeingRemoved, Control
    <3>2. op' = NoOp /\ id' = NoId /\ UNCHANGED <<disk, archive, lastId, writes, done>>
      BY <1>6 DEF Crash, Interrupted
    <3> QED BY <2>2, <3>1, <3>2 DEF CutsOff
  <2> QED BY <1>6, <2>1, <2>2 DEF Crash
<1>7. CASE Evict \/ Start \/ LoadRecord \/ StartFails \/ Loaded
  BY <1>7 DEF Evict, Start, LoadRecord, StartFails, Loaded
<1> QED BY <1>1, <1>2, <1>3, <1>4, <1>5, <1>6, <1>7 DEF Next, Undo, Life

\* A record is revived only by cutting off its removal.
LEMMA Revivals ==
    ASSUME TypeOK, Control, Phases, Next, NEW r \in DOMAIN store, r \in DOMAIN store', Revives(r)
    PROVE  CutsOff(r)
<1> USE DEF Own, Undoing
<1>0. store[r] \in Records
  BY RecordTypes
<1>1. Has(r, "restored") /\ "restored" \notin store'[r].parts
  BY DEF Revives
<1>2. ASSUME UNCHANGED store PROVE FALSE
  BY <1>1, <1>2 DEF Has
<1>3. ASSUME NEW state, store' = Marked(id, state) PROVE FALSE
  BY <1>0, <1>1, <1>3 DEF Marked, Has, Records
<1>4. ASSUME NEW s, store' = Without(s) PROVE FALSE
  BY <1>1, <1>4 DEF Without, Has
<1>5. ASSUME NEW s, store' \in Remains(s) PROVE r = s
  BY <1>1, <1>5 DEF Remains, Has
<1>6. CASE Operation
  BY <1>2, <1>6, OperationBegins DEF Begins, Begin
<1>7. CASE Archive \/ Mutate \/ RestoreSource \/ CopyBack \/ ClearDestination \/ RestoreFails
  BY <1>2, <1>7 DEF Archive, Mutate, RestoreSource, CopyBack, ClearDestination, RestoreFails,
                    RestoreUnchanged
<1>8. CASE PrepareRecord
  <2>1. store' = store \/ store' = Stored(lastId + 1, Prepared)
    BY <1>8 DEF PrepareRecord
  <2>2. r # lastId + 1
    BY RecordTypes DEF TypeOK
  <2> QED BY <1>1, <1>2, <2>1, <2>2 DEF Stored, Has
<1>9. CASE Activate \/ Publish \/ Rollback
  BY <1>2, <1>3, <1>9 DEF Activate, Publish, Rollback, Mark
<1>10. CASE Abandon
  <2>1. ~Has(id, "restored")
    BY <1>10 DEF Abandon, Phases
  <2> QED BY <1>1, <1>4, <1>5, <1>10, <2>1 DEF Abandon
<1>11. CASE MarkRestored
  <2>1. store' = store \/ store' = [store EXCEPT ![id].parts = @ \cup {"restored"}]
    BY <1>11 DEF MarkRestored
  <2> QED BY <1>0, <1>1, <1>2, <2>1 DEF Has, Records
<1>12. CASE Discard
  <2>1. CutOff(id)
    BY <1>4, <1>12 DEF Discard
  <2>2. id = r
    BY <1>5, <2>1 DEF CutOff
  <2>3. op' = NoOp /\ id' = NoId /\ step = "discard" /\ UNCHANGED <<disk, archive, lastId, writes, done>>
    BY <1>12 DEF Discard
  <2> QED BY <2>1, <2>2, <2>3 DEF CutsOff
<1>13. CASE EvictionFails
  <2>1. CutOff(records[1]) /\ r = records[1]
    BY <1>5, <1>13 DEF EvictionFails, CutOff
  <2>2. /\ step \in {"evict", "fit"} /\ op' = NoOp /\ id' = NoId
        /\ UNCHANGED <<disk, archive, lastId, writes, done>>
    BY <1>13 DEF EvictionFails, Interrupted, Control
  <2> QED BY <2>1, <2>2 DEF CutsOff
<1>14. CASE Crash
  <2>1. PICK s \in BeingRemoved : CutOff(s)
    BY <1>2, <1>14 DEF Crash
  <2>2. s = r
    BY <1>5, <2>1 DEF CutOff
  <2>3. step \in {"discard", "evict", "fit"}
    BY <1>1, <2>1, <2>2 DEF BeingRemoved, Phases
  <2>4. op' = NoOp /\ id' = NoId /\ UNCHANGED <<disk, archive, lastId, writes, done>>
    BY <1>14 DEF Crash, Interrupted
  <2> QED BY <2>1, <2>2, <2>3, <2>4 DEF CutsOff
<1>15. CASE Evict
  BY <1>2, <1>4, <1>15 DEF Evict
<1>16. CASE LoadRecord
  BY <1>2, <1>4, <1>16 DEF LoadRecord
<1>17. CASE Start \/ StartFails \/ Loaded
  BY <1>2, <1>17 DEF Start, StartFails, Loaded
<1>18. CASE \E p \in Paths, c \in Held : WriteFile(p, c)
  BY <1>2, <1>18 DEF WriteFile
<1> QED
  BY <1>6, <1>7, <1>8, <1>9, <1>10, <1>11, <1>12, <1>13, <1>14, <1>15, <1>16, <1>17, <1>18
  DEF Next, Perform, Undo, Life

\* A record stays disturbed, and so does the operation under way.
LEMMA DisturbedStays ==
    ASSUME TypeOK, Control, Phases, Next
    PROVE  /\ \A r \in DOMAIN store \cap disturbed : r \in disturbed'
           /\ op # NoOp => disturbed \subseteq disturbed'
<1>0. \A r \in DOMAIN store : r # lastId + 1
  BY RecordTypes DEF TypeOK
<1>1. CASE UNCHANGED disturbed
  BY <1>1
<1>2. ASSUME NEW o \in Operations, Begins(o)
      PROVE  op = NoOp /\ disturbed \ {lastId + 1} \subseteq disturbed'
  BY <1>2 DEF Begins, Begin, Control, Disturb
<1>3. ASSUME NEW p \in Paths, NEW c \in Held, WriteFile(p, c)
      PROVE  disturbed \subseteq disturbed'
  BY <1>3 DEF WriteFile, Disturb
<1>4. ASSUME NEW r \in DOMAIN store, CutsOff(r)
      PROVE  disturbed \subseteq disturbed'
  BY <1>4 DEF CutsOff, CutOff, Disturb
<1> QED BY <1>0, <1>1, <1>2, <1>3, <1>4, Disturbances

\* Another program that writes to a path of an undecided operation disturbs it.
LEMMA WritesDisturb ==
    ASSUME TypeOK, NEW p \in Paths, NEW c \in Held, WriteFile(p, c)
    PROVE  /\ op # NoOp /\ p \in PathsOf(op) => Ticket \in disturbed' /\ PathsOf(op) \subseteq broken'
           /\ \A r \in DOMAIN store : Live(r) /\ p \in PathsOf(store[r].op) =>
                 r \in disturbed' /\ PathsOf(store[r].op) \subseteq broken'
           /\ \A q \in Paths : q # p => disk'[q] = disk[q]
           /\ disk'[p] = c
<1>1. (\A q \in Paths : q # p => disk'[q] = disk[q]) /\ disk'[p] = c
  BY DEF WriteFile, TypeOK
<1>2. ASSUME op # NoOp, p \in PathsOf(op)
      PROVE  Ticket \in disturbed' /\ PathsOf(op) \subseteq broken'
  BY <1>2 DEF WriteFile, Busy, Disturb
<1>3. ASSUME NEW r \in DOMAIN store, Live(r), p \in PathsOf(store[r].op)
      PROVE  r \in disturbed' /\ PathsOf(store[r].op) \subseteq broken'
  <2>1. r \in Touching({p}) /\ (p \in Busy => r \in Touching(Busy))
    BY <1>3 DEF Touching
  <2>2. ASSUME NEW rs, NEW ps, Disturb(rs, ps), r \in Touching(ps)
        PROVE  r \in disturbed' /\ PathsOf(store[r].op) \subseteq broken'
    BY <2>2 DEF Disturb
  <2> QED BY <2>1, <2>2 DEF WriteFile
<1> QED BY <1>1, <1>2, <1>3

\* Nothing leaves the archive.
LEMMA ArchiveGrows ==
    ASSUME TypeOK, Next
    PROVE  archive \subseteq archive'
<1>1. CASE Operation
  BY <1>1, OperationBegins DEF Begins, Begin
<1>2. CASE Perform
  BY <1>2 DEF Perform, Archive, PrepareRecord, Activate, Abandon, Mutate, Publish
<1>3. CASE Undo
  BY <1>3 DEF Undo, Rollback, RestoreSource, CopyBack, ClearDestination, RestoreFails,
              MarkRestored, Discard, RestoreUnchanged
<1>4. CASE Life
  BY <1>4 DEF Life, Evict, EvictionFails, Crash, Start, LoadRecord, StartFails, Loaded
<1>5. CASE \E p \in Paths, c \in Held : WriteFile(p, c)
  BY <1>5 DEF WriteFile
<1> QED BY <1>1, <1>2, <1>3, <1>4, <1>5 DEF Next

\* What was seen before an operation allowed it, and a deleted file was archived.
LEMMA SnapshotsKept ==
    ASSUME TypeOK, Control, Phases, Shapes, Snapshots, Next
    PROVE  Snapshots'
<1>0. /\ \A r \in DOMAIN store \cap disturbed : r \in disturbed'
      /\ op # NoOp => disturbed \subseteq disturbed'
  BY DisturbedStays
<1>1. ASSUME NEW r \in DOMAIN store' \ disturbed'
      PROVE  MayPerform(store[r].op, store[r].before)'
  <2>1. CASE r \in DOMAIN store
    <3>1. MayPerform(store[r].op, store[r].before)
      BY <1>0, <1>1, <2>1 DEF Snapshots
    <3>2. store'[r].op = store[r].op /\ store'[r].before = store[r].before
      BY <2>1, StoreKeeps DEF Kin
    <3> QED BY <3>1, <3>2, ArchiveGrows DEF MayPerform
  <2>2. CASE r \notin DOMAIN store
    <3>1. /\ store'[r].op = op /\ store'[r].before = disk /\ step = "prepare"
          /\ r = lastId + 1
      BY <2>2, StoreKeeps DEF Kin, Prepared
    <3>2. op # NoOp /\ Ticket = r
      BY <3>1, OperationTypes DEF Control, Ticket
    <3>3. Ticket \notin disturbed
      BY <1>0, <1>1, <3>2
    <3> QED BY <3>1, <3>3, ArchiveGrows DEF MayPerform, Snapshots
  <2> QED BY <2>1, <2>2
<1> DEFINE Goal == /\ step' = "archive" => op'.kind = "Delete"
                   /\ step' = "archive" /\ Ticket' \notin disturbed' => disk'[op'.source] # Absent
                   /\ step' = "prepare" /\ Ticket' \notin disturbed' => MayPerform(op, disk)'
<1>2. CASE Operation
  <2>1. PICK o \in Operations : Begins(o)
    BY <1>2, OperationBegins
  <2>2. o.kind \in {"Rename", "Delete"}
    BY OperationTypes
  <2>3. /\ op' = o /\ UNCHANGED <<disk, archive>> /\ disk[o.source] # Absent
        /\ o.kind = "Rename" => disk[o.destination] = Absent
        /\ step' = (IF o.kind = "Delete" THEN "archive" ELSE "prepare")
    BY <2>1 DEF Begins, Begin
  <2>4. Goal
    BY <2>2, <2>3 DEF MayPerform
  <2> QED BY <1>1, <2>4 DEF Snapshots
<1>3. CASE Archive
  <2>1. op \in Operations /\ step = "archive" /\ op.kind = "Delete"
    BY <1>3 DEF Archive, Control, Snapshots
  <2>2. CASE step' = "prepare"
    <3>1. /\ archive' = archive \cup {disk[op.source]} /\ disk[op.source] # Absent
          /\ UNCHANGED <<op, disk>>
      BY <1>3, <2>2 DEF Archive
    <3> QED BY <1>1, <2>1, <2>2, <3>1 DEF Snapshots, MayPerform
  <2>3. CASE step' # "prepare"
    <3>1. step' = "idle"
      BY <1>3, <2>3 DEF Archive
    <3> QED BY <1>1, <3>1 DEF Snapshots
  <2> QED BY <2>2, <2>3
<1>4. ASSUME NEW p \in Paths, NEW c \in Held, WriteFile(p, c)
      PROVE  Snapshots'
  <2>1. UNCHANGED <<op, step, archive>> /\ Ticket' = Ticket
    BY <1>4 DEF WriteFile, Ticket
  <2>2. CASE step \in {"archive", "prepare"}
    <3>1. op \in Operations /\ op # NoOp
      BY <2>2, OperationTypes DEF Control
    <3>2. Ticket \notin disturbed' =>
             /\ Ticket \notin disturbed
             /\ disk'[op.source] = disk[op.source]
             /\ op.kind = "Rename" => disk'[op.destination] = disk[op.destination]
      BY <1>0, <1>4, <3>1, WritesDisturb, OperationTypes
    <3> QED BY <1>1, <2>1, <2>2, <3>2 DEF Snapshots, MayPerform
  <2>3. CASE step \notin {"archive", "prepare"}
    BY <1>1, <2>1, <2>3 DEF Snapshots
  <2> QED BY <2>2, <2>3
<1>5. ASSUME step' \notin {"archive", "prepare"} PROVE Snapshots'
  BY <1>1, <1>5 DEF Snapshots
<1>6. CASE PrepareRecord \/ Activate \/ Abandon \/ Mutate \/ Publish
  BY <1>5, <1>6 DEF PrepareRecord, Activate, Abandon, Mutate, Publish, Mark
<1>7. CASE Undo
  BY <1>5, <1>7 DEF Undo, Rollback, RestoreSource, CopyBack, ClearDestination, RestoreFails,
              MarkRestored, Discard, Keep, After
<1>8. CASE Life
  BY <1>5, <1>8 DEF Life, Evict, EvictionFails, Crash, Start, LoadRecord, StartFails, Loaded, Interrupted
<1> QED BY <1>2, <1>3, <1>4, <1>6, <1>7, <1>8 DEF Next, Perform

-----------------------------------------------------------------------------
(* What the paths hold.                                                     *)

\* Undecided operations have no path in common.
LEMMA ApartKept ==
    ASSUME TypeOK, Control, Phases, Apart, Next
    PROVE  Apart'
<1> USE DEF Own, Undoing
<1>0. /\ NoId \notin DOMAIN store
      /\ step \in {"activate", "rollback"} => op # NoOp /\ op = store[id].op /\ id \in DOMAIN store
      /\ id \in DOMAIN store => Ticket = id
  BY RecordTypes, OperationTypes DEF Control, Ticket
<1>1. ASSUME NEW r \in DOMAIN store', Live(r)'
      PROVE  /\ r \in DOMAIN store /\ store'[r].op = store[r].op
             /\ \/ Live(r) \/ (r = id /\ step \in {"activate", "rollback"})
                \/ Revives(r) /\ CutsOff(r)
  BY <1>1, StoreKeeps, Revivals DEF Kin
<1>2. /\ \A r \in DOMAIN store \cap disturbed : r \in disturbed'
      /\ op # NoOp => disturbed \subseteq disturbed'
  BY DisturbedStays
\* A revived record has no path in common with another, or both are disturbed.
<1>3. ASSUME NEW r \in DOMAIN store', NEW s \in DOMAIN store', Live(r)', Live(s)', r # s, Revives(r)
      PROVE  \/ PathsOf(store'[r].op) \cap PathsOf(store'[s].op) = {}
             \/ {r, s} \subseteq disturbed'
  <2>1. CutsOff(r) /\ r \in DOMAIN store /\ s \in DOMAIN store
    BY <1>1, <1>3, Revivals
  <2>2. store'[s] = store[s]
    BY <1>3, <2>1 DEF CutsOff, CutOff, Remains
  <2>3. Live(s)
    BY <1>3, <2>2 DEF Live, Has
  <2>4. PathsOf(store[r].op) \cap PathsOf(store[s].op) = {} \/ s \in Touching(PathsOf(store[r].op))
    BY <2>1, <2>3 DEF Touching
  <2>5. s \in Touching(PathsOf(store[r].op)) => {r, s} \subseteq disturbed'
    BY <1>3, <2>1 DEF CutsOff, CutOff, Sound, Disturb
  <2> QED BY <1>1, <1>3, <2>1, <2>2, <2>4, <2>5
<1>4. ASSUME NEW r \in DOMAIN store', NEW s \in DOMAIN store', Live(r)', Live(s)', r # s
      PROVE  \/ PathsOf(store'[r].op) \cap PathsOf(store'[s].op) = {}
             \/ {r, s} \subseteq disturbed'
  <2>0. /\ r \in DOMAIN store /\ s \in DOMAIN store
        /\ store'[r].op = store[r].op /\ store'[s].op = store[s].op
    BY <1>1, <1>4
  <2>1. CASE Live(r) /\ Live(s)
    BY <1>2, <1>4, <2>0, <2>1 DEF Apart
  <2>2. CASE r = id /\ step \in {"activate", "rollback"} /\ Live(s)
    BY <1>0, <1>2, <1>4, <2>0, <2>2 DEF Apart
  <2>3. CASE s = id /\ step \in {"activate", "rollback"} /\ Live(r)
    BY <1>0, <1>2, <1>4, <2>0, <2>3 DEF Apart
  <2>4. CASE Revives(r)
    BY <1>3, <1>4, <2>4
  <2>5. CASE Revives(s)
    BY <1>3, <1>4, <2>5
  <2> QED BY <1>1, <1>4, <2>1, <2>2, <2>3, <2>4, <2>5
<1>5. ASSUME op' # NoOp, NEW r \in DOMAIN store', Live(r)', r # id'
      PROVE  \/ PathsOf(op') \cap PathsOf(store'[r].op) = {}
             \/ {r, Ticket'} \subseteq disturbed'
  <2>0. /\ r \in DOMAIN store /\ store'[r].op = store[r].op
        /\ Live(r) \/ (r = id /\ step \in {"activate", "rollback"})
    BY <1>1, <1>5 DEF CutsOff
  <2>1. CASE op' = op /\ op # NoOp /\ Ticket' = Ticket /\ (id' = id \/ id = NoId)
    <3>1. r # id /\ Live(r)
      BY <1>0, <1>5, <2>0, <2>1
    <3> QED BY <1>2, <2>0, <2>1, <3>1 DEF Apart
  <2>2. ASSUME NEW o \in Operations, Begins(o), op' = o
        PROVE  \/ PathsOf(op') \cap PathsOf(store'[r].op) = {}
               \/ {r, Ticket'} \subseteq disturbed'
    <3>1. UNCHANGED <<store, id, lastId>> /\ step = "idle"
      BY <2>2 DEF Begins, Begin
    <3>2. Live(r) /\ Ticket' = lastId + 1
      BY <2>0, <3>1 DEF Control, Ticket
    <3>3. PathsOf(o) \cap PathsOf(store[r].op) = {} \/ r \in Touching(PathsOf(o))
      BY <2>0, <3>2 DEF Touching
    <3>4. r \in Touching(PathsOf(o)) => {r, lastId + 1} \subseteq disturbed'
      BY <2>2 DEF Begins, Begin, Disturb
    <3> QED BY <2>0, <2>2, <3>2, <3>3, <3>4
  <2> QED BY <1>5, <2>1, <2>2, OperationSteps
<1> QED BY <1>4, <1>5 DEF Apart

\* The paths of what is disturbed are broken.
LEMMA ExemptKept ==
    ASSUME TypeOK, Control, Phases, Exempt, Next
    PROVE  Exempt'
<1> USE DEF Own, Undoing
<1>0. /\ NoId \notin DOMAIN store /\ broken \subseteq broken'
      /\ step \in {"activate", "rollback"} => op # NoOp /\ op = store[id].op /\ id \in DOMAIN store
      /\ id \in DOMAIN store => Ticket = id
      /\ \A r \in DOMAIN store : r # lastId + 1
  BY RecordTypes, OperationTypes, BrokenGrows DEF Control, Ticket, TypeOK
<1>i. op # NoOp /\ id \in DOMAIN store => op = store[id].op
  BY <1>0 DEF Control, TypeOK, Steps
<1>1. ASSUME NEW r \in DOMAIN store', Live(r)'
      PROVE  /\ r \in DOMAIN store /\ store'[r].op = store[r].op
             /\ \/ Live(r) \/ (r = id /\ step \in {"activate", "rollback"})
                \/ Revives(r) /\ CutsOff(r)
  BY <1>1, StoreKeeps, Revivals DEF Kin
\* What a step disturbs is broken by it.
<1>2. ASSUME NEW r \in DOMAIN store, Live(r), r \in disturbed', r \notin disturbed
      PROVE  PathsOf(store[r].op) \subseteq broken' \/ (r = Ticket /\ op # NoOp)
  <2>1. ASSUME NEW rs, NEW ps, Disturb(rs, ps), r \notin rs
        PROVE  PathsOf(store[r].op) \subseteq broken'
    BY <1>2, <2>1 DEF Disturb
  <2>2. ASSUME NEW o \in Operations, Begins(o) PROVE PathsOf(store[r].op) \subseteq broken'
    BY <1>0, <1>2, <2>1, <2>2 DEF Begins, Begin
  <2>3. ASSUME NEW p \in Paths, NEW c \in Held, WriteFile(p, c), r # Ticket \/ op = NoOp
        PROVE  PathsOf(store[r].op) \subseteq broken'
    BY <1>2, <2>1, <2>3 DEF WriteFile, Busy
  <2>4. ASSUME NEW s \in DOMAIN store, CutsOff(s) PROVE PathsOf(store[r].op) \subseteq broken'
    BY <1>2, <2>1, <2>4 DEF CutsOff, CutOff, Disturb
  <2> QED BY <1>2, <2>2, <2>3, <2>4, Disturbances
<1>3. ASSUME op # NoOp, op' # NoOp, Ticket \in disturbed' PROVE PathsOf(op) \subseteq broken'
  <2>1. CASE Ticket \in disturbed
    BY <1>0, <1>3, <2>1 DEF Exempt
  <2>2. CASE Ticket \notin disturbed
    <3>1. \A o \in Operations : ~Begins(o)
      BY <1>3 DEF Begins, Begin, Control
    <3>2. PICK p \in Paths, c \in Held : WriteFile(p, c)
      BY <1>3, <2>2, <3>1, Disturbances DEF CutsOff
    <3>3. CASE p \in Busy
      BY <1>3, <3>2, <3>3 DEF WriteFile, Busy, Disturb
    <3>4. CASE p \notin Busy
      <4>1. Disturb({}, {p})
        BY <1>3, <2>2, <3>2, <3>4 DEF WriteFile
      <4>2. Ticket \in DOMAIN store /\ Live(Ticket) /\ PathsOf(store[Ticket].op) \subseteq broken'
        BY <1>3, <2>2, <4>1 DEF Disturb, Touching
      <4>3. id = Ticket /\ op = store[id].op
        BY <1>0, <1>3, <1>i, <4>2 DEF Ticket
      <4> QED BY <4>2, <4>3
    <3> QED BY <3>3, <3>4
  <2> QED BY <2>1, <2>2
<1>4. ASSUME NEW r \in DOMAIN store' \cap disturbed', Live(r)'
      PROVE  PathsOf(store'[r].op) \subseteq broken'
  <2>0. r \in DOMAIN store /\ store'[r].op = store[r].op
    BY <1>1, <1>4
  <2>1. CASE Live(r) /\ r \in disturbed
    BY <1>0, <2>0, <2>1 DEF Exempt
  <2>2. CASE Live(r) /\ r \notin disturbed /\ r = Ticket /\ op # NoOp
    <3>1. r = id
      BY <1>0, <2>0, <2>2 DEF Ticket
    <3>2. op = store[r].op
      BY <1>i, <2>0, <2>2, <3>1
    <3>3. CASE op' # NoOp
      BY <1>3, <1>4, <2>0, <2>2, <3>2, <3>3
    <3>4. CASE op' = NoOp
      <4>1. \A o \in Operations : ~Begins(o)
        BY <2>2 DEF Begins, Begin, Control
      <4>2. \A p \in Paths, c \in Held : ~WriteFile(p, c)
        BY <2>2, <3>4 DEF WriteFile
      <4>3. PICK s \in DOMAIN store : CutsOff(s)
        BY <1>4, <2>2, <4>1, <4>2, Disturbances
      <4>4. Disturb({s}, PathsOf(store[s].op)) /\ s # r
        BY <1>4, <2>2, <4>3 DEF CutsOff, CutOff, Revives, Live
      <4> QED BY <1>4, <2>0, <2>2, <4>4 DEF Disturb
    <3> QED BY <3>3, <3>4
  <2>3. CASE Live(r) /\ r \notin disturbed /\ ~(r = Ticket /\ op # NoOp)
    BY <1>2, <1>4, <2>0, <2>3
  <2>4. CASE r = id /\ step \in {"activate", "rollback"} /\ ~Live(r)
    <3>1. op # NoOp /\ op = store[r].op /\ Ticket = r
      BY <1>0, <2>4
    <3>2. CASE op' # NoOp
      BY <1>3, <1>4, <2>0, <3>1, <3>2
    <3>3. CASE op' = NoOp
      <4>1. \A o \in Operations : ~Begins(o)
        BY <3>1 DEF Begins, Begin, Control
      <4>2. \A p \in Paths, c \in Held : ~WriteFile(p, c)
        BY <3>1, <3>3 DEF WriteFile
      <4>3. r \in disturbed
        BY <1>4, <2>4, <4>1, <4>2, Disturbances DEF CutsOff
      <4> QED BY <1>0, <2>0, <3>1, <4>3 DEF Exempt
    <3> QED BY <3>2, <3>3
  <2>5. CASE Revives(r) /\ CutsOff(r)
    <3>1. r \in disturbed' => Disturb({r}, PathsOf(store[r].op))
      BY <2>5 DEF CutsOff, CutOff, Sound
    <3> QED BY <1>4, <2>0, <3>1 DEF Disturb
  <2> QED BY <1>1, <1>4, <2>1, <2>2, <2>3, <2>4, <2>5
<1>5. ASSUME op' # NoOp, Ticket' \in disturbed' PROVE PathsOf(op') \subseteq broken'
  <2>1. CASE op' = op /\ op # NoOp /\ Ticket' = Ticket
    BY <1>3, <1>5, <2>1
  <2>2. ASSUME NEW o \in Operations, Begins(o), op' = o PROVE PathsOf(op') \subseteq broken'
    <3>1. Ticket' = lastId + 1
      BY <2>2 DEF Begins, Begin, Control, Ticket
    <3>2. Disturb({lastId + 1}, PathsOf(o))
      BY <1>5, <2>2, <3>1 DEF Begins, Begin
    <3> QED BY <2>2, <3>2 DEF Disturb
  <2> QED BY <1>5, <2>1, <2>2, OperationSteps
<1> QED BY <1>4, <1>5 DEF Exempt

Moves == Mutate \/ RestoreSource \/ CopyBack \/ ClearDestination

\* A step changes no path of an undecided operation other than its own.
LEMMA OthersStay ==
    ASSUME TypeOK, Control, Shapes, Phases, Apart, Next
    PROVE  /\ \A r \in DOMAIN store \ disturbed' : Live(r) /\ (r # id \/ ~Moves) =>
                 \A p \in PathsOf(store[r].op) : disk'[p] = disk[p]
           /\ op # NoOp /\ ~Moves /\ Ticket \notin disturbed' =>
                 \A p \in PathsOf(op) : disk'[p] = disk[p]
<1> USE DEF Own, Undoing
<1> DEFINE Goal == /\ \A r \in DOMAIN store \ disturbed' : Live(r) /\ (r # id \/ ~Moves) =>
                         \A p \in PathsOf(store[r].op) : disk'[p] = disk[p]
                   /\ op # NoOp /\ ~Moves /\ Ticket \notin disturbed' =>
                         \A p \in PathsOf(op) : disk'[p] = disk[p]
<1>0. \A r \in DOMAIN store : PathsOf(store[r].op) \subseteq Paths
  BY RecordTypes, OperationTypes
<1>1. op # NoOp => PathsOf(op) \subseteq Paths
  BY OperationTypes DEF TypeOK
<1>2. ASSUME UNCHANGED disk PROVE Goal
  BY <1>2
<1>3. CASE Operation
  BY <1>2, <1>3, OperationBegins DEF Begins, Begin
<1>4. CASE Archive \/ PrepareRecord \/ Activate \/ Abandon \/ Publish
  BY <1>2, <1>4 DEF Archive, PrepareRecord, Activate, Abandon, Publish
<1>5. CASE Rollback \/ RestoreFails \/ MarkRestored \/ Discard
  BY <1>2, <1>5 DEF Rollback, RestoreFails, MarkRestored, Discard
<1>6. CASE Life
  BY <1>2, <1>6 DEF Life, Evict, EvictionFails, Crash, Start, LoadRecord, StartFails, Loaded
<1>7. CASE \E p \in Paths, c \in Held : WriteFile(p, c)
  BY <1>0, <1>1, <1>7, WritesDisturb
<1>8. ASSUME NEW o \in Operations, WellFormed(o), Moves,
             id \in DOMAIN store, Live(id), o = store[id].op,
             \A p \in Paths \ {o.source, o.destination} : disk'[p] = disk[p]
      PROVE  Goal
  <2>1. o.source \in PathsOf(o) /\ o.destination \in PathsOf(o)
    BY <1>8, OperationTypes DEF PathsOf, WellFormed
  <2>2. ASSUME NEW r \in DOMAIN store \ disturbed', Live(r), r # id, NEW p \in PathsOf(store[r].op)
        PROVE  disk'[p] = disk[p]
    <3>1. r \notin disturbed
      BY <2>2, DisturbedStays
    <3> QED BY <1>0, <1>8, <2>1, <2>2, <3>1 DEF Apart
  <2> QED BY <1>8, <2>2
<1>9. CASE Mutate
  <2>1. op \in Operations /\ WellFormed(op) /\ id \in DOMAIN store /\ op = store[id].op /\ Live(id)
    BY <1>9, OperationTypes DEF Mutate, Control, Shapes, Phases
  <2>2. \A p \in Paths \ {op.source, op.destination} : disk'[p] = disk[p]
    BY <1>9 DEF Mutate, Moved, Linked, Deleted, TypeOK
  <2> QED BY <1>8, <1>9, <2>1, <2>2 DEF Moves
<1>10. CASE RestoreSource \/ CopyBack \/ ClearDestination
  <2> DEFINE o == store[id].op
  <2>1. id \in DOMAIN store /\ Live(id) /\ o \in Operations /\ WellFormed(o) /\ Moves
    BY <1>10, RecordTypes DEF Moves, RestoreSource, CopyBack, ClearDestination, Control, Shapes, Phases
  <2>2. \A p \in Paths \ {o.source, o.destination} : disk'[p] = disk[p]
    BY <1>10 DEF RestoreSource, CopyBack, ClearDestination, Restored, TypeOK
  <2> HIDE DEF o
  <2>3. o = store[id].op
    BY DEF o
  <2> QED BY <1>8, <2>1, <2>2, <2>3
<1> QED
  BY <1>3, <1>4, <1>5, <1>6, <1>7, <1>9, <1>10 DEF Next, Perform, Undo

\* The state of an operation's files carries over a step that leaves them alone.
LEMMA SameFiles ==
    ASSUME TypeOK, NEW r \in DOMAIN store,
           store'[r].op = store[r].op, store'[r].before = store[r].before,
           \A p \in PathsOf(store[r].op) : disk'[p] = disk[p]
    PROVE  /\ Before(r) => Before(r)'
           /\ Performed(r) => Performed(r)'
           /\ Between(r) => Between(r)'
<1>1. store[r].op.source \in PathsOf(store[r].op)
  BY RecordTypes, OperationTypes
<1>2. store[r].op.kind = "Rename" => store[r].op.destination \in PathsOf(store[r].op)
  BY RecordTypes, OperationTypes
<1> QED BY <1>1, <1>2 DEF Before, Performed, Between

\* The states by kind of operation.
LEMMA StatesOfFiles ==
    ASSUME TypeOK, NEW r \in DOMAIN store
    PROVE  LET o == store[r].op  b == store[r].before
           IN  /\ o.kind = "Delete" => (Before(r) <=> disk[o.source] = b[o.source])
               /\ o.kind = "Rename" => (Before(r) <=> /\ disk[o.source] = b[o.source]
                                                      /\ disk[o.destination] = b[o.destination])
BY DEF Before, PathsOf

\* renamePathNoReplace and the removal of a source, and their failures, leave the
\* paths in one of the three ways.
LEMMA MutateMoves ==
    ASSUME TypeOK, Control, Shapes, Phases, Snapshots, Halfway, Mutate, id \notin disturbed
    PROVE  /\ UNCHANGED <<store, id>> /\ id \in DOMAIN store
           /\ Before(id)' \/ Performed(id)' \/ Between(id)'
           /\ step' = "publish" => Performed(id)'
           /\ step' \in {"publish", "rollback"} /\ store[id].state = "InProgress"
<1> DEFINE o == store[id].op
           b == store[id].before
<1>1. id \in DOMAIN store /\ op = o /\ UNCHANGED <<store, id>> /\ Before(id)
  BY DEF Mutate, Control, Own, Halfway, PlaceOf
<1>2. store[id].state = "InProgress" /\ step' \in {"publish", "rollback"}
  BY DEF Mutate, Phases, Live
<1>3. /\ o.kind \in {"Rename", "Delete"} /\ o.source \in Paths /\ o.destination \in Paths
      /\ o.kind = "Rename" <=> o.source # o.destination
      /\ b[o.source] # Absent
      /\ o.kind = "Rename" => b[o.destination] = Absent
  BY <1>1, RecordTypes, OperationTypes DEF Shapes, WellFormed, Snapshots, MayPerform
<1>4. /\ o.kind = "Delete" => disk[o.source] = b[o.source]
      /\ o.kind = "Rename" => disk[o.source] = b[o.source] /\ disk[o.destination] = b[o.destination]
  BY <1>1, StatesOfFiles
<1>5. store'[id'].op = o /\ store'[id'].before = b /\ id' = id
  BY <1>1
<1> HIDE DEF o, b
<1>6. ASSUME o.kind = "Delete", disk' = [disk EXCEPT ![o.source] = Absent] PROVE Performed(id)'
  BY <1>3, <1>5, <1>6 DEF Performed, TypeOK
<1>7. ASSUME o.kind = "Rename",
             disk' = [disk EXCEPT ![o.destination] = disk[o.source], ![o.source] = Absent]
      PROVE  Performed(id)'
  BY <1>3, <1>4, <1>5, <1>7 DEF Performed, TypeOK
<1>8. ASSUME o.kind = "Rename", disk' = [disk EXCEPT ![o.destination] = disk[o.source]]
      PROVE  Between(id)'
  BY <1>3, <1>4, <1>5, <1>8 DEF Between, TypeOK
<1>9. ASSUME disk' = disk PROVE Before(id)'
  BY <1>1, <1>5, <1>9 DEF Before, o, b
<1>10. o.kind = "Rename" => MayMove
  BY <1>1, <1>3, <1>4 DEF MayMove
<1>11. o.kind = "Delete" => ~MayMove
  BY <1>1 DEF MayMove
<1>12. /\ Before(id)' \/ Performed(id)' \/ Between(id)'
       /\ step' = "publish" => Performed(id)'
  BY <1>1, <1>3, <1>6, <1>7, <1>8, <1>9, <1>10, <1>11 DEF Mutate, Moved, Deleted, Linked
<1> QED BY <1>1, <1>2, <1>12

\* Undoing removes what a deletion left and copies the snapshot back; it
\* renames back, or removes the link next to the file.
LEMMA RestoreMoves ==
    ASSUME TypeOK, Control, Shapes, Phases, Snapshots, Halfway, id \notin disturbed,
           RestoreSource \/ CopyBack \/ ClearDestination
    PROVE  /\ UNCHANGED <<store, id>> /\ id \in DOMAIN store
           /\ step' \in {"copyBack", "clear", "undone"}
           /\ Before(id)' \/ Performed(id)' \/ Between(id)'
           /\ step' = "undone" => Before(id)'
           /\ step' = "copyBack" => store[id].op.kind = "Delete" /\ Performed(id)'
           /\ step' = "clear" => store[id].op.kind = "Rename" /\ (Before(id)' \/ Between(id)')
<1> DEFINE o == store[id].op
           b == store[id].before
<1>1. id \in DOMAIN store /\ UNCHANGED <<store, id>> /\ Live(id)
  BY DEF RestoreSource, CopyBack, ClearDestination, RestoreUnchanged, Control, Undoing, Phases
<1>2. Before(id) \/ Performed(id) \/ Between(id)
  BY <1>1 DEF Halfway
<1>3. /\ o.kind \in {"Rename", "Delete"} /\ o.source \in Paths /\ o.destination \in Paths
      /\ o.kind = "Rename" <=> o.source # o.destination
      /\ b[o.source] # Absent
      /\ o.kind = "Rename" => b[o.destination] = Absent
  BY <1>1, RecordTypes, OperationTypes DEF Shapes, WellFormed, Snapshots, MayPerform
<1>4. /\ o.kind = "Delete" => (Before(id) <=> disk[o.source] = b[o.source])
      /\ o.kind = "Rename" => (Before(id) <=> /\ disk[o.source] = b[o.source]
                                              /\ disk[o.destination] = b[o.destination])
  BY <1>1, StatesOfFiles
<1>5. /\ Performed(id) => /\ disk[o.source] = Absent
                          /\ o.kind = "Rename" => disk[o.destination] = b[o.source]
      /\ Between(id) => /\ o.kind = "Rename" /\ disk[o.source] = b[o.source]
                        /\ disk[o.destination] = b[o.source]
  BY DEF Performed, Between
<1>6. store'[id'].op = o /\ store'[id'].before = b /\ id' = id
  BY <1>1
<1>7. ASSUME o.kind = "Delete", disk'[o.source] = b[o.source] PROVE Before(id)'
  BY <1>6, <1>7 DEF Before, PathsOf
<1>8. ASSUME disk'[o.source] = b[o.source], disk'[o.destination] = b[o.destination] PROVE Before(id)'
  BY <1>6, <1>8 DEF Before, PathsOf
<1>9. ASSUME o.kind = "Delete", disk'[o.source] = Absent PROVE Performed(id)'
  BY <1>6, <1>9 DEF Performed
<1>10. ASSUME disk' = disk PROVE (Before(id) => Before(id)') /\ (Between(id) => Between(id)')
  BY <1>6, <1>10 DEF Before, Between
<1>11. step = "copyBack" => o.kind = "Delete"
  BY DEF Halfway, PlaceOf
<1>12. step = "clear" => o.kind = "Rename" /\ disk[o.source] = b[o.source]
  BY <1>4, <1>5 DEF Halfway, PlaceOf
<1> HIDE DEF o, b
<1>13. CASE RestoreSource
  <2>1. CASE o.kind = "Delete"
    <3>1. step' = "copyBack" /\ disk' = [disk EXCEPT ![o.source] = Absent]
      BY <1>13, <2>1 DEF RestoreSource, Restored, o
    <3>2. disk'[o.source] = Absent
      BY <1>3, <3>1 DEF TypeOK
    <3> QED BY <1>1, <1>9, <2>1, <3>1, <3>2 DEF o
  <2>2. CASE o.kind = "Rename" /\ disk[o.source] = Absent
    <3>1. disk[o.destination] = b[o.source]
      BY <1>2, <1>3, <1>4, <1>5, <2>2
    <3>2. /\ step' = "clear"
          /\ disk' = [disk EXCEPT ![o.source] = disk[o.destination], ![o.destination] = Absent]
      BY <1>3, <1>13, <2>2, <3>1 DEF RestoreSource, Restored, o
    <3>3. disk'[o.source] = b[o.source] /\ disk'[o.destination] = b[o.destination]
      BY <1>3, <2>2, <3>1, <3>2 DEF TypeOK
    <3> QED BY <1>1, <1>8, <2>2, <3>2, <3>3 DEF o
  <2>3. CASE o.kind = "Rename" /\ disk[o.source] # Absent
    <3>1. step' = "clear" /\ disk' = disk
      BY <1>13, <2>3 DEF RestoreSource, Restored, o
    <3> QED BY <1>1, <1>2, <1>5, <1>10, <2>3, <3>1 DEF o
  <2> QED BY <1>3, <2>1, <2>2, <2>3
<1>14. CASE CopyBack
  <2>1. o.kind = "Delete" /\ step' = "undone" /\ disk' = [disk EXCEPT ![o.source] = b[o.source]]
    BY <1>11, <1>14 DEF CopyBack, Restored, o, b
  <2>2. disk'[o.source] = b[o.source]
    BY <1>3, <2>1 DEF TypeOK
  <2> QED BY <1>1, <1>7, <2>1, <2>2
<1>15. CASE ClearDestination
  <2>1. step = "clear" /\ step' = "undone" /\ disk' = [disk EXCEPT ![o.destination] = b[o.destination]]
    BY <1>15 DEF ClearDestination, Restored, o, b
  <2>2. disk'[o.source] = b[o.source] /\ disk'[o.destination] = b[o.destination]
    BY <1>3, <1>12, <2>1 DEF TypeOK
  <2> QED BY <1>1, <1>8, <2>1, <2>2
<1> QED BY <1>13, <1>14, <1>15

\* What a step that leaves the paths of its operation alone goes on to, and why.
Quiet ==
    \/ step' \in {"idle", "archive", "prepare", "evict", "load", "fit", "discard"}
    \/ step = "prepare" /\ step' = "activate" /\ id' \in DOMAIN store' /\ store'[id'] = Prepared /\ UNCHANGED disk
    \/ step = "activate" /\ step' \in {"abandon", "mutate"} /\ id' = id
    \/ step = "publish" /\ step' = "rollback" /\ id' = id
    \/ step = "rollback" /\ step' = "restore" /\ id' = id
    \/ step = "load" /\ step' = "restore"
    \/ UNCHANGED <<step, id, store>>

\* Every step is quiet or moves the files of its own operation.
LEMMA QuietSteps ==
    ASSUME TypeOK, Control, Next
    PROVE  Quiet \/ Moves
<1>1. CASE Operation
  BY <1>1, OperationBegins DEF Begins, Begin, Quiet
<1>2. CASE Archive \/ Activate \/ Abandon \/ Publish
  BY <1>2 DEF Archive, Activate, Abandon, Publish, Mark, Quiet
<1>3. CASE PrepareRecord
  <2>1. step' = "idle" \/ (/\ step = "prepare" /\ step' = "activate" /\ id' = lastId'
                           /\ store' = Stored(lastId', Prepared) /\ UNCHANGED disk)
    BY <1>3 DEF PrepareRecord
  <2> QED BY <2>1 DEF Stored, Quiet
<1>4. CASE Rollback \/ RestoreFails \/ MarkRestored \/ Discard
  BY <1>4 DEF Rollback, RestoreFails, MarkRestored, Discard, Keep, After, Quiet
<1>5. CASE Life
  BY <1>5 DEF Life, Evict, EvictionFails, Crash, Start, LoadRecord, StartFails, Loaded, Interrupted, Quiet
<1>6. CASE \E p \in Paths, c \in Held : WriteFile(p, c)
  BY <1>6 DEF WriteFile, Quiet
<1> QED BY <1>1, <1>2, <1>3, <1>4, <1>5, <1>6 DEF Next, Perform, Undo, Moves

\* Every step leaves the paths of undecided operations in one of the three ways,
\* and goes on to a place that knows in which.
LEMMA HalfwayKept ==
    ASSUME TypeOK, Control, Once, Shapes, Phases, Snapshots, Apart, Halfway, Next
    PROVE  Halfway'
<1> USE DEF Own, Undoing
<1> DEFINE Known(r) == Before(r)' \/ Performed(r)' \/ Between(r)'
<1>0. /\ NoId \notin DOMAIN store
      /\ \A r \in DOMAIN store \ disturbed' : r \notin disturbed
      /\ step \in Own => op # NoOp /\ op = store[id].op /\ Ticket = id
  BY DisturbedStays, RecordTypes, OperationTypes DEF Control, Ticket
\* The records whose paths the step leaves alone.
<1>1. ASSUME NEW r \in DOMAIN store' \ disturbed', Live(r)', r # id \/ ~Moves
      PROVE  Known(r)
  <2>1. /\ r \in DOMAIN store /\ store'[r].op = store[r].op /\ store'[r].before = store[r].before
        /\ \/ Live(r) \/ (r = id /\ step \in {"activate", "rollback"})
           \/ Revives(r) /\ CutOff(r)
    BY <1>1, StoreKeeps DEF Kin
  <2>2. CASE Revives(r) /\ CutOff(r)
    <3>1. CutsOff(r)
      BY <1>1, <2>1, <2>2, Revivals
    <3>2. Before(r)
      BY <1>1, <2>2 DEF CutOff, Sound, Disturb
    <3> QED BY <2>1, <3>1, <3>2, SameFiles DEF CutsOff
  <2>3. CASE Live(r) \/ (r = id /\ step \in {"activate", "rollback"})
    <3>1. \A p \in PathsOf(store[r].op) : disk'[p] = disk[p]
      <4>1. CASE Live(r)
        BY <1>1, <2>1, <4>1, OthersStay
      <4>2. CASE r = id /\ step \in {"activate", "rollback"}
        <5>1. ~Moves
          BY <4>2 DEF Moves, Mutate, RestoreSource, CopyBack, ClearDestination
        <5> QED BY <1>0, <1>1, <4>2, <5>1, OthersStay
      <4> QED BY <2>3, <4>1, <4>2
    <3>2. Before(r) \/ Performed(r) \/ Between(r)
      <4>1. CASE Live(r)
        BY <1>0, <1>1, <2>1, <4>1 DEF Halfway
      <4>2. CASE r = id /\ step = "activate"
        BY <1>0, <1>1, <2>1, <4>2 DEF Halfway, PlaceOf
      <4>3. CASE r = id /\ step = "rollback" /\ ~Live(r)
        <5>1. store[r].state \in States
          BY <2>1, RecordTypes
        <5>2. store[r].state = "Published"
          BY <4>3, <5>1 DEF Phases, Live, Has, States
        <5> QED BY <1>0, <1>1, <2>1, <4>3, <5>2 DEF Halfway, PlaceOf
      <4> QED BY <2>3, <4>1, <4>2, <4>3
    <3> QED BY <2>1, <3>1, <3>2, SameFiles
  <2> QED BY <2>1, <2>2, <2>3
<1>2. ASSUME Moves PROVE UNCHANGED <<disturbed, store, id>> /\ id \in DOMAIN store
  BY <1>2 DEF Moves, Mutate, RestoreSource, CopyBack, ClearDestination, RestoreUnchanged, Control
<1>3. CASE Moves /\ id \in disturbed
  BY <1>1, <1>2, <1>3 DEF Halfway
<1>4. CASE Mutate /\ id \notin disturbed
  <2>1. \A r \in DOMAIN store' \ disturbed' : Live(r)' => Known(r)
    BY <1>1, <1>4, MutateMoves
  <2>2. PlaceOf'
    BY <1>4, MutateMoves DEF PlaceOf
  <2> QED BY <2>1, <2>2 DEF Halfway
<1>5. CASE (RestoreSource \/ CopyBack \/ ClearDestination) /\ id \notin disturbed
  <2>1. \A r \in DOMAIN store' \ disturbed' : Live(r)' => Known(r)
    BY <1>1, <1>5, RestoreMoves
  <2>2. PlaceOf'
    BY <1>5, RestoreMoves DEF PlaceOf
  <2> QED BY <2>1, <2>2 DEF Halfway
<1>6. CASE Quiet /\ ~Moves
  <2>1. \A r \in DOMAIN store' \ disturbed' : Live(r)' => Known(r)
    BY <1>1, <1>6
  <2> SUFFICES ASSUME id' \notin disturbed' PROVE PlaceOf'
    BY <2>1 DEF Halfway
  <2>2. ASSUME step \in Own \cup {"copyBack", "clear", "undone"}, NEW r, r = id, r = id'
        PROVE  /\ Before(r) => Before(r)'
               /\ Performed(r) => Performed(r)'
               /\ Between(r) => Between(r)'
               /\ PlaceOf
    <3>1. r \in DOMAIN store /\ r \in DOMAIN store'
      BY <2>2, RecordsStayInStore DEF Control
    <3>2. store'[r].op = store[r].op /\ store'[r].before = store[r].before
      BY <3>1, StoreKeeps DEF Kin
    <3>3. \A p \in PathsOf(store[r].op) : disk'[p] = disk[p]
      <4>1. CASE step \in Own
        BY <1>0, <1>6, <2>2, <4>1, OthersStay
      <4>2. CASE step \in {"copyBack", "clear", "undone"}
        BY <1>6, <2>2, <3>1, <4>2, OthersStay DEF Phases
      <4> QED BY <2>2, <4>1, <4>2
    <3>4. PlaceOf
      BY <1>0, <2>2, <3>1 DEF Halfway
    <3> QED BY <3>1, <3>2, <3>3, <3>4, SameFiles
  <2>3. CASE step = "prepare" /\ step' = "activate" /\ store'[id'] = Prepared /\ UNCHANGED disk
    <3>1. Before(id)'
      BY <2>3 DEF Before, Prepared
    <3> QED BY <2>3, <3>1 DEF PlaceOf
  <2>4. CASE step = "activate" /\ step' \in {"abandon", "mutate"} /\ id' = id
    BY <2>2, <2>4 DEF PlaceOf
  <2>5. CASE step = "publish" /\ step' = "rollback" /\ id' = id
    BY <2>2, <2>5 DEF PlaceOf
  <2>6. CASE UNCHANGED <<step, id, store>>
    <3>1. store'[id'].state = store[id].state /\ store'[id'].op = store[id].op
      BY <2>6
    <3> QED BY <2>2, <2>6, <3>1 DEF PlaceOf
  <2>7. CASE step' \in {"idle", "archive", "prepare", "evict", "load", "fit", "discard", "restore"}
    BY <2>7 DEF PlaceOf
  <2> QED BY <1>6, <2>3, <2>4, <2>5, <2>6, <2>7 DEF Quiet
<1> QED BY <1>3, <1>4, <1>5, <1>6, QuietSteps DEF Moves

-----------------------------------------------------------------------------
(* Records kept for the next start, and what operations touched.            *)

\* A record that is listed and still to be undone is one that was given up.
LEMMA GivenUpKept ==
    ASSUME TypeOK, Control, Once, Phases, Shapes, Apart, Exempt, GivenUp, Next
    PROVE  GivenUp'
<1> USE DEF Own, Undoing
<1>0. /\ Len(records) \in Nat /\ DOMAIN records = 1..Len(records) /\ records \in Seq(DOMAIN store)
      /\ \A i \in DOMAIN records : records[i] \in DOMAIN store
      /\ records' \in Seq(DOMAIN store') /\ \A i \in DOMAIN records' : records'[i] \in DOMAIN store'
  <2>1. TypeOK'
    BY TypesKept
  <2> QED BY <2>1, LenProperties, ElementOfSeq DEF TypeOK
<1> DEFINE Goal(r) == \/ PathsOf(store'[r].op) \subseteq broken'
                      \/ r \notin disturbed' /\ Before(r)'
<1> SUFFICES ASSUME NEW i \in DOMAIN records', NEW r, r = records'[i], Live(r)'
             PROVE  Goal(r)
  BY DEF GivenUp, Live, Has, Before
<1>a. /\ r \in DOMAIN store' /\ r \in DOMAIN store /\ store'[r].op = store[r].op
      /\ store'[r].before = store[r].before
      /\ \/ Live(r) \/ (r = id /\ step \in {"activate", "rollback"})
         \/ Revives(r) /\ CutOff(r)
  BY <1>0, StoreKeeps DEF Kin
<1>b. r \in disturbed' => Goal(r)
  BY <1>a, ExemptKept DEF Exempt
<1>c. Revives(r) /\ CutOff(r) => Goal(r)
  <2> SUFFICES ASSUME Revives(r), CutOff(r), r \notin disturbed' PROVE Goal(r)
    BY <1>b
  <2>1. CutsOff(r)
    BY <1>a, Revivals
  <2>2. Before(r)
    BY DEF CutOff, Sound, Disturb
  <2> QED BY <1>a, <2>1, <2>2, SameFiles DEF CutsOff
<1> SUFFICES ASSUME r \notin disturbed', ~(Revives(r) /\ CutOff(r)) PROVE Goal(r)
  BY <1>b, <1>c
<1>1. /\ r \in DOMAIN store /\ store'[r].op = store[r].op
      /\ Live(r) \/ (r = id /\ step \in {"activate", "rollback"})
  BY <1>a
<1>2. ASSUME NEW j \in DOMAIN records, r = records[j]
      PROVE  Goal(r)
  <2>1. r # id
    BY <1>2 DEF Once
  <2>2. Live(records[j])
    BY <1>1, <1>2, <2>1
  <2>3. CASE PathsOf(store[r].op) \subseteq broken
    BY <1>1, <2>3, BrokenGrows
  <2>4. CASE Before(r)
    <3>1. \A p \in PathsOf(store[r].op) : disk'[p] = disk[p]
      BY <1>1, <1>2, <2>1, <2>2, OthersStay
    <3> QED BY <1>a, <2>4, <3>1, SameFiles
  <2> QED BY <1>2, <2>2, <2>3, <2>4 DEF GivenUp
<1>3. ASSUME records' \in {records, <<>>} \/ records' = Tail(records)
      PROVE  Goal(r)
  <2>1. \E j \in DOMAIN records : r = records[j]
    <3>1. CASE records' = records
      BY <3>1
    <3>2. CASE records' = <<>>
      BY <1>0, <3>2, EmptySeq
    <3>3. CASE records' = Tail(records) /\ records # <<>>
      <4>1. /\ DOMAIN records' = 1..(Len(records) - 1) /\ i + 1 \in 1..Len(records)
            /\ Tail(records)[i] = records[i + 1]
        BY <1>0, <3>3, HeadTailProperties, LenProperties
      <4> QED BY <1>0, <3>3, <4>1
    <3>4. CASE records' = Tail(records) /\ records = <<>>
      BY <1>0, <3>4, EmptySeq
    <3> QED BY <1>3, <3>1, <3>2, <3>3, <3>4
  <2> QED BY <1>2, <2>1
<1>4. ASSUME NEW s \in DOMAIN store, records' = Append(records, s)
      PROVE  r = s \/ \E j \in DOMAIN records : r = records[j]
  <2>1. /\ Len(records') = Len(records) + 1 /\ DOMAIN records' = 1..(Len(records) + 1)
        /\ records'[Len(records) + 1] = s
        /\ \A j \in 1..Len(records) : records'[j] = records[j]
    BY <1>0, <1>4, AppendProperties, LenProperties
  <2> QED BY <1>0, <2>1
<1>5. CASE Operation
  BY <1>3, <1>5, OperationBegins DEF Begins, Begin
<1>6. CASE Archive \/ PrepareRecord \/ Activate \/ Abandon \/ Mutate
  BY <1>3, <1>6 DEF Archive, PrepareRecord, Activate, Abandon, Mutate
<1>7. CASE Publish
  <2>1. id \in DOMAIN store
    BY <1>7 DEF Publish, Control
  <2>2. records' = records \/ (records' = Append(records, id) /\ store' = Marked(id, "Published"))
    BY <1>7 DEF Publish, Mark
  <2>3. store' = Marked(id, "Published") => r # id
    BY <1>1, <2>1 DEF Marked, Live, TypeOK, Records
  <2> QED BY <1>2, <1>3, <1>4, <2>1, <2>2, <2>3
<1>8. CASE Rollback
  <2>1. id \in DOMAIN store /\ op = store[id].op
    BY <1>8 DEF Rollback, Control
  <2>2. \/ records' = records
        \/ records' = Append(records, id) /\ broken' = broken \cup PathsOf(op)
    BY <1>8 DEF Rollback
  <2> QED BY <1>1, <1>2, <1>3, <1>4, <2>1, <2>2
<1>9. CASE RestoreFails \/ MarkRestored
  <2>1. id \in DOMAIN store /\ step \notin {"activate", "rollback"}
    BY <1>9 DEF RestoreFails, MarkRestored, Control
  <2>2. \/ records' = records
        \/ /\ records' = Append(records, id)
           /\ Live(id) => broken' = broken \cup PathsOf(store[id].op)
    BY <1>9 DEF RestoreFails, MarkRestored, Keep
  <2> QED BY <1>1, <1>2, <1>3, <1>4, <2>1, <2>2
<1>10. CASE Discard
  <2>1. id \in DOMAIN store /\ ~Live(id) /\ step = "discard"
    BY <1>10 DEF Discard, Control, Phases, Live
  <2>2. records' = records \/ records' = Append(records, id)
    BY <1>10 DEF Discard
  <2> QED BY <1>1, <1>2, <1>3, <1>4, <2>1, <2>2
<1>11. CASE RestoreSource \/ CopyBack \/ ClearDestination
  BY <1>3, <1>11 DEF RestoreSource, CopyBack, ClearDestination, RestoreUnchanged
<1>12. CASE Evict \/ EvictionFails \/ Crash \/ Start \/ StartFails \/ Loaded
  BY <1>3, <1>12 DEF Evict, EvictionFails, Crash, Start, StartFails, Loaded, Interrupted
<1>13. CASE LoadRecord
  <2>1. \A s \in todo : s \in Nat /\ s \in DOMAIN store
    BY RecordTypes DEF TypeOK
  <2>2. todo # {} => \E s \in todo : \A t \in todo : s <= t
    BY <2>1, LeastRecord
  <2>3. \/ records' = records
        \/ \E s \in DOMAIN store : records' = Append(records, s) /\ ~Live(s)
    BY <1>13, <2>1, <2>2 DEF LoadRecord
  <2>4. step = "load"
    BY <1>13 DEF LoadRecord
  <2> QED BY <1>1, <1>2, <1>3, <1>4, <2>3, <2>4
<1>14. CASE \E p \in Paths, c \in Held : WriteFile(p, c)
  BY <1>3, <1>14 DEF WriteFile
<1> QED
  BY <1>5, <1>6, <1>7, <1>8, <1>9, <1>10, <1>11, <1>12, <1>13, <1>14
  DEF Next, Perform, Undo, Life

\* What operations touched grows when one begins, and the files change when one
\* moves them or another program writes.
LEMMA StakeSteps ==
    ASSUME TypeOK, Next
    PROVE  /\ archive \subseteq archive'
           /\ \/ stake' \subseteq stake /\ (UNCHANGED disk \/ Moves)
              \/ \E o \in Operations : /\ Begins(o) /\ Touching(PathsOf(o)) = {} /\ UNCHANGED disk
                                       /\ stake' = stake \cup {disk[o.source]}
              \/ \E p \in Paths, c \in Held : WriteFile(p, c)
<1> DEFINE Goal == \/ stake' \subseteq stake /\ (UNCHANGED disk \/ Moves)
                   \/ \E o \in Operations : /\ Begins(o) /\ Touching(PathsOf(o)) = {} /\ UNCHANGED disk
                                            /\ stake' = stake \cup {disk[o.source]}
                   \/ \E p \in Paths, c \in Held : WriteFile(p, c)
<1> SUFFICES Goal
  BY ArchiveGrows
<1>d. ASSUME NEW rs, NEW ps, Disturb(rs, ps) PROVE stake' \subseteq stake
  BY <1>d DEF Disturb
<1>c. ASSUME NEW r, CutOff(r) PROVE stake' \subseteq stake
  BY <1>c, <1>d DEF CutOff
<1>1. ASSUME NEW o \in Operations, Begins(o) PROVE Goal
  <2>1. UNCHANGED disk
    BY <1>1 DEF Begins, Begin
  <2>2. CASE Touching(PathsOf(o)) # {}
    <3>1. stake' \subseteq stake
      BY <1>1, <1>d, <2>2 DEF Begins, Begin
    <3> QED BY <2>1, <3>1
  <2>3. CASE Touching(PathsOf(o)) = {}
    <3>1. stake' = stake \cup {disk[o.source]}
      BY <1>1, <2>3 DEF Begins, Begin
    <3> HIDE DEF Begins
    <3> QED BY <1>1, <2>1, <2>3, <3>1
  <2> QED BY <2>2, <2>3
<1>2. CASE Archive \/ PrepareRecord \/ Activate \/ Abandon \/ Publish
  BY <1>2 DEF Archive, PrepareRecord, Activate, Abandon, Publish
<1>3. CASE Mutate \/ RestoreSource \/ CopyBack \/ ClearDestination
  BY <1>3 DEF Moves, Mutate, RestoreSource, CopyBack, ClearDestination, RestoreUnchanged
<1>4. CASE Rollback \/ RestoreFails \/ MarkRestored
  BY <1>4 DEF Rollback, RestoreFails, MarkRestored
<1>5. CASE Discard \/ EvictionFails \/ Crash
  <2>1. stake' \subseteq stake
    BY <1>5, <1>c DEF Discard, EvictionFails, Crash
  <2>2. UNCHANGED disk
    BY <1>5 DEF Discard, EvictionFails, Crash
  <2> QED BY <2>1, <2>2
<1>6. CASE Evict \/ Start \/ LoadRecord \/ StartFails \/ Loaded
  BY <1>6 DEF Evict, Start, LoadRecord, StartFails, Loaded
<1>7. CASE \E p \in Paths, c \in Held : WriteFile(p, c)
  BY <1>7
<1> QED
  BY <1>1, <1>2, <1>3, <1>4, <1>5, <1>6, <1>7, OperationBegins
  DEF Next, Perform, Undo, Life

\* A path becomes unsafe only when what it holds is given up.
LEMMA UnsafeStays ==
    ASSUME TypeOK, Control, Phases, Next, NEW p \in Paths, Unsafe(p)'
    PROVE  Unsafe(p) \/ disk[p] \notin stake'
<1> USE DEF Own, Undoing
<1> DEFINE Goal == Unsafe(p) \/ disk[p] \notin stake'
<1>0. /\ NoId \notin DOMAIN store /\ (\A r \in DOMAIN store : r # lastId + 1)
      /\ step \in {"activate", "rollback"} => op # NoOp /\ id \in DOMAIN store
      /\ Ticket \in DOMAIN store => Ticket = id
      /\ id \in DOMAIN store => Ticket = id
  BY RecordTypes, OperationTypes DEF Control, Ticket, TypeOK
<1>i. op # NoOp /\ id \in DOMAIN store => op = store[id].op
  BY <1>0 DEF Control, TypeOK, Steps
<1>1. ASSUME NEW rs, NEW ps, Disturb(rs, ps)
      PROVE  /\ p \in ps => Goal
             /\ \A r \in Touching(ps) : p \in PathsOf(store[r].op) => Goal
             /\ \A r \in disturbed' : r \in disturbed \/ r \in rs \/ r \in Touching(ps)
  BY <1>1 DEF Disturb
<1>2. ASSUME NEW r \in DOMAIN store, Live(r), p \in PathsOf(store[r].op), r \in disturbed'
      PROVE  Goal
  <2>1. CASE r \in disturbed
    BY <1>2, <2>1 DEF Unsafe
  <2>2. CASE r \notin disturbed
    <3>1. ASSUME NEW o \in Operations, Begins(o) PROVE Goal
      <4>1. Disturb({lastId + 1}, PathsOf(o))
        BY <1>2, <2>2, <3>1 DEF Begins, Begin
      <4> QED BY <1>0, <1>1, <1>2, <2>2, <4>1
    <3>2. ASSUME NEW q \in Paths, NEW c \in Held, WriteFile(q, c) PROVE Goal
      <4>1. CASE q \in Busy /\ Disturb({Ticket}, Busy)
        <5>1. r = Ticket => p \in Busy
          BY <1>0, <1>2, <1>i, <4>1 DEF Busy
        <5> QED BY <1>1, <1>2, <2>2, <4>1, <5>1
      <4>2. CASE Disturb({}, {q})
        BY <1>1, <1>2, <2>2, <4>2
      <4> QED BY <1>2, <2>2, <3>2, <4>1, <4>2 DEF WriteFile
    <3>3. ASSUME NEW s \in DOMAIN store, CutsOff(s) PROVE Goal
      <4>1. Disturb({s}, PathsOf(store[s].op))
        BY <1>2, <2>2, <3>3 DEF CutsOff, CutOff
      <4> QED BY <1>1, <1>2, <2>2, <4>1
    <3> QED BY <1>2, <2>2, <3>1, <3>2, <3>3, Disturbances
  <2> QED BY <2>1, <2>2
<1>3. ASSUME op # NoOp, op' = op, Ticket \in disturbed', p \in PathsOf(op)
      PROVE  Goal
  <2>1. CASE Ticket \in disturbed
    BY <1>3, <2>1 DEF Unsafe, Busy
  <2>2. CASE Ticket \notin disturbed
    <3>1. \A o \in Operations : ~Begins(o)
      BY <1>3 DEF Begins, Begin, Control
    <3>2. PICK q \in Paths, c \in Held : WriteFile(q, c)
      BY <1>3, <2>2, <3>1, Disturbances DEF CutsOff
    <3>3. CASE Disturb({Ticket}, Busy)
      BY <1>1, <1>3, <3>3 DEF Busy
    <3>4. CASE Disturb({}, {q})
      <4>1. Ticket \in Touching({q})
        BY <1>1, <1>3, <2>2, <3>4
      <4>2. Ticket \in DOMAIN store
        BY <4>1 DEF Touching
      <4>3. p \in PathsOf(store[Ticket].op)
        BY <1>0, <1>3, <1>i, <4>2
      <4> QED BY <1>1, <3>4, <4>1, <4>3
    <3> QED BY <1>3, <2>2, <3>2, <3>3, <3>4 DEF WriteFile
  <2> QED BY <2>1, <2>2
<1>4. ASSUME NEW r \in DOMAIN store' \cap disturbed', Live(r)', p \in PathsOf(store'[r].op)
      PROVE  Goal
  <2>1. /\ r \in DOMAIN store /\ store'[r].op = store[r].op
        /\ \/ Live(r) \/ (r = id /\ step \in {"activate", "rollback"})
           \/ Revives(r) /\ CutOff(r)
    BY <1>4, StoreKeeps DEF Kin
  <2>2. CASE Live(r)
    BY <1>2, <1>4, <2>1, <2>2
  <2>3. CASE r = id /\ step \in {"activate", "rollback"} /\ ~Live(r)
    <3>1. \A o \in Operations : ~Begins(o)
      BY <2>3 DEF Begins, Begin
    <3>2. \A q \in Paths, c \in Held : ~WriteFile(q, c)
      BY <1>4, <2>3 DEF WriteFile, Live, Has
    <3>3. r \in disturbed
      BY <1>4, <2>3, <3>1, <3>2, Disturbances DEF CutsOff
    <3>4. r = Ticket /\ op # NoOp /\ op = store[r].op
      BY <1>0, <1>i, <2>3
    <3> QED BY <1>4, <2>1, <3>3, <3>4 DEF Unsafe, Busy
  <2>4. CASE Revives(r) /\ CutOff(r)
    <3>1. Disturb({r}, PathsOf(store[r].op))
      BY <1>4, <2>4 DEF CutOff, Sound
    <3> QED BY <1>1, <1>4, <2>1, <3>1
  <2> QED BY <2>1, <2>2, <2>3, <2>4
<1>5. ASSUME op' # NoOp, Ticket' \in disturbed', p \in PathsOf(op')
      PROVE  Goal
  <2>1. CASE op' = op /\ op # NoOp /\ Ticket' = Ticket
    BY <1>3, <1>5, <2>1
  <2>2. ASSUME NEW o \in Operations, Begins(o), op' = o PROVE Goal
    <3>1. Ticket' = lastId + 1
      BY <2>2 DEF Begins, Begin, Control, Ticket
    <3>2. Disturb({lastId + 1}, PathsOf(o))
      BY <1>5, <2>2, <3>1 DEF Begins, Begin
    <3> QED BY <1>1, <1>5, <2>2, <3>2
  <2> QED BY <1>5, <2>1, <2>2, OperationSteps
<1> QED BY <1>4, <1>5 DEF Unsafe, Busy

\* Performing and undoing an operation changes no other path than its own.
LEMMA OnlyOwn ==
    ASSUME TypeOK, Control, Shapes, Moves
    PROVE  \A p \in Paths \ PathsOf(store[id].op) : disk'[p] = disk[p]
<1> USE DEF Own, Undoing
<1>1. id \in DOMAIN store /\ (Mutate => op = store[id].op)
  BY DEF Moves, Mutate, RestoreSource, CopyBack, ClearDestination, Control
<1>2. store[id].op.source \in PathsOf(store[id].op) /\ store[id].op.destination \in PathsOf(store[id].op)
  BY <1>1, RecordTypes, OperationTypes DEF Shapes, WellFormed, PathsOf
<1>3. CASE Mutate
  BY <1>1, <1>2, <1>3 DEF Mutate, Moved, Linked, Deleted, TypeOK
<1>4. CASE RestoreSource \/ CopyBack \/ ClearDestination
  BY <1>1, <1>2, <1>4 DEF RestoreSource, CopyBack, ClearDestination, Restored, TypeOK
<1> QED BY <1>3, <1>4 DEF Moves

\* What a file held is never only in a snapshot: a deletion archived it, and a
\* rename, done, undone or cut off, has it under one of its names.
LEMMA KeptKept ==
    ASSUME TypeOK, Control, Shapes, Phases, Snapshots, Halfway, Apart, Kept,
           Next
    PROVE  Kept'
<1> USE DEF Own, Undoing
<1>0. /\ archive \subseteq archive'
      /\ \A p \in Paths : disk[p] \in stake' /\ ~Unsafe(p) => ~Unsafe(p)'
  BY StakeSteps, UnsafeStays
<1>1. CASE stake' \subseteq stake /\ UNCHANGED disk
  BY <1>0, <1>1 DEF Kept
<1>2. CASE stake' \subseteq stake /\ Moves
  <2> DEFINE o == store[id].op
             b == store[id].before
  <2>1. id \in DOMAIN store /\ Live(id) /\ (op # NoOp => op = o)
    BY <1>2, OperationTypes
    DEF Moves, Mutate, RestoreSource, CopyBack, ClearDestination, Control, Phases
  <2>2. \A p \in Paths \ PathsOf(o) : disk'[p] = disk[p]
    BY <1>2, OnlyOwn
\* The operation is not disturbed where one of its paths is safe, and then all are.
  <2>3. ASSUME NEW c \in stake', NEW p \in Paths, disk[p] = c, ~Unsafe(p), p \in PathsOf(o)
        PROVE  c \in archive \/ \E q \in Paths : disk'[q] = c /\ ~Unsafe(q)'
    <3>1. id \notin disturbed
      BY <2>1, <2>3 DEF Unsafe
    <3>2. /\ o \in Operations /\ o.kind \in {"Rename", "Delete"} /\ o.source \in Paths /\ o.destination \in Paths
          /\ o.kind = "Rename" <=> o.source # o.destination
          /\ b[o.source] # Absent
          /\ o.kind = "Rename" => b[o.destination] = Absent
          /\ o.kind = "Delete" => b[o.source] \in archive
      BY <2>1, <3>1, RecordTypes, OperationTypes DEF Shapes, WellFormed, Snapshots, MayPerform
    <3>3. /\ Before(id) \/ Performed(id) \/ Between(id)
          /\ o.kind = "Delete" => (Before(id) <=> disk[o.source] = b[o.source])
          /\ o.kind = "Rename" => (Before(id) <=> /\ disk[o.source] = b[o.source]
                                                  /\ disk[o.destination] = b[o.destination])
      BY <2>1, <3>1, StatesOfFiles DEF Halfway
    <3>4. p \in {o.source, o.destination}
      BY <2>3 DEF PathsOf
    <3>5. c \in {b[o.source], Absent}
      BY <2>3, <3>2, <3>3, <3>4 DEF Performed, Between
    <3>6. c = b[o.source]
      BY <1>2, <2>3, <3>5 DEF Kept
    <3>7. UNCHANGED <<store, id>> /\ (Before(id)' \/ Performed(id)' \/ Between(id)')
      BY <1>2, <3>1, MutateMoves, RestoreMoves DEF Moves
    <3>8. o.kind = "Rename" => \E q \in PathsOf(o) : disk'[q] = b[o.source]
      <4>1. o.source \in PathsOf(o) /\ (o.kind = "Rename" => o.destination \in PathsOf(o))
        BY <3>2, OperationTypes
      <4>2. /\ Before(id)' => disk'[o.source] = b[o.source]
            /\ Performed(id)' /\ o.kind = "Rename" => disk'[o.destination] = b[o.source]
            /\ Between(id)' => disk'[o.source] = b[o.source]
        BY <3>7, <4>1 DEF Before, Performed, Between
      <4> QED BY <3>2, <3>7, <4>1, <4>2
    <3>9. ASSUME NEW q \in PathsOf(o) PROVE ~Unsafe(q)'
      <4>1. UNCHANGED <<store, id, disturbed, lastId>> /\ op' = op
        BY <1>2 DEF Moves, Mutate, RestoreSource, CopyBack, ClearDestination, RestoreUnchanged
      <4>2. ASSUME NEW r \in DOMAIN store \cap disturbed, Live(r), q \in PathsOf(store[r].op)
            PROVE  FALSE
        <5>1. r # id
          BY <3>1, <4>2
        <5> QED BY <2>1, <3>1, <3>9, <4>2, <5>1 DEF Apart
      <4>3. Ticket = id
        BY <2>1, RecordTypes DEF Ticket
      <4>4. ~Unsafe(q)
        BY <3>1, <4>2, <4>3 DEF Unsafe
      <4>5. Ticket' = Ticket /\ Busy' = Busy /\ \A r \in DOMAIN store : Live(r)' = Live(r)
        BY <4>1 DEF Ticket, Busy, Live, Has
      <4> QED BY <4>1, <4>4, <4>5 DEF Unsafe
    <3>10. PathsOf(o) \subseteq Paths
      BY <3>2, OperationTypes
    <3> HIDE DEF o, b
    <3> QED BY <3>2, <3>6, <3>8, <3>9, <3>10
  <2>4. ASSUME NEW c \in stake', NEW p \in Paths, disk[p] = c, ~Unsafe(p), p \notin PathsOf(o)
        PROVE  \E q \in Paths : disk'[q] = c /\ ~Unsafe(q)'
    BY <1>0, <2>2, <2>4
  <2> HIDE DEF o, b
  <2> QED BY <1>0, <1>2, <2>3, <2>4 DEF Kept
<1>3. ASSUME NEW o \in Operations, Begins(o), Touching(PathsOf(o)) = {}, UNCHANGED disk,
             stake' = stake \cup {disk[o.source]}
      PROVE  Kept'
  <2>1. o.source \in Paths /\ o.source \in PathsOf(o) /\ o # NoOp
    BY OperationTypes
  <2>2. UNCHANGED <<store, id, lastId>> /\ op' = o /\ disturbed' = disturbed \ {lastId + 1}
    BY <1>3 DEF Begins, Begin
  <2>3. Ticket' = lastId + 1
    BY <1>3 DEF Begins, Begin, Control, Ticket
  <2>4. ASSUME Unsafe(o.source)' PROVE FALSE
    <3>1. PICK r \in DOMAIN store : Live(r) /\ o.source \in PathsOf(store[r].op)
      BY <2>2, <2>3, <2>4 DEF Unsafe, Live, Has
    <3> QED BY <1>3, <2>1, <3>1 DEF Touching
  <2>5. disk[o.source] # Absent
    BY <1>3 DEF Begins
  <2> QED BY <1>0, <1>3, <2>1, <2>4, <2>5 DEF Kept
<1>4. ASSUME NEW p \in Paths, NEW c \in Held, WriteFile(p, c)
      PROVE  Kept'
  <2>1. stake' \subseteq stake /\ disk[p] \notin stake'
    BY <1>4 DEF WriteFile, Disturb
  <2>2. \A q \in Paths : q # p => disk'[q] = disk[q]
    BY <1>4, WritesDisturb
  <2> QED BY <1>0, <2>1, <2>2 DEF Kept
<1> QED BY <1>1, <1>2, <1>3, <1>4, StakeSteps

-----------------------------------------------------------------------------
(* The invariant.                                                           *)

\* The invariant holds at the start.
LEMMA Initially ==
    ASSUME Init
    PROVE  IInv
<1>1. store = <<>> /\ DOMAIN store = {} /\ records = <<>> /\ DOMAIN records = {}
  BY DEF Init
<1>2. TypeOK
  BY <1>1, EmptySeq DEF Init, TypeOK, Steps, NoId
<1>3. Control /\ Once
  BY ControlInit
<1>4. Phases /\ Shapes /\ Snapshots /\ Halfway /\ Apart /\ Exempt /\ GivenUp /\ Kept
  BY <1>1 DEF Init, Phases, Shapes, Snapshots, Halfway, PlaceOf, Apart, Exempt, GivenUp, Kept
<1> QED BY <1>2, <1>3, <1>4 DEF IInv

\* Every step keeps the invariant.
LEMMA Inductive ==
    ASSUME IInv, [Next]_vars
    PROVE  IInv'
<1>1. CASE Next
  BY <1>1, TypesKept, ControlKept, HoldingsKept, PhasesKept, ShapesKept, SnapshotsKept,
     HalfwayKept, ApartKept, ExemptKept, GivenUpKept, KeptKept
  DEF IInv
<1>2. CASE UNCHANGED vars
  <2>1. /\ UNCHANGED <<disk, archive, store, records, step, op, id, todo>>
        /\ UNCHANGED <<operations, writes, crashes, up, lastId, done, broken, stake, disturbed, failures>>
    BY <1>2 DEF vars
  <2>2. TypeOK'
    BY <2>1 DEF IInv, TypeOK
  <2>3. Control' /\ Once'
    BY <2>1 DEF IInv, Control, Once
  <2>4. Phases' /\ Shapes' /\ Snapshots'
    BY <2>1 DEF IInv, Phases, Shapes, Snapshots, MayPerform, Ticket, Live, Has
  <2>5. Halfway'
    BY <2>1 DEF IInv, Halfway, PlaceOf, Before, Performed, Between, Live, Has
  <2>6. Apart' /\ Exempt' /\ GivenUp'
    BY <2>1 DEF IInv, Apart, Exempt, GivenUp, Ticket, Before, Live, Has
  <2>7. Kept'
    BY <2>1 DEF IInv, Kept, Unsafe, Ticket, Busy, Live, Has
  <2> QED BY <2>2, <2>3, <2>4, <2>5, <2>6, <2>7 DEF IInv
<1> QED BY <1>1, <1>2

\* At every reachable state the invariant holds.
THEOREM RecordsAndFilesAgree ==
    Spec => []IInv
BY Initially, Inductive, PTL DEF Spec

\* What a file held when an operation on it began is held by a path or by the
\* archive, through failures, crashes, restarts, evicted records, removals of a
\* record that are cut off, and other programs; what Disturb takes out of stake is
\* not spoken of.
THEOREM NothingIsLost ==
    Spec => []NothingLost
<1>1. IInv => NothingLost
  BY DEF IInv, Kept, NothingLost
<1> QED BY <1>1, RecordsAndFilesAgree, PTL

-----------------------------------------------------------------------------
(* Operations are atomic.                                                   *)

\* What the paths are taken to hold is said by the one operation that decides
\* it, or by the disk.  Only of broken paths a disturbed operation speaks.
Says(r, p) == r \in Deciding /\ p \in PathsOf(store[r].op)
Spoken ==
    \A p \in Paths :
       /\ Decided(p) \in Held
       /\ \A r \in DOMAIN store \ disturbed : Says(r, p) => Decided(p) = store[r].before[p]
       /\ (\A r \in DOMAIN store : ~Says(r, p)) => Decided(p) = disk[p]
       /\ p \notin broken => \A r \in DOMAIN store : Says(r, p) => r \notin disturbed

\* The record that decides is undecided, or is the published one of the operation
\* under way, which has been performed.
LEMMA DecidersAre ==
    ASSUME IInv, NEW r \in Deciding
    PROVE  /\ r \in DOMAIN store
           /\ Live(r) \/ (/\ r = id /\ step = "rollback" /\ ~Live(r) /\ Ticket = r
                          /\ op # NoOp /\ op = store[r].op /\ (r \notin disturbed => Performed(r)))
           /\ r \in disturbed => PathsOf(store[r].op) \subseteq broken
<1>1. r \in DOMAIN store
  BY DEF Deciding
<1>2. ASSUME ~Live(r)
      PROVE  /\ r = id /\ step = "rollback" /\ Ticket = r
             /\ op # NoOp /\ op = store[r].op /\ (r \notin disturbed => Performed(r))
  <2>1. r = id /\ step = "rollback"
    BY <1>2 DEF Deciding, IInv, Phases
  <2>2. op # NoOp /\ op = store[r].op /\ Ticket = r
    BY <1>1, <2>1, OperationTypes, RecordTypes DEF IInv, Control, Own, Ticket
  <2>3. store[r].state \in States
    BY <1>1, RecordTypes DEF IInv
  <2>4. store[r].state = "Published"
    BY <1>2, <2>1, <2>3 DEF IInv, Phases, Live, Has, States
  <2> QED BY <2>1, <2>2, <2>4 DEF IInv, Halfway, PlaceOf
<1>3. r \in disturbed => PathsOf(store[r].op) \subseteq broken
  BY <1>1, <1>2 DEF IInv, Exempt
<1> QED BY <1>1, <1>2, <1>3

\* Every path is spoken for by at most one record: undecided operations are apart.
LEMMA DecisionsAreSpoken == IInv => Spoken
<1> SUFFICES ASSUME IInv, NEW p \in Paths
             PROVE  /\ Decided(p) \in Held
                    /\ \A r \in DOMAIN store \ disturbed : Says(r, p) => Decided(p) = store[r].before[p]
                    /\ (\A r \in DOMAIN store : ~Says(r, p)) => Decided(p) = disk[p]
                    /\ p \notin broken => \A r \in DOMAIN store : Says(r, p) => r \notin disturbed
  BY DEF Spoken
<1>1. \A r \in Deciding : r \in DOMAIN store
  BY DEF Deciding
<1>2. ASSUME NEW r \in Deciding, NEW s \in Deciding, r \notin disturbed,
             p \in PathsOf(store[r].op), p \in PathsOf(store[s].op)
      PROVE  r = s
  BY <1>1, <1>2, DecidersAre DEF IInv, Apart
<1>3. ASSUME NEW r \in DOMAIN store \ disturbed, Says(r, p)
      PROVE  Decided(p) = store[r].before[p]
  <2> DEFINE s == CHOOSE s \in Deciding : p \in PathsOf(store[s].op)
  <2>1. s \in Deciding /\ p \in PathsOf(store[s].op)
    BY <1>3 DEF Says
  <2>2. s = r
    BY <1>2, <1>3, <2>1 DEF Says
  <2> QED BY <1>3, <2>2 DEF Decided, Says
<1>4. ASSUME \A r \in DOMAIN store : ~Says(r, p)
      PROVE  Decided(p) = disk[p]
  BY <1>1, <1>4 DEF Decided, Says
<1>5. Decided(p) \in Held
  <2>1. CASE \E r \in Deciding : p \in PathsOf(store[r].op)
    <3> DEFINE s == CHOOSE s \in Deciding : p \in PathsOf(store[s].op)
    <3>1. s \in Deciding
      BY <2>1
    <3>2. Decided(p) = store[s].before[p]
      BY <2>1 DEF Decided
    <3>3. store[s].before \in [Paths -> Held]
      BY <1>1, <3>1, RecordTypes DEF IInv
    <3> QED BY <3>2, <3>3
  <2>2. CASE ~(\E r \in Deciding : p \in PathsOf(store[r].op))
    BY <2>2 DEF Decided, IInv, TypeOK
  <2> QED BY <2>1, <2>2
<1>6. ASSUME p \notin broken, NEW r \in DOMAIN store, Says(r, p) PROVE r \notin disturbed
  BY <1>6, DecidersAre DEF Says
<1> QED BY <1>3, <1>4, <1>5, <1>6

\* The same after a step.
LEMMA SpokenNext == IInv' => Spoken'
BY DecisionsAreSpoken, PTL

\* A record decides after a step only if it did before, is activated, or was
\* undone and its removal is interrupted.
LEMMA DecidersStay ==
    ASSUME IInv, Next, NEW r \in DOMAIN store', r \in Deciding'
    PROVE  /\ r \in DOMAIN store /\ store'[r].op = store[r].op /\ store'[r].before = store[r].before
           /\ \/ r \in Deciding \/ (r = id /\ step = "activate")
              \/ Revives(r) /\ CutsOff(r)
<1> USE DEF Own, Undoing
<1>1. CASE Live(r)'
  <2>1. /\ r \in DOMAIN store /\ store'[r].op = store[r].op /\ store'[r].before = store[r].before
        /\ \/ Live(r) \/ (r = id /\ step \in {"activate", "rollback"})
           \/ Revives(r) /\ CutsOff(r)
    BY <1>1, StoreKeeps, Revivals DEF Kin, IInv
  <2> QED BY <2>1 DEF Deciding
<1>2. CASE r = id' /\ step' \in {"publish", "rollback"}
  <2>1. r = id /\ id \in DOMAIN store /\ (Live(id) \/ step \in {"publish", "rollback"})
    <3>1. CASE Quiet
      BY <1>2, <3>1 DEF Quiet, IInv, Control
    <3>2. CASE Mutate
      BY <1>2, <3>2 DEF Mutate, IInv, Control, Phases
    <3>3. CASE RestoreSource \/ CopyBack \/ ClearDestination
      BY <1>2, <3>3 DEF RestoreSource, CopyBack, ClearDestination
    <3> QED BY <3>1, <3>2, <3>3, QuietSteps DEF IInv, Moves
  <2> QED BY <2>1, StoreKeeps DEF Kin, Deciding, IInv
<1> QED BY <1>1, <1>2 DEF Deciding

\* A decision is dropped where the disk says the same, where the paths are
\* reported as broken, or where the operation is finished.
Finishes ==
    /\ step \in {"publish", "rollback"}
    /\ id \in DOMAIN store /\ op = store[id].op /\ op # NoOp
    /\ Performed(id) \/ PathsOf(op) \subseteq broken
    /\ op' = NoOp /\ done' \in {done, done + 1} /\ UNCHANGED <<disk, writes, broken>>
    /\ \A r \in Deciding : r # id => r \in Deciding'

Drops(r) ==
    \/ Before(r) /\ UNCHANGED disk
    \/ PathsOf(store[r].op) \subseteq broken'
    \/ r = id /\ Finishes

\* A record stops deciding only when its decision is dropped.
LEMMA DecidersLost ==
    ASSUME IInv, Next, NEW r \in Deciding, r \notin Deciding'
    PROVE  Drops(r)
<1> USE DEF Own, Undoing
<1>a. CASE r \in disturbed
  <2>1. PathsOf(store[r].op) \subseteq broken
    BY <1>a, DecidersAre
  <2> QED BY <2>1, BrokenGrows DEF Drops
<1> SUFFICES ASSUME r \notin disturbed PROVE Drops(r)
  BY <1>a
<1>0. /\ r \in DOMAIN store
      /\ Live(r) \/ (/\ r = id /\ step = "rollback" /\ ~Live(r)
                     /\ op # NoOp /\ op = store[r].op /\ Performed(r))
      /\ TypeOK /\ Control /\ Phases /\ store[r] \in Records
  BY DecidersAre DEF IInv, TypeOK
<1>p. r = id => PlaceOf
  BY DEF IInv, Halfway
<1>1. ASSUME NEW s \in DOMAIN store, s \in DOMAIN store', store'[s] = store[s], Live(s)
      PROVE  s \in Deciding'
  BY <1>1 DEF Deciding, Live, Has
<1>2. ASSUME NEW s, Shrinks(s) \/ store' = store, NEW t \in DOMAIN store, t # s
      PROVE  t \in DOMAIN store' /\ store'[t] = store[t]
  BY <1>2 DEF Shrinks, Without, Remains
<1>3. ASSUME NEW state, NEW t \in DOMAIN store, store' = Marked(id, state), t # id
      PROVE  t \in DOMAIN store' /\ store'[t] = store[t]
  BY <1>3 DEF Marked
<1>4. ASSUME UNCHANGED store PROVE step = "rollback" /\ ~Live(r) /\ r = id
  BY <1>0, <1>1, <1>4
<1>5. ASSUME UNCHANGED store, UNCHANGED id, step' \in {"publish", "rollback"} PROVE FALSE
  BY <1>0, <1>1, <1>5 DEF Deciding
<1>6. CASE Operation
  BY <1>4, <1>6, OperationBegins DEF Begins, Begin
<1>7. CASE Archive \/ Start \/ StartFails \/ Loaded
  BY <1>0, <1>4, <1>7 DEF Archive, Start, StartFails, Loaded, Control
<1>8. CASE RestoreSource \/ CopyBack \/ ClearDestination \/ RestoreFails
  BY <1>4, <1>8 DEF RestoreSource, CopyBack, ClearDestination, RestoreFails, RestoreUnchanged
<1>9. CASE Mutate
  BY <1>4, <1>9 DEF Mutate
<1>10. CASE \E p \in Paths, c \in Held : WriteFile(p, c)
  BY <1>4, <1>5, <1>10 DEF WriteFile
<1>11. CASE PrepareRecord
  <2>1. store' = store \/ store' = Stored(lastId + 1, Prepared)
    BY <1>11 DEF PrepareRecord
  <2>2. r # lastId + 1 /\ step = "prepare"
    BY <1>0, <1>11, RecordTypes DEF PrepareRecord, TypeOK
  <2>3. r \in DOMAIN store' /\ store'[r] = store[r]
    BY <1>0, <2>1, <2>2 DEF Stored
  <2> QED BY <1>0, <1>1, <2>2, <2>3
<1>12. CASE Activate
  <2>1. r # id /\ Live(r)
    BY <1>0, <1>12 DEF Activate, Phases, Live
  <2>2. store' = store \/ store' = Marked(id, "InProgress")
    BY <1>12 DEF Activate, Mark
  <2> QED BY <1>0, <1>1, <1>3, <2>1, <2>2
<1>13. CASE Abandon
  <2>1. Shrinks(id) /\ UNCHANGED disk /\ step = "abandon"
    BY <1>0, <1>13 DEF Abandon, Shrinks, Phases
  <2>2. r = id
    BY <1>0, <1>1, <1>2, <2>1
  <2> QED BY <1>p, <2>1, <2>2 DEF Drops, PlaceOf
<1>14. CASE Publish
  <2>1. Live(r) /\ op # NoOp /\ id \in DOMAIN store /\ op = store[id].op /\ step = "publish"
    BY <1>0, <1>14, OperationTypes DEF Publish, Control
  <2>2. store' = store \/ store' = Marked(id, "Published")
    BY <1>14 DEF Publish, Mark
  <2>3. \A s \in Deciding : s # id => s \in Deciding'
    <3>1. \A s \in Deciding : s # id => s \in DOMAIN store /\ Live(s)
      BY DecidersAre
    <3> QED BY <1>1, <1>3, <2>2, <3>1
  <2>4. r = id
    BY <2>3
  <2>5. step' = "evict"
    <3>1. ASSUME step' = "rollback" PROVE id' \in Deciding' /\ id' = id
      <4>1. id' = id /\ id \in DOMAIN store'
        BY <1>14, <2>1, <2>2, <3>1 DEF Publish, Mark, Marked
      <4> QED BY <3>1, <4>1 DEF Deciding
    <3> QED BY <1>14, <2>4, <3>1 DEF Publish, Mark
  <2>6. op' = NoOp /\ done' = done + 1 /\ UNCHANGED <<disk, writes, broken>>
    BY <1>14, <2>5 DEF Publish, Mark
  <2> QED BY <1>p, <2>1, <2>3, <2>4, <2>6 DEF Drops, Finishes, PlaceOf
<1>15. CASE Rollback
  <2>1. id \in DOMAIN store /\ op = store[id].op /\ store[id] \in Records
    BY <1>0, <1>15 DEF Rollback, Control, TypeOK
  <2>2. store' = store \/ store' = Marked(id, "InProgress")
    BY <1>15 DEF Rollback
  <2>3. r = id
    BY <1>0, <1>1, <1>3, <2>2
  <2>4. step' # "restore"
    <3>1. ASSUME store' = Marked(id, "InProgress") PROVE Live(r)' /\ r \in DOMAIN store'
      <4>1. /\ store'[r].parts = store[r].parts \cup {"state"} /\ store'[r].state = "InProgress"
            /\ r \in DOMAIN store'
        BY <2>1, <2>3, <3>1 DEF Marked, Records
      <4>2. {"manifest", "state"} \subseteq store[r].parts /\ ~Has(r, "restored")
        BY <1>0, <1>15, <2>3 DEF Rollback, Phases
      <4> QED BY <4>1, <4>2 DEF Live, Has
    <3> QED BY <1>15, <3>1 DEF Rollback, Deciding
  <2> QED BY <1>15, <2>1, <2>3, <2>4 DEF Rollback, Drops
<1>16. CASE MarkRestored
  <2>1. UNCHANGED disk /\ step = "undone"
    BY <1>16 DEF MarkRestored
  <2>2. \A t \in DOMAIN store : t # id => t \in DOMAIN store' /\ store'[t] = store[t]
    BY <1>16 DEF MarkRestored
  <2>3. r = id
    BY <1>0, <1>1, <2>1, <2>2
  <2> QED BY <1>p, <2>1, <2>3 DEF Drops, PlaceOf
<1>17. CASE Discard
  <2>1. Shrinks(id) /\ step # "rollback" /\ ~Live(id)
    BY <1>0, <1>17 DEF Discard, Shrinks, CutOff, Phases, Live, Has
  <2> QED BY <1>0, <1>1, <1>2, <2>1
<1>18. ASSUME NEW i \in DOMAIN records, Shrinks(records[i]) \/ store' = store, step # "rollback",
              op' = NoOp, UNCHANGED disk
       PROVE  Drops(r)
  <2>1. r = records[i] /\ Live(records[i])
    BY <1>0, <1>1, <1>2, <1>18
  <2> QED BY <1>18, <2>1, BrokenGrows DEF Drops, IInv, GivenUp
<1>19. CASE Evict \/ EvictionFails
  <2>1. /\ step \in {"evict", "fit"} /\ UNCHANGED disk /\ op' = NoOp
        /\ store' = store \/ (Len(records) > MaxRecords /\ Shrinks(records[1]))
    BY <1>0, <1>19 DEF Evict, EvictionFails, Shrinks, CutOff, Interrupted, Control
  <2> QED BY <1>4, <1>18, <2>1, <1>0, Oldest
<1>20. CASE Crash
  <2>1. /\ op' = NoOp /\ UNCHANGED <<disk, done, writes>>
        /\ UNCHANGED <<store, broken>> \/ \E s \in BeingRemoved : CutOff(s)
    BY <1>20 DEF Crash, Interrupted
  <2>2. CASE UNCHANGED <<store, broken>>
    <3>1. \A s \in Deciding : s # id => s \in Deciding'
      <4>1. \A s \in Deciding : s # id => s \in DOMAIN store /\ Live(s)
        BY DecidersAre
      <4> QED BY <1>1, <2>2, <4>1
    <3> QED BY <1>0, <1>4, <2>1, <2>2, <3>1 DEF Drops, Finishes
  <2>3. ASSUME NEW s \in BeingRemoved, CutOff(s)
        PROVE  Drops(r)
    <3>1. Shrinks(s)
      BY <2>3 DEF Shrinks, CutOff
    <3>2. CASE step = "discard" /\ s = id
      <4>1. ~Live(id)
        BY <1>0, <3>2 DEF Phases, Live, Has
      <4> QED BY <1>0, <1>1, <1>2, <3>1, <3>2, <4>1
    <3>3. CASE step = "abandon" /\ s = id
      <4>1. r = id
        BY <1>0, <1>1, <1>2, <3>1, <3>3
      <4> QED BY <1>p, <2>1, <3>3, <4>1 DEF Drops, PlaceOf
    <3>4. CASE step \in {"evict", "fit"} /\ Len(records) > MaxRecords /\ s = records[1]
      BY <1>0, <1>18, <2>1, <3>1, <3>4, Oldest
    <3> QED BY <2>3, <3>2, <3>3, <3>4 DEF BeingRemoved
  <2> QED BY <2>1, <2>2, <2>3
<1>21. CASE LoadRecord
  <2>1. store' = store \/ \E s \in DOMAIN store : store' = Without(s) /\ ~Live(s)
    <3>1. \A s \in todo : s \in Nat /\ s \in DOMAIN store
      BY <1>0, RecordTypes DEF TypeOK
    <3>2. todo # {} => \E s \in todo : \A t \in todo : s <= t
      BY <3>1, LeastRecord
    <3> QED BY <1>21, <3>1, <3>2 DEF LoadRecord, Live
  <2>2. step = "load"
    BY <1>21 DEF LoadRecord
  <2> QED BY <1>0, <1>1, <1>2, <2>1, <2>2 DEF Shrinks
<1> QED
  BY <1>6, <1>7, <1>8, <1>9, <1>10, <1>11, <1>12, <1>13, <1>14, <1>15, <1>16, <1>17,
     <1>19, <1>20, <1>21 DEF Next, Perform, Undo, Life

\* An operation is reported as done when its record is published.
LEMMA ReportedIsFinished ==
    ASSUME IInv, Next, done' # done
    PROVE  id \in Deciding /\ id \notin Deciding' /\ Finishes
<1>0. TypeOK /\ Control /\ Phases /\ Halfway /\ Exempt
  BY DEF IInv
<1>1. Publish /\ step' = "evict"
  <2>1. CASE Operation
    BY <2>1, OperationBegins DEF Begins, Begin
  <2>2. CASE Archive \/ PrepareRecord \/ Activate \/ Abandon \/ Mutate
    BY <2>2 DEF Archive, PrepareRecord, Activate, Abandon, Mutate
  <2>3. CASE Undo
    BY <2>3 DEF Undo, Rollback, RestoreSource, CopyBack, ClearDestination, RestoreFails,
                MarkRestored, Discard, RestoreUnchanged
  <2>4. CASE Life
    BY <2>4 DEF Life, Evict, EvictionFails, Crash, Start, LoadRecord, StartFails, Loaded
  <2>5. CASE \E p \in Paths, c \in Held : WriteFile(p, c)
    BY <2>5 DEF WriteFile
  <2>6. CASE Publish
    BY <2>6 DEF Publish, Mark
  <2> QED BY <2>1, <2>2, <2>3, <2>4, <2>5, <2>6 DEF Next, Perform
<1>2. /\ store' = Marked(id, "Published") /\ id' = NoId /\ op' = NoOp /\ done' = done + 1
      /\ UNCHANGED <<disk, writes, broken>>
  BY <1>1 DEF Publish, Mark
<1>3. /\ id \in DOMAIN store /\ Live(id) /\ op = store[id].op /\ op # NoOp
      /\ store[id] \in Records /\ id # NoId /\ step = "publish"
  BY <1>0, <1>1, RecordTypes, OperationTypes DEF Publish, Control, Own, Phases
<1>p. Performed(id) \/ PathsOf(op) \subseteq broken
  BY <1>0, <1>3 DEF Halfway, PlaceOf, Exempt
<1>4. id \in Deciding
  BY <1>3 DEF Deciding
<1>5. id \notin Deciding'
  <2>1. store'[id].state = "Published"
    BY <1>2, <1>3 DEF Marked, Records
  <2> QED BY <1>2, <1>3, <2>1 DEF Deciding, Live
<1>6. ASSUME NEW r \in Deciding, r # id PROVE r \in Deciding'
  <2>1. r \in DOMAIN store /\ Live(r)
    BY <1>1, DecidersAre DEF Publish
  <2>2. r \in DOMAIN store' /\ store'[r] = store[r]
    BY <1>2, <1>6, <2>1 DEF Marked
  <2> QED BY <2>1, <2>2 DEF Deciding, Live, Has
<1> QED BY <1>2, <1>3, <1>p, <1>4, <1>5, <1>6 DEF Finishes

\* Paths become broken by an answer, by an operation that begins on paths still to
\* be undone, or by a write to those.
LEMMA BrokenSteps ==
    ASSUME TypeOK, Control, Next
    PROVE  \/ broken' = broken \/ op' = NoOp
           \/ \E o \in Operations : Begins(o)
           \/ \E p \in Paths, c \in Held : WriteFile(p, c)
<1>1. CASE Operation
  BY <1>1, OperationBegins
<1>2. CASE Perform
  BY <1>2 DEF Perform, Archive, PrepareRecord, Activate, Abandon, Mutate, Publish
<1>3. CASE Undo
  BY <1>3 DEF Undo, Rollback, RestoreSource, CopyBack, ClearDestination, RestoreFails,
              MarkRestored, Discard, Keep, RestoreUnchanged
<1>4. CASE Evict \/ Start \/ LoadRecord \/ StartFails \/ Loaded
  BY <1>4 DEF Evict, Start, LoadRecord, StartFails, Loaded
<1>5. CASE EvictionFails \/ Crash
  BY <1>5 DEF EvictionFails, Crash, Interrupted, Control
<1>6. CASE \E p \in Paths, c \in Held : WriteFile(p, c)
  BY <1>6
<1> QED BY <1>1, <1>2, <1>3, <1>4, <1>5, <1>6 DEF Next, Life

\* Only other programs' writes are counted.
LEMMA WriteSteps ==
    ASSUME Next
    PROVE  UNCHANGED writes \/ \E p \in Paths, c \in Held : WriteFile(p, c)
<1>1. CASE Operation
  BY <1>1, OperationBegins DEF Begins, Begin
<1>2. CASE Perform
  BY <1>2 DEF Perform, Archive, PrepareRecord, Activate, Abandon, Mutate, Publish
<1>3. CASE Undo
  BY <1>3 DEF Undo, Rollback, RestoreSource, CopyBack, ClearDestination, RestoreFails,
              MarkRestored, Discard, RestoreUnchanged
<1>4. CASE Life
  BY <1>4 DEF Life, Evict, EvictionFails, Crash, Start, LoadRecord, StartFails, Loaded
<1> QED BY <1>1, <1>2, <1>3, <1>4 DEF Next

\* A step that drops no decision against the disk leaves what is decided.
LEMMA FilesKept ==
    ASSUME IInv, IInv', Next, UNCHANGED disk \/ Moves, NEW p \in Paths, p \notin broken',
           \A r \in Deciding : p \in PathsOf(store[r].op) /\ r \notin Deciding' =>
              Before(r) /\ UNCHANGED disk
    PROVE  Decided(p)' = Decided(p)
<1>0. Spoken /\ Spoken' /\ p \notin broken
  BY DecisionsAreSpoken, SpokenNext, BrokenGrows
<1>1. ASSUME NEW r \in DOMAIN store', Says(r, p)'
      PROVE  Decided(p)' = Decided(p)
  <2>0. r \notin disturbed'
    BY <1>0, <1>1 DEF Spoken
  <2>1. /\ r \in Deciding' /\ p \in PathsOf(store'[r].op)
        /\ Decided(p)' = store'[r].before[p]
    BY <1>0, <1>1, <2>0 DEF Says, Spoken
  <2>2. /\ r \in DOMAIN store /\ store'[r].op = store[r].op /\ store'[r].before = store[r].before
        /\ \/ r \in Deciding \/ (r = id /\ step = "activate")
           \/ Revives(r) /\ CutsOff(r)
    BY <2>1, DecidersStay
  <2>3. CASE r \in Deciding
    <3>1. r \notin disturbed
      BY <1>0, <2>1, <2>2, <2>3 DEF Says, Spoken
    <3> QED BY <1>0, <2>1, <2>2, <2>3, <3>1 DEF Says, Spoken
\* Nothing else says what this path holds, and the record says what the disk does.
  <2>4. ASSUME \A s \in DOMAIN store : ~Says(s, p), Before(r)
        PROVE  Decided(p)' = Decided(p)
    <3>1. Decided(p) = disk[p]
      BY <1>0, <2>4 DEF Spoken
    <3> QED BY <2>1, <2>2, <2>4, <3>1 DEF Before
  <2>5. CASE r = id /\ step = "activate" /\ r \notin Deciding
    <3>1. op # NoOp /\ op = store[r].op /\ Ticket = r
      BY <2>2, <2>5, OperationTypes, RecordTypes DEF IInv, Control, Own, Ticket
    <3>2. r \notin disturbed
      BY <1>0, <2>1, <2>2, <3>1 DEF IInv, Exempt
    <3>3. Before(r)
      BY <2>5, <3>2 DEF IInv, Halfway, PlaceOf
    <3>4. ASSUME NEW s \in DOMAIN store, Says(s, p) PROVE FALSE
      <4>1. s # r /\ s \in Deciding /\ p \in PathsOf(store[s].op)
        BY <2>5, <3>4 DEF Says
      <4>2. Live(s)
        BY <2>5, <4>1, DecidersAre
      <4> QED BY <2>1, <2>2, <2>5, <3>1, <3>2, <4>1, <4>2 DEF IInv, Apart
    <3> QED BY <2>4, <3>3, <3>4
  <2>6. CASE Revives(r) /\ CutsOff(r)
    <3>1. Before(r) /\ Touching(PathsOf(store[r].op)) = {}
      BY <2>0, <2>6 DEF CutsOff, CutOff, Sound, Disturb
    <3>2. ASSUME NEW s \in DOMAIN store, Says(s, p) PROVE FALSE
      <4>1. s \in Deciding /\ p \in PathsOf(store[s].op)
        BY <3>2 DEF Says
      <4>2. Live(s)
        BY <2>6, <4>1, DecidersAre DEF CutsOff
      <4> QED BY <2>1, <2>2, <3>1, <4>1, <4>2 DEF Touching
    <3> QED BY <2>4, <3>1, <3>2
  <2> QED BY <2>2, <2>3, <2>5, <2>6
<1>2. CASE \A r \in DOMAIN store' : ~Says(r, p)'
  <2>1. Decided(p)' = disk'[p]
    BY <1>0, <1>2 DEF Spoken
  <2>2. ASSUME NEW r \in DOMAIN store, Says(r, p)
        PROVE  Decided(p)' = Decided(p)
    <3>1. r \notin Deciding'
      <4>1. ASSUME r \in Deciding' PROVE FALSE
        <5>1. r \in DOMAIN store'
          BY <4>1 DEF Deciding
        <5>2. store'[r].op = store[r].op
          BY <4>1, <5>1, DecidersStay
        <5> QED BY <1>2, <2>2, <4>1, <5>1, <5>2 DEF Says
      <4> QED BY <4>1
    <3>2. Before(r) /\ UNCHANGED disk
      BY <2>2, <3>1 DEF Says
    <3>3. r \notin disturbed
      BY <1>0, <2>2 DEF Spoken
    <3> QED BY <1>0, <2>1, <2>2, <3>2, <3>3 DEF Says, Spoken, Before
  <2>3. CASE \A r \in DOMAIN store : ~Says(r, p)
    <3>1. Decided(p) = disk[p]
      BY <1>0, <2>3 DEF Spoken
    <3>2. CASE Moves
      <4>1. id \in DOMAIN store /\ Live(id)
        BY <3>2 DEF Moves, Mutate, RestoreSource, CopyBack, ClearDestination, IInv, Control, Own, Undoing, Phases
      <4>2. p \notin PathsOf(store[id].op)
        BY <2>3, <4>1 DEF Says, Deciding
      <4>3. disk'[p] = disk[p]
        BY <3>2, <4>1, <4>2, OnlyOwn DEF IInv
      <4> QED BY <2>1, <3>1, <4>3
    <3> QED BY <2>1, <3>1, <3>2
  <2> QED BY <2>2, <2>3
<1> QED BY <1>1, <1>2

-----------------------------------------------------------------------------
(* The steps of AtomicFiles.                                                *)

Files == [p \in Paths |-> Decided(p)]

\* The files of the abstract specification hold contents.
LEMMA FilesTypes == IInv => Files \in [Paths -> Held]
BY DecisionsAreSpoken DEF Spoken, Files

\* The same after a step.
LEMMA FilesTypesNext == IInv' => Files' \in [Paths -> Held]
BY SpokenNext DEF Spoken, Files

\* The abstract state and the actions, spelled out.
LEMMA AbstractSteps ==
    ASSUME NEW o \in Operations, NEW ps \in SUBSET Paths, NEW p \in Paths, NEW c \in Held
    PROVE  /\ AtomicOperations!vars = <<Files, op, done, writes, broken>>
           /\ AtomicOperations!Nothing = NoOp /\ AtomicOperations!Operations = Operations
           /\ AtomicOperations!Write(p, c) <=>
                /\ writes' = writes + 1 /\ broken \subseteq broken' /\ UNCHANGED <<op, done>>
                /\ Files' \in [Paths -> Held]
                /\ \A q \in Paths \ broken' : Files'[q] = [Files EXCEPT ![p] = c][q]
           /\ AtomicOperations!Ask(o) <=>
                /\ op = NoOp /\ op' = o /\ broken \subseteq broken' /\ UNCHANGED <<done, writes>>
                /\ Files' \in [Paths -> Held]
                /\ \A q \in Paths \ broken' : Files'[q] = Files[q]
           /\ AtomicOperations!Break(ps) <=>
                /\ op' = NoOp /\ broken' = broken \cup ps /\ UNCHANGED <<done, writes>>
                /\ Files' \in [Paths -> Held]
                /\ \A q \in Paths \ broken' : Files'[q] = Files[q]
<1> USE DEF AtomicOperations!Nothing, NoOp, Files, Held
<1>1. AtomicOperations!vars = <<Files, op, done, writes, broken>>
  BY DEF AtomicOperations!vars
<1>2. AtomicOperations!Nothing = NoOp /\ AtomicOperations!Operations = Operations
  BY DEF AtomicOperations!Operations, Operations
<1>3. AtomicOperations!Write(p, c) <=>
                /\ writes' = writes + 1 /\ broken \subseteq broken' /\ UNCHANGED <<op, done>>
                /\ Files' \in [Paths -> Held]
                /\ \A q \in Paths \ broken' : Files'[q] = [Files EXCEPT ![p] = c][q]
  BY DEF AtomicOperations!Write, AtomicOperations!Become
<1>4. AtomicOperations!Ask(o) <=>
                /\ op = NoOp /\ op' = o /\ broken \subseteq broken' /\ UNCHANGED <<done, writes>>
                /\ Files' \in [Paths -> Held]
                /\ \A q \in Paths \ broken' : Files'[q] = Files[q]
  BY DEF AtomicOperations!Ask, AtomicOperations!Become
<1>5. AtomicOperations!Break(ps) <=>
                /\ op' = NoOp /\ broken' = broken \cup ps /\ UNCHANGED <<done, writes>>
                /\ Files' \in [Paths -> Held]
                /\ \A q \in Paths \ broken' : Files'[q] = Files[q]
  BY DEF AtomicOperations!Break, AtomicOperations!Become
<1> QED BY <1>1, <1>2, <1>3, <1>4, <1>5

\* What performing an operation makes of the files that are not broken.
LEMMA AbstractPerform ==
    ASSUME op \in Operations, WellFormed(op), Files \in [Paths -> Held], Files' \in [Paths -> Held],
           op' = NoOp, done' \in {done, done + 1}, UNCHANGED <<writes, broken>>,
           op.source \notin broken => Files'[op.source] = Absent,
           op.kind = "Rename" /\ op.destination \notin broken =>
              Files'[op.destination] = Files[op.source],
           \A q \in Paths \ {op.source, op.destination} : q \notin broken => Files'[q] = Files[q]
    PROVE  AtomicOperations!Perform
<1>1. /\ op.kind \in {"Rename", "Delete"} /\ op.source \in Paths /\ op.destination \in Paths
      /\ op.kind = "Rename" <=> op.source # op.destination
      /\ op # NoOp
  BY OperationTypes DEF WellFormed
<1>2. op.kind = "Delete" => AtomicOperations!Effect(op) = [Files EXCEPT ![op.source] = Absent]
  BY DEF AtomicOperations!Effect, Files
<1>3. op.kind = "Rename" => AtomicOperations!Effect(op) =
        [Files EXCEPT ![op.destination] = Files[op.source], ![op.source] = Absent]
  BY DEF AtomicOperations!Effect, Files
<1>4. \A q \in Paths \ broken' : Files'[q] = AtomicOperations!Effect(op)[q]
  <2>1. CASE op.kind = "Delete"
    BY <1>1, <1>2, <2>1
  <2>2. CASE op.kind = "Rename"
    BY <1>1, <1>3, <2>2
  <2> QED BY <1>1, <2>1, <2>2
<1>5. AtomicOperations!Become(AtomicOperations!Effect(op))
  BY <1>4 DEF AtomicOperations!Become, Files, Held
<1> QED BY <1>1, <1>5 DEF AtomicOperations!Perform, AtomicOperations!Nothing, NoOp

\* An operation that begins is asked for.
LEMMA BeginAsks ==
    ASSUME IInv, IInv', Next, NEW o \in Operations, Begins(o)
    PROVE  AtomicOperations!Ask(o)
<1>1. op = NoOp /\ op' = o /\ UNCHANGED <<disk, store, done, writes>> /\ step = "idle"
  BY DEF Begins, Begin, IInv, Control
<1>2. ASSUME NEW r \in Deciding PROVE r \in Deciding'
  <2>1. r \in DOMAIN store /\ Live(r)
    BY <1>1, DecidersAre
  <2> QED BY <1>1, <2>1 DEF Deciding, Live, Has
<1>3. \A p \in Paths \ broken' : Decided(p)' = Decided(p)
  BY <1>1, <1>2, FilesKept
<1>4. \A p \in Paths \ broken' : Files'[p] = Files[p]
  BY <1>3 DEF Files
<1>5. Paths \in SUBSET Paths
  OBVIOUS
<1>6. o.source \in Paths /\ disk[o.source] \in Held
  BY OperationTypes DEF IInv, TypeOK
<1> QED BY <1>1, <1>4, <1>5, <1>6, AbstractSteps, FilesTypesNext, BrokenGrows

\* A write by another program is one to the files.
LEMMA WriteWrites ==
    ASSUME IInv, IInv', Next, NEW p \in Paths, NEW c \in Held, WriteFile(p, c)
    PROVE  AtomicOperations!Write(p, c)
<1>0. Spoken /\ Spoken'
  BY DecisionsAreSpoken, SpokenNext
<1>1. /\ UNCHANGED <<store, step, id, op, done>> /\ writes' = writes + 1
      /\ disk'[p] = c /\ \A q \in Paths : q # p => disk'[q] = disk[q]
  BY WritesDisturb DEF WriteFile, IInv
<1>2. ASSUME NEW r \in DOMAIN store, NEW q \in Paths
      PROVE  /\ Says(r, q)' <=> Says(r, q)
             /\ p \notin broken' => ~Says(r, p)
  <2>1. Says(r, q)' <=> Says(r, q)
    BY <1>1 DEF Says, Deciding, Live, Has
  <2>2. ASSUME Says(r, p), p \notin broken' PROVE FALSE
    <3>1. r \in Deciding /\ p \in PathsOf(store[r].op)
      BY <2>2 DEF Says
    <3> QED BY <2>2, <3>1, DecidersAre, WritesDisturb DEF IInv
  <2> QED BY <2>1, <2>2
<1>3. ASSUME p \notin broken' PROVE Decided(p)' = c
  <2>1. \A r \in DOMAIN store' : ~Says(r, p)'
    BY <1>1, <1>2, <1>3
  <2>2. Decided(p)' = disk'[p]
    BY <1>0, <2>1 DEF Spoken
  <2> QED BY <1>1, <2>2
<1>4. ASSUME NEW q \in Paths, q # p, q \notin broken' PROVE Decided(q)' = Decided(q)
  <2>1. CASE \E r \in DOMAIN store : Says(r, q)
    <3>1. PICK r \in DOMAIN store : Says(r, q)
      BY <2>1
    <3>2. Says(r, q)' /\ r \in DOMAIN store'
      BY <1>1, <1>2, <3>1
    <3>3. r \notin disturbed' /\ r \notin disturbed
      BY <1>0, <1>4, <3>1, <3>2, BrokenGrows DEF Spoken
    <3>4. Decided(q) = store[r].before[q]
      BY <1>0, <3>1, <3>3 DEF Spoken
    <3>5. Decided(q)' = store'[r].before[q]
      BY <1>0, <3>2, <3>3 DEF Spoken
    <3> QED BY <1>1, <3>4, <3>5
  <2>2. CASE \A r \in DOMAIN store : ~Says(r, q)
    <3>1. \A r \in DOMAIN store' : ~Says(r, q)'
      BY <1>1, <1>2, <2>2
    <3>2. Decided(q)' = disk'[q] /\ Decided(q) = disk[q]
      BY <1>0, <2>2, <3>1 DEF Spoken
    <3> QED BY <1>1, <1>4, <3>2
  <2> QED BY <2>1, <2>2
<1>5. \A q \in Paths \ broken' : Files'[q] = [Files EXCEPT ![p] = c][q]
  BY <1>3, <1>4 DEF Files
<1>6. ASSUME NEW o \in Operations PROVE AtomicOperations!Write(p, c)
  BY <1>1, <1>5, <1>6, AbstractSteps, FilesTypesNext, BrokenGrows
<1>7. [kind |-> "Delete", source |-> p, destination |-> p] \in Operations
  BY DEF Operations
<1> QED BY <1>6, <1>7

\* An operation whose success is decided is performed at once.
LEMMA FinishPerforms ==
    ASSUME IInv, IInv', Next, id \in Deciding, id \notin Deciding', Finishes
    PROVE  AtomicOperations!Perform
<1> DEFINE b == store[id].before
<1>0. Spoken /\ Spoken'
  BY DecisionsAreSpoken, SpokenNext
<1>1. /\ id \in DOMAIN store /\ op = store[id].op /\ op \in Operations /\ WellFormed(op)
      /\ UNCHANGED <<disk, broken>>
  BY RecordTypes DEF Finishes, IInv, Shapes
<1>2. /\ op.kind \in {"Rename", "Delete"} /\ op.source \in Paths /\ op.destination \in Paths
      /\ op.source \in PathsOf(op) /\ op.destination \in PathsOf(op)
      /\ PathsOf(op) \subseteq {op.source, op.destination}
  BY <1>1, OperationTypes DEF PathsOf, WellFormed
<1>3. ASSUME NEW p \in Paths, p \notin PathsOf(op), p \notin broken
      PROVE  Decided(p)' = Decided(p)
  BY <1>1, <1>3, FilesKept DEF Finishes
<1>4. CASE PathsOf(op) \subseteq broken
  BY <1>1, <1>2, <1>3, <1>4, AbstractPerform, FilesTypes, FilesTypesNext DEF Files, Finishes
<1>5. CASE ~(PathsOf(op) \subseteq broken)
  <2>1. /\ disk'[op.source] = Absent
        /\ op.kind = "Rename" => disk'[op.destination] = b[op.source]
    BY <1>1, <1>5 DEF Finishes, Performed
  <2>2. id \notin disturbed /\ Ticket = id
    BY <1>1, <1>5, RecordTypes DEF Finishes, IInv, Exempt, Ticket
  <2>3. ASSUME NEW p \in PathsOf(op), NEW r \in DOMAIN store', Says(r, p)'
        PROVE  FALSE
    <3>1. r \in Deciding' /\ p \in PathsOf(store'[r].op)
      BY <2>3 DEF Says
    <3>2. r \in DOMAIN store /\ store'[r].op = store[r].op /\ r # id /\ r \in Deciding
      BY <3>1, DecidersStay DEF Finishes, CutsOff
    <3>3. Live(r)
      BY <3>2, DecidersAre
    <3> QED BY <2>2, <2>3, <3>1, <3>2, <3>3 DEF Finishes, IInv, Apart
  <2>4. \A p \in PathsOf(op) : Decided(p)' = disk'[p]
    BY <1>0, <1>2, <2>3 DEF Spoken
  <2>5. Decided(op.source) = b[op.source]
    BY <1>0, <1>1, <1>2, <2>2 DEF Says, Spoken
  <2> HIDE DEF b
  <2>6. /\ Files'[op.source] = Absent
        /\ op.kind = "Rename" => Files'[op.destination] = Files[op.source]
        /\ \A q \in Paths \ {op.source, op.destination} : q \notin broken => Files'[q] = Files[q]
    BY <1>2, <1>3, <2>1, <2>4, <2>5 DEF Files
  <2> QED BY <1>1, <2>6, AbstractPerform, FilesTypes, FilesTypesNext DEF Finishes
<1> QED BY <1>4, <1>5

\* Every other step answers the operation or leaves it, without an effect on a
\* path that is not broken.
LEMMA AnswersOrDrifts ==
    ASSUME IInv, IInv', Next, UNCHANGED disk \/ Moves,
           ~(\E p \in Paths, c \in Held : WriteFile(p, c)), ~(\E o \in Operations : Begins(o)),
           UNCHANGED <<done, writes>>, op' \in {op, NoOp},
           ~(id \in Deciding /\ id \notin Deciding' /\ Finishes)
    PROVE  (\E ps \in SUBSET Paths : AtomicOperations!Break(ps)) \/ AtomicOperations!Drift
<1>0. TypeOK /\ Control /\ TypeOK'
  BY DEF IInv
<1>1. ASSUME NEW p \in Paths, p \notin broken'
      PROVE  Decided(p)' = Decided(p)
  <2>1. ASSUME NEW r \in Deciding, p \in PathsOf(store[r].op), r \notin Deciding'
        PROVE  Before(r) /\ UNCHANGED disk
    BY <1>1, <2>1, DecidersLost DEF Drops
  <2> QED BY <1>1, <2>1, FilesKept
<1>2. \A q \in Paths \ broken' : Files'[q] = Files[q]
  BY <1>1 DEF Files
<1>3. AtomicOperations!Become(Files)
  BY <1>2, FilesTypesNext DEF AtomicOperations!Become, Files, Held
<1>4. CASE op' # NoOp
  <2>1. op' = op /\ broken' = broken
    BY <1>0, <1>4, BrokenSteps
  <2> QED BY <1>3, <2>1 DEF AtomicOperations!Drift, Files
<1>5. CASE op' = NoOp
  <2>1. broken' \in SUBSET Paths /\ broken' = broken \cup broken'
    BY <1>0, BrokenGrows DEF TypeOK
  <2>2. AtomicOperations!Break(broken')
    BY <1>3, <1>5, <2>1 DEF AtomicOperations!Break, AtomicOperations!Nothing, NoOp, Files
  <2> QED BY <2>1, <2>2
<1> QED BY <1>4, <1>5

\* Every step is a step of AtomicFiles or leaves its variables alone.
LEMMA StepsImplement ==
    ASSUME IInv, IInv', [Next]_vars
    PROVE  [AtomicOperations!Next]_(AtomicOperations!vars)
<1>0. TypeOK /\ Control
  BY DEF IInv
<1>1. CASE UNCHANGED vars
  <2>1. UNCHANGED <<disk, store, step, id, op, done, writes, broken>>
    BY <1>1 DEF vars
  <2>2. Deciding' = Deciding
    BY <2>1 DEF Deciding, Live, Has
  <2>3. \A p \in Paths : Decided(p)' = Decided(p)
    BY <2>1, <2>2 DEF Decided
  <2> QED BY <2>1, <2>3 DEF AtomicOperations!vars
<1>2. ASSUME Next, NEW p \in Paths, NEW c \in Held, WriteFile(p, c)
      PROVE  AtomicOperations!Next
  BY <1>2, WriteWrites DEF AtomicOperations!Next, Held
<1>3. ASSUME Next, NEW o \in Operations, Begins(o)
      PROVE  AtomicOperations!Next
  BY <1>3, BeginAsks DEF AtomicOperations!Next, AtomicOperations!Operations, Operations
<1>4. ASSUME Next, id \in Deciding, id \notin Deciding', Finishes
      PROVE  AtomicOperations!Next
  BY <1>4, FinishPerforms DEF AtomicOperations!Next
<1>5. ASSUME Next, ~(\E p \in Paths, c \in Held : WriteFile(p, c)), ~(\E o \in Operations : Begins(o)),
             ~(id \in Deciding /\ id \notin Deciding' /\ Finishes)
      PROVE  AtomicOperations!Next
  <2>1. UNCHANGED disk \/ Moves
    BY <1>0, <1>5, StakeSteps
  <2>2. UNCHANGED <<done, writes>>
    BY <1>5, ReportedIsFinished, WriteSteps
  <2>3. op' \in {op, NoOp}
    BY <1>0, <1>5, OperationSteps
  <2>4. (\E ps \in SUBSET Paths : AtomicOperations!Break(ps)) \/ AtomicOperations!Drift
    BY <1>5, <2>1, <2>2, <2>3, AnswersOrDrifts
  <2> QED BY <2>4 DEF AtomicOperations!Next
<1> QED BY <1>1, <1>2, <1>3, <1>4, <1>5

\* The initial states are those of AtomicFiles.
LEMMA InitImplements ==
    ASSUME Init
    PROVE  AtomicOperations!Init
<1>1. store = <<>> /\ DOMAIN store = {} /\ disk \in [Paths -> Held] /\ op = NoOp
      /\ done = 0 /\ writes = 0 /\ broken = {}
  BY DEF Init
<1>2. Deciding = {}
  BY <1>1 DEF Deciding
<1>3. \A p \in Paths : Decided(p) = disk[p]
  BY <1>2 DEF Decided
<1>4. [p \in Paths |-> Decided(p)] \in [Paths -> Contents \cup {Absent}]
  BY <1>1, <1>3 DEF Held
<1> QED BY <1>1, <1>4 DEF AtomicOperations!Init, AtomicOperations!Nothing, NoOp

\* Renames and deletions change the files as a whole and once, or not at all,
\* whatever fails and wherever the editor is interrupted: every step of the
\* recovery manager is a step of AtomicFiles or changes nothing it speaks of.  The
\* paths of an operation that cannot be undone, or not soundly, are broken there.
THEOREM OperationsAreAtomic ==
    Spec => ImplementsAtomicFiles
<1>1. IInv /\ IInv' /\ [Next]_vars => [AtomicOperations!Next]_(AtomicOperations!vars)
  BY StepsImplement
<1>2. Init => AtomicOperations!Init
  BY InitImplements
<1> QED BY <1>1, <1>2, RecordsAndFilesAgree, PTL DEF Spec, ImplementsAtomicFiles, AtomicOperations!Spec
=============================================================================
