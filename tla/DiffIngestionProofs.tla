------------------------ MODULE DiffIngestionProofs ------------------------
(***************************************************************************)
(* What the editor shows of the published scans, for every number of files *)
(* and every text: the diff model is one scan, the one last handed over;   *)
(* open live diffs show it, queued targets name hunks of it, and the pane  *)
(* is only taken to hunks that are new.                                    *)
(*                                                                         *)
(* Scans and bursts are loops.  What holds after n rounds is carried to    *)
(* the last one by UpTo; Recursion says that the values they go through    *)
(* exist.  StagedTo is what a scan staged up to some files leaves, and     *)
(* FollowedTo what a burst followed up to some change leaves.              *)
(***************************************************************************)
EXTENDS DiffIngestion, SequenceLemmas, FiniteSetTheorems

-----------------------------------------------------------------------------
(* The values the variables take. *)

FileContents == Contents \cup {Absent}
Pairs == [baseline : FileContents, content : FileContents]
Scans == [revision : Nat, files : [Files -> Pairs]]

AnyViews == [content : Held, deleted : BOOLEAN, hunks : Seq(Hunks), present : BOOLEAN]
Views == {v \in AnyViews : v.hunks # <<>> => v.present}
DiffModels == [revision : Nat, entries : [Ids -> Views]]

Targets == [id : Ids, deleted : BOOLEAN, line : Nat, revision : Nat]
MaybeTargets == Targets \cup {NoTarget}
FollowModels == [mode : {"Following", "Paused"}, queue : Seq(Targets), active : MaybeTargets,
                 activation : MaybeTargets, latest : Nat]

Changes == [id : Ids, prior : Seq(Hunks), revision : Nat, view : Views]
StageRecords == [diff : DiffModels, changes : Seq(Changes), statusOnly : SUBSET Ids, next : Nat, result : {"Accepted", "DiffRejected"}]

-----------------------------------------------------------------------------
(* Identities, differences and views. *)

\* The identities of Git files and of external diffs are all different, and none is NoId.
LEMMA IdsApart ==
    ASSUME NEW f \in Files, NEW g \in Files
    PROVE  /\ Git(f) \in Ids /\ External(f) \in Ids /\ NoId \notin Ids
           /\ Git(f) = Git(g) => f = g
           /\ Git(f) # External(g)
<1>1. Git(f) \in Ids /\ External(f) \in Ids
  BY DEF Ids
<1>2. Git(f) = Git(g) => f = g
  BY DEF Git
<1>3. Git(f) # External(g)
  BY DEF Git, External
<1>4. \A h \in Files : Git(h) # NoId /\ External(h) # NoId
  BY DEF Git, External, NoId
<1>5. NoId \notin Ids
  BY <1>4 DEF Ids
<1> QED BY <1>1, <1>2, <1>3, <1>5

\* What the model says of a difference is typed; it says nothing of an absent file.
LEMMA DifferenceType ==
    ASSUME NEW baseline \in FileContents, NEW content \in FileContents
    PROVE  /\ tooLarge(baseline, content) \in BOOLEAN
           /\ View(baseline, content) \in Views
           /\ View(baseline, content).present
           /\ tooLarge(baseline, content)
              \/ IsDifference(textOf(baseline), View(baseline, content).content, View(baseline, content).hunks)
<1> DEFINE b == textOf(baseline)
           t == textOf(content)
           d == Differences[b, t]
<1>1. b \in Held /\ t \in Held
  BY DEF FileContents, Held
<1>2. d.limited \in BOOLEAN /\ d.hunks \in Seq(Hunks) /\ (d.limited \/ IsDifference(b, t, d.hunks))
  BY <1>1, DifferencesAssumption
<1> HIDE DEF b, t, d
<1>3. tooLarge(baseline, content) = d.limited
  BY DEF tooLarge, d, b, t
<1>4. View(baseline, content) = [content |-> t, deleted |-> content = Absent, hunks |-> d.hunks, present |-> TRUE]
  BY DEF View, d, b, t
<1> DEFINE gone == content = Absent
           there == TRUE
           v == [content |-> t, deleted |-> gone, hunks |-> d.hunks, present |-> there]
<1>5. gone \in BOOLEAN /\ there \in BOOLEAN /\ there
  OBVIOUS
<1> HIDE DEF gone, there
<1>6. v \in AnyViews /\ v.present /\ v.content = t /\ v.hunks = d.hunks
  BY <1>1, <1>2, <1>5 DEF AnyViews
<1>7. View(baseline, content) = v
  BY <1>4 DEF gone, there
<1> HIDE DEF v
<1> QED BY <1>2, <1>3, <1>6, <1>7 DEF Views, b

\* No view, and those without hunks.
LEMMA NoViewType ==
    /\ NoView \in Views /\ ~NoView.present /\ NoView.hunks = <<>>
    /\ RemovedView \in Views /\ RemovedView.hunks = <<>>
    /\ \A v \in Views : [v EXCEPT !.hunks = <<>>] \in Views
<1> DEFINE there == TRUE
           away == FALSE
<1>1. there \in BOOLEAN /\ away \in BOOLEAN /\ ~away
  OBVIOUS
<1>2. <<>> \in Held
  BY DEF Held, textOf
<1>3. <<>> \in Seq(Hunks)
  OBVIOUS
<1>4. /\ NoView = [content |-> <<>>, deleted |-> away, hunks |-> <<>>, present |-> away]
      /\ RemovedView = [content |-> <<>>, deleted |-> there, hunks |-> <<>>, present |-> there]
  BY DEF NoView, RemovedView
<1>5. ASSUME NEW v \in Views
      PROVE  [v EXCEPT !.hunks = <<>>] \in Views
  <2>1. [v EXCEPT !.hunks = <<>>] = [content |-> v.content, deleted |-> v.deleted, hunks |-> <<>>, present |-> v.present]
    BY DEF Views, AnyViews
  <2> HIDE DEF there
  <2> QED BY <1>1, <1>2, <1>3, <2>1 DEF Views, AnyViews
<1> HIDE DEF there, away
<1>6. NoView \in Views /\ ~NoView.present /\ NoView.hunks = <<>>
  BY <1>1, <1>2, <1>3, <1>4 DEF Views, AnyViews
<1>7. RemovedView \in Views /\ RemovedView.hunks = <<>>
  BY <1>1, <1>2, <1>3, <1>4 DEF Views, AnyViews
<1> QED BY <1>5, <1>6, <1>7

\* What the editor shows of a file of a scan.
LEMMA ViewInType ==
    ASSUME NEW file \in Pairs
    PROVE  /\ viewIn(file) \in Views
           /\ ~viewIn(file).present => viewIn(file) = NoView
           /\ viewIn(file).present =>
                IsDifference(textOf(file.baseline), viewIn(file).content, viewIn(file).hunks)
<1>1. file.baseline \in FileContents /\ file.content \in FileContents
  BY DEF Pairs
<1> DEFINE v == View(file.baseline, file.content)
<1>2. v \in Views /\ v.present
      /\ (tooLarge(file.baseline, file.content) \/ IsDifference(textOf(file.baseline), v.content, v.hunks))
  BY <1>1, DifferenceType
<1> HIDE DEF v
<1>3. viewIn(file) = NoView \/ (viewIn(file) = v /\ ~tooLarge(file.baseline, file.content))
  BY DEF viewIn, v
<1> QED BY <1>2, <1>3, NoViewType

LEMMA UnlistedFile ==
    Unlisted \in Pairs /\ viewIn(Unlisted) = NoView
<1>1. Unlisted \in Pairs
  BY DEF Unlisted, Pairs, FileContents
<1>2. viewIn(Unlisted) = NoView
  BY DEF viewIn
<1> QED BY <1>1, <1>2

-----------------------------------------------------------------------------
(* The operations of the two models. *)

LEMMA WithViewType ==
    ASSUME NEW d \in DiffModels, NEW id \in Ids, NEW view \in Views, NEW revision \in Nat
    PROVE  /\ withView(d, id, view, revision) \in DiffModels
           /\ withView(d, id, view, revision).revision = revision
           /\ \A x \in Ids : withView(d, id, view, revision).entries[x] = IF x = id THEN view ELSE d.entries[x]
<1> DEFINE e == [d.entries EXCEPT ![id] = view]
<1>1. d.entries \in [Ids -> Views]
  BY DEF DiffModels
<1>2. e \in [Ids -> Views] /\ \A x \in Ids : e[x] = IF x = id THEN view ELSE d.entries[x]
  BY <1>1
<1>3. withView(d, id, view, revision) = [revision |-> revision, entries |-> e]
  BY DEF withView
<1> HIDE DEF e
<1> QED BY <1>2, <1>3 DEF DiffModels

\* A list that is not empty has a last place in every set of its places.
LEMMA LastPlace ==
    ASSUME NEW n \in Nat, NEW S, S \subseteq 1..n, S # {}
    PROVE  LastOf(S) \in S /\ \A j \in S : j <= LastOf(S)
<1> DEFINE Behind == {m \in 0..n : n - m \in S}
<1>1. Behind \subseteq Nat /\ Behind # {}
  <2>1. PICK k \in S : TRUE
    OBVIOUS
  <2>2. n - k \in 0..n /\ n - (n - k) = k
    BY <2>1
  <2>3. n - k \in Behind
    BY <2>1, <2>2
  <2>4. Behind \subseteq Nat
    <3>1. Behind \subseteq 0..n
      OBVIOUS
    <3> HIDE DEF Behind
    <3> QED BY <3>1
  <2> QED BY <2>3, <2>4
<1>2. PICK m \in Behind : \A j \in Behind : m <= j
  <2> HIDE DEF Behind
  <2> QED BY <1>1, LeastNumber
<1>3. ASSUME NEW j \in S PROVE j <= n - m
  <2>1. n - j \in Behind
    <3>1. j \in 1..n /\ n - j \in 0..n /\ n - (n - j) = j
      OBVIOUS
    <3> QED BY <3>1
  <2>2. m \in 0..n /\ j \in 1..n
    BY <1>2
  <2> HIDE DEF Behind
  <2>3. m <= n - j
    BY <1>2, <2>1
  <2> QED BY <2>2, <2>3
<1>4. \E k \in S : \A j \in S : j <= k
  BY <1>2, <1>3
<1> QED BY <1>4 DEF LastOf

\* A change that brings hunks has a target: the line of the last of them.
LEMMA TargetOfChange ==
    ASSUME NEW change \in Changes
    PROVE  /\ newOf(change) \subseteq DOMAIN change.view.hunks
           /\ newOf(change) # {} =>
                /\ targetFor(change) \in Targets /\ targetFor(change).id = change.id
                /\ targetFor(change).deleted = change.view.deleted
                /\ \E k \in newOf(change) : targetFor(change).line = change.view.hunks[k].targetStart
<1>1. change.id \in Ids /\ change.revision \in Nat /\ change.view \in Views
  BY DEF Changes
<1>2. change.view.hunks \in Seq(Hunks) /\ change.view.deleted \in BOOLEAN
  BY <1>1 DEF Views, AnyViews
<1> DEFINE h == change.view.hunks
           new == newOf(change)
           k == LastOf(new)
<1>3. DOMAIN h = 1..Len(h) /\ Len(h) \in Nat
  BY <1>2
<1>4. new \subseteq DOMAIN h
  BY DEF newOf, introduced
<1>5. ASSUME new # {}
      PROVE  k \in new /\ h[k] \in Hunks /\ h[k].targetStart \in Nat
  <2>1. k \in new
    <3> HIDE DEF new, h
    <3> QED BY <1>3, <1>4, <1>5, LastPlace
  <2>2. k \in 1..Len(h) /\ h[k] \in Hunks
    <3> HIDE DEF new, k
    <3> QED BY <1>2, <1>3, <1>4, <2>1, ElementOfSeq
  <2> HIDE DEF k, h, new
  <2> QED BY <2>1, <2>2 DEF Hunks
<1>6. targetFor(change) = [id |-> change.id, deleted |-> change.view.deleted, line |-> h[k].targetStart, revision |-> change.revision]
  BY DEF targetFor
<1> HIDE DEF h, new, k
<1>7. ASSUME new # {}
      PROVE  /\ targetFor(change) \in Targets /\ targetFor(change).id = change.id
             /\ targetFor(change).deleted = change.view.deleted
             /\ targetFor(change).line = h[k].targetStart /\ k \in new
  BY <1>1, <1>2, <1>5, <1>6, <1>7 DEF Targets
<1> QED BY <1>4, <1>7 DEF h, new

LEMMA NoTargetApart ==
    NoTarget \notin Targets
<1>1. NoTarget.id = NoId
  BY DEF NoTarget
<1>2. ASSUME NoTarget \in Targets PROVE FALSE
  <2>1. NoTarget.id \in Ids
    BY <1>2 DEF Targets
  <2>2. \A h \in Files : Git(h) # NoId /\ External(h) # NoId
    BY DEF Git, External, NoId
  <2> QED BY <1>1, <2>1, <2>2 DEF Ids
<1> QED BY <1>2

-----------------------------------------------------------------------------
(* Staging a scan. *)

\* What a change says of a file: the hunks it has now, and if any, whether it is deleted.
Describes(change, view) ==
  change.view.hunks = view.hunks /\ (view.hunks # <<>> => change.view.deleted = view.deleted)

\* The files that are done are those of the scan, the others those of the model it was
\* staged on (d), and so are the external diffs; every difference made is one change, and
\* their revisions rise from d's.
StagedTo(stage, d, scan, done) ==
  /\ stage \in StageRecords /\ accepted(stage)
  /\ stage.diff.revision < stage.next /\ d.revision <= stage.diff.revision
  /\ \A f \in Files : stage.diff.entries[Git(f)] = IF f \in done THEN viewIn(scan.files[f]) ELSE d.entries[Git(f)]
  /\ \A f \in Files : stage.diff.entries[External(f)] = d.entries[External(f)]
  /\ \A k \in DOMAIN stage.changes :
       \E f \in done \cap Files : /\ stage.changes[k].id = Git(f)
                            /\ stage.changes[k].prior = d.entries[Git(f)].hunks
                            /\ Describes(stage.changes[k], viewIn(scan.files[f]))
  /\ \A j, k \in DOMAIN stage.changes : stage.changes[j].id = stage.changes[k].id => j = k
  /\ \A k \in DOMAIN stage.changes :
       d.revision < stage.changes[k].revision /\ stage.changes[k].revision <= stage.diff.revision
  /\ \A j, k \in DOMAIN stage.changes : j < k => stage.changes[j].revision < stage.changes[k].revision
  /\ \A f \in Files : \/ \E k \in DOMAIN stage.changes : stage.changes[k].id = Git(f)
                     \/ stage.diff.entries[Git(f)] = d.entries[Git(f)]

\* Without a change, or with one that only takes a revision.
LEMMA StageTypes ==
    ASSUME NEW stage \in StageRecords
    PROVE  /\ Rejected(stage) \in StageRecords
           /\ \A id \in Ids : /\ statusOnly(stage, id) \in StageRecords
                            /\ statusOnly(stage, id).diff = stage.diff
                            /\ statusOnly(stage, id).changes = stage.changes
                            /\ statusOnly(stage, id).next = stage.next + 1
                            /\ statusOnly(stage, id).result = stage.result
           /\ \A d \in DiffModels, id \in Ids, view \in Views :
                /\ Changed(stage, d, id, view) \in StageRecords
                /\ Changed(stage, d, id, view).diff = d
                /\ Changed(stage, d, id, view).next = stage.next + 1
                /\ Changed(stage, d, id, view).result = stage.result
                /\ Changed(stage, d, id, view).changes =
                     Append(stage.changes, [id |-> id, prior |-> stage.diff.entries[id].hunks,
                                            revision |-> stage.next, view |-> view])
<1>1. /\ stage.diff \in DiffModels /\ stage.changes \in Seq(Changes) /\ stage.statusOnly \subseteq Ids
      /\ stage.next \in Nat /\ stage.result \in {"Accepted", "DiffRejected"}
  BY DEF StageRecords
<1>2. Rejected(stage) \in StageRecords
  <2>1. Rejected(stage) = [diff |-> stage.diff, changes |-> stage.changes, statusOnly |-> stage.statusOnly,
                           next |-> stage.next, result |-> "DiffRejected"]
    BY DEF Rejected, StageRecords
  <2> QED BY <1>1, <2>1 DEF StageRecords
<1>3. ASSUME NEW id \in Ids
      PROVE  /\ statusOnly(stage, id) \in StageRecords
             /\ statusOnly(stage, id).diff = stage.diff
             /\ statusOnly(stage, id).changes = stage.changes
             /\ statusOnly(stage, id).next = stage.next + 1
             /\ statusOnly(stage, id).result = stage.result
  <2> DEFINE more == stage.statusOnly \cup {id}
             later == stage.next + 1
  <2>1. statusOnly(stage, id) = [stage EXCEPT !.statusOnly = more, !.next = later]
    BY DEF statusOnly
  <2> HIDE DEF more, later
  <2>3. statusOnly(stage, id) = [diff |-> stage.diff, changes |-> stage.changes, statusOnly |-> more,
                                 next |-> later, result |-> stage.result]
    BY <2>1 DEF StageRecords
  <2> USE DEF more, later
  <2>2. stage.statusOnly \cup {id} \subseteq Ids /\ stage.next + 1 \in Nat
    BY <1>1
  <2> QED BY <1>1, <2>2, <2>3 DEF StageRecords
<1>4. ASSUME NEW d \in DiffModels, NEW id \in Ids, NEW view \in Views
      PROVE  /\ Changed(stage, d, id, view) \in StageRecords
             /\ Changed(stage, d, id, view).diff = d
             /\ Changed(stage, d, id, view).next = stage.next + 1
             /\ Changed(stage, d, id, view).result = stage.result
             /\ Changed(stage, d, id, view).changes =
                  Append(stage.changes, [id |-> id, prior |-> stage.diff.entries[id].hunks,
                                         revision |-> stage.next, view |-> view])
  <2> DEFINE c == [id |-> id, prior |-> stage.diff.entries[id].hunks, revision |-> stage.next, view |-> view]
             longer == Append(stage.changes, c)
  <2>1. c \in Changes
    <3>1. stage.diff.entries[id].hunks \in Seq(Hunks)
      BY <1>1 DEF DiffModels, Views, AnyViews
    <3> QED BY <1>1, <3>1 DEF Changes
  <2>2. longer \in Seq(Changes)
    <3> HIDE DEF c
    <3> QED BY <1>1, <2>1
  <2> DEFINE later == stage.next + 1
  <2>6. Changed(stage, d, id, view) = [stage EXCEPT !.diff = d, !.next = later, !.changes = longer]
    BY DEF Changed, hunksOf
  <2> HIDE DEF later, longer, c
  <2>3. Changed(stage, d, id, view) = [diff |-> d, changes |-> longer, statusOnly |-> stage.statusOnly,
                                       next |-> later, result |-> stage.result]
    BY <2>6 DEF StageRecords
  <2>4. stage.next + 1 \in Nat
    BY <1>1
  <2>5. /\ Changed(stage, d, id, view) \in StageRecords
        /\ Changed(stage, d, id, view).changes = longer
        /\ Changed(stage, d, id, view).diff = d
        /\ Changed(stage, d, id, view).next = stage.next + 1
        /\ Changed(stage, d, id, view).result = stage.result
    BY <1>1, <2>2, <2>3, <2>4 DEF StageRecords, later
  <2> QED BY <2>5 DEF longer, c
<1> QED BY <1>2, <1>3, <1>4

LEMMA LongerList ==
    ASSUME NEW T, NEW s \in Seq(T), NEW c \in T
    PROVE  /\ Append(s, c) \in Seq(T) /\ Len(s) \in Nat
           /\ DOMAIN s = 1..Len(s) /\ DOMAIN Append(s, c) = 1..Len(s) + 1 /\ Len(Append(s, c)) = Len(s) + 1
           /\ \A k \in 1..Len(s) : Append(s, c)[k] = s[k] /\ s[k] \in T
           /\ Append(s, c)[Len(s) + 1] = c
  OBVIOUS

\* A difference of one more file is made: the model e is that of the stage with it.
LEMMA OneMoreChanged ==
    ASSUME NEW d \in DiffModels, NEW scan \in Scans, NEW done, NEW stage, StagedTo(stage, d, scan, done),
           NEW f \in Files, f \notin done, NEW view \in Views,
           view.hunks = viewIn(scan.files[f]).hunks,
           view.hunks # <<>> => view.deleted = viewIn(scan.files[f]).deleted,
           NEW e \in DiffModels, e.revision = stage.next,
           \A x \in Ids : e.entries[x] = IF x = Git(f) THEN viewIn(scan.files[f]) ELSE stage.diff.entries[x]
    PROVE  StagedTo(Changed(stage, e, Git(f), view), d, scan, done \cup {f})
<1> DEFINE s == stage.changes
           c == [id |-> Git(f), prior |-> stage.diff.entries[Git(f)].hunks, revision |-> stage.next, view |-> view]
           t == Changed(stage, e, Git(f), view)
           n == Len(s)
           u == viewIn(scan.files[f])
<1>1. stage \in StageRecords /\ accepted(stage) /\ Git(f) \in Ids
  BY IdsApart DEF StagedTo
<1>2. /\ s \in Seq(Changes) /\ stage.diff \in DiffModels /\ stage.next \in Nat
      /\ stage.diff.revision \in Nat /\ d.revision \in Nat
  BY <1>1 DEF StageRecords, DiffModels
<1>3. /\ t \in StageRecords /\ t.diff = e /\ t.next = stage.next + 1 /\ t.result = stage.result
      /\ t.changes = Append(s, c)
  BY <1>1, StageTypes
<1>4. c \in Changes
  <2>1. stage.diff.entries[Git(f)].hunks \in Seq(Hunks)
    BY <1>1, <1>2 DEF DiffModels, Views, AnyViews
  <2> QED BY <1>1, <1>2, <2>1 DEF Changes
<1>5. /\ n \in Nat /\ DOMAIN s = 1..n /\ DOMAIN t.changes = 1..n + 1
      /\ \A k \in 1..n : t.changes[k] = s[k] /\ s[k] \in Changes
      /\ t.changes[n + 1] = c
  <2> HIDE DEF s, c, t
  <2> QED BY <1>2, <1>3, <1>4, LongerList
<1>6. /\ c.id = Git(f) /\ c.prior = stage.diff.entries[Git(f)].hunks /\ c.revision = stage.next /\ c.view = view
  OBVIOUS
<1>7. \A g \in Files : stage.diff.entries[Git(g)] = IF g \in done THEN viewIn(scan.files[g]) ELSE d.entries[Git(g)]
  BY DEF StagedTo
<1>8. \A k \in 1..n : \E g \in done \cap Files :
        s[k].id = Git(g) /\ s[k].prior = d.entries[Git(g)].hunks /\ Describes(s[k], viewIn(scan.files[g]))
  BY <1>5 DEF StagedTo
<1>9. \A j, k \in 1..n : s[j].id = s[k].id => j = k
  BY <1>5 DEF StagedTo
<1>10. /\ \A k \in 1..n : d.revision < s[k].revision /\ s[k].revision <= stage.diff.revision
       /\ \A j, k \in 1..n : j < k => s[j].revision < s[k].revision
  BY <1>5 DEF StagedTo
<1>11. \A g \in Files : (\E k \in 1..n : s[k].id = Git(g)) \/ stage.diff.entries[Git(g)] = d.entries[Git(g)]
  BY <1>5 DEF StagedTo
<1>12. stage.diff.revision < stage.next /\ d.revision <= stage.diff.revision
  BY DEF StagedTo
<1>13. \A g \in Files : Git(g) \in Ids /\ (Git(g) = Git(f) => g = f)
  BY IdsApart
<1> HIDE DEF s, c, t, n
<1>14. accepted(t) /\ t.diff.revision < t.next /\ d.revision <= t.diff.revision
  BY <1>1, <1>2, <1>3, <1>12 DEF accepted
<1>15. \A g \in Files : t.diff.entries[Git(g)] = IF g \in done \cup {f} THEN viewIn(scan.files[g]) ELSE d.entries[Git(g)]
  BY <1>3, <1>7, <1>13
<1>16. ASSUME NEW k \in 1..n + 1
       PROVE  \E g \in (done \cup {f}) \cap Files :
                 /\ t.changes[k].id = Git(g) /\ t.changes[k].prior = d.entries[Git(g)].hunks
                 /\ Describes(t.changes[k], viewIn(scan.files[g]))
  <2>1. CASE k \in 1..n
    BY <1>5, <1>8, <2>1
  <2>2. CASE k = n + 1
    <3>1. Describes(c, u)
      BY <1>6 DEF Describes
    <3>2. c.prior = d.entries[Git(f)].hunks
      BY <1>6, <1>7
    <3> QED BY <1>5, <1>6, <2>2, <3>1, <3>2
  <2> QED BY <1>5, <2>1, <2>2
<1>17. ASSUME NEW j \in 1..n + 1, NEW k \in 1..n + 1, t.changes[j].id = t.changes[k].id
       PROVE  j = k
  <2>1. \A i \in 1..n : s[i].id # Git(f)
    BY <1>8, <1>13
  <2>2. \A i \in 1..n + 1 : i \in 1..n \/ i = n + 1
    BY <1>5
  <2> QED BY <1>5, <1>6, <1>9, <1>17, <2>1, <2>2
<1>18. ASSUME NEW k \in 1..n + 1
       PROVE  /\ d.revision < t.changes[k].revision /\ t.changes[k].revision <= t.diff.revision
              /\ \A j \in 1..n + 1 : j < k => t.changes[j].revision < t.changes[k].revision
  <2>1. CASE k \in 1..n
    <3>1. s[k].revision \in Nat
      BY <1>5, <2>1 DEF Changes
    <3>2. d.revision < s[k].revision /\ s[k].revision <= stage.diff.revision
      BY <1>10, <2>1
    <3>3. \A j \in 1..n + 1 : j < k => j \in 1..n
      BY <1>5, <2>1
    <3> QED BY <1>2, <1>3, <1>5, <1>10, <1>12, <2>1, <3>1, <3>2, <3>3
  <2>2. CASE k = n + 1
    <3>1. t.changes[k].revision = stage.next /\ t.diff.revision = stage.next
      BY <1>3, <1>5, <1>6, <2>2
    <3>2. ASSUME NEW j \in 1..n + 1, j < k PROVE t.changes[j].revision < stage.next
      <4>1. j \in 1..n
        BY <1>5, <2>2, <3>2
      <4>2. s[j].revision \in Nat /\ t.changes[j] = s[j]
        BY <1>5, <4>1 DEF Changes
      <4>3. s[j].revision <= stage.diff.revision
        BY <1>10, <4>1
      <4> QED BY <1>2, <1>12, <4>2, <4>3
    <3> QED BY <1>2, <1>12, <3>1, <3>2
  <2> QED BY <1>5, <2>1, <2>2
<1>19. ASSUME NEW g \in Files
       PROVE  \/ \E k \in 1..n + 1 : t.changes[k].id = Git(g)
              \/ t.diff.entries[Git(g)] = d.entries[Git(g)]
  <2>1. CASE g = f
    <3>1. n + 1 \in 1..n + 1
      BY <1>5
    <3> QED BY <1>5, <1>6, <2>1, <3>1
  <2>2. CASE g # f
    <3>1. t.diff.entries[Git(g)] = stage.diff.entries[Git(g)]
      BY <1>3, <1>13, <2>2
    <3>2. \A k \in 1..n : k \in 1..n + 1 /\ t.changes[k] = s[k]
      BY <1>5
    <3> QED BY <1>11, <3>1, <3>2
  <2> QED BY <2>1, <2>2
<1>20. \A g \in Files : t.diff.entries[External(g)] = d.entries[External(g)]
  <2>1. \A g \in Files : External(g) \in Ids /\ External(g) # Git(f)
    BY IdsApart
  <2>2. \A g \in Files : stage.diff.entries[External(g)] = d.entries[External(g)]
    BY DEF StagedTo
  <2> QED BY <1>3, <2>1, <2>2
<1>21. StagedTo(t, d, scan, done \cup {f})
  BY <1>3, <1>5, <1>14, <1>15, <1>16, <1>17, <1>18, <1>19, <1>20 DEF StagedTo
<1> QED BY <1>21 DEF t

\* A file that needs no difference is done with the one it has.
LEMMA OneMoreSame ==
    ASSUME NEW d, NEW scan, NEW done, NEW stage, StagedTo(stage, d, scan, done),
           NEW f \in Files, f \notin done, stage.diff.entries[Git(f)] = viewIn(scan.files[f])
    PROVE  StagedTo(stage, d, scan, done \cup {f})
<1>1. \A g \in Files : stage.diff.entries[Git(g)] = IF g \in done \cup {f} THEN viewIn(scan.files[g]) ELSE d.entries[Git(g)]
  BY DEF StagedTo
<1>2. ASSUME NEW k \in DOMAIN stage.changes
      PROVE  \E g \in (done \cup {f}) \cap Files :
                /\ stage.changes[k].id = Git(g) /\ stage.changes[k].prior = d.entries[Git(g)].hunks
                /\ Describes(stage.changes[k], viewIn(scan.files[g]))
  BY DEF StagedTo
<1> QED BY <1>1, <1>2 DEF StagedTo

\* A revision may be skipped.
LEMMA RevisionSkipped ==
    ASSUME NEW d, NEW scan, NEW done, NEW stage, StagedTo(stage, d, scan, done), NEW id \in Ids
    PROVE  StagedTo(statusOnly(stage, id), d, scan, done)
<1> DEFINE t == statusOnly(stage, id)
<1>1. stage \in StageRecords
  BY DEF StagedTo
<1>2. /\ t \in StageRecords /\ t.diff = stage.diff /\ t.changes = stage.changes
      /\ t.next = stage.next + 1 /\ t.result = stage.result
  BY <1>1, StageTypes
<1> HIDE DEF t
<1>3. stage.diff.revision < t.next
  <2>1. stage.diff.revision \in Nat /\ stage.next \in Nat
    BY <1>1 DEF StageRecords, DiffModels
  <2>2. stage.diff.revision < stage.next
    BY DEF StagedTo
  <2> QED BY <1>2, <2>1, <2>2
<1>4. StagedTo(t, d, scan, done)
  BY <1>2, <1>3 DEF StagedTo, accepted
<1> QED BY <1>4 DEF t

\* What is not known is NoView.
Plain(d) == \A id \in Ids : ~d.entries[id].present => d.entries[id] = NoView

\* A file the scan says nothing of, or that is too large, is known no more.
LEMMA FileRemoved ==
    ASSUME NEW d \in DiffModels, Plain(d), NEW scan \in Scans, NEW done, NEW stage, StagedTo(stage, d, scan, done),
           NEW f \in Files, f \notin done, viewIn(scan.files[f]) = NoView
    PROVE  StagedTo(removeDetailedFile(stage, Git(f)), d, scan, done \cup {f})
<1>1. stage \in StageRecords /\ Git(f) \in Ids
  BY IdsApart DEF StagedTo
<1>2. stage.diff \in DiffModels /\ stage.next \in Nat /\ stage.diff.revision \in Nat
  BY <1>1 DEF StageRecords, DiffModels
<1>3. stage.diff.entries[Git(f)] = d.entries[Git(f)] /\ stage.diff.revision < stage.next
  BY DEF StagedTo
<1>4. CASE Git(f) \notin identified(stage.diff)
  <2>1. ~d.entries[Git(f)].present
    BY <1>1, <1>3, <1>4 DEF identified
  <2>2. stage.diff.entries[Git(f)] = viewIn(scan.files[f])
    BY <1>1, <1>3, <2>1 DEF Plain
  <2>3. removeDetailedFile(stage, Git(f)) = stage
    BY <1>4 DEF removeDetailedFile
  <2> QED BY <2>2, <2>3, OneMoreSame
<1>5. CASE Git(f) \in identified(stage.diff)
  <2> DEFINE e == removeFile(stage.diff, Git(f), stage.next)
  <2>1. ~stale(stage.diff, stage.next)
    BY <1>2, <1>3 DEF stale
  <2>2. e = withView(stage.diff, Git(f), NoView, stage.next)
    BY <1>5, <2>1 DEF removeFile
  <2>3. /\ e \in DiffModels /\ e.revision = stage.next
        /\ \A x \in Ids : e.entries[x] = IF x = Git(f) THEN NoView ELSE stage.diff.entries[x]
    <3> HIDE DEF e
    <3> QED BY <1>1, <1>2, <2>2, WithViewType, NoViewType
  <2>4. removeDetailedFile(stage, Git(f)) = Changed(stage, e, Git(f), RemovedView)
    BY <1>5, <2>1 DEF removeDetailedFile
  <2>5. /\ RemovedView \in Views /\ RemovedView.hunks = viewIn(scan.files[f]).hunks
        /\ RemovedView.hunks # <<>> => RemovedView.deleted = viewIn(scan.files[f]).deleted
    BY NoViewType
  <2> HIDE DEF e
  <2>6. StagedTo(Changed(stage, e, Git(f), RemovedView), d, scan, done \cup {f})
    BY <2>3, <2>5, OneMoreChanged
  <2> QED BY <2>4, <2>6
<1> QED BY <1>4, <1>5

\* A file of the scan is known by what changed, unless that is too large.
LEMMA FileStaged ==
    ASSUME NEW d \in DiffModels, Plain(d), NEW scan \in Scans, NEW done, NEW stage, StagedTo(stage, d, scan, done),
           NEW f \in Files, f \notin done, f \in listed(scan)
    PROVE  StagedTo(stageFile(stage, f, scan.files[f]), d, scan, done \cup {f})
<1> DEFINE file == scan.files[f]
           v == View(file.baseline, file.content)
<1>1. stage \in StageRecords /\ Git(f) \in Ids
  BY IdsApart DEF StagedTo
<1>2. stage.diff \in DiffModels /\ stage.next \in Nat /\ stage.diff.revision \in Nat
  BY <1>1 DEF StageRecords, DiffModels
<1>3. ~stale(stage.diff, stage.next)
  <2>1. stage.diff.revision < stage.next
    BY DEF StagedTo
  <2> QED BY <1>2, <2>1 DEF stale
<1>4. file \in Pairs /\ file # Unlisted
  BY DEF Scans, listed
<1>5. file.baseline \in FileContents /\ file.content \in FileContents
  BY <1>4 DEF Pairs
<1>6. v \in Views
  BY <1>5, DifferenceType
<1>7. CASE tooLarge(file.baseline, file.content)
  <2>1. viewIn(file) = NoView
    BY <1>7 DEF viewIn
  <2>2. stageFile(stage, f, file) = removeDetailedFile(statusOnly(stage, Git(f)), Git(f))
    BY <1>3, <1>7 DEF stageFile
  <2>3. StagedTo(statusOnly(stage, Git(f)), d, scan, done)
    BY <1>1, RevisionSkipped
  <2>4. StagedTo(removeDetailedFile(statusOnly(stage, Git(f)), Git(f)), d, scan, done \cup {f})
    BY <2>1, <2>3, FileRemoved
  <2> QED BY <2>2, <2>4
<1>8. CASE ~tooLarge(file.baseline, file.content)
  <2> DEFINE e == updateGitFile(stage.diff, f, file.baseline, file.content, stage.next)
  <2>1. viewIn(file) = v
    BY <1>4, <1>8 DEF viewIn
  <2>2. stageFile(stage, f, file) = Changed(stage, e, Git(f), v)
    BY <1>3, <1>8 DEF stageFile
  <2>3. e = withView(stage.diff, Git(f), v, stage.next)
    BY <1>3, <1>8 DEF updateGitFile
  <2> HIDE DEF e, v, file
  <2>4. /\ e \in DiffModels /\ e.revision = stage.next
        /\ \A x \in Ids : e.entries[x] = IF x = Git(f) THEN v ELSE stage.diff.entries[x]
    BY <1>1, <1>2, <1>6, <2>3, WithViewType
  <2>5. viewIn(scan.files[f]) = v
    BY <2>1 DEF file
  <2>6. StagedTo(Changed(stage, e, Git(f), v), d, scan, done \cup {f})
    BY <1>6, <2>4, <2>5, OneMoreChanged
  <2> QED BY <2>2, <2>6 DEF file
<1> QED BY <1>7, <1>8

LEMMA StageClosed ==
    ASSUME NEW stage \in StageRecords, NEW f \in Files, NEW file \in Pairs
    PROVE  /\ removeDetailedFile(stage, Git(f)) \in StageRecords
           /\ stageFile(stage, f, file) \in StageRecords
<1>1. Git(f) \in Ids
  BY IdsApart
<1>2. ASSUME NEW x \in StageRecords
      PROVE  removeDetailedFile(x, Git(f)) \in StageRecords
  <2> DEFINE e == removeFile(x.diff, Git(f), x.next)
  <2>1. x.diff \in DiffModels /\ x.next \in Nat
    BY DEF StageRecords
  <2>2. e = x.diff \/ e = withView(x.diff, Git(f), NoView, x.next)
    BY DEF removeFile
  <2> HIDE DEF e
  <2>3. e \in DiffModels
    BY <1>1, <2>1, <2>2, WithViewType, NoViewType
  <2>4. Rejected(x) \in StageRecords /\ Changed(x, e, Git(f), RemovedView) \in StageRecords
    BY <1>1, <2>3, StageTypes, NoViewType
  <2>5. removeDetailedFile(x, Git(f)) \in {x, Rejected(x), Changed(x, e, Git(f), RemovedView)}
    BY DEF removeDetailedFile, e
  <2> QED BY <2>4, <2>5
<1>3. stageFile(stage, f, file) \in StageRecords
  <2> DEFINE e == updateGitFile(stage.diff, f, file.baseline, file.content, stage.next)
             v == View(file.baseline, file.content)
             s == statusOnly(stage, Git(f))
  <2>1. stage.diff \in DiffModels /\ stage.next \in Nat
    BY DEF StageRecords
  <2>2. v \in Views
    <3>1. file.baseline \in FileContents /\ file.content \in FileContents
      BY DEF Pairs
    <3> QED BY <3>1, DifferenceType
  <2>3. e = stage.diff \/ e = withView(stage.diff, Git(f), v, stage.next)
    BY DEF updateGitFile
  <2>4. stageFile(stage, f, file) \in {Rejected(stage), removeDetailedFile(s, Git(f)), Changed(stage, e, Git(f), v)}
    BY DEF stageFile
  <2> HIDE DEF e, v
  <2>5. e \in DiffModels
    BY <1>1, <2>1, <2>2, <2>3, WithViewType
  <2>6. s \in StageRecords
    BY <1>1, StageTypes
  <2> HIDE DEF s
  <2>7. removeDetailedFile(s, Git(f)) \in StageRecords
    BY <1>2, <2>6
  <2>8. Rejected(stage) \in StageRecords /\ Changed(stage, e, Git(f), v) \in StageRecords
    BY <1>1, <2>2, <2>5, StageTypes
  <2> QED BY <2>4, <2>7, <2>8
<1> QED BY <1>2, <1>3

LEMMA NothingStaged ==
    ASSUME NEW d \in DiffModels, NEW scan
    PROVE  StagedTo(Stage(d), d, scan, {})
<1> DEFINE s == Stage(d)
<1>1. /\ s.diff = d /\ s.changes = <<>> /\ s.statusOnly = {} /\ s.next = d.revision + 1 /\ s.result = "Accepted"
      /\ s = [diff |-> d, changes |-> <<>>, statusOnly |-> {}, next |-> d.revision + 1, result |-> "Accepted"]
  BY DEF Stage
<1>2. d.revision \in Nat /\ d.revision + 1 \in Nat
  BY DEF DiffModels
<1>3. <<>> \in Seq(Changes) /\ {} \subseteq Ids /\ DOMAIN <<>> = {}
  OBVIOUS
<1>4. s \in StageRecords
  BY <1>1, <1>2, <1>3 DEF StageRecords
<1> HIDE DEF s
<1>5. StagedTo(s, d, scan, {})
  BY <1>1, <1>2, <1>3, <1>4 DEF StagedTo, accepted
<1> QED BY <1>5 DEF s

\* The loop over the files of a scan.
LEMMA ListedStaged ==
    ASSUME NEW d \in DiffModels, Plain(d), NEW scan \in Scans
    PROVE  StagedTo(withListed(scan, d), d, scan, listed(scan))
<1> DEFINE Step(x, n) == IF ~accepted(x) \/ n \notin listed(scan) THEN x ELSE stageFile(x, n, scan.files[n])
           Loop(f) == f = [n \in 0..FileCount |-> IF n = 0 THEN Stage(d) ELSE Step(f[n - 1], n)]
           step == [n \in 1..FileCount |-> [x \in StageRecords |-> Step(x, n)]]
<1>1. FileCount \in Nat /\ Files = 1..FileCount
  BY DiffIngestionAssumption DEF Files
<1>2. ASSUME NEW x \in StageRecords, NEW n \in 1..FileCount
      PROVE  Step(x, n) \in StageRecords
  <2>1. scan.files[n] \in Pairs /\ n \in Files
    BY <1>1 DEF Scans
  <2>2. stageFile(x, n, scan.files[n]) \in StageRecords
    BY <2>1, StageClosed
  <2> QED BY <2>2
<1>3. Stage(d) \in StageRecords
  BY NothingStaged DEF StagedTo
<1> HIDE DEF Step
<1>4. step \in [1..FileCount -> [StageRecords -> StageRecords]]
  BY <1>2
<1>5. PICK f \in [0..FileCount -> StageRecords] : Iterates(f, FileCount, Stage(d), step)
  <2> HIDE DEF step
  <2> QED BY <1>1, <1>3, <1>4, Recursion, Zenon
<1>6. Loop(f)
  <2>1. ASSUME NEW n \in 1..FileCount PROVE f[n] = Step(f[n - 1], n)
    <3>1. n - 1 \in 0..FileCount
      BY <1>1
    <3>2. f[n - 1] \in StageRecords
      BY <3>1
    <3> QED BY <1>5, <3>2 DEF Iterates
  <2>2. \A n \in 0..FileCount : n # 0 => n \in 1..FileCount
    BY <1>1
  <2>3. \A n \in 0..FileCount : f[n] = IF n = 0 THEN Stage(d) ELSE Step(f[n - 1], n)
    BY <1>5, <2>1, <2>2 DEF Iterates
  <2>4. f = [n \in 0..FileCount |-> f[n]]
    OBVIOUS
  <2> QED BY <2>3, <2>4
<1> DEFINE after == CHOOSE g : Loop(g)
<1>7. Loop(after)
  <2> HIDE DEF Loop
  <2> QED BY <1>6
<1>8. withListed(scan, d) = after[FileCount]
  BY DEF withListed, Step
<1> HIDE DEF after
<1>9. \A n \in 0..FileCount : after[n] = IF n = 0 THEN Stage(d) ELSE Step(after[n - 1], n)
  BY <1>7
<1> DEFINE Done(n) == listed(scan) \cap 1..n
           P == {n \in 0..FileCount : StagedTo(after[n], d, scan, Done(n))}
<1>10. 0 \in P
  <2>1. after[0] = Stage(d) /\ Done(0) = {} /\ 0 \in 0..FileCount
    BY <1>1, <1>9
  <2> QED BY <2>1, NothingStaged
<1>11. ASSUME NEW n \in 1..FileCount, n - 1 \in P PROVE n \in P
  <2>1. n \in 0..FileCount /\ n # 0 /\ n - 1 \in 0..FileCount /\ n \in Files
    BY <1>1
  <2>2. StagedTo(after[n - 1], d, scan, Done(n - 1)) /\ accepted(after[n - 1])
    BY <1>11 DEF StagedTo
  <2>3. after[n] = Step(after[n - 1], n)
    BY <1>9, <2>1
  <2>4. CASE n \in listed(scan)
    <3>1. Done(n) = Done(n - 1) \cup {n} /\ n \notin Done(n - 1)
      BY <2>1, <2>4
    <3>2. after[n] = stageFile(after[n - 1], n, scan.files[n])
      BY <2>2, <2>3, <2>4 DEF Step
    <3> DEFINE done == Done(n - 1)
               x == after[n - 1]
    <3>3. StagedTo(x, d, scan, done) /\ n \notin done
      BY <2>2, <3>1
    <3> HIDE DEF done, x, Done
    <3>4. StagedTo(stageFile(x, n, scan.files[n]), d, scan, done \cup {n})
      BY <2>1, <2>4, <3>3, FileStaged
    <3> QED BY <2>1, <3>1, <3>2, <3>4 DEF done, x
  <2>5. CASE n \notin listed(scan)
    <3>1. Done(n) = Done(n - 1)
      BY <2>1, <2>5
    <3>2. after[n] = after[n - 1]
      BY <2>2, <2>3, <2>5 DEF Step
    <3> HIDE DEF Done
    <3> QED BY <2>1, <2>2, <3>1, <3>2
  <2> QED BY <2>4, <2>5
<1>12. FileCount \in P
  <2> HIDE DEF P
  <2>1. \A n \in 0..FileCount : n \in P
    BY <1>1, <1>10, <1>11, UpTo
  <2> QED BY <1>1, <2>1
<1>13. Done(FileCount) = listed(scan)
  BY <1>1 DEF listed
<1> QED BY <1>8, <1>12, <1>13

\* The loop over the files the scan says nothing of.
LEMMA CleanRemoved ==
    ASSUME NEW d \in DiffModels, Plain(d), NEW scan \in Scans, NEW stage, StagedTo(stage, d, scan, listed(scan))
    PROVE  StagedTo(withoutClean(stage, scan), d, scan, Files)
<1> DEFINE Step(x, n) == IF ~accepted(x) \/ n \in listed(scan) THEN x ELSE removeDetailedFile(x, Git(n))
           Loop(f) == f = [n \in 0..FileCount |-> IF n = 0 THEN stage ELSE Step(f[n - 1], n)]
           step == [n \in 1..FileCount |-> [x \in StageRecords |-> Step(x, n)]]
<1>1. FileCount \in Nat /\ Files = 1..FileCount
  BY DiffIngestionAssumption DEF Files
<1>2. ASSUME NEW x \in StageRecords, NEW n \in 1..FileCount
      PROVE  Step(x, n) \in StageRecords
  <2>1. n \in Files
    BY <1>1
  <2>2. removeDetailedFile(x, Git(n)) \in StageRecords
    BY <2>1, StageClosed, UnlistedFile
  <2> QED BY <2>2
<1>3. stage \in StageRecords
  BY DEF StagedTo
<1> HIDE DEF Step
<1>4. step \in [1..FileCount -> [StageRecords -> StageRecords]]
  BY <1>2
<1>5. PICK f \in [0..FileCount -> StageRecords] : Iterates(f, FileCount, stage, step)
  <2> HIDE DEF step
  <2> QED BY <1>1, <1>3, <1>4, Recursion, Zenon
<1>6. Loop(f)
  <2>1. ASSUME NEW n \in 1..FileCount PROVE f[n] = Step(f[n - 1], n)
    <3>1. n - 1 \in 0..FileCount
      BY <1>1
    <3>2. f[n - 1] \in StageRecords
      BY <3>1
    <3> QED BY <1>5, <3>2 DEF Iterates
  <2>2. \A n \in 0..FileCount : n # 0 => n \in 1..FileCount
    BY <1>1
  <2>3. \A n \in 0..FileCount : f[n] = IF n = 0 THEN stage ELSE Step(f[n - 1], n)
    BY <1>5, <2>1, <2>2 DEF Iterates
  <2>4. f = [n \in 0..FileCount |-> f[n]]
    OBVIOUS
  <2> QED BY <2>3, <2>4
<1> DEFINE after == CHOOSE g : Loop(g)
<1>7. Loop(after)
  <2> HIDE DEF Loop
  <2> QED BY <1>6
<1>8. withoutClean(stage, scan) = after[FileCount]
  BY DEF withoutClean, Step
<1> HIDE DEF after
<1>9. \A n \in 0..FileCount : after[n] = IF n = 0 THEN stage ELSE Step(after[n - 1], n)
  BY <1>7
<1> DEFINE Done(n) == listed(scan) \cup 1..n
           P == {n \in 0..FileCount : StagedTo(after[n], d, scan, Done(n))}
<1>10. 0 \in P
  <2>1. after[0] = stage /\ Done(0) = listed(scan) /\ 0 \in 0..FileCount
    BY <1>1, <1>9
  <2> QED BY <2>1
<1>11. ASSUME NEW n \in 1..FileCount, n - 1 \in P PROVE n \in P
  <2>1. n \in 0..FileCount /\ n # 0 /\ n - 1 \in 0..FileCount /\ n \in Files
    BY <1>1
  <2>2. StagedTo(after[n - 1], d, scan, Done(n - 1)) /\ accepted(after[n - 1])
    BY <1>11 DEF StagedTo
  <2>3. after[n] = Step(after[n - 1], n)
    BY <1>9, <2>1
  <2>4. Done(n) = Done(n - 1) \cup {n}
    BY <2>1
  <2>5. CASE n \in listed(scan)
    <3>1. Done(n) = Done(n - 1)
      BY <2>4, <2>5
    <3>2. after[n] = after[n - 1]
      BY <2>2, <2>3, <2>5 DEF Step
    <3> HIDE DEF Done
    <3> QED BY <2>1, <2>2, <3>1, <3>2
  <2>6. CASE n \notin listed(scan)
    <3>1. n \notin Done(n - 1)
      BY <2>1, <2>6
    <3>2. after[n] = removeDetailedFile(after[n - 1], Git(n))
      BY <2>2, <2>3, <2>6 DEF Step
    <3>3. viewIn(scan.files[n]) = NoView
      BY <2>1, <2>6, UnlistedFile DEF listed
    <3> DEFINE done == Done(n - 1)
               x == after[n - 1]
    <3>4. StagedTo(x, d, scan, done) /\ n \notin done
      BY <2>2, <3>1
    <3> HIDE DEF done, x, Done
    <3>5. StagedTo(removeDetailedFile(x, Git(n)), d, scan, done \cup {n})
      BY <2>1, <3>3, <3>4, FileRemoved
    <3> QED BY <2>1, <2>4, <3>2, <3>5 DEF done, x
  <2> QED BY <2>5, <2>6
<1>12. FileCount \in P
  <2> HIDE DEF P
  <2>1. \A n \in 0..FileCount : n \in P
    BY <1>1, <1>10, <1>11, UpTo
  <2> QED BY <1>1, <2>1
<1>13. Done(FileCount) = Files
  BY <1>1 DEF listed
<1> QED BY <1>8, <1>12, <1>13

\* A scan is staged whole.
LEMMA ScanStaged ==
    ASSUME NEW d \in DiffModels, Plain(d), NEW scan \in Scans
    PROVE  StagedTo(withoutClean(withListed(scan, d), scan), d, scan, Files)
BY ListedStaged, CleanRemoved

-----------------------------------------------------------------------------
(* Following a burst. *)

OnePerFile(queue) == \A i, j \in DOMAIN queue : queue[i].id = queue[j].id => i = j

\* The first n targets without those of a file: none is repeated, and the last stays the last.
KeptOf(kept, queue, id, n) ==
  /\ kept \in Seq(Targets) /\ Len(kept) <= n /\ OnePerFile(kept)
  /\ \A j \in DOMAIN kept : kept[j].id # id /\ \E i \in 1..n : kept[j] = queue[i]
  /\ n # 0 /\ queue[n].id # id => Len(kept) # 0 /\ kept[Len(kept)] = queue[n]

LEMMA OneMoreKept ==
    ASSUME NEW queue \in Seq(Targets), OnePerFile(queue), NEW id, NEW n \in DOMAIN queue, NEW kept,
           KeptOf(kept, queue, id, n - 1)
    PROVE  KeptOf(IF queue[n].id = id THEN kept ELSE Append(kept, queue[n]), queue, id, n)
<1> DEFINE t == queue[n]
           r == Append(kept, t)
           m == Len(kept)
<1>1. Len(queue) \in Nat /\ DOMAIN queue = 1..Len(queue) /\ n \in Nat \ {0} /\ t \in Targets
  BY ElementOfSeq
<1>2. kept \in Seq(Targets)
  BY DEF KeptOf
<1>3. /\ r \in Seq(Targets) /\ m \in Nat /\ DOMAIN kept = 1..m /\ DOMAIN r = 1..m + 1 /\ Len(r) = m + 1
      /\ \A k \in 1..m : r[k] = kept[k]
      /\ r[m + 1] = t
  <2> HIDE DEF r, m, t
  <2> USE DEF r, m
  <2> QED BY <1>1, <1>2, LongerList
<1>4. /\ m <= n - 1
      /\ \A j \in 1..m : kept[j].id # id /\ \E i \in 1..n - 1 : kept[j] = queue[i]
      /\ \A j, k \in 1..m : kept[j].id = kept[k].id => j = k
  BY <1>3 DEF KeptOf, OnePerFile
<1>5. \A i \in 1..n - 1 : i \in 1..n /\ i \in DOMAIN queue /\ i # n
  BY <1>1
<1>6. CASE t.id = id
  <2>1. m <= n
    BY <1>1, <1>3, <1>4
  <2>2. KeptOf(kept, queue, id, n)
    BY <1>2, <1>3, <1>4, <1>5, <1>6, <2>1 DEF KeptOf, OnePerFile
  <2> QED BY <1>6, <2>2
<1>7. CASE t.id # id
  <2>1. \A j \in 1..m : kept[j].id # t.id
    BY <1>1, <1>4, <1>5 DEF OnePerFile
  <2>2. \A j \in 1..m + 1 : j \in 1..m \/ j = m + 1
    BY <1>3
  <2> HIDE DEF r, m
  <2>3. ASSUME NEW j \in 1..m + 1, NEW k \in 1..m + 1, r[j].id = r[k].id
        PROVE  j = k
    BY <1>3, <1>4, <2>1, <2>2, <2>3
  <2>4. ASSUME NEW j \in 1..m + 1
        PROVE  r[j].id # id /\ \E i \in 1..n : r[j] = queue[i]
    <3>1. CASE j \in 1..m
      BY <1>3, <1>4, <1>5, <3>1
    <3>2. CASE j = m + 1
      BY <1>1, <1>3, <1>7, <3>2
    <3> QED BY <2>2, <3>1, <3>2
  <2>5. m + 1 <= n /\ m + 1 # 0
    BY <1>1, <1>3, <1>4
  <2>6. KeptOf(r, queue, id, n)
    BY <1>3, <2>3, <2>4, <2>5 DEF KeptOf, OnePerFile
  <2> QED BY <1>7, <2>6 DEF r
<1> QED BY <1>6, <1>7

LEMMA WithoutFile ==
    ASSUME NEW queue \in Seq(Targets), OnePerFile(queue), NEW id
    PROVE  KeptOf(without(queue, id), queue, id, Len(queue))
<1> DEFINE N == Len(queue)
           Step(x, n) == IF queue[n].id = id THEN x ELSE Append(x, queue[n])
           Loop(f) == f = [n \in 0..N |-> IF n = 0 THEN <<>> ELSE Step(f[n - 1], n)]
           step == [n \in 1..N |-> [x \in Seq(Targets) |-> Step(x, n)]]
<1>1. N \in Nat /\ DOMAIN queue = 1..N
  OBVIOUS
<1>2. ASSUME NEW x \in Seq(Targets), NEW n \in 1..N
      PROVE  Step(x, n) \in Seq(Targets)
  <2>1. queue[n] \in Targets
    BY <1>1, ElementOfSeq
  <2> QED BY <2>1
<1>3. <<>> \in Seq(Targets)
  OBVIOUS
<1> DEFINE none == <<>>
<1> HIDE DEF Step, N, none
<1>4. step \in [1..N -> [Seq(Targets) -> Seq(Targets)]]
  BY <1>2
<1>5. PICK f \in [0..N -> Seq(Targets)] : Iterates(f, N, none, step)
  <2>1. none \in Seq(Targets)
    BY <1>3 DEF none
  <2> HIDE DEF step
  <2> QED BY <1>1, <2>1, <1>4, Recursion, Zenon
<1>6. Loop(f)
  <2>1. ASSUME NEW n \in 1..N PROVE f[n] = Step(f[n - 1], n)
    <3>1. n - 1 \in 0..N
      BY <1>1
    <3>2. f[n - 1] \in Seq(Targets)
      BY <3>1
    <3> QED BY <1>5, <3>2 DEF Iterates
  <2>2. \A n \in 0..N : n # 0 => n \in 1..N
    BY <1>1
  <2>3. \A n \in 0..N : f[n] = IF n = 0 THEN <<>> ELSE Step(f[n - 1], n)
    BY <1>5, <2>1, <2>2 DEF Iterates, none
  <2>4. f = [n \in 0..N |-> f[n]]
    OBVIOUS
  <2> QED BY <2>3, <2>4
<1> DEFINE kept == CHOOSE g : Loop(g)
<1>7. Loop(kept)
  <2> HIDE DEF Loop
  <2> QED BY <1>6
<1>8. without(queue, id) = kept[N]
  BY DEF without, Step, N
<1> HIDE DEF kept
<1>9. \A n \in 0..N : kept[n] = IF n = 0 THEN <<>> ELSE Step(kept[n - 1], n)
  BY <1>7
<1> DEFINE P == {n \in 0..N : KeptOf(kept[n], queue, id, n)}
<1>10. 0 \in P
  <2>1. kept[0] = <<>> /\ 0 \in 0..N
    BY <1>1, <1>9
  <2>2. KeptOf(<<>>, queue, id, 0)
    BY DEF KeptOf, OnePerFile
  <2> QED BY <2>1, <2>2
<1>11. ASSUME NEW n \in 1..N, n - 1 \in P PROVE n \in P
  <2>1. n \in 0..N /\ n # 0 /\ n \in DOMAIN queue
    BY <1>1
  <2>2. KeptOf(kept[n - 1], queue, id, n - 1)
    BY <1>11
  <2>3. kept[n] = IF queue[n].id = id THEN kept[n - 1] ELSE Append(kept[n - 1], queue[n])
    BY <1>9, <2>1 DEF Step
  <2> DEFINE x == kept[n - 1]
  <2> HIDE DEF x
  <2>4. KeptOf(IF queue[n].id = id THEN x ELSE Append(x, queue[n]), queue, id, n)
    BY <2>1, <2>2, OneMoreKept DEF x
  <2> QED BY <2>1, <2>3, <2>4 DEF x
<1>12. N \in P
  <2> HIDE DEF P
  <2>1. \A n \in 0..N : n \in P
    BY <1>1, <1>10, <1>11, UpTo
  <2> QED BY <1>1, <2>1
<1> QED BY <1>8, <1>12 DEF N

\* A target of another file is queued behind the others, the oldest of them gives way.
LEMMA TargetQueued ==
    ASSUME NEW left \in Seq(Targets), OnePerFile(left), Len(left) <= QueueCapacity,
           NEW t \in Targets, \A j \in DOMAIN left : left[j].id # t.id
    PROVE  /\ queued(left, t) \in Seq(Targets) /\ OnePerFile(queued(left, t))
           /\ Len(queued(left, t)) <= QueueCapacity /\ Len(queued(left, t)) # 0
           /\ queued(left, t)[Len(queued(left, t))] = t
           /\ \A j \in DOMAIN queued(left, t) : queued(left, t)[j] = t \/ \E i \in DOMAIN left : queued(left, t)[j] = left[i]
<1> DEFINE n == Len(left)
           r == Append(left, t)
           u == Tail(r)
<1>1. QueueCapacity \in Nat \ {0}
  BY DiffIngestionAssumption
<1>2. /\ r \in Seq(Targets) /\ n \in Nat /\ DOMAIN left = 1..n /\ DOMAIN r = 1..n + 1 /\ Len(r) = n + 1
      /\ \A k \in 1..n : r[k] = left[k]
      /\ r[n + 1] = t
  BY LongerList
<1> HIDE DEF r
<1>3. /\ u \in Seq(Targets) /\ Len(u) = n /\ DOMAIN u = 1..n
      /\ \A k \in 1..n : u[k] = r[k + 1]
  BY <1>2
<1>9. n <= QueueCapacity
  OBVIOUS
<1> DEFINE q == queued(left, t)
<1> HIDE DEF n, u, q
<1>4. \A j \in 1..n + 1 : j \in 1..n \/ j = n + 1
  BY <1>2
<1>5. \A j, k \in 1..n + 1 : r[j].id = r[k].id => j = k
  BY <1>2, <1>4 DEF OnePerFile
<1>6. q = IF n + 1 > QueueCapacity THEN u ELSE r
  BY <1>2 DEF queued, limitedQueue, r, u, q
<1>7. CASE n + 1 > QueueCapacity
  <2>1. n = QueueCapacity /\ n # 0 /\ n \in 1..n
    BY <1>1, <1>2, <1>7, <1>9
  <2>2. \A k \in 1..n : k + 1 \in 1..n + 1
    BY <1>2
  <2>3. ASSUME NEW j \in 1..n, NEW k \in 1..n, u[j].id = u[k].id PROVE j = k
    <3>1. j + 1 = k + 1
      BY <1>3, <1>5, <2>2, <2>3
    <3> QED BY <1>2, <3>1
  <2>4. u[n] = t
    BY <1>2, <1>3, <2>1
  <2>5. ASSUME NEW j \in 1..n PROVE u[j] = t \/ \E i \in 1..n : u[j] = left[i]
    <3>1. j + 1 \in 1..n \/ j + 1 = n + 1
      BY <1>4, <2>2
    <3> QED BY <1>2, <1>3, <3>1
  <2>6. q = u
    BY <1>6, <1>7
  <2>7. OnePerFile(u)
    BY <1>3, <2>3 DEF OnePerFile
  <2>8. Len(u) <= QueueCapacity /\ Len(u) # 0 /\ u[Len(u)] = t
    BY <1>1, <1>3, <2>1, <2>4
  <2>9. \A j \in DOMAIN u : u[j] = t \/ \E i \in DOMAIN left : u[j] = left[i]
    BY <1>2, <1>3, <2>5
  <2>10. u \in Seq(Targets)
    BY <1>3
  <2> QED BY <2>6, <2>7, <2>8, <2>9, <2>10, Zenon DEF q
<1>8. CASE ~(n + 1 > QueueCapacity)
  <2>1. Len(r) <= QueueCapacity /\ Len(r) # 0 /\ r[Len(r)] = t
    BY <1>1, <1>2, <1>8
  <2>2. q = r
    BY <1>6, <1>8
  <2>3. OnePerFile(r)
    BY <1>2, <1>5 DEF OnePerFile
  <2>4. ASSUME NEW j \in 1..n + 1 PROVE r[j] = t \/ \E i \in 1..n : r[j] = left[i]
    BY <1>2, <1>4
  <2> QED BY <1>2, <2>1, <2>2, <2>3, <2>4 DEF q
<1> QED BY <1>7, <1>8

\* What one change makes of the follow model.
LEMMA ChangeAccepted ==
    ASSUME NEW m \in FollowModels, NEW change \in Changes, OnePerFile(m.queue), Len(m.queue) <= QueueCapacity
    PROVE  LET r == acceptChange(m, change)
               new == newOf(change) # {}
           IN /\ r \in FollowModels /\ r.mode = m.mode /\ r.active = m.active /\ r.latest = change.revision
              /\ OnePerFile(r.queue) /\ Len(r.queue) <= QueueCapacity
              /\ new => r.activation = targetFor(change) /\ Len(r.queue) # 0 /\ r.queue[Len(r.queue)] = targetFor(change)
              /\ ~new => r.activation = NoTarget
              /\ \A j \in DOMAIN r.queue :
                   \/ new /\ r.queue[j] = targetFor(change)
                   \/ r.queue[j].id # change.id /\ \E i \in DOMAIN m.queue : r.queue[j] = m.queue[i]
              /\ Len(m.queue) # 0 /\ m.queue[Len(m.queue)].id # change.id =>
                   Len(r.queue) # 0 /\ (new \/ r.queue[Len(r.queue)] = m.queue[Len(m.queue)])
<1> DEFINE r == acceptChange(m, change)
           new == newOf(change) # {}
           left == without(m.queue, change.id)
           t == targetFor(change)
           q == queued(left, t)
<1>1. /\ m.mode \in {"Following", "Paused"} /\ m.queue \in Seq(Targets) /\ m.active \in MaybeTargets
      /\ m.latest \in Nat /\ change.id \in Ids /\ change.revision \in Nat
  BY DEF FollowModels, Changes
<1>2. QueueCapacity \in Nat \ {0} /\ Len(m.queue) \in Nat /\ DOMAIN m.queue = 1..Len(m.queue)
  BY <1>1, DiffIngestionAssumption
<1>3. KeptOf(left, m.queue, change.id, Len(m.queue))
  BY <1>1, WithoutFile
<1> HIDE DEF left
<1>4. left \in Seq(Targets) /\ OnePerFile(left) /\ Len(left) \in Nat
  BY <1>3 DEF KeptOf
<1>5. Len(left) <= QueueCapacity
  <2>1. Len(left) <= Len(m.queue)
    BY <1>3 DEF KeptOf
  <2> QED BY <1>2, <1>4, <2>1
<1>6. \A j \in DOMAIN left : left[j].id # change.id /\ \E i \in DOMAIN m.queue : left[j] = m.queue[i]
  BY <1>2, <1>3 DEF KeptOf
<1>7. Len(m.queue) # 0 /\ m.queue[Len(m.queue)].id # change.id => Len(left) # 0 /\ left[Len(left)] = m.queue[Len(m.queue)]
  BY <1>3 DEF KeptOf
<1>8. CASE ~new
  <2>1. r = [m EXCEPT !.latest = change.revision, !.queue = left, !.activation = NoTarget]
    BY <1>8 DEF acceptChange, left
  <2> HIDE DEF r, new
  <2>2. r = [mode |-> m.mode, queue |-> left, active |-> m.active, activation |-> NoTarget, latest |-> change.revision]
    BY <2>1 DEF FollowModels
  <2>3. r \in FollowModels
    BY <1>1, <1>4, <2>2 DEF FollowModels, MaybeTargets
  <2>4. /\ r.mode = m.mode /\ r.active = m.active /\ r.latest = change.revision
        /\ r.queue = left /\ r.activation = NoTarget
    BY <2>2
  <2> QED BY <1>4, <1>5, <1>6, <1>7, <1>8, <2>3, <2>4 DEF r, new
<1>9. CASE new
  <2>1. t \in Targets /\ t.id = change.id
    BY <1>9, TargetOfChange
  <2>2. r = [m EXCEPT !.latest = change.revision, !.queue = q, !.activation = t]
    BY <1>9 DEF acceptChange, left
  <2> HIDE DEF t, r, new
  <2>3. /\ q \in Seq(Targets) /\ OnePerFile(q) /\ Len(q) <= QueueCapacity /\ Len(q) # 0 /\ q[Len(q)] = t
        /\ \A j \in DOMAIN q : q[j] = t \/ \E i \in DOMAIN left : q[j] = left[i]
    BY <1>4, <1>5, <1>6, <2>1, TargetQueued
  <2> HIDE DEF q
  <2>4. r = [mode |-> m.mode, queue |-> q, active |-> m.active, activation |-> t, latest |-> change.revision]
    BY <2>2 DEF FollowModels
  <2>5. r \in FollowModels
    BY <1>1, <2>1, <2>3, <2>4 DEF FollowModels, MaybeTargets
  <2>6. /\ r.mode = m.mode /\ r.active = m.active /\ r.latest = change.revision
        /\ r.queue = q /\ r.activation = t
    BY <2>4
  <2>7. \A j \in DOMAIN q : q[j] = t \/ (q[j].id # change.id /\ \E i \in DOMAIN m.queue : q[j] = m.queue[i])
    BY <1>6, <2>3
  <2> QED BY <1>9, <2>3, <2>5, <2>6, <2>7 DEF r, new, t
<1> QED BY <1>8, <1>9

\* The first n changes are followed: what waits is for a hunk that one of them brought, or
\* was there before and is of a file none of them changed; what was brought last still waits.
Brings(change) == newOf(change) # {}

FollowedTo(r, m, changes, n) ==
  /\ r \in FollowModels /\ r.mode = m.mode /\ r.active = m.active
  /\ OnePerFile(r.queue) /\ Len(r.queue) <= QueueCapacity
  /\ \A j \in DOMAIN r.queue :
       \/ \E k \in 1..n : Brings(changes[k]) /\ r.queue[j] = targetFor(changes[k])
       \/ /\ \A k \in 1..n : changes[k].id # r.queue[j].id
          /\ \E i \in DOMAIN m.queue : r.queue[j] = m.queue[i]
  /\ (\E k \in 1..n : Brings(changes[k])) =>
       Len(r.queue) # 0 /\ \E k \in 1..n : Brings(changes[k]) /\ r.queue[Len(r.queue)] = targetFor(changes[k])
  /\ n = 0 => r.activation = NoTarget /\ r.latest = m.latest
  /\ n # 0 => /\ r.latest = changes[n].revision
              /\ Brings(changes[n]) => r.activation = targetFor(changes[n])
              /\ ~Brings(changes[n]) => r.activation = NoTarget

LEMMA OneMoreFollowed ==
    ASSUME NEW m \in FollowModels, NEW changes \in Seq(Changes), OnePerFile(changes),
           NEW n \in DOMAIN changes, NEW x, FollowedTo(x, m, changes, n - 1)
    PROVE  FollowedTo(acceptChange(x, changes[n]), m, changes, n)
<1> DEFINE c == changes[n]
           r == acceptChange(x, c)
           t == targetFor(c)
<1>1. Len(changes) \in Nat /\ DOMAIN changes = 1..Len(changes) /\ n \in Nat \ {0} /\ c \in Changes
  BY ElementOfSeq
<1>2. x \in FollowModels /\ OnePerFile(x.queue) /\ Len(x.queue) <= QueueCapacity /\ x.mode = m.mode /\ x.active = m.active
  BY DEF FollowedTo
<1> HIDE DEF c
<1>3. /\ r \in FollowModels /\ r.mode = x.mode /\ r.active = x.active /\ r.latest = c.revision
      /\ OnePerFile(r.queue) /\ Len(r.queue) <= QueueCapacity
      /\ Brings(c) => r.activation = t /\ Len(r.queue) # 0 /\ r.queue[Len(r.queue)] = t
      /\ ~Brings(c) => r.activation = NoTarget
      /\ \A j \in DOMAIN r.queue :
           \/ Brings(c) /\ r.queue[j] = t
           \/ r.queue[j].id # c.id /\ \E i \in DOMAIN x.queue : r.queue[j] = x.queue[i]
      /\ Len(x.queue) # 0 /\ x.queue[Len(x.queue)].id # c.id =>
           Len(r.queue) # 0 /\ (Brings(c) \/ r.queue[Len(r.queue)] = x.queue[Len(x.queue)])
  BY <1>1, <1>2, ChangeAccepted DEF Brings
<1> HIDE DEF r, t
<1>4. \A k \in 1..n : k \in 1..n - 1 \/ k = n
  BY <1>1
<1>5. \A k \in 1..n - 1 : k \in 1..n /\ k \in DOMAIN changes /\ k # n
  BY <1>1
<1>6. ASSUME NEW j \in DOMAIN r.queue
      PROVE  \/ \E k \in 1..n : Brings(changes[k]) /\ r.queue[j] = targetFor(changes[k])
             \/ /\ \A k \in 1..n : changes[k].id # r.queue[j].id
                /\ \E i \in DOMAIN m.queue : r.queue[j] = m.queue[i]
  <2>1. CASE Brings(c) /\ r.queue[j] = t
    <3>1. n \in 1..n
      BY <1>1
    <3> QED BY <2>1, <3>1 DEF c, t
  <2>2. CASE r.queue[j].id # c.id /\ \E i \in DOMAIN x.queue : r.queue[j] = x.queue[i]
    <3>1. PICK i \in DOMAIN x.queue : r.queue[j] = x.queue[i]
      BY <2>2
    <3>2. \/ \E k \in 1..n - 1 : Brings(changes[k]) /\ x.queue[i] = targetFor(changes[k])
          \/ /\ \A k \in 1..n - 1 : changes[k].id # x.queue[i].id
             /\ \E h \in DOMAIN m.queue : x.queue[i] = m.queue[h]
      BY DEF FollowedTo
    <3> QED BY <1>4, <1>5, <2>2, <3>1, <3>2 DEF c
  <2> QED BY <1>3, <2>1, <2>2
<1>7. ASSUME \E k \in 1..n : Brings(changes[k])
      PROVE  Len(r.queue) # 0 /\ \E k \in 1..n : Brings(changes[k]) /\ r.queue[Len(r.queue)] = targetFor(changes[k])
  <2>1. CASE Brings(c)
    <3>1. n \in 1..n
      BY <1>1
    <3> QED BY <1>3, <2>1, <3>1 DEF c, t
  <2>2. CASE ~Brings(c)
    <3>1. \E k \in 1..n - 1 : Brings(changes[k])
      BY <1>4, <1>7, <2>2 DEF c
    <3>2. Len(x.queue) # 0 /\ \E k \in 1..n - 1 : Brings(changes[k]) /\ x.queue[Len(x.queue)] = targetFor(changes[k])
      BY <3>1 DEF FollowedTo
    <3>3. PICK k \in 1..n - 1 : Brings(changes[k]) /\ x.queue[Len(x.queue)] = targetFor(changes[k])
      BY <3>2
    <3>4. changes[k] \in Changes /\ changes[k].id # c.id
      <4>1. k \in DOMAIN changes /\ k # n
        BY <1>5
      <4>2. changes[k].id # changes[n].id
        BY <4>1 DEF OnePerFile
      <4> QED BY <4>1, <4>2, ElementOfSeq DEF c
    <3>5. targetFor(changes[k]).id = changes[k].id
      BY <3>3, <3>4, TargetOfChange DEF Brings
    <3>6. Len(r.queue) # 0 /\ r.queue[Len(r.queue)] = x.queue[Len(x.queue)]
      BY <1>3, <2>2, <3>2, <3>3, <3>4, <3>5
    <3> QED BY <1>5, <3>3, <3>6
  <2> QED BY <2>1, <2>2
<1>8. /\ n # 0 /\ r.latest = changes[n].revision
      /\ Brings(changes[n]) => r.activation = targetFor(changes[n])
      /\ ~Brings(changes[n]) => r.activation = NoTarget
  BY <1>1, <1>3 DEF c, t
<1>9. FollowedTo(r, m, changes, n)
  BY <1>2, <1>3, <1>6, <1>7, <1>8 DEF FollowedTo
<1> QED BY <1>9 DEF r, c

\* The loop over the changes of a burst.
LEMMA BurstFollowed ==
    ASSUME NEW m \in FollowModels, OnePerFile(m.queue), Len(m.queue) <= QueueCapacity, m.activation = NoTarget,
           NEW changes \in Seq(Changes), OnePerFile(changes), revisionsRise(m, changes)
    PROVE  \E r : FollowedTo(r, m, changes, Len(changes)) /\ acceptExternalChanges(m, changes) = activated(r)
<1> DEFINE N == Len(changes)
           Step(x, n) == acceptChange(x, changes[n])
           Loop(f) == f = [n \in 0..N |-> IF n = 0 THEN m ELSE Step(f[n - 1], n)]
           D == {x \in FollowModels : OnePerFile(x.queue) /\ Len(x.queue) <= QueueCapacity}
           step == [n \in 1..N |-> [x \in D |-> Step(x, n)]]
<1>1. N \in Nat /\ DOMAIN changes = 1..N
  OBVIOUS
<1>2. ASSUME NEW x \in D, NEW n \in 1..N
      PROVE  Step(x, n) \in D
  <2>1. changes[n] \in Changes
    BY <1>1, ElementOfSeq
  <2>2. /\ acceptChange(x, changes[n]) \in FollowModels /\ OnePerFile(acceptChange(x, changes[n]).queue)
        /\ Len(acceptChange(x, changes[n]).queue) <= QueueCapacity
    BY <2>1, ChangeAccepted
  <2> QED BY <2>2
<1>3. m \in D
  OBVIOUS
<1> HIDE DEF Step, N, D
<1>4. step \in [1..N -> [D -> D]]
  BY <1>2
<1>5. PICK f \in [0..N -> D] : Iterates(f, N, m, step)
  <2> HIDE DEF step
  <2> QED BY <1>1, <1>3, <1>4, Recursion, Zenon
<1>6. Loop(f)
  <2>1. ASSUME NEW n \in 1..N PROVE f[n] = Step(f[n - 1], n)
    <3>1. n - 1 \in 0..N
      BY <1>1
    <3>2. f[n - 1] \in D
      BY <3>1
    <3> QED BY <1>5, <3>2 DEF Iterates
  <2>2. \A n \in 0..N : n # 0 => n \in 1..N
    BY <1>1
  <2>3. \A n \in 0..N : f[n] = IF n = 0 THEN m ELSE Step(f[n - 1], n)
    BY <1>5, <2>1, <2>2 DEF Iterates
  <2>4. f = [n \in 0..N |-> f[n]]
    OBVIOUS
  <2> QED BY <2>3, <2>4
<1> DEFINE after == CHOOSE g : Loop(g)
<1>7. Loop(after)
  <2> HIDE DEF Loop
  <2> QED BY <1>6
<1>8. acceptExternalChanges(m, changes) = activated(after[N])
  BY DEF acceptExternalChanges, Step, N
<1> HIDE DEF after
<1>9. \A n \in 0..N : after[n] = IF n = 0 THEN m ELSE Step(after[n - 1], n)
  BY <1>7
<1> DEFINE P == {n \in 0..N : FollowedTo(after[n], m, changes, n)}
<1>10. 0 \in P
  <2>1. after[0] = m /\ 0 \in 0..N /\ 1..0 = {}
    BY <1>1, <1>9
  <2>2. \A j \in DOMAIN m.queue : \E i \in DOMAIN m.queue : m.queue[j] = m.queue[i]
    OBVIOUS
  <2>3. FollowedTo(m, m, changes, 0)
    BY <2>1, <2>2 DEF FollowedTo
  <2> QED BY <2>1, <2>3
<1>11. ASSUME NEW n \in 1..N, n - 1 \in P PROVE n \in P
  <2>1. n \in 0..N /\ n # 0 /\ n \in DOMAIN changes
    BY <1>1
  <2>2. FollowedTo(after[n - 1], m, changes, n - 1)
    BY <1>11
  <2>3. after[n] = acceptChange(after[n - 1], changes[n])
    BY <1>9, <2>1 DEF Step
  <2> DEFINE x == after[n - 1]
  <2> HIDE DEF x
  <2>4. FollowedTo(acceptChange(x, changes[n]), m, changes, n)
    BY <2>1, <2>2, OneMoreFollowed DEF x
  <2> QED BY <2>1, <2>3, <2>4 DEF x
<1>12. N \in P
  <2> HIDE DEF P
  <2>1. \A n \in 0..N : n \in P
    BY <1>1, <1>10, <1>11, UpTo
  <2> QED BY <1>1, <2>1
<1> QED BY <1>8, <1>12 DEF N

-----------------------------------------------------------------------------
(* The inductive invariant. *)

Typed ==
  /\ head \in [Files -> FileContents] /\ working \in [Files -> FileContents]
  /\ scans \in Seq(Scans) /\ published \in Nat /\ adopted \in Scans
  /\ diff \in DiffModels /\ follow \in FollowModels
  /\ live \in [Ids -> Held \cup {Absent}]
  /\ shown \in [id : Ids \cup {NoId}, line : Nat]
  /\ unseen \subseteq Ids

\* The scans on their way are those published since the one adopted, one revision after another.
ScansFollow(waiting, last, scan) ==
  /\ last = scan.revision + Len(waiting)
  /\ \A k \in DOMAIN waiting : waiting[k].revision = scan.revision + k

\* The diff model is one scan, and nothing of what it does not know.
IsScan(d, scan) ==
  /\ Plain(d)
  /\ \A f \in Files : d.entries[Git(f)] = viewIn(scan.files[f])

\* A target is of a Git file, and of a hunk that it has.
NamesHunk(t, d) ==
  /\ \E f \in Files : t.id = Git(f)
  /\ \E k \in DOMAIN d.entries[t.id].hunks : d.entries[t.id].hunks[k].targetStart = t.line
  /\ t.deleted = d.entries[t.id].deleted

\* The follow model is never ahead of the diff model, asks for nothing between two calls, and
\* what waits in it can be resumed to.
Waits(m, d) ==
  /\ m.latest <= d.revision /\ m.activation = NoTarget /\ Len(m.queue) <= QueueCapacity
  /\ OnePerFile(m.queue)
  /\ \A i \in DOMAIN m.queue : NamesHunk(m.queue[i], d)

Shows(documents, d) == \A f \in Files : documents[Git(f)] = Absent \/ documents[Git(f)] = d.entries[Git(f)].content

IInv ==
  /\ Typed
  /\ ScansFollow(scans, published, adopted)
  /\ IsScan(diff, adopted)
  /\ Waits(follow, diff)
  /\ Shows(live, diff)
  /\ unseen # {} => follow.queue # <<>>

-----------------------------------------------------------------------------
(* What a staged scan is. *)

\* A Git file is known by the scan alone, an external diff as before.
LEMMA StagedIsScan ==
    ASSUME NEW d \in DiffModels, Plain(d), NEW scan \in Scans, NEW stage, StagedTo(stage, d, scan, Files)
    PROVE  stage.diff \in DiffModels /\ IsScan(stage.diff, scan)
<1> DEFINE e == stage.diff
<1>1. e \in DiffModels
  BY DEF StagedTo, StageRecords
<1>2. /\ \A f \in Files : e.entries[Git(f)] = viewIn(scan.files[f])
      /\ \A f \in Files : e.entries[External(f)] = d.entries[External(f)]
  BY DEF StagedTo
<1> HIDE DEF e
<1>3. ASSUME NEW f \in Files, ~e.entries[Git(f)].present PROVE e.entries[Git(f)] = NoView
  <2>1. scan.files[f] \in Pairs
    BY DEF Scans
  <2> QED BY <1>2, <1>3, <2>1, ViewInType
<1>4. ASSUME NEW f \in Files, ~e.entries[External(f)].present PROVE e.entries[External(f)] = NoView
  <2>1. External(f) \in Ids
    BY IdsApart
  <2> QED BY <1>2, <1>4, <2>1 DEF Plain
<1>5. Plain(e)
  <2>1. \A id \in Ids : \E f \in Files : id = Git(f) \/ id = External(f)
    BY DEF Ids
  <2> QED BY <1>3, <1>4, <2>1 DEF Plain
<1> QED BY <1>1, <1>2, <1>5 DEF IsScan, e

\* The changes follow one another, and the model they are told to is not ahead of them.
LEMMA StagedInOrder ==
    ASSUME NEW d \in DiffModels, NEW scan, NEW stage, StagedTo(stage, d, scan, Files),
           NEW m \in FollowModels, m.latest <= d.revision
    PROVE  /\ stage.changes \in Seq(Changes) /\ OnePerFile(stage.changes) /\ revisionsRise(m, stage.changes)
<1> DEFINE c == stage.changes
<1>1. c \in Seq(Changes)
  BY DEF StagedTo, StageRecords
<1>2. /\ \A j, k \in DOMAIN c : c[j].id = c[k].id => j = k
      /\ \A k \in DOMAIN c : d.revision < c[k].revision
      /\ \A j, k \in DOMAIN c : j < k => c[j].revision < c[k].revision
  BY DEF StagedTo
<1>3. d.revision \in Nat /\ m.latest \in Nat
  BY DEF DiffModels, FollowModels
<1> HIDE DEF c
<1>4. DOMAIN c = 1..Len(c) /\ Len(c) \in Nat
  BY <1>1
<1>7. \A k \in DOMAIN c : c[k].revision \in Nat
  <2>1. \A k \in DOMAIN c : c[k] \in Changes
    BY <1>1
  <2> QED BY <2>1 DEF Changes
<1>5. ASSUME NEW k \in DOMAIN c
      PROVE  c[k].revision > IF k = 1 THEN m.latest ELSE c[k - 1].revision
  <2>1. c[k].revision \in Nat
    BY <1>7
  <2>2. CASE k = 1
    BY <1>2, <1>3, <2>1, <2>2
  <2>3. CASE k # 1
    <3>1. k - 1 \in DOMAIN c /\ k - 1 < k
      BY <1>4, <2>3
    <3>2. c[k - 1].revision \in Nat
      BY <1>7, <3>1
    <3>3. c[k - 1].revision < c[k].revision
      BY <1>2, <3>1
    <3> QED BY <2>1, <2>3, <3>2, <3>3
  <2> QED BY <2>2, <2>3
<1>6. revisionsRise(m, c)
  BY <1>5 DEF revisionsRise
<1> QED BY <1>1, <1>2, <1>6 DEF OnePerFile, c

\* What the changes ask for is done; nothing of it is left.
LEMMA AskedIsDone ==
    ASSUME NEW m \in FollowModels
    PROVE  LET r == activated(m)
           IN /\ r \in FollowModels /\ r.mode = m.mode /\ r.queue = m.queue /\ r.latest = m.latest
              /\ r.activation = NoTarget
              /\ r.active # m.active => m.mode = "Following" /\ m.activation # NoTarget /\ r.active = m.activation
<1> DEFINE a == IF m.activation # NoTarget /\ m.mode = "Following" THEN m.activation ELSE m.active
           r == activated(m)
<1>1. /\ m.mode \in {"Following", "Paused"} /\ m.queue \in Seq(Targets) /\ m.active \in MaybeTargets
      /\ m.latest \in Nat /\ m.activation \in MaybeTargets /\ NoTarget \in MaybeTargets
  BY DEF FollowModels, MaybeTargets
<1>2. r = [m EXCEPT !.active = a, !.activation = NoTarget]
  BY DEF activated
<1>3. a \in MaybeTargets
  BY <1>1
<1>4. a # m.active => m.mode = "Following" /\ m.activation # NoTarget /\ a = m.activation
  OBVIOUS
<1> HIDE DEF a, r
<1>5. r = [mode |-> m.mode, queue |-> m.queue, active |-> a, activation |-> NoTarget, latest |-> m.latest]
  BY <1>2 DEF FollowModels
<1>6. r \in FollowModels
  BY <1>1, <1>3, <1>5 DEF FollowModels
<1> QED BY <1>4, <1>5, <1>6 DEF r

\* The target of a change names a hunk of the model that it describes.
LEMMA TargetNamesHunk ==
    ASSUME NEW change \in Changes, Brings(change), NEW e \in DiffModels, NEW f \in Files, change.id = Git(f),
           Describes(change, e.entries[Git(f)])
    PROVE  NamesHunk(targetFor(change), e)
<1> DEFINE t == targetFor(change)
           v == e.entries[Git(f)]
<1>1. PICK k \in newOf(change) : t.line = change.view.hunks[k].targetStart
  BY TargetOfChange DEF Brings
<1>2. t.id = Git(f) /\ t.deleted = change.view.deleted /\ k \in DOMAIN change.view.hunks
  BY <1>1, TargetOfChange DEF Brings
<1>3. change.view.hunks = v.hunks
  BY DEF Describes
<1>4. v.hunks # <<>>
  BY <1>2, <1>3
<1>5. change.view.deleted = v.deleted
  BY <1>4 DEF Describes
<1> HIDE DEF t
<1>6. NamesHunk(t, e)
  BY <1>1, <1>2, <1>3, <1>5 DEF NamesHunk
<1> QED BY <1>6 DEF t

\* What the stage of a scan is, on the models d and m: the scan, changes that describe it,
\* and a follow model that waits for hunks of it.
Stages(staged, scan, d, m) ==
  /\ accepted(staged) /\ staged.diff \in DiffModels /\ IsScan(staged.diff, scan)
  /\ staged.follow \in FollowModels /\ Waits(staged.follow, staged.diff) /\ staged.follow.mode = m.mode
  /\ staged.statusOnly \subseteq Ids /\ staged.changes \in Seq(Changes)
  /\ staged.mutated <=> staged.changes # <<>>
  /\ ~staged.mutated => \A f \in Files : staged.diff.entries[Git(f)] = d.entries[Git(f)]
  /\ \A k \in DOMAIN staged.changes :
       \E f \in Files : /\ staged.changes[k].id = Git(f)
                        /\ staged.changes[k].prior = d.entries[Git(f)].hunks
                        /\ Describes(staged.changes[k], staged.diff.entries[Git(f)])
  /\ staged.follow.active # m.active =>
       /\ m.mode = "Following"
       /\ \E k \in DOMAIN staged.changes : Brings(staged.changes[k]) /\ staged.follow.active = targetFor(staged.changes[k])
  /\ (\E k \in DOMAIN staged.changes : Brings(staged.changes[k])) => staged.follow.queue # <<>>

LEMMA ScanStages ==
    ASSUME NEW d \in DiffModels, Plain(d), NEW scan \in Scans, NEW m \in FollowModels, Waits(m, d)
    PROVE  Stages(stageGitDiffScan(scan, d, m), scan, d, m)
<1> DEFINE x == withoutClean(withListed(scan, d), scan)
           c == x.changes
           e == x.diff
           n == Len(c)
<1>1. StagedTo(x, d, scan, Files)
  BY ScanStaged
<1> HIDE DEF x
<1>2. x \in StageRecords /\ accepted(x) /\ e \in DiffModels /\ x.statusOnly \subseteq Ids
  BY <1>1 DEF StagedTo, StageRecords
<1>3. IsScan(e, scan)
  BY <1>1, StagedIsScan
<1>4. /\ m.latest <= d.revision /\ m.activation = NoTarget /\ Len(m.queue) <= QueueCapacity
      /\ OnePerFile(m.queue) /\ \A i \in DOMAIN m.queue : NamesHunk(m.queue[i], d)
  BY DEF Waits
<1>5. c \in Seq(Changes) /\ OnePerFile(c) /\ revisionsRise(m, c)
  BY <1>1, <1>4, StagedInOrder
<1>6. PICK r : FollowedTo(r, m, c, n) /\ acceptExternalChanges(m, c) = activated(r)
  BY <1>4, <1>5, BurstFollowed
<1> DEFINE a == activated(r)
<1>7. r \in FollowModels /\ r.mode = m.mode /\ r.active = m.active /\ OnePerFile(r.queue) /\ Len(r.queue) <= QueueCapacity
  BY <1>6 DEF FollowedTo
<1>8. /\ a \in FollowModels /\ a.mode = r.mode /\ a.queue = r.queue /\ a.latest = r.latest /\ a.activation = NoTarget
      /\ a.active # r.active => r.mode = "Following" /\ r.activation # NoTarget /\ a.active = r.activation
  BY <1>7, AskedIsDone
<1>9. n \in Nat /\ DOMAIN c = 1..n
  BY <1>5
<1>10. ASSUME NEW k \in DOMAIN c
       PROVE  /\ c[k] \in Changes
              /\ \E f \in Files : /\ c[k].id = Git(f) /\ c[k].prior = d.entries[Git(f)].hunks
                                  /\ Describes(c[k], e.entries[Git(f)])
  <2>1. c[k] \in Changes
    BY <1>5
  <2>2. PICK f \in Files : c[k].id = Git(f) /\ c[k].prior = d.entries[Git(f)].hunks /\ Describes(c[k], viewIn(scan.files[f]))
    BY <1>1 DEF StagedTo
  <2>3. e.entries[Git(f)] = viewIn(scan.files[f])
    BY <1>3 DEF IsScan
  <2> QED BY <2>1, <2>2, <2>3
<1>11. ASSUME NEW f \in Files, \A k \in DOMAIN c : c[k].id # Git(f)
       PROVE  e.entries[Git(f)] = d.entries[Git(f)]
  BY <1>1, <1>11 DEF StagedTo
<1> HIDE DEF c, e, n
<1>12. ASSUME NEW j \in DOMAIN r.queue PROVE NamesHunk(r.queue[j], e)
  <2>1. \/ \E k \in 1..n : Brings(c[k]) /\ r.queue[j] = targetFor(c[k])
        \/ /\ \A k \in 1..n : c[k].id # r.queue[j].id
           /\ \E i \in DOMAIN m.queue : r.queue[j] = m.queue[i]
    BY <1>6 DEF FollowedTo
  <2>2. CASE \E k \in 1..n : Brings(c[k]) /\ r.queue[j] = targetFor(c[k])
    <3>1. PICK k \in 1..n : Brings(c[k]) /\ r.queue[j] = targetFor(c[k])
      BY <2>2
    <3>2. PICK f \in Files : c[k].id = Git(f) /\ Describes(c[k], e.entries[Git(f)])
      BY <1>9, <1>10
    <3>3. NamesHunk(targetFor(c[k]), e)
      BY <1>2, <1>9, <1>10, <3>1, <3>2, TargetNamesHunk DEF e
    <3> QED BY <3>1, <3>3
  <2>3. CASE /\ \A k \in 1..n : c[k].id # r.queue[j].id
             /\ \E i \in DOMAIN m.queue : r.queue[j] = m.queue[i]
    <3>1. NamesHunk(r.queue[j], d)
      BY <1>4, <2>3
    <3>2. PICK f \in Files : r.queue[j].id = Git(f)
      BY <3>1 DEF NamesHunk
    <3>3. e.entries[Git(f)] = d.entries[Git(f)]
      BY <1>9, <1>11, <2>3, <3>2
    <3> QED BY <3>1, <3>2, <3>3 DEF NamesHunk
  <2> QED BY <2>1, <2>2, <2>3
<1>13. a.latest <= e.revision
  <2>1. d.revision \in Nat /\ e.revision \in Nat /\ m.latest \in Nat
    BY <1>2 DEF DiffModels, FollowModels
  <2>2. d.revision <= e.revision
    BY <1>1 DEF StagedTo, e
  <2>3. CASE n = 0
    <3>1. r.latest = m.latest
      BY <1>6, <2>3 DEF FollowedTo
    <3> QED BY <1>4, <1>8, <2>1, <2>2, <3>1
  <2>4. CASE n # 0
    <3>1. r.latest = c[n].revision
      BY <1>6, <2>4 DEF FollowedTo
    <3>2. n \in DOMAIN c
      BY <1>9, <2>4
    <3>3. c[n].revision <= e.revision
      BY <1>1, <3>2 DEF StagedTo, c, e
    <3> QED BY <1>8, <3>1, <3>3
  <2> QED BY <2>3, <2>4
<1>14. Waits(a, e)
  BY <1>7, <1>8, <1>12, <1>13 DEF Waits
<1>15. ASSUME a.active # m.active
       PROVE  m.mode = "Following" /\ \E k \in DOMAIN c : Brings(c[k]) /\ a.active = targetFor(c[k])
  <2>1. m.mode = "Following" /\ r.activation # NoTarget /\ a.active = r.activation
    BY <1>7, <1>8, <1>15
  <2>2. n # 0
    BY <1>6, <2>1 DEF FollowedTo
  <2>3. Brings(c[n]) /\ r.activation = targetFor(c[n])
    BY <1>6, <2>1, <2>2 DEF FollowedTo
  <2>4. n \in DOMAIN c
    BY <1>9, <2>2
  <2> QED BY <2>1, <2>3, <2>4
<1>16. ASSUME \E k \in DOMAIN c : Brings(c[k])
       PROVE  a.queue # <<>>
  <2>1. Len(r.queue) # 0
    BY <1>6, <1>9, <1>16 DEF FollowedTo
  <2> QED BY <1>8, <2>1
<1>17. ASSUME c = <<>>, NEW f \in Files
       PROVE  e.entries[Git(f)] = d.entries[Git(f)]
  BY <1>11, <1>17
<1> DEFINE s == stageGitDiffScan(scan, d, m)
<1>18. /\ s.diff = e /\ s.changes = c /\ s.statusOnly = x.statusOnly
       /\ s.mutated = (c # <<>>) /\ s.follow = a /\ s.result = x.result
  <2>1. s = stagedScan(m, x)
    BY DEF stageGitDiffScan, x
  <2> HIDE DEF s, a
  <2>2. s = [diff |-> e, changes |-> c, statusOnly |-> x.statusOnly, mutated |-> c # <<>>, follow |-> a,
             result |-> IF accepted(x) /\ ~revisionsRise(m, c) THEN "FollowRejected" ELSE x.result]
    BY <1>6, <2>1 DEF stagedScan, a, c, e
  <2> QED BY <1>5, <2>2
<1> HIDE DEF s, a
<1>19. accepted(s)
  BY <1>2, <1>18 DEF accepted
<1>20. s.follow.mode = m.mode
  BY <1>7, <1>8, <1>18
<1>21. e \in DiffModels /\ IsScan(e, scan)
  BY <1>2, <1>3 DEF e
<1>22. a \in FollowModels
  BY <1>8
<1>23. c \in Seq(Changes)
  BY <1>5
<1>24. Stages(s, scan, d, m)
  BY <1>2, <1>10, <1>14, <1>15, <1>16, <1>17, <1>18, <1>19, <1>20, <1>21, <1>22, <1>23 DEF Stages
<1> QED BY <1>24 DEF s

-----------------------------------------------------------------------------
(* The editor. *)

Documents == [Ids -> Held \cup {Absent}]
Panes == [id : Ids \cup {NoId}, line : Nat]

\* A line of a text is a number.
LEMMA LineOfType ==
    ASSUME NEW text \in Held, NEW line \in Nat
    PROVE  lineOf(text, line) \in Nat
<1> DEFINE S == {k \in DOMAIN text : text[k] = "NL"}
<1>1. text \in Seq(CodePoints)
  <2>1. PICK c \in Contents \cup {Absent} : text = textOf(c)
    BY DEF Held
  <2>2. Contents \subseteq Seq(CodePoints)
    BY DiffIngestionAssumption
  <2>3. text = <<>> \/ text \in Contents
    BY <2>1 DEF textOf
  <2>4. <<>> \in Seq(CodePoints)
    OBVIOUS
  <2> QED BY <2>2, <2>3, <2>4, Zenon
<1>2. DOMAIN text = 1..Len(text) /\ Len(text) \in Nat
  BY <1>1
<1>3. S \subseteq 1..Len(text)
  BY <1>2
<1>4. IsFiniteSet(1..Len(text))
  BY <1>2, FS_Interval
<1> HIDE DEF S
<1>5. Cardinality(S) \in Nat
  BY <1>3, <1>4, FS_Subset, FS_CardinalityType
<1>6. lastLine(text) = Cardinality(S)
  BY DEF lastLine, S
<1> QED BY <1>5, <1>6 DEF lineOf

\* Refreshed, every open document holds what the diff says.
LEMMA Refreshed ==
    ASSUME NEW documents \in Documents, NEW d \in DiffModels
    PROVE  LET r == refreshLiveDiffDocuments(documents, d)
           IN r \in Documents /\ Shows(r, d) /\ \A id \in Ids : documents[id] = Absent => r[id] = Absent
<1> DEFINE r == refreshLiveDiffDocuments(documents, d)
<1>1. \A id \in Ids : d.entries[id].content \in Held
  BY DEF DiffModels, Views, AnyViews
<1>2. r = [id \in Ids |-> IF documents[id] = Absent THEN Absent ELSE d.entries[id].content]
  BY DEF refreshLiveDiffDocuments, fileView
<1> HIDE DEF r
<1>3. r \in Documents
  BY <1>1, <1>2 DEF Documents
<1>4. \A id \in Ids : r[id] = IF documents[id] = Absent THEN Absent ELSE d.entries[id].content
  BY <1>2
<1>5. \A f \in Files : Git(f) \in Ids
  BY IdsApart
<1>6. Shows(r, d)
  BY <1>4, <1>5 DEF Shows
<1> QED BY <1>3, <1>4, <1>6 DEF r

\* The document of a target holds what the diff says of it, also one that was shown before.
LEMMA Revealed ==
    ASSUME NEW documents \in Documents, NEW target \in MaybeTargets, diff' \in DiffModels, shown \in Panes,
           Shows(documents, diff'), openOrRevealFollowTargetProgrammatic(documents, target)
    PROVE  live' \in Documents /\ Shows(live', diff') /\ shown' \in Panes
<1>1. CASE target.id \in identified(diff')
  <2> DEFINE text == diff'.entries[target.id].content
             line == IF target.deleted THEN shown.line ELSE lineOf(live'[target.id], target.line)
  <2>1. target.id \in Ids /\ text \in Held
    BY <1>1 DEF identified, DiffModels, Views, AnyViews
  <2>2. target \in Targets
    <3>1. NoId \notin Ids
      <4>1. \A h \in Files : Git(h) # NoId /\ External(h) # NoId
        BY DEF Git, External, NoId
      <4> QED BY <4>1 DEF Ids
    <3> QED BY <2>1, <3>1 DEF MaybeTargets, NoTarget
  <2>3. /\ live' = [documents EXCEPT ![target.id] = text]
        /\ shown' = [id |-> target.id, line |-> line]
    BY <1>1 DEF openOrRevealFollowTargetProgrammatic, fileView
  <2> HIDE DEF text
  <2>4. live' \in Documents /\ \A id \in Ids : live'[id] = IF id = target.id THEN text ELSE documents[id]
    BY <2>1, <2>3 DEF Documents
  <2>5. Shows(live', diff')
    <3>1. \A f \in Files : Git(f) \in Ids
      BY IdsApart
    <3> QED BY <2>4, <3>1 DEF Shows, text
  <2>6. line \in Nat
    <3>1. live'[target.id] = text
      BY <2>1, <2>4
    <3>2. target.line \in Nat /\ shown.line \in Nat
      BY <2>2 DEF Targets, Panes
    <3>3. lineOf(live'[target.id], target.line) \in Nat
      BY <2>1, <3>1, <3>2, LineOfType
    <3> QED BY <3>2, <3>3
  <2> HIDE DEF line
  <2>7. shown' \in Panes
    BY <2>1, <2>3, <2>6 DEF Panes
  <2> QED BY <2>4, <2>5, <2>7
<1>2. CASE target.id \notin identified(diff')
  BY <1>2 DEF openOrRevealFollowTargetProgrammatic
<1> QED BY <1>1, <1>2

-----------------------------------------------------------------------------
(* The steps. *)

\* A scan that is handed over is the next one, and is adopted.
LEMMA ScanIsAdopted ==
    ASSUME IInv, applyGitDiffScan
    PROVE  \E staged : /\ Stages(staged, adopted', diff, follow) /\ Adopts(staged)
                       /\ adopted' \in Scans /\ scans' \in Seq(Scans) /\ published' = published
                       /\ ScansFollow(scans', published, adopted')
<1> DEFINE scan == Head(scans)
           staged == stageGitDiffScan(scan, diff, follow)
           n == Len(scans)
<1>1. scans \in Seq(Scans) /\ scans # <<>> /\ scans' = Tail(scans) /\ published' = published
  BY DEF IInv, Typed, applyGitDiffScan
<1>2. /\ n \in Nat \ {0} /\ DOMAIN scans = 1..n /\ scan = scans[1] /\ scan \in Scans
      /\ Tail(scans) \in Seq(Scans) /\ Len(Tail(scans)) = n - 1 /\ DOMAIN Tail(scans) = 1..n - 1
      /\ \A k \in 1..n - 1 : Tail(scans)[k] = scans[k + 1]
  BY <1>1
<1>3. published = adopted.revision + n /\ \A k \in 1..n : scans[k].revision = adopted.revision + k
  BY <1>2 DEF IInv, ScansFollow
<1>4. adopted.revision \in Nat /\ diff \in DiffModels /\ Plain(diff) /\ follow \in FollowModels /\ Waits(follow, diff)
  BY DEF IInv, Typed, Scans, IsScan
<1>5. scan.revision = adopted.revision + 1
  <2>1. 1 \in 1..n
    BY <1>2
  <2> QED BY <1>2, <1>3, <2>1
<1>6. Stages(staged, scan, diff, follow)
  BY <1>2, <1>4, ScanStages
<1>7. adoptsStaged(staged, scan)
  BY DEF applyGitDiffScan
<1> HIDE DEF staged, scan
<1>8. accepted(staged) /\ ~(scan.revision <= adopted.revision)
  BY <1>4, <1>5, <1>6 DEF Stages
<1>9. adopted' = scan /\ Adopts(staged)
  BY <1>7, <1>8 DEF adoptsStaged
<1>10. ScansFollow(scans', published, adopted')
  <2>1. published = scan.revision + (n - 1)
    BY <1>2, <1>3, <1>4, <1>5
  <2>2. ASSUME NEW k \in 1..n - 1
        PROVE  scans'[k].revision = scan.revision + k
    <3>1. k + 1 \in 1..n /\ scans'[k] = scans[k + 1]
      BY <1>1, <1>2
    <3>2. scans[k + 1].revision = adopted.revision + (k + 1)
      BY <1>3, <3>1
    <3> QED BY <1>2, <1>4, <1>5, <3>1, <3>2
  <2> QED BY <1>1, <1>2, <1>9, <2>1, <2>2 DEF ScansFollow
<1> QED BY <1>1, <1>2, <1>6, <1>9, <1>10

LEMMA AnotherInFront ==
    ASSUME shown \in Panes, NEW documents, ComesToFront(documents)
    PROVE  shown' \in Panes
<1>1. PICK id \in opened(documents) \cup {NoId} : shown' = [id |-> id, line |-> shown.line]
  BY DEF ComesToFront
<1>2. id \in Ids \cup {NoId} /\ shown.line \in Nat
  BY DEF opened, Panes
<1> QED BY <1>1, <1>2 DEF Panes

\* Documents, pane and what was brought, once a scan is adopted.
LEMMA ScanIsShown ==
    ASSUME IInv, NEW staged, Stages(staged, adopted', diff, follow), Adopts(staged)
    PROVE  /\ live' \in Documents /\ Shows(live', diff') /\ shown' \in Panes
           /\ unseen' \subseteq Ids /\ (unseen' # {} => follow'.queue # <<>>)
<1> DEFINE left == Remaining(live, staged.statusOnly)
           closed == staged.statusOnly \cap opened(live)
           fresh == refreshLiveDiffDocuments(left, diff')
           c == staged.changes
<1>1. diff' = staged.diff /\ follow' = staged.follow /\ unseen' = Brought(c) /\ ShowsScan(staged, closed, left)
  BY DEF Adopts
<1>2. live \in Documents /\ shown \in Panes /\ Shows(live, diff)
  BY DEF IInv, Typed, Documents, Panes
<1>3. diff' \in DiffModels /\ follow' \in FollowModels
  BY <1>1 DEF Stages
<1>4. left \in Documents
  BY <1>2 DEF Documents, Remaining
<1> HIDE DEF left, closed
<1>5. fresh \in Documents /\ Shows(fresh, diff')
  BY <1>3, <1>4, Refreshed
<1> HIDE DEF fresh
<1>6. live' \in Documents /\ Shows(live', diff') /\ shown' \in Panes
  <2>1. CASE moves(staged)
    <3>1. staged.follow.active \in MaybeTargets
      BY <1>1, <1>3 DEF FollowModels
    <3>2. openOrRevealFollowTargetProgrammatic(fresh, staged.follow.active)
      BY <1>1, <2>1 DEF ShowsScan, fresh
    <3> QED BY <1>2, <1>3, <1>5, <3>1, <3>2, Revealed
  <2>2. CASE ~moves(staged)
    <3>1. live' = IF staged.mutated THEN fresh ELSE live
      BY <1>1, <2>2 DEF ShowsScan, fresh
    <3>2. ComesToFront(left) \/ shown' = shown
      BY <1>1, <2>2 DEF ShowsScan
    <3>3. shown' \in Panes
      BY <1>2, <3>2, AnotherInFront
    <3>4. CASE staged.mutated
      BY <1>5, <3>1, <3>3, <3>4
    <3>5. CASE ~staged.mutated
      <4>1. \A f \in Files : diff'.entries[Git(f)] = diff.entries[Git(f)]
        BY <1>1, <3>5 DEF Stages
      <4>2. Shows(live, diff')
        BY <1>2, <4>1 DEF Shows
      <4> QED BY <1>2, <3>1, <3>3, <3>5, <4>2
    <3> QED BY <3>4, <3>5
  <2> QED BY <2>1, <2>2
<1>7. \A id \in unseen' : \E k \in DOMAIN c : Brings(c[k]) /\ id = c[k].id
  <2>1. ASSUME NEW id \in unseen'
        PROVE  \E k \in DOMAIN c : Brings(c[k]) /\ id = c[k].id
    <3>1. follow.mode = "Paused" => id \in {c[k].id : k \in {k \in DOMAIN c : newOf(c[k]) # {}}}
      BY <1>1, <2>1 DEF Brought
    <3>2. follow.mode = "Paused"
      BY <1>1, <2>1 DEF Brought
    <3> QED BY <3>1, <3>2 DEF Brings
  <2> QED BY <2>1
<1> HIDE DEF c
<1>8. unseen' \subseteq Ids
  <2>1. c \in Seq(Changes)
    BY DEF Stages, c
  <2>2. \A k \in DOMAIN c : c[k] \in Changes
    BY <2>1
  <2>3. \A k \in DOMAIN c : c[k].id \in Ids
    BY <2>2 DEF Changes
  <2> QED BY <1>7, <2>3
<1>9. unseen' # {} => follow'.queue # <<>>
  <2>1. (\E k \in DOMAIN c : Brings(c[k])) => staged.follow.queue # <<>>
    BY DEF Stages, c
  <2> QED BY <1>1, <1>7, <2>1
<1> QED BY <1>6, <1>8, <1>9

LEMMA ScanKeeps ==
    ASSUME IInv, applyGitDiffScan
    PROVE  IInv'
<1>1. PICK staged : /\ Stages(staged, adopted', diff, follow) /\ Adopts(staged)
                    /\ adopted' \in Scans /\ scans' \in Seq(Scans) /\ published' = published
                    /\ ScansFollow(scans', published, adopted')
  BY ScanIsAdopted
<1>2. diff' = staged.diff /\ follow' = staged.follow
  BY <1>1 DEF Adopts
<1>3. diff' \in DiffModels /\ IsScan(diff', adopted') /\ follow' \in FollowModels /\ Waits(follow', diff')
  BY <1>1, <1>2 DEF Stages
<1>4. /\ live' \in Documents /\ Shows(live', diff') /\ shown' \in Panes
      /\ unseen' \subseteq Ids /\ (unseen' # {} => follow'.queue # <<>>)
  BY <1>1, ScanIsShown
<1>5. head' = head /\ working' = working
  BY DEF applyGitDiffScan
<1>6. Typed'
  BY <1>1, <1>3, <1>4, <1>5 DEF IInv, Typed, Documents, Panes
<1> QED BY <1>1, <1>3, <1>4, <1>6 DEF IInv

\* Of two models, the later one has the same Git files.
SameGitFiles(e, d) ==
  /\ e \in DiffModels /\ Plain(e) /\ d.revision <= e.revision
  /\ \A f \in Files : e.entries[Git(f)] = d.entries[Git(f)]

LEMMA ExternalViewTaken ==
    ASSUME NEW d \in DiffModels, Plain(d), NEW f \in Files, NEW view \in Views, view.present \/ view = NoView
    PROVE  SameGitFiles(withView(d, External(f), view, d.revision + 1), d)
<1> DEFINE e == withView(d, External(f), view, d.revision + 1)
<1>1. External(f) \in Ids /\ d.revision \in Nat /\ d.revision + 1 \in Nat
  BY IdsApart DEF DiffModels
<1>2. /\ e \in DiffModels /\ e.revision = d.revision + 1
      /\ \A x \in Ids : e.entries[x] = IF x = External(f) THEN view ELSE d.entries[x]
  BY <1>1, WithViewType
<1> HIDE DEF e
<1>3. Plain(e)
  BY <1>2 DEF Plain
<1>4. \A g \in Files : Git(g) \in Ids /\ Git(g) # External(f)
  BY IdsApart
<1>5. SameGitFiles(e, d)
  BY <1>1, <1>2, <1>3, <1>4 DEF SameGitFiles
<1> QED BY <1>5 DEF e

\* Seeding, applying and removing an external diff leaves the Git files alone.
LEMMA EventLeavesGitFiles ==
    ASSUME NEW d \in DiffModels, Plain(d), NEW e \in Events
    PROVE  /\ SameGitFiles(seedNonGit(d, e.file, e.baseline, d.revision + 1), d)
           /\ SameGitFiles(withEvent(d, e), d)
           /\ SameGitFiles(withoutPrevious(d, e), d)
<1>1. e \in [file : Files, baseline : Contents, content : Contents \cup {Absent}, previous : 0..FileCount]
  BY DiffIngestionAssumption
<1>2. e.file \in Files /\ e.baseline \in FileContents /\ e.content \in FileContents /\ e.previous \in 0..FileCount
  BY <1>1 DEF FileContents
<1>3. SameGitFiles(d, d)
  BY DEF SameGitFiles, DiffModels
<1>4. SameGitFiles(seedNonGit(d, e.file, e.baseline, d.revision + 1), d)
  <2> DEFINE v == [View(e.baseline, e.baseline) EXCEPT !.hunks = <<>>]
             u == View(e.baseline, e.baseline)
  <2>1. u \in Views /\ u.present
    BY <1>2, DifferenceType
  <2>2. v = [u EXCEPT !.hunks = <<>>]
    OBVIOUS
  <2>3. \/ seedNonGit(d, e.file, e.baseline, d.revision + 1) = d
        \/ seedNonGit(d, e.file, e.baseline, d.revision + 1) = withView(d, External(e.file), v, d.revision + 1)
    BY DEF seedNonGit
  <2> HIDE DEF u, v
  <2>4. v \in Views
    BY <2>1, <2>2, NoViewType
  <2>5. v.present
    BY <2>1, <2>2 DEF Views, AnyViews
  <2>6. SameGitFiles(withView(d, External(e.file), v, d.revision + 1), d)
    BY <1>2, <2>4, <2>5, ExternalViewTaken
  <2> QED BY <1>3, <2>3, <2>6
<1>5. SameGitFiles(withEvent(d, e), d)
  <2> DEFINE v == View(e.baseline, e.content)
  <2>1. v \in Views /\ v.present
    BY <1>2, DifferenceType
  <2>2. withEvent(d, e) = d \/ withEvent(d, e) = withView(d, External(e.file), v, d.revision + 1)
    BY DEF withEvent, applyNonGitEvent
  <2> HIDE DEF v
  <2>3. SameGitFiles(withView(d, External(e.file), v, d.revision + 1), d)
    BY <1>2, <2>1, ExternalViewTaken
  <2> QED BY <1>3, <2>2, <2>3
<1>6. SameGitFiles(withoutPrevious(d, e), d)
  <2>1. CASE e.previous = 0
    BY <1>3, <2>1 DEF withoutPrevious
  <2>2. CASE e.previous # 0
    <3>1. e.previous \in Files
      BY <1>2, <2>2, DiffIngestionAssumption DEF Files
    <3>2. \/ withoutPrevious(d, e) = d
          \/ withoutPrevious(d, e) = withView(d, External(e.previous), NoView, d.revision + 1)
      BY DEF withoutPrevious, removeFile
    <3>3. SameGitFiles(withView(d, External(e.previous), NoView, d.revision + 1), d)
      BY <3>1, NoViewType, ExternalViewTaken
    <3> QED BY <1>3, <3>2, <3>3
  <2> QED BY <2>1, <2>2
<1> QED BY <1>4, <1>5, <1>6

LEMMA EventKeeps ==
    ASSUME IInv, ExternalEvent
    PROVE  IInv'
<1>1. PICK e \in Events : diff' = withoutPrevious(withEvent(seedNonGit(diff, e.file, e.baseline, diff.revision + 1), e), e)
  BY DEF ExternalEvent
<1> DEFINE seeded == seedNonGit(diff, e.file, e.baseline, diff.revision + 1)
           applied == withEvent(seeded, e)
<1>2. diff \in DiffModels /\ Plain(diff) /\ follow \in FollowModels
  BY DEF IInv, Typed, IsScan
<1>3. SameGitFiles(seeded, diff)
  BY <1>2, EventLeavesGitFiles
<1> HIDE DEF seeded
<1>4. SameGitFiles(applied, seeded)
  BY <1>3, EventLeavesGitFiles DEF SameGitFiles
<1>5. diff' = withoutPrevious(applied, e)
  BY <1>1 DEF seeded
<1> HIDE DEF applied
<1>6. SameGitFiles(diff', applied)
  BY <1>4, <1>5, EventLeavesGitFiles DEF SameGitFiles
<1>7. /\ diff' \in DiffModels /\ Plain(diff') /\ diff.revision <= diff'.revision
      /\ \A f \in Files : diff'.entries[Git(f)] = diff.entries[Git(f)]
  <2>1. diff.revision \in Nat /\ seeded.revision \in Nat /\ applied.revision \in Nat /\ diff'.revision \in Nat
    BY <1>2, <1>3, <1>4, <1>6 DEF SameGitFiles, DiffModels
  <2>2. diff.revision <= seeded.revision /\ seeded.revision <= applied.revision /\ applied.revision <= diff'.revision
    BY <1>3, <1>4, <1>6 DEF SameGitFiles
  <2> QED BY <1>3, <1>4, <1>6, <2>1, <2>2 DEF SameGitFiles
<1>8. UNCHANGED <<head, working, scans, published, adopted, follow, live, shown, unseen>>
  BY DEF ExternalEvent
<1>9. IsScan(diff', adopted)
  BY <1>7 DEF IInv, IsScan
<1>10. Shows(live, diff')
  BY <1>7 DEF IInv, Shows
<1>11. Waits(follow, diff')
  <2>1. follow.latest \in Nat /\ diff.revision \in Nat /\ diff'.revision \in Nat /\ follow.latest <= diff.revision
    BY <1>2, <1>7 DEF FollowModels, DiffModels, IInv, Waits
  <2>2. follow.latest <= diff'.revision
    BY <1>7, <2>1
  <2>3. \A i \in DOMAIN follow.queue : NamesHunk(follow.queue[i], diff')
    BY <1>7 DEF IInv, Waits, NamesHunk
  <2> QED BY <2>2, <2>3 DEF IInv, Waits
<1>12. Typed'
  BY <1>7, <1>8 DEF IInv, Typed
<1> QED BY <1>8, <1>9, <1>10, <1>11, <1>12 DEF IInv

\* Pausing changes the mode alone.
LEMMA PausedWaits ==
    ASSUME NEW m \in FollowModels, NEW d, Waits(m, d)
    PROVE  paused(m) \in FollowModels /\ Waits(paused(m), d) /\ paused(m).queue = m.queue
<1> DEFINE r == paused(m)
<1>1. /\ m.queue \in Seq(Targets) /\ m.active \in MaybeTargets
      /\ m.latest \in Nat /\ m.activation \in MaybeTargets
  BY DEF FollowModels
<1>2. r = [mode |-> "Paused", queue |-> m.queue, active |-> m.active, activation |-> m.activation, latest |-> m.latest]
  BY DEF paused, FollowModels
<1> HIDE DEF r
<1>3. r \in FollowModels
  BY <1>1, <1>2 DEF FollowModels
<1>4. Waits(r, d)
  BY <1>2 DEF Waits
<1> QED BY <1>2, <1>3, <1>4 DEF r

\* Resuming empties the queue, and goes to one of its targets or stays with the one before.
LEMMA ResumedWaits ==
    ASSUME NEW m \in FollowModels, NEW d \in DiffModels, Waits(m, d)
    PROVE  resumed(m, d) \in FollowModels /\ Waits(resumed(m, d), d)
<1> DEFINE open == {k \in DOMAIN m.queue : hunksOf(d, m.queue[k].id) # <<>>}
           newest == m.queue[LastOf(open)]
           moved == [newest EXCEPT !.deleted = fileView(d, newest.id).deleted]
           a == IF open = {} THEN m.active ELSE moved
           r == resumed(m, d)
<1>1. /\ m.queue \in Seq(Targets) /\ m.active \in MaybeTargets /\ m.latest \in Nat /\ m.activation \in MaybeTargets
      /\ Len(m.queue) \in Nat /\ DOMAIN m.queue = 1..Len(m.queue)
  BY DEF FollowModels
<1>2. ASSUME open # {} PROVE moved \in Targets
  <2>1. open \subseteq 1..Len(m.queue)
    BY <1>1
  <2>2. LastOf(open) \in open
    <3> HIDE DEF open
    <3> QED BY <1>1, <1>2, <2>1, LastPlace
  <2>3. newest \in Targets
    <3>1. LastOf(open) \in DOMAIN m.queue
      BY <1>1, <2>1, <2>2
    <3> HIDE DEF open
    <3> QED BY <1>1, <3>1, ElementOfSeq
  <2> HIDE DEF newest
  <2> DEFINE gone == d.entries[newest.id].deleted
  <2>4. gone \in BOOLEAN
    BY <2>3 DEF Targets, DiffModels, Views, AnyViews
  <2>5. moved = [newest EXCEPT !.deleted = gone]
    BY DEF fileView
  <2> HIDE DEF gone
  <2> QED BY <2>3, <2>4, <2>5 DEF Targets
<1>3. a \in MaybeTargets
  BY <1>1, <1>2 DEF MaybeTargets
<1>4. r = [m EXCEPT !.mode = "Following", !.queue = <<>>, !.active = a]
  BY DEF resumed
<1> HIDE DEF a, r
<1>5. r = [mode |-> "Following", queue |-> <<>>, active |-> a, activation |-> m.activation, latest |-> m.latest]
  BY <1>4 DEF FollowModels
<1>6. <<>> \in Seq(Targets)
  OBVIOUS
<1>7. r \in FollowModels
  BY <1>1, <1>3, <1>5, <1>6 DEF FollowModels
<1>8. 0 <= QueueCapacity
  BY DiffIngestionAssumption
<1>9. r.latest = m.latest /\ r.activation = m.activation /\ r.queue = <<>> /\ Len(<<>>) = 0 /\ DOMAIN <<>> = {}
  BY <1>5
<1>10. OnePerFile(<<>>)
  BY DEF OnePerFile
<1>11. Waits(r, d)
  BY <1>8, <1>9, <1>10 DEF Waits
<1> QED BY <1>7, <1>11 DEF r

\* What the user does is to the follow model, the documents and the pane.
LEMMA CommandKeeps ==
    ASSUME IInv, UNCHANGED <<head, working, scans, published, adopted, diff>>,
           follow' \in FollowModels, Waits(follow', diff), live' \in Documents, Shows(live', diff), shown' \in Panes,
           unseen' \subseteq Ids, unseen' # {} => follow'.queue # <<>>
    PROVE  IInv'
<1>1. Typed'
  BY DEF IInv, Typed, Documents, Panes
<1> QED BY <1>1 DEF IInv

LEMMA BeforeCommand ==
    ASSUME IInv
    PROVE  /\ follow \in FollowModels /\ Waits(follow, diff) /\ live \in Documents /\ Shows(live, diff) /\ shown \in Panes
           /\ unseen \subseteq Ids /\ (unseen # {} => follow.queue # <<>>) /\ diff \in DiffModels
           /\ paused(follow) \in FollowModels /\ Waits(paused(follow), diff) /\ paused(follow).queue = follow.queue
<1>1. /\ follow \in FollowModels /\ Waits(follow, diff) /\ live \in Documents /\ Shows(live, diff) /\ shown \in Panes
      /\ unseen \subseteq Ids /\ (unseen # {} => follow.queue # <<>>) /\ diff \in DiffModels
  BY DEF IInv, Typed, Documents, Panes
<1> QED BY <1>1, PausedWaits

LEMMA PauseKeeps ==
    ASSUME IInv, UNCHANGED <<head, working, scans, published, adopted, diff>>, Pause
    PROVE  IInv'
BY BeforeCommand, CommandKeeps DEF Pause

LEMMA ResumeKeeps ==
    ASSUME IInv, UNCHANGED <<head, working, scans, published, adopted, diff>>, Resume
    PROVE  IInv'
<1>1. follow' \in FollowModels /\ Waits(follow', diff)
  BY BeforeCommand, ResumedWaits DEF Resume
<1>2. live' \in Documents /\ Shows(live', diff) /\ shown' \in Panes
  <2>1. CASE follow'.active = NoTarget
    BY <2>1, BeforeCommand DEF Resume
  <2>2. CASE follow'.active # NoTarget
    <3>1. openOrRevealFollowTargetProgrammatic(live, follow'.active)
      BY <2>2 DEF Resume
    <3>2. follow'.active \in MaybeTargets
      BY <1>1 DEF FollowModels
    <3>3. live \in Documents /\ shown \in Panes /\ diff' \in DiffModels /\ Shows(live, diff') /\ diff' = diff
      BY BeforeCommand
    <3> QED BY <3>1, <3>2, <3>3, Revealed
  <2> QED BY <2>1, <2>2
<1>3. unseen' = {}
  BY DEF Resume
<1> QED BY <1>1, <1>2, <1>3, CommandKeeps

LEMMA OpenKeeps ==
    ASSUME IInv, UNCHANGED <<head, working, scans, published, adopted, diff>>, OpenLiveDiff
    PROVE  IInv'
<1>1. PICK id \in identified(diff) :
        /\ live' = [live EXCEPT ![id] = fileView(diff, id).content] /\ shown' = [id |-> id, line |-> shown.line]
        /\ follow' = follow \/ follow' = paused(follow)
        /\ unseen' = unseen
  BY DEF OpenLiveDiff
<1> DEFINE text == diff.entries[id].content
<1>2. id \in Ids /\ text \in Held
  BY BeforeCommand DEF identified, DiffModels, Views, AnyViews
<1>3. live' = [live EXCEPT ![id] = text]
  BY <1>1 DEF fileView
<1>4. \A f \in Files : Git(f) \in Ids
  BY IdsApart
<1>5. live' \in Documents /\ Shows(live', diff)
  <2>1. live \in Documents /\ Shows(live, diff)
    BY BeforeCommand
  <2>2. \A x \in Ids : live'[x] = IF x = id THEN text ELSE live[x]
    BY <1>3, <2>1 DEF Documents
  <2>3. Shows(live', diff)
    BY <1>4, <2>1, <2>2 DEF Shows
  <2> HIDE DEF text
  <2>4. live' \in Documents
    BY <1>2, <1>3, <2>1 DEF Documents
  <2> QED BY <2>3, <2>4
<1>6. shown' \in Panes
  BY <1>1, <1>2, BeforeCommand DEF Panes
<1> QED BY <1>1, <1>5, <1>6, BeforeCommand, CommandKeeps

LEMMA ReadKeeps ==
    ASSUME IInv, UNCHANGED <<head, working, scans, published, adopted, diff>>, ReadAnother
    PROVE  IInv'
<1>1. shown' \in Panes
  <2>1. shown' = [id |-> NoId, line |-> 0]
    BY DEF ReadAnother
  <2> QED BY <2>1 DEF Panes
<1> QED BY <1>1, BeforeCommand, CommandKeeps DEF ReadAnother

LEMMA CloseKeeps ==
    ASSUME IInv, UNCHANGED <<head, working, scans, published, adopted, diff>>, CloseLiveDiff
    PROVE  IInv'
<1>1. PICK id \in opened(live) : /\ live' = [live EXCEPT ![id] = Absent]
                                 /\ ComesToFront(live') \/ shown' = shown
                                 /\ UNCHANGED <<follow, unseen>>
  BY DEF CloseLiveDiff
<1>2. live \in Documents /\ Shows(live, diff) /\ shown \in Panes
  BY BeforeCommand
<1>3. shown' \in Panes
  BY <1>1, <1>2, AnotherInFront
<1>4. live' \in Documents /\ \A x \in Ids : live'[x] = Absent \/ live'[x] = live[x]
  BY <1>1, <1>2 DEF Documents
<1>5. Shows(live', diff)
  <2>1. \A f \in Files : Git(f) \in Ids
    BY IdsApart
  <2> QED BY <1>2, <1>4, <2>1 DEF Shows
<1> QED BY <1>1, <1>3, <1>4, <1>5, BeforeCommand, CommandKeeps

\* Other programs and the worker.
LEMMA AroundKeeps ==
    ASSUME IInv, Write \/ Commit \/ Publish
    PROVE  IInv'
<1>1. /\ head \in [Files -> FileContents] /\ working \in [Files -> FileContents]
      /\ scans \in Seq(Scans) /\ published \in Nat /\ adopted \in Scans
      /\ ScansFollow(scans, published, adopted)
  BY DEF IInv, Typed
<1>2. CASE Write
  <2>1. PICK f \in Files, content \in FileContents : working' = [working EXCEPT ![f] = content]
    BY <1>2 DEF Write, FileContents
  <2>2. working' \in [Files -> FileContents]
    BY <1>1, <2>1
  <2>3. aroundUnchanged /\ head' = head
    BY <1>2 DEF Write
  <2>4. Typed'
    BY <2>2, <2>3 DEF IInv, Typed, aroundUnchanged
  <2> QED BY <2>3, <2>4 DEF IInv, aroundUnchanged
<1>3. CASE Commit
  <2>1. head' \in Heads /\ aroundUnchanged /\ working' = working
    BY <1>3 DEF Commit
  <2>2. head' \in [Files -> FileContents]
    BY <2>1, DiffIngestionAssumption DEF FileContents
  <2>3. Typed'
    BY <2>1, <2>2 DEF IInv, Typed, aroundUnchanged
  <2> QED BY <2>1, <2>3 DEF IInv, aroundUnchanged
<1>4. CASE Publish
  <2> DEFINE files == [f \in Files |-> changed(f)]
             scan == [revision |-> published', files |-> files]
             n == Len(scans)
  <2>1. /\ published' = published + 1 /\ scans' = Append(scans, scan)
        /\ UNCHANGED <<head, working, adopted, diff, follow, live, shown, unseen>>
    BY <1>4 DEF Publish
  <2>2. \A f \in Files : changed(f) \in Pairs
    <3>1. ASSUME NEW f \in Files PROVE changed(f) \in Pairs
      <4>1. head[f] \in FileContents /\ working[f] \in FileContents
        BY <1>1
      <4>2. changed(f) = Unlisted \/ changed(f) = [baseline |-> head[f], content |-> working[f]]
        BY DEF changed
      <4> QED BY <4>1, <4>2, UnlistedFile DEF Pairs
    <3> QED BY <3>1
  <2>3. files \in [Files -> Pairs]
    BY <2>2
  <2> HIDE DEF files
  <2>4. scan \in Scans /\ scan.revision = published + 1 /\ published' \in Nat
    BY <1>1, <2>1, <2>3 DEF Scans
  <2> HIDE DEF scan
  <2>5. /\ scans' \in Seq(Scans) /\ n \in Nat /\ DOMAIN scans = 1..n /\ DOMAIN scans' = 1..n + 1 /\ Len(scans') = n + 1
        /\ \A k \in 1..n : scans'[k] = scans[k]
        /\ scans'[n + 1] = scan
    BY <1>1, <2>1, <2>4, LongerList
  <2>6. adopted.revision \in Nat
    BY <1>1 DEF Scans
  <2>7. published = adopted.revision + n /\ \A k \in 1..n : scans[k].revision = adopted.revision + k
    BY <1>1, <2>5 DEF ScansFollow
  <2> HIDE DEF n
  <2>8. published' = adopted.revision + (n + 1)
    BY <2>1, <2>5, <2>6, <2>7
  <2>9. ASSUME NEW k \in 1..n + 1 PROVE scans'[k].revision = adopted.revision + k
    <3>1. CASE k \in 1..n
      BY <2>5, <2>7, <3>1
    <3>2. CASE k = n + 1
      BY <2>4, <2>5, <2>6, <2>7, <3>2
    <3> QED BY <2>5, <3>1, <3>2
  <2>10. ScansFollow(scans', published', adopted)
    BY <2>5, <2>8, <2>9 DEF ScansFollow
  <2>11. Typed'
    BY <2>1, <2>4, <2>5 DEF IInv, Typed
  <2> QED BY <2>1, <2>10, <2>11 DEF IInv
<1> QED BY <1>2, <1>3, <1>4

LEMMA Initially ==
    ASSUME Init
    PROVE  IInv
<1> DEFINE files == [f \in Files |-> Unlisted]
           entries == [id \in Ids |-> NoView]
<1>1. \A f \in Files : Git(f) \in Ids
  BY IdsApart
<1>2. adopted = [revision |-> 0, files |-> files] /\ diff = [revision |-> 0, entries |-> entries]
  BY DEF Init
<1>3. files \in [Files -> Pairs] /\ \A f \in Files : files[f] = Unlisted
  BY UnlistedFile
<1>4. entries \in [Ids -> Views] /\ \A id \in Ids : entries[id] = NoView
  BY NoViewType
<1> HIDE DEF files, entries
<1>5. adopted \in Scans /\ diff \in DiffModels
  BY <1>2, <1>3, <1>4 DEF Scans, DiffModels
<1>6. IsScan(diff, adopted)
  BY <1>1, <1>2, <1>3, <1>4, UnlistedFile DEF IsScan, Plain
<1>7. <<>> \in Seq(Targets) /\ <<>> \in Seq(Scans) /\ Len(<<>>) = 0 /\ DOMAIN <<>> = {} /\ 0 \in Nat
  OBVIOUS
<1>8. /\ follow = [mode |-> "Following", queue |-> <<>>, active |-> NoTarget, activation |-> NoTarget, latest |-> 0]
      /\ NoTarget \in MaybeTargets
  BY DEF Init, MaybeTargets
<1>9. follow \in FollowModels
  BY <1>7, <1>8 DEF FollowModels
<1>10. Waits(follow, diff)
  <2>1. 0 <= QueueCapacity
    BY DiffIngestionAssumption
  <2>2. follow.latest = 0 /\ follow.activation = NoTarget /\ follow.queue = <<>> /\ diff.revision = 0
    BY <1>2, <1>8
  <2>3. OnePerFile(<<>>)
    BY DEF OnePerFile
  <2> QED BY <1>7, <2>1, <2>2, <2>3 DEF Waits
<1>11. scans = <<>> /\ published = 0 /\ adopted.revision = 0
  BY <1>2 DEF Init
<1>12. ScansFollow(scans, published, adopted)
  BY <1>7, <1>11 DEF ScansFollow
<1>13. live = [id \in Ids |-> Absent] /\ shown = [id |-> NoId, line |-> 0] /\ unseen = {}
  BY DEF Init
<1>14. Shows(live, diff)
  BY <1>1, <1>13 DEF Shows
<1>15. head \in [Files -> FileContents] /\ working = head
  BY DiffIngestionAssumption DEF Init, FileContents
<1>16. Typed
  BY <1>5, <1>7, <1>9, <1>11, <1>13, <1>15 DEF Typed
<1> QED BY <1>6, <1>10, <1>12, <1>13, <1>14, <1>16 DEF IInv

LEMMA StepKeeps ==
    ASSUME IInv, [Next]_vars
    PROVE  IInv'
<1>1. CASE applyGitDiffScan
  BY <1>1, ScanKeeps
<1>2. CASE ExternalEvent
  BY <1>2, EventKeeps
<1>3. CASE follow_edits_pause
  BY <1>3, PauseKeeps DEF follow_edits_pause, Commands
<1>4. CASE follow_edits_toggle \/ follow_edits_resume
  BY <1>4, PauseKeeps, ResumeKeeps DEF follow_edits_toggle, follow_edits_resume, Commands, Toggle
<1>5. CASE open_live_diff
  BY <1>5, OpenKeeps DEF open_live_diff, Commands
<1>6. CASE read_another
  BY <1>6, ReadKeeps DEF read_another, Commands
<1>7. CASE close_live_diff
  BY <1>7, CloseKeeps DEF close_live_diff, Commands
<1>8. CASE Write \/ Commit \/ Publish
  BY <1>8, AroundKeeps
<1>9. CASE UNCHANGED vars
  BY <1>9 DEF vars, IInv, Typed
<1> QED BY <1>1, <1>2, <1>3, <1>4, <1>5, <1>6, <1>7, <1>8, <1>9 DEF Next

-----------------------------------------------------------------------------
(* The theorems. *)

\* What the editor has of the scans, of its documents and of what waits (applyGitDiffScan and
\* the commands around it) is kept by every step.
THEOREM Invariant ==
    Spec => []IInv
<1>1. Init => IInv
  BY Initially
<1>2. IInv /\ [Next]_vars => IInv'
  BY StepKeeps
<1> QED BY <1>1, <1>2, PTL DEF Spec

\* No scan that was handed over is refused, and the Git files the editor knows are those of
\* the last one (stageGitDiffScan, applyGitDiffScan).
THEOREM DiffIsAlwaysOneScan ==
    Spec => []DiffIsOneScan
<1>1. ASSUME IInv PROVE DiffIsOneScan
  <2>1. diff \in DiffModels /\ follow \in FollowModels /\ shown \in Panes
    BY <1>1 DEF IInv, Typed, Panes
  <2>2. ASSUME NEW id \in Ids, diff.entries[id].hunks # <<>> PROVE diff.entries[id].present
    BY <2>1, <2>2 DEF DiffModels, Views
  <2>3. follow.mode \in {"Following", "Paused"} /\ Len(follow.queue) <= QueueCapacity
    BY <1>1, <2>1 DEF FollowModels, IInv, Waits
  <2>4. shown.id \in Ids \cup {NoId} /\ shown.line \in Nat
    BY <2>1 DEF Panes
  <2>5. TypeOK
    BY <2>2, <2>3, <2>4 DEF TypeOK, identified, opened
  <2> QED BY <1>1, <2>5 DEF DiffIsOneScan, IInv, ScansFollow, IsScan, fileView
<1> QED BY <1>1, Invariant, PTL

\* An open live diff of a Git file shows what the diff model says of it (refreshLiveDiffDocuments).
THEOREM LiveDiffsAlwaysShowTheDiff ==
    Spec => []LiveDiffsShowTheDiff
<1>1. ASSUME IInv PROVE LiveDiffsShowTheDiff
  BY <1>1 DEF IInv, Shows, LiveDiffsShowTheDiff, fileView
<1> QED BY <1>1, Invariant, PTL

\* Every target that waits is the only one of its file and names a hunk the diff has, and
\* what the last scan brought while paused can be resumed to (acceptExternalChanges).
THEOREM QueueAlwaysNamesHunks ==
    Spec => []QueueNamesHunks
<1>1. ASSUME IInv PROVE QueueNamesHunks
  <2>1. Waits(follow, diff)
    BY <1>1 DEF IInv
  <2>2. \A i, j \in DOMAIN follow.queue : follow.queue[i].id = follow.queue[j].id => i = j
    BY <2>1 DEF Waits, OnePerFile
  <2>3. ASSUME NEW i \in DOMAIN follow.queue
        PROVE  LET t == follow.queue[i]
                   hunks == hunksOf(diff, t.id)
               IN /\ \E k \in DOMAIN hunks : hunks[k].targetStart = t.line
                  /\ t.deleted = fileView(diff, t.id).deleted
    BY <2>1 DEF Waits, NamesHunk, hunksOf, fileView
  <2>4. unseen # {} => follow.queue # <<>>
    BY <1>1 DEF IInv
  <2> QED BY <2>2, <2>3, <2>4 DEF QueueNamesHunks
<1> QED BY <1>1, Invariant, PTL

\* What the editor says changed in a file of the scan is what changed from its baseline to its
\* content (updateGitFile): nothing between the comparison and the model mixes two of them.
THEOREM KnownDifferencesAreExact ==
    Spec => [](\A f \in Files :
                 LET view == fileView(diff, Git(f))
                     file == adopted.files[f]
                 IN view.present => IsDifference(textOf(file.baseline), view.content, view.hunks))
<1> DEFINE Exact == \A f \in Files :
             LET view == fileView(diff, Git(f))
                 file == adopted.files[f]
             IN view.present => IsDifference(textOf(file.baseline), view.content, view.hunks)
<1>1. ASSUME IInv PROVE Exact
  <2> SUFFICES ASSUME NEW f \in Files, diff.entries[Git(f)].present
               PROVE  IsDifference(textOf(adopted.files[f].baseline), diff.entries[Git(f)].content, diff.entries[Git(f)].hunks)
    BY DEF fileView
  <2>1. adopted.files[f] \in Pairs
    BY <1>1 DEF IInv, Typed, Scans
  <2>2. diff.entries[Git(f)] = viewIn(adopted.files[f])
    BY <1>1 DEF IInv, IsScan
  <2> QED BY <2>1, <2>2, ViewInType
<1> HIDE DEF Exact
<1>2. Spec => []Exact
  BY <1>1, Invariant, PTL
<1> QED BY <1>2 DEF Exact

\* Where the pane is taken by a scan: while following, to a hunk that the scan brought
\* (acceptExternalChanges, openOrRevealFollowTargetProgrammatic).
LEMMA ScanMovesToNewHunk ==
    ASSUME IInv, applyGitDiffScan, shown' # shown, shown.id \notin opened(live) \ opened(live')
    PROVE  /\ follow.mode = "Following"
           /\ \E k \in introduced(hunksOf(diff', shown'.id), hunksOf(diff, shown'.id)) :
                shown'.line \in {shown.line, lineOf(live'[shown'.id], hunksOf(diff', shown'.id)[k].targetStart)}
<1>1. PICK staged : Stages(staged, adopted', diff, follow) /\ Adopts(staged)
  BY ScanIsAdopted
<1> DEFINE left == Remaining(live, staged.statusOnly)
           closed == staged.statusOnly \cap opened(live)
           fresh == refreshLiveDiffDocuments(left, diff')
           c == staged.changes
           t == staged.follow.active
<1>2. diff' = staged.diff /\ follow' = staged.follow /\ ShowsScan(staged, closed, left)
  BY <1>1 DEF Adopts
<1>3. live \in Documents /\ diff' \in DiffModels
  BY <1>1, <1>2 DEF IInv, Typed, Documents, Stages
<1>4. moves(staged)
  <2>1. SUFFICES ASSUME ~moves(staged) PROVE FALSE
    OBVIOUS
  <2>2. staged.mutated /\ shown.id \in closed /\ live' = fresh
    BY <1>2, <2>1 DEF ShowsScan
  <2>3. shown.id \in Ids /\ live[shown.id] # Absent /\ shown.id \in staged.statusOnly
    BY <2>2 DEF opened
  <2>4. left[shown.id] = Absent
    BY <2>3 DEF Remaining
  <2>5. left \in Documents
    BY <1>3 DEF Documents, Remaining
  <2> HIDE DEF left
  <2>6. fresh[shown.id] = Absent
    BY <1>3, <2>3, <2>4, <2>5, Refreshed
  <2> QED BY <2>2, <2>3, <2>6 DEF opened
<1>5. openOrRevealFollowTargetProgrammatic(fresh, t)
  BY <1>2, <1>4 DEF ShowsScan
<1>6. t # follow.active
  BY <1>4 DEF moves
<1>7. follow.mode = "Following" /\ \E k \in DOMAIN c : Brings(c[k]) /\ t = targetFor(c[k])
  BY <1>1, <1>6 DEF Stages
<1>8. PICK n \in DOMAIN c : Brings(c[n]) /\ t = targetFor(c[n])
  BY <1>7
<1> HIDE DEF t, fresh, left, closed
<1>9. PICK f \in Files : c[n].id = Git(f) /\ c[n].prior = diff.entries[Git(f)].hunks /\ Describes(c[n], diff'.entries[Git(f)])
  BY <1>1, <1>2 DEF Stages
<1>10. c[n] \in Changes
  <2>1. c \in Seq(Changes)
    BY <1>1 DEF Stages
  <2> HIDE DEF c
  <2> QED BY <2>1
<1> HIDE DEF c
<1>11. t.id = Git(f) /\ \E k \in newOf(c[n]) : t.line = c[n].view.hunks[k].targetStart
  BY <1>8, <1>9, <1>10, TargetOfChange DEF Brings
<1>12. newOf(c[n]) = introduced(hunksOf(diff', Git(f)), hunksOf(diff, Git(f))) /\ c[n].view.hunks = hunksOf(diff', Git(f))
  BY <1>9 DEF newOf, Describes, hunksOf
<1>13. /\ shown'.id = t.id
       /\ shown'.line = IF t.deleted THEN shown.line ELSE lineOf(live'[t.id], t.line)
  <2>1. t.id \in identified(diff')
    BY <1>5 DEF openOrRevealFollowTargetProgrammatic
  <2>2. shown' = [id |-> t.id, line |-> IF t.deleted THEN shown.line ELSE lineOf(live'[t.id], t.line)]
    BY <1>5, <2>1 DEF openOrRevealFollowTargetProgrammatic
  <2> QED BY <2>2
<1> QED BY <1>7, <1>11, <1>12, <1>13

\* A scan moves the pane only while following, and only to a hunk of a file that it brought or
\* changed (applyGitDiffScan, openOrRevealFollowTargetProgrammatic); it is the step of one scan
\* that says so, whatever came before it.
THEOREM PaneMovesToNewHunks ==
    Spec => ScansMoveToNewHunks
<1> DEFINE Moves ==
       LET hunks == hunksOf(diff', shown'.id)
           new == introduced(hunks, hunksOf(diff, shown'.id))
       IN adopted' # adopted /\ shown' # shown /\ shown.id \notin opened(live) \ opened(live') =>
            /\ follow.mode = "Following"
            /\ \E k \in new : shown'.line \in {shown.line, lineOf(live'[shown'.id], hunks[k].targetStart)}
<1>1. ASSUME IInv, [Next]_vars PROVE [Moves]_vars
  <2>1. CASE applyGitDiffScan
    BY <1>1, <2>1, ScanMovesToNewHunk
  <2>2. CASE ~applyGitDiffScan /\ Next
    <3>1. adopted' = adopted
      BY <2>2 DEF Next, ExternalEvent, follow_edits_pause, follow_edits_resume, follow_edits_toggle, open_live_diff, read_another,
                  close_live_diff, Commands, Write, Commit, Publish, aroundUnchanged
    <3> QED BY <3>1
  <2>3. CASE UNCHANGED vars
    BY <2>3
  <2> QED BY <1>1, <2>1, <2>2, <2>3
<1> HIDE DEF Moves
<1>2. Spec => [][Moves]_vars
  BY <1>1, Invariant, PTL DEF Spec
<1> QED BY <1>2 DEF Moves, ScansMoveToNewHunks

=============================================================================
