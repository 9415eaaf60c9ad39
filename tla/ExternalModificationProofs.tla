---------------------- MODULE ExternalModificationProofs ----------------------
(***************************************************************************)
(* Proofs about ExternalModification for all paths, contents and worlds,   *)
(* the races included, and for events and batches of any number.           *)
(*                                                                         *)
(* A batch is a fold over its events.  What an event keeps of the flow     *)
(* (IngestingKeeps) is carried over a batch of any length by taking the    *)
(* least place at which it would be lost (BatchKeeps).  Around that, the   *)
(* invariant says why an answered conflict stays answered (Dismissed): its *)
(* document branches from what is on disk, so any event that tells of the  *)
(* file says nothing new.  Every step but the reports of the watcher, Pump *)
(* and the answers is about some paths and leaves the others (Frame).      *)
(*                                                                         *)
(* The second invariant (Informed) says of every path why a divergence     *)
(* from the disk is known or will be: through the notes the watcher        *)
(* debounces, the batch that was delivered, the save not yet registered    *)
(* and the comparison that is due (Good).  It holds in calm worlds: those  *)
(* without the races, and where a move is not undone over another change   *)
(* of its source, which would leave two notes of that path.                *)
(***************************************************************************)
EXTENDS ExternalModification, SequenceLemmas, FiniteSetTheorems

-----------------------------------------------------------------------------
(* The watcher's changes.                                                   *)

\* Renames the watcher reports name their source.
Named == {n \in Natives : n.kind = "Rename" => n.previous \in Paths}
\* Those that do not say of a path that its file is there.
Silent(p) == {n \in Named : n.path = p => n.kind = "Remove"}

\* Two changes of a path come to one of them, to a removal or to nothing.
LEMMA CoalescedIn ==
    ASSUME NEW n \in Named, NEW m \in Named, n.path = m.path
    PROVE  Coalesced(n, m) \in Seq(Named)
<1> USE DEF Named, Natives, Kinds
<1>1. [m EXCEPT !.kind = "Modify"] \in Named
  OBVIOUS
<1>2. n.kind = "Rename" /\ m.kind = "Remove"
         => [m EXCEPT !.path = n.previous, !.previous = n.path] \in Named
  OBVIOUS
<1> HIDE DEF Named, Natives, Kinds
<1> QED BY <1>1, <1>2 DEF Coalesced

\* Two that do not say a file is there come to one that does not.
LEMMA CoalescedSilent ==
    ASSUME NEW p, NEW n \in Silent(p), NEW m \in Silent(p), n.path = m.path
    PROVE  Coalesced(n, m) \in Seq(Silent(p))
<1> USE DEF Silent, Named, Natives, Kinds
<1>1. n.kind = "Remove" /\ m.kind = "Create" => [m EXCEPT !.kind = "Modify"] \in Silent(p)
  OBVIOUS
<1>2. n.kind = "Rename" /\ m.kind = "Remove"
         => [m EXCEPT !.path = n.previous, !.previous = n.path] \in Silent(p)
  OBVIOUS
<1> HIDE DEF Silent, Named, Natives, Kinds
<1> QED BY <1>1, <1>2 DEF Coalesced

\* A set of changes closed under the coalescing of two of one path.
Closed(T) == \A n, m \in T : n.path = m.path => Coalesced(n, m) \in Seq(T)

\* Both sets are closed so.
LEMMA ClosedSets == Closed(Named) /\ \A p \in Paths : Closed(Silent(p))
BY CoalescedIn, CoalescedSilent DEF Closed

\* A change is noted among those of its set.
LEMMA EnqueuedIn ==
    ASSUME NEW T, Closed(T), NEW ns \in Seq(T), NEW next \in T, NEW another
    PROVE  Enqueued(ns, next, another) \in Seq(T)
<1> DEFINE apart == \A i \in Noted(ns, next.path) :
                       another /\ ns[i].kind = "Remove" /\ next.kind = "Create"
<1>1. CASE apart
  BY <1>1, AppendProperties DEF Enqueued
<1>2. CASE ~apart
  <2> DEFINE i == CHOOSE i \in Noted(ns, next.path) : TRUE
  <2>1. i \in Noted(ns, next.path)
    BY <1>2
  <2>2. i \in DOMAIN ns /\ ns[i].path = next.path
    BY <2>1 DEF Noted
  <2>3. /\ Enqueued(ns, next, another) = SubSeq(ns, 1, i - 1) \o Coalesced(ns[i], next)
                                   \o SubSeq(ns, i + 1, Len(ns))
    BY <1>2 DEF Enqueued
  <2> HIDE DEF i
  <2>4. Len(ns) \in Nat /\ i \in 1..Len(ns) /\ ns[i] \in T
    BY <2>2, LenProperties, ElementOfSeq
  <2>5. Coalesced(ns[i], next) \in Seq(T)
    BY <2>2, <2>4 DEF Closed
  <2>6. SubSeq(ns, 1, i - 1) \in Seq(T)
    <3>1. i - 1 \in Nat /\ 1 \in Nat \ {0} /\ i - 1 <= Len(ns)
      BY <2>4
    <3> QED BY <3>1, PartOfSeq
  <2>7. SubSeq(ns, i + 1, Len(ns)) \in Seq(T)
    <3>1. i + 1 \in Nat \ {0} /\ Len(ns) <= Len(ns)
      BY <2>4
    <3> QED BY <2>4, <3>1, PartOfSeq
  <2>8. SubSeq(ns, 1, i - 1) \o Coalesced(ns[i], next) \in Seq(T)
    BY <2>5, <2>6, ConcatProperties
  <2>9. (SubSeq(ns, 1, i - 1) \o Coalesced(ns[i], next))
            \o SubSeq(ns, i + 1, Len(ns)) \in Seq(T)
    BY <2>7, <2>8, ConcatProperties
  <2> QED BY <2>3, <2>9
<1> QED BY <1>1, <1>2

\* A paired rename is noted among those of a set that has it, as a rename or
\* as a write of its destination.
LEMMA RenamedIn ==
    ASSUME NEW T, Closed(T), NEW ns \in Seq(T), NEW p, NEW q, NEW existed, NEW another,
           Native("Modify", q, NoPath, NoStamp) \in T,
           Native("Create", q, NoPath, NoStamp) \in T,
           Native("Rename", q, p, NoStamp) \in T
    PROVE  Renamed(ns, p, q, existed, another) \in Seq(T)
<1> DEFINE next == IF \E i \in Noted(ns, p) : ns[i].kind = "Create"
                   THEN Native(IF existed THEN "Modify" ELSE "Create", q, NoPath, NoStamp)
                   ELSE Native("Rename", q, p, NoStamp)
           left == IF Noted(ns, p) = {} THEN ns
                   ELSE RemoveAt(ns, CHOOSE i \in Noted(ns, p) : TRUE)
<1>1. next \in T
  OBVIOUS
<1>2. left \in Seq(T)
  <2>1. ASSUME Noted(ns, p) # {}
        PROVE  RemoveAt(ns, CHOOSE i \in Noted(ns, p) : TRUE) \in Seq(T)
    <3> DEFINE i == CHOOSE i \in Noted(ns, p) : TRUE
    <3>1. i \in Noted(ns, p)
      BY <2>1
    <3>2. i \in DOMAIN ns
      BY <3>1 DEF Noted
    <3> HIDE DEF i
    <3>3. RemoveAt(ns, i) \in Seq(T)
      BY <3>2, WithoutOne
    <3> QED BY <3>3 DEF i
  <2> QED BY <2>1
<1>3. Renamed(ns, p, q, existed, another) = Enqueued(left, next, another)
  BY DEF Renamed
<1> HIDE DEF next, left
<1> QED BY <1>1, <1>2, <1>3, EnqueuedIn

-----------------------------------------------------------------------------
(* The conflicts offered.                                                   *)

\* A path has one conflict at most.
OneEach(list) == \A i, j \in DOMAIN list : list[i].path = list[j].path => i = j
\* A conflict offers a removal when it has no content to offer.
Offers == {c \in Conflicts : c.removed <=> c.content = Absent}

\* One conflict goes.
LEMMA OneGoes ==
    ASSUME NEW list \in Seq(Offers), OneEach(list), NEW i \in DOMAIN list
    PROVE  /\ RemoveAt(list, i) \in Seq(Offers) /\ OneEach(RemoveAt(list, i))
           /\ PathsOf(RemoveAt(list, i)) = PathsOf(list) \ {list[i].path}
<1> DEFINE left == RemoveAt(list, i)
           at(j) == IF j < i THEN j ELSE j + 1
<1>1. /\ left \in Seq(Offers) /\ Len(left) = Len(list) - 1
      /\ \A j \in DOMAIN left : left[j] = list[at(j)]
  BY WithoutOne
<1> HIDE DEF left
<1>2. DOMAIN list = 1..Len(list) /\ Len(list) \in Nat /\ DOMAIN left = 1..Len(list) - 1
  BY <1>1, LenProperties
<1>3. \A j \in DOMAIN left : at(j) \in DOMAIN list /\ at(j) # i
  BY <1>2
<1>4. \A j, k \in DOMAIN left : at(j) = at(k) => j = k
  BY <1>2
<1>5. \A k \in DOMAIN list : k # i => \E j \in DOMAIN left : at(j) = k
  <2> SUFFICES ASSUME NEW k \in DOMAIN list, k # i
               PROVE  \E j \in DOMAIN left : at(j) = k
    OBVIOUS
  <2>1. CASE k < i
    <3>1. k \in DOMAIN left /\ at(k) = k
      BY <1>2, <2>1
    <3> QED BY <3>1
  <2>2. CASE ~(k < i)
    <3>1. k - 1 \in DOMAIN left /\ at(k - 1) = k
      BY <1>2, <2>2
    <3> QED BY <3>1
  <2> QED BY <2>1, <2>2
<1> HIDE DEF at
<1>6. OneEach(left)
  BY <1>1, <1>3, <1>4 DEF OneEach
<1>7. PathsOf(left) \subseteq PathsOf(list) \ {list[i].path}
  BY <1>1, <1>3 DEF PathsOf, OneEach
<1>8. PathsOf(list) \ {list[i].path} \subseteq PathsOf(left)
  <2> SUFFICES ASSUME NEW k \in DOMAIN list, list[k].path # list[i].path
               PROVE  list[k].path \in PathsOf(left)
    BY DEF PathsOf
  <2>1. PICK j \in DOMAIN left : at(j) = k
    BY <1>5
  <2>2. left[j].path = list[k].path
    BY <1>1, <2>1
  <2> QED BY <2>2 DEF PathsOf
<1> QED BY <1>1, <1>6, <1>7, <1>8 DEF left

\* The conflict of a path goes, if it has one.
LEMMA PathGoes ==
    ASSUME NEW list \in Seq(Offers), OneEach(list), NEW p
    PROVE  /\ Without(list, p) \in Seq(Offers) /\ OneEach(Without(list, p))
           /\ PathsOf(Without(list, p)) = PathsOf(list) \ {p}
<1>1. CASE p \in PathsOf(list)
  <2>1. IndexOf(list, p) \in DOMAIN list /\ list[IndexOf(list, p)].path = p
    BY <1>1 DEF PathsOf, IndexOf
  <2> QED BY <1>1, <2>1, OneGoes DEF Without
<1>2. CASE p \notin PathsOf(list)
  BY <1>2 DEF Without
<1> QED BY <1>1, <1>2

\* A conflict comes, or takes the place of the one of its path.
LEMMA OneComes ==
    ASSUME NEW list \in Seq(Offers), OneEach(list), NEW c \in Offers
    PROVE  /\ Raised(list, c) \in Seq(Offers) /\ OneEach(Raised(list, c))
           /\ PathsOf(Raised(list, c)) = PathsOf(list) \cup {c.path}
<1>1. DOMAIN list = 1..Len(list) /\ Len(list) \in Nat
      /\ \A i \in DOMAIN list : list[i] \in Offers
  BY LenProperties, ElementOfSeq
<1>2. CASE c.path \in PathsOf(list)
  <2> DEFINE r == [i \in DOMAIN list |-> IF list[i].path = c.path THEN c ELSE list[i]]
  <2>1. r \in [1..Len(list) -> Offers]
    BY <1>1
  <2>2. r \in Seq(Offers)
    BY <1>1, <2>1, SeqDef
  <2>3. DOMAIN r = DOMAIN list /\ \A i \in DOMAIN list : r[i].path = list[i].path
    OBVIOUS
  <2>4. Raised(list, c) = r
    BY <1>2 DEF Raised
  <2> HIDE DEF r
  <2>5. OneEach(r) /\ PathsOf(r) = PathsOf(list)
    BY <2>3 DEF OneEach, PathsOf
  <2> QED BY <1>2, <2>2, <2>4, <2>5
<1>3. CASE c.path \notin PathsOf(list)
  <2> DEFINE r == Append(list, c)
  <2>1. /\ r \in Seq(Offers) /\ Len(r) = Len(list) + 1
        /\ \A i \in 1..Len(list) : r[i] = list[i]
        /\ r[Len(list) + 1] = c
    BY AppendProperties
  <2>2. Raised(list, c) = r
    BY <1>3 DEF Raised
  <2> HIDE DEF r
  <2>3. DOMAIN r = DOMAIN list \cup {Len(list) + 1} /\ Len(list) + 1 \notin DOMAIN list
    BY <1>1, <2>1, LenProperties
  <2>4. \A i \in DOMAIN list : list[i].path # c.path
    BY <1>3 DEF PathsOf
  <2>5. OneEach(r)
    BY <1>1, <2>1, <2>3, <2>4 DEF OneEach
  <2>6. PathsOf(r) = PathsOf(list) \cup {c.path}
    <3>1. \A i \in DOMAIN r : r[i].path \in PathsOf(list) \cup {c.path}
      BY <1>1, <2>1, <2>3 DEF PathsOf
    <3>2. \A i \in DOMAIN list : list[i].path \in PathsOf(r)
      BY <1>1, <2>1, <2>3 DEF PathsOf
    <3>3. c.path \in PathsOf(r)
      BY <2>1, <2>3 DEF PathsOf
    <3> QED BY <3>1, <3>2, <3>3 DEF PathsOf
  <2> QED BY <2>1, <2>2, <2>5, <2>6
<1> QED BY <1>2, <1>3

-----------------------------------------------------------------------------
(* The flow, and what ingesting an event keeps of it.                       *)

\* The flow's record: the selection names a conflict, and a path has one.
Flows == [docs : [Paths -> Documents \cup {NoDocument}], pending : Seq(Offers),
          selected : Paths \cup {NoPath},
          expectations : SUBSET [path : Paths, stamp : Nat \ {NoStamp}]]
Selecting(f) ==
    IF f.pending = <<>> THEN f.selected = NoPath ELSE f.selected \in PathsOf(f.pending)
Sound(f) == f \in Flows /\ OneEach(f.pending) /\ Selecting(f)

\* A path of a list is a path, and an empty list has none.
LEMMA PathsOfOffers ==
    ASSUME NEW list \in Seq(Offers)
    PROVE  PathsOf(list) \subseteq Paths /\ (list = <<>> <=> PathsOf(list) = {})
<1>1. DOMAIN list = 1..Len(list) /\ Len(list) \in Nat
      /\ \A i \in DOMAIN list : list[i] \in Offers
  BY LenProperties, ElementOfSeq
<1>2. \A c \in Offers : c.path \in Paths
  BY DEF Offers, Conflicts
<1>3. list = <<>> <=> Len(list) = 0
  BY EmptySeq
<1>4. Len(list) # 0 => 1 \in DOMAIN list
  BY <1>1
<1>5. list # <<>> => PathsOf(list) # {}
  BY <1>3, <1>4 DEF PathsOf
<1>6. Len(list) = 0 => DOMAIN list = {}
  BY <1>1
<1> QED BY <1>1, <1>2, <1>3, <1>5, <1>6 DEF PathsOf

\* Reselecting only moves the selection, to a conflict.
LEMMA Reselecting ==
    ASSUME NEW f \in Flows, OneEach(f.pending), NEW place \in Nat \ {0}
    PROVE  /\ Sound(Reselected(f, place))
           /\ Reselected(f, place).docs = f.docs
           /\ Reselected(f, place).pending = f.pending
           /\ Reselected(f, place).expectations = f.expectations
<1> DEFINE at == IF place > Len(f.pending) THEN Len(f.pending) ELSE place
           s == IF f.pending = <<>> THEN NoPath
                ELSE IF f.selected \in PathsOf(f.pending) THEN f.selected
                ELSE f.pending[at].path
           g == Reselected(f, place)
<1>1. f.pending \in Seq(Offers)
  BY DEF Flows
<1>2. f.pending # <<>> => at \in DOMAIN f.pending
  <2>1. DOMAIN f.pending = 1..Len(f.pending) /\ Len(f.pending) \in Nat
    BY <1>1, LenProperties
  <2>2. f.pending # <<>> => Len(f.pending) # 0
    BY <1>1, EmptySeq
  <2> QED BY <2>1, <2>2
<1> HIDE DEF at
<1>3. f.pending # <<>> => f.pending[at].path \in PathsOf(f.pending)
  BY <1>2 DEF PathsOf
<1>4. g = [f EXCEPT !.selected = s]
  BY DEF Reselected, at
<1>5. s \in Paths \cup {NoPath}
  BY <1>1, <1>3, PathsOfOffers
<1>6. IF f.pending = <<>> THEN s = NoPath ELSE s \in PathsOf(f.pending)
  BY <1>3
<1> HIDE DEF s, g
<1>7. /\ g \in Flows /\ g.docs = f.docs /\ g.pending = f.pending
      /\ g.expectations = f.expectations /\ g.selected = s
  BY <1>4, <1>5 DEF Flows
<1> QED BY <1>6, <1>7 DEF Sound, Selecting, g

\* The path whose document an event is about.
Source(e, seen) == IF seen.kind = "Rename" THEN e.previous ELSE e.path

\* What is seen of an event: a removal shows no content, any other shows what
\* the file holds, and only a rename is seen as one.
LEMMA Seen ==
    ASSUME disk \in [Paths -> Files], NEW e \in Named
    PROVE  /\ Observed(e).kind \in Kinds
           /\ Observed(e).content \in Contents \cup {Absent}
           /\ Observed(e).kind = "Remove" <=> Observed(e).content = Absent
           /\ Observed(e).content # Absent => Observed(e).content = Content(e.path)
           /\ Observed(e).kind = "Rename" => e.kind = "Rename"
           /\ e.kind = "Rename" /\ Observed(e).kind # "Remove" => Observed(e).kind = "Rename"
           /\ Source(e, Observed(e)) \in Paths /\ e.path \in Paths
<1>1. e.path \in Paths /\ e.kind \in Kinds /\ (e.kind = "Rename" => e.previous \in Paths)
  BY DEF Named, Natives
<1>2. Absent \notin Contents
  BY ExternalAssumption DEF Absent
<1> DEFINE readable == Content(e.path) \in Contents
<1>3. /\ Observed(e).kind = IF ~readable THEN "Remove"
                            ELSE IF e.kind = "Remove" THEN "Modify" ELSE e.kind
      /\ Observed(e).content = IF readable THEN Content(e.path) ELSE Absent
  BY DEF Observed
<1> HIDE DEF readable
<1>4. readable => Content(e.path) \in Contents
  BY DEF readable
<1> QED BY <1>1, <1>2, <1>3, <1>4 DEF Kinds, Source

\* No document is none that is open.
LEMMA NoneIsOpen == NoDocument \notin Documents
<1>1. NoPath \notin Texts
  BY ExternalAssumption DEF NoPath, Texts
<1>2. NoDocument.text = NoPath
  BY DEF NoDocument
<1>3. \A d \in Documents : d.text \in Texts
  BY DEF Documents
<1> QED BY <1>1, <1>2, <1>3

\* The document is opened, or what it was becomes another.
LEMMA DocumentTypes ==
    ASSUME NEW d \in Documents, NEW p, NEW content \in Texts
    PROVE  /\ Reloaded(d, p, content) \in Documents
           /\ Followed(d, p, content) \in Documents
           /\ Followed(d, p, content).text = d.text
           /\ Followed(d, p, content).decoded = content
<1>1. Captured(p, content) \in Contents \cup {Absent, Unknown}
  BY DEF Captured, Texts
<1> QED BY <1>1 DEF Documents, Reloaded, Followed

\* The document of an event takes a content over, under the event's path; when
\* it has unsaved text, it follows its file with it.
Adopts(f, e, seen, g) ==
    /\ seen.content \in Texts
    /\ seen.kind = "Rename" => f.docs[e.path] = NoDocument
    /\ f.docs[Source(e, seen)] # NoDocument
    /\ \E new \in Documents :
          /\ g.docs = [f.docs EXCEPT ![Source(e, seen)] = NoDocument, ![e.path] = new]
          /\ Dirty(f.docs[Source(e, seen)]) =>
                /\ seen.kind = "Rename"
                /\ new.text = f.docs[Source(e, seen)].text /\ new.decoded = seen.content
    /\ PathsOf(g.pending) \subseteq PathsOf(f.pending) \cup {e.path}

\* What processing an event comes to: nothing, a conflict that ends, one that is
\* raised, or a content that is adopted.
LEMMA Processing ==
    ASSUME disk \in [Paths -> Files], NEW e \in Named, NEW f, Sound(f), NEW own \in BOOLEAN
    PROVE  LET seen == Observed(e)
               g == Processed(f, e, seen, own)
           IN  /\ Sound(g)
               /\ \/ g = f
                  \/ own /\ g.docs = f.docs /\ PathsOf(g.pending) \subseteq PathsOf(f.pending)
                  \/ /\ ~own /\ seen.kind # "Rename" /\ g.docs = f.docs
                     /\ PathsOf(g.pending) \subseteq PathsOf(f.pending) \cup {e.path}
                  \/ ~own /\ Adopts(f, e, seen, g)
<1> DEFINE seen == Observed(e)
           source == Source(e, seen)
           d == f.docs[source]
           kept == IF seen.kind = "Rename" THEN Without(f.pending, e.previous) ELSE f.pending
           offer == [path |-> e.path, removed |-> seen.kind = "Remove", content |-> seen.content]
           settled == [f EXCEPT !.pending = Without(kept, e.path)]
           raised == [f EXCEPT !.pending = Raised(kept, offer)]
           moved(g, new) == [g EXCEPT !.docs = [@ EXCEPT ![source] = NoDocument,
                                                         ![e.path] = new]]
           adoptable == /\ seen.content \in Texts
                        /\ seen.kind = "Rename" => f.docs[e.path] = NoDocument
<1>1. /\ f \in Flows /\ f.pending \in Seq(Offers) /\ OneEach(f.pending)
      /\ f.docs \in [Paths -> Documents \cup {NoDocument}]
  BY DEF Sound, Flows
<1>2. /\ kept \in Seq(Offers) /\ OneEach(kept) /\ PathsOf(kept) \subseteq PathsOf(f.pending)
  BY <1>1, PathGoes
<1>3. offer \in Offers
  <2>1. /\ e.path \in Paths /\ seen.content \in Contents \cup {Absent}
        /\ seen.kind = "Remove" <=> seen.content = Absent
    BY Seen
  <2> HIDE DEF seen
  <2>2. offer \in Conflicts
    BY <2>1 DEF Conflicts
  <2> QED BY <2>1, <2>2 DEF Offers
<1>4. offer.path = e.path
  OBVIOUS
<1> HIDE DEF kept, offer
<1>5. /\ settled \in Flows /\ OneEach(settled.pending) /\ settled.docs = f.docs
      /\ PathsOf(settled.pending) \subseteq PathsOf(f.pending)
  <2>1. /\ Without(kept, e.path) \in Seq(Offers) /\ OneEach(Without(kept, e.path))
        /\ PathsOf(Without(kept, e.path)) \subseteq PathsOf(f.pending)
    BY <1>2, PathGoes
  <2> QED BY <1>1, <2>1 DEF Flows
<1>6. /\ raised \in Flows /\ OneEach(raised.pending) /\ raised.docs = f.docs
      /\ PathsOf(raised.pending) \subseteq PathsOf(f.pending) \cup {e.path}
  <2>1. /\ Raised(kept, offer) \in Seq(Offers) /\ OneEach(Raised(kept, offer))
        /\ PathsOf(Raised(kept, offer)) \subseteq PathsOf(f.pending) \cup {e.path}
    BY <1>2, <1>3, <1>4, OneComes
  <2> QED BY <1>1, <2>1 DEF Flows
<1> HIDE DEF settled, raised
<1>7. ASSUME NEW g \in Flows, NEW new \in Documents, OneEach(g.pending)
      PROVE  /\ moved(g, new) \in Flows /\ OneEach(moved(g, new).pending)
             /\ moved(g, new).pending = g.pending
             /\ moved(g, new).docs = [g.docs EXCEPT ![source] = NoDocument, ![e.path] = new]
  <2>1. /\ moved(g, new).pending = g.pending
        /\ moved(g, new).docs = [g.docs EXCEPT ![source] = NoDocument, ![e.path] = new]
    BY DEF Flows
  <2>2. [g.docs EXCEPT ![source] = NoDocument, ![e.path] = new]
           \in [Paths -> Documents \cup {NoDocument}]
    BY DEF Flows
  <2>3. moved(g, new) \in Flows
    BY <2>2 DEF Flows
  <2> QED BY <1>7, <2>1, <2>3
<1>8. d # NoDocument => d \in Documents
  <2>1. source \in Paths
    BY Seen
  <2> QED BY <1>1, <2>1
<1> HIDE DEF moved
<1>9. Processed(f, e, seen, own) =
         IF d = NoDocument THEN f
         ELSE IF own THEN Reselected(settled, 1)
         ELSE IF CanCleanAdopt(d, seen, own) /\ adoptable
              THEN Reselected(moved(settled, Reloaded(d, e.path, seen.content)), 1)
         ELSE IF seen.kind # "Rename" THEN Reselected(raised, 1)
         ELSE IF adoptable
              THEN Reselected(moved(raised, Followed(d, e.path, seen.content)), 1)
         ELSE f
  BY DEF Processed, settled, raised, kept, offer, moved, Source
<1> HIDE DEF seen, source, d
<1> DEFINE G == Processed(f, e, seen, own)
           Outcome(g) ==
              /\ Sound(g)
              /\ \/ g = f
                 \/ own /\ g.docs = f.docs /\ PathsOf(g.pending) \subseteq PathsOf(f.pending)
                 \/ /\ ~own /\ seen.kind # "Rename" /\ g.docs = f.docs
                    /\ PathsOf(g.pending) \subseteq PathsOf(f.pending) \cup {e.path}
                 \/ ~own /\ Adopts(f, e, seen, g)
<1>10. Outcome(f)
  OBVIOUS
<1>11. own => Outcome(Reselected(settled, 1))
  <2>1. /\ Sound(Reselected(settled, 1)) /\ Reselected(settled, 1).docs = f.docs
        /\ Reselected(settled, 1).pending = settled.pending
    BY <1>5, Reselecting
  <2> QED BY <1>5, <2>1
<1>12. ~own /\ seen.kind # "Rename" => Outcome(Reselected(raised, 1))
  <2>1. /\ Sound(Reselected(raised, 1)) /\ Reselected(raised, 1).docs = f.docs
        /\ Reselected(raised, 1).pending = raised.pending
    BY <1>6, Reselecting
  <2> QED BY <1>6, <2>1
<1>13. ASSUME ~own, d # NoDocument, CanCleanAdopt(d, seen, own), adoptable
       PROVE  Outcome(Reselected(moved(settled, Reloaded(d, e.path, seen.content)), 1))
  <2> DEFINE new == Reloaded(d, e.path, seen.content)
             m == moved(settled, new)
             g == Reselected(m, 1)
  <2>1. new \in Documents
    BY <1>8, <1>13, DocumentTypes
  <2>2. ~Dirty(d)
    BY <1>13 DEF CanCleanAdopt
  <2> HIDE DEF new
  <2>3. /\ m \in Flows /\ OneEach(m.pending) /\ m.pending = settled.pending
        /\ m.docs = [f.docs EXCEPT ![source] = NoDocument, ![e.path] = new]
    BY <1>5, <1>7, <2>1
  <2> HIDE DEF m
  <2>4. Sound(g) /\ g.docs = m.docs /\ g.pending = m.pending
    BY <2>3, Reselecting
  <2> HIDE DEF g
  <2>5. /\ f.docs[Source(e, seen)] # NoDocument /\ ~Dirty(f.docs[Source(e, seen)])
        /\ g.docs = [f.docs EXCEPT ![Source(e, seen)] = NoDocument, ![e.path] = new]
    BY <1>13, <2>2, <2>3, <2>4 DEF source, d
  <2>6. Adopts(f, e, seen, g)
    BY <1>5, <1>13, <2>1, <2>3, <2>4, <2>5 DEF Adopts
  <2>7. Outcome(g)
    BY <1>13, <2>4, <2>6
  <2> QED BY <2>7 DEF g, m, new
<1>14. ASSUME ~own, d # NoDocument, seen.kind = "Rename", adoptable
       PROVE  Outcome(Reselected(moved(raised, Followed(d, e.path, seen.content)), 1))
  <2> DEFINE new == Followed(d, e.path, seen.content)
             m == moved(raised, new)
             g == Reselected(m, 1)
  <2>1. new \in Documents /\ new.text = d.text /\ new.decoded = seen.content
    BY <1>8, <1>14, DocumentTypes
  <2> HIDE DEF new
  <2>3. /\ m \in Flows /\ OneEach(m.pending) /\ m.pending = raised.pending
        /\ m.docs = [f.docs EXCEPT ![source] = NoDocument, ![e.path] = new]
    BY <1>6, <1>7, <2>1
  <2> HIDE DEF m
  <2>4. Sound(g) /\ g.docs = m.docs /\ g.pending = m.pending
    BY <2>3, Reselecting
  <2> HIDE DEF g
  <2>5. /\ f.docs[Source(e, seen)] # NoDocument /\ new.text = f.docs[Source(e, seen)].text
        /\ g.docs = [f.docs EXCEPT ![Source(e, seen)] = NoDocument, ![e.path] = new]
    BY <1>14, <2>1, <2>3, <2>4 DEF source, d
  <2>6. Adopts(f, e, seen, g)
    BY <1>6, <1>14, <2>1, <2>3, <2>4, <2>5 DEF Adopts
  <2>7. Outcome(g)
    BY <1>14, <2>4, <2>6
  <2> QED BY <2>7 DEF g, m, new
<1> HIDE DEF Outcome, adoptable
<1>15. Outcome(G)
  BY <1>9, <1>10, <1>11, <1>12, <1>13, <1>14
<1> QED BY <1>15 DEF Outcome, seen

\* What was answered: the document branches from what is on disk, and no
\* conflict is offered.
Settled(f, p) == /\ f.docs[p] # NoDocument /\ p \notin PathsOf(f.pending)
                 /\ f.docs[p].baseline = Content(p)
\* An event that says nothing new of a path and does not take its document away.
Harmless(e, p) == ~TakesAway(e, p) /\ (Content(p) = Absent => e \in Silent(p))
\* A text is unsaved in a document, or is what a file holds.
Held(f, t) == \/ \E q \in Paths : /\ f.docs[q] # NoDocument /\ Dirty(f.docs[q])
                                  /\ f.docs[q].text = t
              \/ \E q \in Paths : Content(q) = t

\* An event is checked against the writes expected and the baseline, and
\* processed if it says something.
LEMMA Ingesting ==
    ASSUME NEW e \in Named, NEW f, Sound(f)
    PROVE  \E g, own :
              /\ own \in BOOLEAN /\ Sound(g) /\ g.docs = f.docs /\ g.pending = f.pending
              /\ \/ Ingested(f, e) = g
                 \/ /\ Ingested(f, e) = Processed(g, e, Observed(e), own)
                    /\ own \/ ~SaysNothing(f.docs[IF e.kind = "Rename" THEN e.previous
                                                  ELSE e.path], Observed(e))
<1> DEFINE stamp == IF e.stamp # NoStamp THEN e.stamp ELSE disk[e.path].stamp
           save == [path |-> e.path, stamp |-> stamp]
           own == save \in f.expectations
           g == [f EXCEPT !.expectations = @ \ {save}]
           source == IF e.kind = "Rename" THEN e.previous ELSE e.path
           seen == Observed(e)
<1>1. f \in Flows /\ own \in BOOLEAN
  BY DEF Sound
<1>2. Ingested(f, e) = IF \/ g.docs[source] = NoDocument
                          \/ ~own /\ SaysNothing(g.docs[source], seen)
                       THEN g ELSE Processed(g, e, seen, own)
  BY DEF Ingested
<1>3. Sound(g) /\ g.docs = f.docs /\ g.pending = f.pending
  <2> HIDE DEF save
  <2>1. /\ g \in Flows /\ g.docs = f.docs /\ g.pending = f.pending /\ g.selected = f.selected
    BY <1>1 DEF Flows
  <2> HIDE DEF g
  <2> QED BY <2>1 DEF Sound, Selecting
<1> HIDE DEF own, seen, source
<1>4. \/ Ingested(f, e) = g
      \/ /\ Ingested(f, e) = Processed(g, e, seen, own)
         /\ own \/ ~SaysNothing(f.docs[source], seen)
  BY <1>2, <1>3
<1> QED BY <1>1, <1>3, <1>4 DEF source, seen

\* A dirty document is never lost: what was unsaved stays unsaved, or is on disk.
LEMMA AdoptingKeepsText ==
    ASSUME disk \in [Paths -> Files], NEW e \in Named, NEW f, Sound(f), NEW g,
           Adopts(f, e, Observed(e), g), NEW t, Held(f, t)
    PROVE  Held(g, t)
<1> DEFINE seen == Observed(e)
           source == Source(e, seen)
<1>1. CASE \E q \in Paths : Content(q) = t
  BY <1>1 DEF Held
<1>2. CASE \E q \in Paths : f.docs[q] # NoDocument /\ Dirty(f.docs[q]) /\ f.docs[q].text = t
  <2>1. PICK q \in Paths : f.docs[q] # NoDocument /\ Dirty(f.docs[q]) /\ f.docs[q].text = t
    BY <1>2
  <2>2. PICK new \in Documents :
           /\ g.docs = [f.docs EXCEPT ![source] = NoDocument, ![e.path] = new]
           /\ Dirty(f.docs[source]) =>
                 /\ seen.kind = "Rename"
                 /\ new.text = f.docs[source].text /\ new.decoded = seen.content
    BY DEF Adopts
  <2>3. /\ source \in Paths /\ e.path \in Paths /\ seen.content = Content(e.path)
        /\ source # e.path => seen.kind = "Rename"
    <3>1. seen.content # Absent
      BY ExternalAssumption DEF Adopts, Texts, Absent
    <3> QED BY <3>1, Seen DEF Source
  <2>4. seen.kind = "Rename" => f.docs[e.path] = NoDocument
    BY DEF Adopts
  <2>5. f.docs \in [Paths -> Documents \cup {NoDocument}] /\ new # NoDocument
    <3>1. new # NoDocument
      BY NoneIsOpen
    <3> QED BY <3>1 DEF Sound, Flows
  <2> HIDE DEF source, seen
  <2>6. g.docs[e.path] = new
    BY <2>2, <2>3, <2>5
  <2>7. CASE q = source
    <3>1. new.text = t /\ new.decoded = Content(e.path)
      BY <2>1, <2>2, <2>3, <2>7
    <3>2. CASE Dirty(new)
      BY <2>3, <2>5, <2>6, <3>1, <3>2 DEF Held
    <3>3. CASE ~Dirty(new)
      <4>1. t = Content(e.path)
        BY <3>1, <3>3 DEF Dirty
      <4> QED BY <2>3, <4>1 DEF Held
    <3> QED BY <3>2, <3>3
  <2>8. CASE q # source
    <3>1. q # e.path
      BY <2>1, <2>2, <2>3, <2>4, <2>8
    <3>2. g.docs[q] = f.docs[q]
      BY <2>1, <2>2, <2>5, <2>8, <3>1
    <3> QED BY <2>1, <3>2 DEF Held
  <2> QED BY <2>7, <2>8
<1> QED BY <1>1, <1>2 DEF Held

\* Where a document branches from what is on disk, an event of its file that is
\* harmless says nothing.
LEMMA HarmlessSaysNothing ==
    ASSUME disk \in [Paths -> Files], NEW e \in Named, NEW f, Sound(f),
           NEW p \in Paths, Settled(f, p), Harmless(e, p), e.path = p,
           Observed(e).kind # "Rename"
    PROVE  e.kind # "Rename" /\ SaysNothing(f.docs[p], Observed(e))
<1>1. /\ Content(p) \in Contents \cup {Absent} /\ Unreadable \notin Contents \cup {Absent}
      /\ Absent \notin Contents
  <2>1. f.docs[p] \in Documents
    BY DEF Settled, Sound, Flows
  <2>2. Content(p) \in Contents \cup {Absent, Unknown}
    BY <2>1 DEF Settled, Documents
  <2>3. Content(p) \in Contents \cup {Absent, Unreadable}
    BY DEF Content, Files
  <2> QED BY <2>2, <2>3, ExternalAssumption DEF Absent, Unreadable, Unknown
<1>2. Content(p) = Absent => e.kind = "Remove"
  BY DEF Harmless, Silent
<1>3. f.docs[p].baseline = Content(p)
  BY DEF Settled
<1>4. CASE Content(p) = Absent
  BY <1>1, <1>2, <1>3, <1>4 DEF Observed, SaysNothing
<1>5. CASE Content(p) \in Contents
  BY <1>1, <1>3, <1>5 DEF Observed, SaysNothing
<1> QED BY <1>1, <1>4, <1>5

\* Ingesting an event keeps the flow sound, keeps every unsaved text, and leaves
\* alone what was answered.
LEMMA IngestingKeeps ==
    ASSUME disk \in [Paths -> Files], NEW e \in Named, NEW f, Sound(f)
    PROVE  /\ Sound(Ingested(f, e))
           /\ \A t : Held(f, t) => Held(Ingested(f, e), t)
           /\ \A p \in Paths : Settled(f, p) /\ Harmless(e, p) => Settled(Ingested(f, e), p)
<1> DEFINE h == Ingested(f, e)
           seen == Observed(e)
           source == IF e.kind = "Rename" THEN e.previous ELSE e.path
<1>1. PICK g, own :
         /\ own \in BOOLEAN /\ Sound(g) /\ g.docs = f.docs /\ g.pending = f.pending
         /\ h = g \/ (h = Processed(g, e, seen, own)
                      /\ (own \/ ~SaysNothing(f.docs[source], seen)))
  BY Ingesting
<1>2. \A t : Held(f, t) => Held(g, t)
  BY <1>1 DEF Held
<1>3. \A p \in Paths : Settled(f, p) <=> Settled(g, p)
  BY <1>1 DEF Settled
<1>4. CASE h = g
  BY <1>1, <1>2, <1>3, <1>4
<1>5. CASE h = Processed(g, e, seen, own) /\ (own \/ ~SaysNothing(f.docs[source], seen))
  <2>1. /\ Sound(h)
        /\ \/ h = g
           \/ own /\ h.docs = g.docs /\ PathsOf(h.pending) \subseteq PathsOf(g.pending)
           \/ /\ ~own /\ seen.kind # "Rename" /\ h.docs = g.docs
              /\ PathsOf(h.pending) \subseteq PathsOf(g.pending) \cup {e.path}
           \/ ~own /\ Adopts(g, e, seen, h)
    BY <1>1, <1>5, Processing
  <2>2. ASSUME NEW t, Held(f, t) PROVE Held(h, t)
    <3>1. Held(g, t)
      BY <1>2, <2>2
    <3>2. CASE h.docs = g.docs
      BY <3>1, <3>2 DEF Held
    <3>3. CASE Adopts(g, e, seen, h)
      BY <1>1, <3>1, <3>3, AdoptingKeepsText
    <3> QED BY <2>1, <3>2, <3>3
  <2>3. ASSUME NEW p \in Paths, Settled(f, p), Harmless(e, p) PROVE Settled(h, p)
    <3>1. Settled(g, p)
      BY <1>3, <2>3
    <3>2. CASE h.docs = g.docs /\ PathsOf(h.pending) \subseteq PathsOf(g.pending)
      BY <3>1, <3>2 DEF Settled
    <3>3. CASE ~own /\ seen.kind # "Rename" /\ h.docs = g.docs
               /\ PathsOf(h.pending) \subseteq PathsOf(g.pending) \cup {e.path}
      <4>1. e.path # p
        <5>1. SUFFICES ASSUME e.path = p PROVE FALSE
          OBVIOUS
        <5>2. e.kind # "Rename" /\ SaysNothing(f.docs[p], seen)
          BY <2>3, <3>3, <5>1, HarmlessSaysNothing
        <5>3. source = p
          BY <5>1, <5>2
        <5> QED BY <1>5, <3>3, <5>2, <5>3
      <4> QED BY <3>1, <3>3, <4>1 DEF Settled
    <3>4. CASE ~own /\ Adopts(g, e, seen, h)
      <4>1. g.docs[p] # NoDocument /\ (seen.kind = "Rename" => g.docs[e.path] = NoDocument)
        BY <3>1, <3>4 DEF Settled, Adopts
      <4>2. e.path # p
        <5>1. SUFFICES ASSUME e.path = p PROVE FALSE
          OBVIOUS
        <5>2. seen.kind # "Rename"
          BY <4>1, <5>1
        <5>3. e.kind # "Rename" /\ SaysNothing(f.docs[p], seen)
          BY <2>3, <5>1, <5>2, HarmlessSaysNothing
        <5>4. source = p
          BY <5>1, <5>3
        <5> QED BY <1>5, <3>4, <5>3, <5>4
      <4>3. Source(e, seen) # p
        <5>1. seen.kind = "Rename" => e.kind = "Rename"
          BY Seen
        <5>2. ~(e.kind = "Rename" /\ e.previous = p)
          BY <2>3 DEF Harmless, TakesAway
        <5> QED BY <4>2, <5>1, <5>2 DEF Source
      <4>4. h.docs[p] = g.docs[p]
        <5>1. PICK new \in Documents :
                 h.docs = [g.docs EXCEPT ![Source(e, seen)] = NoDocument, ![e.path] = new]
          BY <3>4 DEF Adopts
        <5>2. g.docs \in [Paths -> Documents \cup {NoDocument}]
          BY <1>1 DEF Sound, Flows
        <5> QED BY <4>2, <4>3, <5>1, <5>2
      <4>5. PathsOf(h.pending) \subseteq PathsOf(g.pending) \cup {e.path}
        BY <3>4 DEF Adopts
      <4> QED BY <3>1, <4>2, <4>4, <4>5 DEF Settled
    <3>5. CASE h = g
      BY <3>1, <3>5
    <3> QED BY <2>1, <3>2, <3>3, <3>4, <3>5
  <2> QED BY <2>1, <2>2, <2>3
<1> QED BY <1>1, <1>4, <1>5

-----------------------------------------------------------------------------
(* Batches of events.                                                       *)

\* The flow after each of the first k events.
After(f, events, k, a) ==
    a = [n \in 0..k |-> IF n = 0 THEN f ELSE Ingested(a[n - 1], events[n])]

\* However many events there are, the flow after them is defined.
LEMMA AfterEach ==
    ASSUME NEW f, NEW events, NEW k \in Nat
    PROVE  \E a : After(f, events, k, a)
<1> DEFINE Bad == {n \in Nat : ~ \E a : After(f, events, n, a)}
<1>1. SUFFICES ASSUME Bad # {} PROVE FALSE
  OBVIOUS
<1>2. PICK n \in Bad : \A m \in Bad : n <= m
  BY <1>1, LeastNumber
<1>3. n # 0
  <2>1. After(f, events, 0, [m \in 0..0 |-> f])
    BY DEF After
  <2> QED BY <2>1
<1>4. n - 1 \in Nat /\ n - 1 \notin Bad
  BY <1>2, <1>3
<1>5. PICK a : After(f, events, n - 1, a)
  BY <1>4
<1> DEFINE b == [m \in 0..n |-> IF m = n THEN Ingested(a[n - 1], events[n]) ELSE a[m]]
<1>6. \A m \in 0..n - 1 : a[m] = IF m = 0 THEN f ELSE Ingested(a[m - 1], events[m])
  BY <1>5 DEF After
<1>7. \A m \in 0..n : b[m] = IF m = 0 THEN f ELSE Ingested(b[m - 1], events[m])
  <2> TAKE m \in 0..n
  <2>1. CASE m = n
    <3>1. m # 0 /\ m - 1 \in 0..n /\ m - 1 # n
      BY <1>3, <1>4, <2>1
    <3>2. b[m - 1] = a[n - 1]
      BY <2>1, <3>1
    <3>3. b[m] = Ingested(a[n - 1], events[n])
      BY <2>1
    <3> QED BY <2>1, <3>1, <3>2, <3>3
  <2>2. CASE m # n
    <3>1. m \in 0..n - 1 /\ (m # 0 => m - 1 \in 0..n /\ m - 1 # n)
      BY <1>4, <2>2
    <3>2. b[m] = a[m] /\ (m # 0 => b[m - 1] = a[m - 1])
      BY <2>2, <3>1
    <3> QED BY <1>6, <3>1, <3>2
  <2> QED BY <2>1, <2>2
<1>8. b = [m \in 0..n |-> b[m]]
  OBVIOUS
<1> HIDE DEF b
<1>9. After(f, events, n, b)
  BY <1>7, <1>8 DEF After
<1> QED BY <1>9

\* A batch ends with the flow after its last event.
LEMMA BatchIsAfter ==
    ASSUME NEW f, NEW events, Len(events) \in Nat
    PROVE  \E a : After(f, events, Len(events), a) /\ IngestedAll(f, events) = a[Len(events)]
<1> DEFINE stages == CHOOSE a : a = [n \in 0..Len(events) |->
                        IF n = 0 THEN f ELSE Ingested(a[n - 1], events[n])]
<1>1. \E a : a = [n \in 0..Len(events) |->
                        IF n = 0 THEN f ELSE Ingested(a[n - 1], events[n])]
  <2>1. \E a : After(f, events, Len(events), a)
    BY AfterEach
  <2> QED BY <2>1, Zenon DEF After
<1>2. stages = [n \in 0..Len(events) |->
                        IF n = 0 THEN f ELSE Ingested(stages[n - 1], events[n])]
  BY <1>1, Zenon
<1>3. IngestedAll(f, events) = stages[Len(events)]
  BY DEF IngestedAll
<1> HIDE DEF stages
<1> QED BY <1>2, <1>3 DEF After

\* Whatever a batch holds, the flow stays sound, every unsaved text is kept, and
\* what was answered and has only harmless events is left alone.
LEMMA BatchKeeps ==
    ASSUME disk \in [Paths -> Files], NEW f, Sound(f), NEW events \in Seq(Named)
    PROVE  /\ Sound(IngestedAll(f, events))
           /\ \A t : Held(f, t) => Held(IngestedAll(f, events), t)
           /\ \A p \in Paths :
                 Settled(f, p) /\ (\A i \in DOMAIN events : Harmless(events[i], p))
                    => Settled(IngestedAll(f, events), p)
<1> DEFINE L == Len(events)
           Keeps(g) ==
              /\ Sound(g)
              /\ \A t : Held(f, t) => Held(g, t)
              /\ \A p \in Paths :
                    Settled(f, p) /\ (\A i \in DOMAIN events : Harmless(events[i], p))
                       => Settled(g, p)
<1>1. L \in Nat /\ DOMAIN events = 1..L /\ \A i \in 1..L : events[i] \in Named
  BY LenProperties, ElementOfSeq
<1> HIDE DEF L
<1>2. PICK a : After(f, events, L, a) /\ IngestedAll(f, events) = a[L]
  BY <1>1, BatchIsAfter DEF L
<1>3. \A n \in 0..L : a[n] = IF n = 0 THEN f ELSE Ingested(a[n - 1], events[n])
  BY <1>2 DEF After
<1>4. Keeps(f)
  OBVIOUS
<1>5. ASSUME NEW n \in 1..L, Keeps(a[n - 1]) PROVE Keeps(a[n])
  <2> DEFINE g == a[n - 1]
  <2>1. a[n] = Ingested(g, events[n]) /\ events[n] \in Named /\ n \in DOMAIN events
    BY <1>1, <1>3
  <2>2. Keeps(g)
    BY <1>5
  <2> HIDE DEF g
  <2>3. /\ Sound(Ingested(g, events[n]))
        /\ \A t : Held(g, t) => Held(Ingested(g, events[n]), t)
        /\ \A p \in Paths : Settled(g, p) /\ Harmless(events[n], p)
                               => Settled(Ingested(g, events[n]), p)
    BY <2>1, <2>2, IngestingKeeps
  <2> QED BY <2>1, <2>2, <2>3
<1> HIDE DEF Keeps
<1>6. \A n \in 0..L : Keeps(a[n])
  <2> DEFINE Bad == {n \in 0..L : ~Keeps(a[n])}
  <2>1. SUFFICES ASSUME Bad # {} PROVE FALSE
    OBVIOUS
  <2>2. Bad \subseteq Nat
    BY <1>1
  <2>3. PICK n \in Bad : \A m \in Bad : n <= m
    BY <2>1, <2>2, LeastNumber
  <2>4. n # 0
    BY <1>1, <1>3, <1>4, <2>3
  <2>5. n \in 1..L /\ n - 1 \in 0..L /\ n - 1 \notin Bad
    BY <1>1, <2>3, <2>4
  <2>6. Keeps(a[n - 1])
    BY <2>5
  <2>7. Keeps(a[n])
    BY <1>5, <2>5, <2>6
  <2> QED BY <2>3, <2>7
<1>7. Keeps(a[L])
  BY <1>1, <1>6
<1> QED BY <1>2, <1>7 DEF Keeps

\* What a reconciliation tells of a document is harmless to any that branches
\* from what is on disk.
LEMMA ReconciledKeeps ==
    ASSUME disk \in [Paths -> Files], NEW f, Sound(f), NEW g \in Reconciled(f)
    PROVE  /\ Sound(g)
           /\ \A t : Held(f, t) => Held(g, t)
           /\ \A p \in Paths : Settled(f, p) => Settled(g, p)
<1>1. PICK order \in SetToSeqs(Contradicted(f)) :
         g = IngestedAll(f, [i \in DOMAIN order |-> Told(order[i])])
  BY DEF Reconciled
<1> DEFINE events == [i \in DOMAIN order |-> Told(order[i])]
           N == Cardinality(Contradicted(f))
<1>2. N \in Nat
  <2>1. Contradicted(f) \subseteq Paths
    BY DEF Contradicted
  <2> QED BY <2>1, ExternalAssumption, FS_Subset, FS_CardinalityType
<1>3. order \in [1..N -> Paths]
  BY DEF SetToSeqs, Contradicted
<1> HIDE DEF N
<1>4. \A p \in Paths : Told(p) \in Named /\ Told(p).kind # "Rename"
                       /\ (Told(p).path = p) /\ (Content(p) = Absent => Told(p).kind = "Remove")
  BY DEF Told, Native, Named, Natives, Kinds, NoStamp
<1>5. events \in Seq(Named)
  <2>1. events \in [1..N -> Named]
    BY <1>3, <1>4
  <2> HIDE DEF events
  <2> QED BY <1>2, <2>1, SeqDef
<1>6. ASSUME NEW i \in DOMAIN events, NEW p \in Paths
      PROVE  Harmless(events[i], p)
  <2>1. order[i] \in Paths /\ events[i] = Told(order[i])
    BY <1>3
  <2>2. Told(order[i]) \in Named /\ Told(order[i]).kind # "Rename"
        /\ Told(order[i]).path = order[i]
        /\ (Content(order[i]) = Absent => Told(order[i]).kind = "Remove")
    BY <1>4, <2>1
  <2> HIDE DEF events
  <2> QED BY <2>1, <2>2 DEF Harmless, TakesAway, Silent
<1> HIDE DEF events
<1>7. g = IngestedAll(f, events)
  BY <1>1 DEF events
<1>8. /\ Sound(IngestedAll(f, events))
      /\ \A t : Held(f, t) => Held(IngestedAll(f, events), t)
      /\ \A p \in Paths :
            Settled(f, p) /\ (\A i \in DOMAIN events : Harmless(events[i], p))
               => Settled(IngestedAll(f, events), p)
  BY <1>5, BatchKeeps
<1> QED BY <1>6, <1>7, <1>8

-----------------------------------------------------------------------------
(* The inductive invariant.                                                 *)

\* A file that is there has the stamp of a write.
FilesThere == /\ disk \in [Paths -> Files]
              /\ \A p \in Paths : Content(p) # Absent => disk[p].stamp # NoStamp

\* A renamed path is named by every event on its way.
EventsNamed == natives \in Seq(Named) /\ inbox \in Seq(Named)

\* The file being saved is an open document, and the observers name paths.
Counted ==
    /\ reconcile \in BOOLEAN
    /\ saving \in {NoPath} \cup {p \in Paths : IsOpen(p)}
    /\ answered \subseteq Paths /\ misanswered \subseteq Paths /\ ours \subseteq Paths
    /\ world \in Worlds /\ externals \in Nat /\ commands \in Nat

\* Why what was answered is not asked again: the document branches from what is
\* on disk, no save will change that, and no event on its way says of a missing
\* file that it is there.
Dismissed(p) ==
    /\ Settled(Flow, p) /\ p # saving
    /\ Content(p) = Absent => natives \in Seq(Silent(p)) /\ inbox \in Seq(Silent(p))

\* The inductive invariant.
IInv == /\ FilesThere /\ EventsNamed /\ Sound(Flow) /\ Counted
        /\ \A p \in answered : Dismissed(p)

\* The flow's record.
LEMMA FlowFields ==
    /\ Flow.docs = docs /\ Flow.pending = pending /\ Flow.selected = selected
    /\ Flow.expectations = expectations
BY DEF Flow

\* The invariant gives what the runs check.
LEMMA InvariantImplies == IInv => ConflictsAreSound
<1> SUFFICES ASSUME IInv PROVE ConflictsAreSound
  OBVIOUS
<1> USE DEF IInv
<1>1. Sound(Flow) /\ Flow \in Flows
  BY DEF Sound
<1>2. /\ docs \in [Paths -> Documents \cup {NoDocument}] /\ pending \in Seq(Offers)
      /\ selected \in Paths \cup {NoPath}
      /\ expectations \subseteq [path : Paths, stamp : Nat \ {NoStamp}]
  BY <1>1, FlowFields DEF Flows
<1>3. pending \in Seq(Conflicts)
  <2>1. \A i \in DOMAIN pending : pending[i] \in Conflicts
    BY <1>2, LenProperties, ElementOfSeq DEF Offers
  <2> QED BY <1>2, <2>1, SeqOver
<1>4. natives \in Seq(Natives) /\ inbox \in Seq(Natives)
  <2>1. ASSUME NEW s \in Seq(Named) PROVE s \in Seq(Natives)
    <3>1. \A i \in DOMAIN s : s[i] \in Natives
      BY LenProperties, ElementOfSeq DEF Named
    <3> QED BY <3>1, SeqOver
  <2> QED BY <2>1 DEF EventsNamed
<1>5. TypeOK
  BY <1>2, <1>3, <1>4 DEF TypeOK, FilesThere, Counted
<1>6. SelectionValid
  BY <1>1, FlowFields DEF SelectionValid, Sound, OneEach, Selecting, PendingPaths
<1>7. AnsweredStays
  BY FlowFields DEF AnsweredStays, Dismissed, Settled, PendingPaths
<1> QED BY <1>5, <1>6, <1>7 DEF ConflictsAreSound

\* A set put in some order.
LEMMA AllInOrder ==
    ASSUME NEW S, IsFiniteSet(S), NEW order \in SetToSeqs(S)
    PROVE  /\ \A x \in S : \E i \in DOMAIN order : order[i] = x
           /\ order \in Seq(S)
           /\ \A i, j \in DOMAIN order : i # j => order[i] # order[j]
<1> DEFINE N == Cardinality(S)
<1>1. N \in Nat
  BY FS_CardinalityType
<1>2. order \in [1..N -> S] /\ \A i, j \in 1..N : i # j => order[i] # order[j]
  BY DEF SetToSeqs
<1>3. Cardinality(1..N) = N
  BY <1>1, FS_Interval
<1> HIDE DEF N
<1>4. order \in Injection(1..N, S)
  BY <1>2 DEF Injection, IsInjective
<1>5. order \in Surjection(1..N, S)
  BY <1>1, <1>3, <1>4, FS_Injection DEF N
<1>6. \A x \in S : \E i \in DOMAIN order : order[i] = x
  BY <1>2, <1>5 DEF Surjection
<1>7. order \in Seq(S)
  BY <1>1, <1>2, SeqDef
<1> QED BY <1>2, <1>6, <1>7

\* What a rescan still tells of was noted.
LEMMA LastNotesIn ==
    ASSUME NEW T, NEW ns \in Seq(T), NEW ps, NEW t \in SetToSeqs(LastNotes(ns, ps))
    PROVE  /\ t \in Seq(T)
           /\ ToSet(t) = LastNotes(ns, ps)
           /\ \A i, j \in DOMAIN t : i # j => t[i] # t[j]
<1> DEFINE S == LastNotes(ns, ps)
<1>1. DOMAIN ns = 1..Len(ns) /\ Len(ns) \in Nat /\ \A i \in DOMAIN ns : ns[i] \in T
  BY LenProperties, ElementOfSeq
<1>2. IsFiniteSet(S)
  <2> DEFINE D == UNION {Noted(ns, p) : p \in ps}
  <2>1. D \subseteq 1..Len(ns)
    BY <1>1 DEF Noted
  <2>2. D \subseteq DOMAIN ns /\ S = {ns[i] : i \in D}
    BY DEF LastNotes, Noted
  <2>3. IsFiniteSet(1..Len(ns))
    BY <1>1, FS_Interval
  <2>4. IsFiniteSet(D)
    BY <2>1, <2>3, FS_Subset
  <2> HIDE DEF D, S
  <2> DEFINE at == [i \in D |-> ns[i]]
  <2>5. at \in Surjection(D, S)
    BY <2>2 DEF Surjection
  <2> QED BY <2>4, <2>5, FS_Surjection
<1>3. S \subseteq T
  BY <1>1 DEF LastNotes, Noted
<1> HIDE DEF S
<1>4. /\ t \in Seq(S) /\ \A x \in S : \E i \in DOMAIN t : t[i] = x
      /\ \A i, j \in DOMAIN t : i # j => t[i] # t[j]
  BY <1>2, AllInOrder DEF S
<1>5. \A i \in DOMAIN t : t[i] \in S
  BY <1>4, LenProperties, ElementOfSeq
<1>6. t \in Seq(T)
  BY <1>3, <1>4, <1>5, SeqOver
<1>7. ToSet(t) = S
  BY <1>4, <1>5 DEF ToSet
<1> QED BY <1>4, <1>6, <1>7 DEF S

\* The files and the watcher's changes of all paths but some stay as they are.
Leaves(S) ==
    /\ FilesThere' /\ natives' \in Seq(Named)
    /\ \A r \in Paths \ S :
          /\ Content(r)' = Content(r)
          /\ natives \in Seq(Silent(r)) => natives' \in Seq(Silent(r))

\* What a step that ingests nothing and answers nothing does, S being the paths
\* it is about.
Frame(S) ==
    /\ S \subseteq Paths /\ Leaves(S)
    /\ docs' \in [Paths -> Documents \cup {NoDocument}]
    /\ \A r \in Paths \ S : docs[r] # NoDocument =>
          docs'[r] # NoDocument /\ docs'[r].baseline = docs[r].baseline
    /\ pending' = pending /\ inbox' = inbox
    /\ IF pending = <<>> THEN selected' = NoPath ELSE selected' \in PathsOf(pending)
    /\ expectations' \subseteq [path : Paths, stamp : Nat \ {NoStamp}]
    /\ saving' \in {NoPath, saving} \cup S
    /\ answered' \subseteq answered \ S
    /\ Counted'

\* Such a step keeps the invariant.
LEMMA FrameKeeps ==
    ASSUME IInv, NEW S, Frame(S)
    PROVE  IInv'
<1> USE DEF IInv
<1>1. FilesThere' /\ Counted'
  BY DEF Frame, Leaves
<1>2. EventsNamed'
  BY DEF Frame, Leaves, EventsNamed
<1>3. Sound(Flow)'
  <2>1. pending \in Seq(Offers) /\ OneEach(pending)
    BY FlowFields DEF Sound, Flows
  <2>2. selected' \in Paths \cup {NoPath}
    BY <2>1, PathsOfOffers DEF Frame
  <2>3. Flow' \in Flows /\ Flow'.pending = pending /\ Flow'.selected = selected'
    BY <2>1, <2>2 DEF Frame, Flow, Flows
  <2>4. Sound(Flow')
    BY <2>1, <2>3 DEF Frame, Sound, Selecting
  <2> QED BY <2>4
<1>4. ASSUME NEW p \in answered' PROVE Dismissed(p)'
  <2>1. p \in answered /\ p \in Paths \ S
    BY <1>1 DEF Frame, Counted
  <2>2. Dismissed(p)
    BY <2>1
  <2>3. docs[p] # NoDocument /\ p \notin PathsOf(pending) /\ docs[p].baseline = Content(p)
    BY <2>2, FlowFields DEF Dismissed, Settled
  <2>4. Content(p)' = Content(p)
    BY <2>1 DEF Frame, Leaves
  <2>5. docs'[p] # NoDocument /\ docs'[p].baseline = Content(p)'
        /\ p \notin PathsOf(pending')
    BY <2>1, <2>3, <2>4 DEF Frame
  <2>6. Settled(Flow, p)'
    BY <2>5 DEF Settled, Flow
  <2>7. p # saving'
    <3>1. p \in Paths /\ p # saving /\ p \notin S /\ NoPath \notin Paths
      BY <2>1, <2>2, ExternalAssumption DEF Dismissed, NoPath
    <3> QED BY <3>1 DEF Frame
  <2>8. Content(p)' = Absent =>
           natives' \in Seq(Silent(p)) /\ inbox' \in Seq(Silent(p))
    BY <2>1, <2>2, <2>4 DEF Frame, Leaves, Dismissed
  <2>9. (Content(p) = Absent => natives \in Seq(Silent(p)) /\ inbox \in Seq(Silent(p)))'
    <3>1. Silent(p)' = Silent(p)
      BY DEF Silent, Named, Natives
    <3> QED BY <2>8, <3>1
  <2> QED BY <2>6, <2>7, <2>9 DEF Dismissed
<1> QED BY <1>1, <1>2, <1>3, <1>4

-----------------------------------------------------------------------------
(* What each step is about.                                                 *)

\* A change of a path.
LEMMA ChangeLeaves ==
    ASSUME FilesThere, natives \in Seq(Named), NEW p \in Paths,
           NEW content \in Contents \cup {Absent, Unreadable}, NEW stamp \in Nat,
           content # Absent => stamp # NoStamp, Changed(p, content, stamp)
    PROVE  Leaves({p})
<1>1. disk' = [disk EXCEPT ![p] = [content |-> content, stamp |-> stamp]]
  BY DEF Changed
<1>2. FilesThere'
  BY <1>1 DEF FilesThere, Files, Content
<1>3. \A r \in Paths \ {p} : Content(r)' = Content(r)
  BY <1>1 DEF Content, FilesThere
<1>4. PICK kind \in Kinds \ {"Rename"}, seen \in Nat, another \in BOOLEAN :
         natives' = Enqueued(natives, Native(kind, p, NoPath, seen), another)
  <2>1. CASE content = Absent
    <3>1. PICK seen \in {disk[p].stamp, NoStamp} :
             natives' = Enqueued(natives, Native("Remove", p, NoPath, seen), FALSE)
      BY <2>1 DEF Changed
    <3>2. seen \in Nat
      BY <3>1 DEF FilesThere, Files, NoStamp
    <3> QED BY <3>1, <3>2 DEF Kinds
  <2>2. CASE content # Absent
    BY <2>2 DEF Changed, Kinds, NoStamp
  <2> QED BY <2>1, <2>2
<1> DEFINE next == Native(kind, p, NoPath, seen)
<1>5. next \in Named /\ \A r \in Paths \ {p} : next \in Silent(r)
  BY DEF Native, Named, Natives, Silent
<1> HIDE DEF next
<1>6. natives' \in Seq(Named)
  BY <1>4, <1>5, ClosedSets, EnqueuedIn DEF next
<1>7. \A r \in Paths \ {p} : natives \in Seq(Silent(r)) => natives' \in Seq(Silent(r))
  BY <1>4, <1>5, ClosedSets, EnqueuedIn DEF next
<1> QED BY <1>2, <1>3, <1>6, <1>7 DEF Leaves

\* A file that moves.
LEMMA MoveLeaves ==
    ASSUME FilesThere, natives \in Seq(Named), NEW p \in Paths, NEW q \in Paths,
           Moved(p, q)
    PROVE  Leaves({p, q})
<1>1. disk' = [disk EXCEPT ![q] = disk[p], ![p] = [content |-> Absent, stamp |-> NoStamp]]
  BY DEF Moved
<1>2. FilesThere'
  BY <1>1 DEF FilesThere, Files, Content, NoStamp
<1>3. \A r \in Paths \ {p, q} : Content(r)' = Content(r)
  BY <1>1 DEF Content, FilesThere
<1> DEFINE Events == {Native("Modify", q, NoPath, NoStamp),
                      Native("Create", q, NoPath, NoStamp), Native("Rename", q, p, NoStamp)}
<1>4. Events \subseteq Named /\ \A r \in Paths \ {p, q} : Events \subseteq Silent(r)
  BY DEF Native, Named, Natives, Silent, Kinds, NoStamp
<1>5. PICK another \in BOOLEAN :
         natives' = Renamed(natives, p, q, Content(q) # Absent, another)
  BY DEF Moved
<1>6. natives' \in Seq(Named)
  BY <1>4, <1>5, ClosedSets, RenamedIn
<1>7. \A r \in Paths \ {p, q} : natives \in Seq(Silent(r)) => natives' \in Seq(Silent(r))
  BY <1>4, <1>5, ClosedSets, RenamedIn
<1> QED BY <1>2, <1>3, <1>6, <1>7 DEF Leaves

\* A step that changes neither files nor the watcher's changes.
LEMMA StillLeaves ==
    ASSUME IInv, UNCHANGED diskVars
    PROVE  \A S : Leaves(S)
<1>1. FilesThere' <=> FilesThere
  BY DEF diskVars, FilesThere, Content
<1>2. \A r : Content(r)' = Content(r)
  BY DEF diskVars, Content
<1> QED BY <1>1, <1>2 DEF Leaves, diskVars, IInv, EventsNamed

-----------------------------------------------------------------------------
(* Every step keeps the invariant.                                          *)

\* In the beginning nothing is open.
LEMMA InitKeeps == Init => IInv
<1> SUFFICES ASSUME Init PROVE IInv
  OBVIOUS
<1> USE DEF Init
<1>1. FilesThere
  <2>1. Empty \in Contents
    BY ExternalAssumption
  <2> QED BY <2>1 DEF FilesThere, Files, Content, NoStamp
<1>2. EventsNamed
  BY EmptySeq DEF EventsNamed
<1>3. Sound(Flow)
  <2>1. pending \in Seq(Offers)
    BY EmptySeq
  <2>2. docs \in [Paths -> Documents \cup {NoDocument}]
    OBVIOUS
  <2>3. Flow \in Flows
    BY <2>1, <2>2 DEF Flow, Flows
  <2> QED BY <2>3, FlowFields DEF Sound, OneEach, Selecting
<1>4. Counted
  BY DEF Counted
<1> QED BY <1>1, <1>2, <1>3, <1>4 DEF IInv

\* A step of another program is about the paths it changes.
LEMMA EnvironmentFrames ==
    ASSUME IInv, Environment, UNCHANGED world
    PROVE  \E S : Frame(S)
<1>1. /\ FilesThere /\ natives \in Seq(Named) /\ Counted
      /\ docs \in [Paths -> Documents \cup {NoDocument}]
      /\ IF pending = <<>> THEN selected = NoPath ELSE selected \in PathsOf(pending)
      /\ expectations \subseteq [path : Paths, stamp : Nat \ {NoStamp}]
  BY FlowFields DEF IInv, EventsNamed, Sound, Flows, Selecting
<1>2. ASSUME NEW kind, Another(kind), NEW S \in SUBSET Paths, Leaves(S),
             answered' \subseteq answered \ S, ours' \subseteq ours, reconcile' \in BOOLEAN
      PROVE  Frame(S)
  <2>1. /\ UNCHANGED <<inbox, docs, pending, selected, expectations, saving,
                       misanswered, commands>>
        /\ externals' \in Nat
    BY <1>1, <1>2 DEF Another, flowVars, Counted
  <2>2. Counted'
    BY <1>1, <1>2, <2>1 DEF Counted, IsOpen
  <2> QED BY <1>1, <1>2, <2>1, <2>2 DEF Frame
<1>3. ASSUME NEW p \in Paths, NEW c \in world.contents, WriteFile(p, c)
      PROVE  \E S : Frame(S)
  <2>1. world.contents \subseteq Contents
    <3>1. world \in World
      BY <1>1, ExternalAssumption DEF Counted
    <3> QED BY <3>1 DEF World
  <2>2. NextStamp \in Nat /\ NextStamp # NoStamp
    <3>1. externals' = externals + 1 /\ commands' = commands /\ externals \in Nat /\ commands \in Nat
      BY <1>1, <1>3 DEF WriteFile, Another, Counted
    <3> QED BY <3>1 DEF NextStamp, NoStamp
  <2>3. Leaves({p})
    BY <1>1, <1>3, <2>1, <2>2, ChangeLeaves DEF WriteFile
  <2>4. Frame({p})
    BY <1>1, <1>2, <1>3, <2>3 DEF WriteFile, Touched, Counted
  <2> QED BY <2>4
<1>4. ASSUME NEW p \in Paths, RemoveFile(p)
      PROVE  \E S : Frame(S)
  <2>1. Leaves({p})
    BY <1>1, <1>4, ChangeLeaves DEF RemoveFile, NoStamp
  <2>2. Frame({p})
    BY <1>1, <1>2, <1>4, <2>1 DEF RemoveFile, Touched, Counted
  <2> QED BY <2>2
<1>5. ASSUME NEW p \in Paths, HideFile(p)
      PROVE  \E S : Frame(S)
  <2>1. disk[p].stamp \in Nat /\ disk[p].stamp # NoStamp
    <3>1. Content(p) # Absent
      BY <1>5, ExternalAssumption DEF HideFile, Absent
    <3> QED BY <1>1, <3>1 DEF FilesThere, Files
  <2>2. Leaves({p})
    BY <1>1, <1>5, <2>1, ChangeLeaves DEF HideFile
  <2>3. Frame({p})
    BY <1>1, <1>2, <1>5, <2>2 DEF HideFile, Touched, Counted
  <2> QED BY <2>3
<1>6. ASSUME NEW p \in Paths, NEW q \in Paths, MoveFile(p, q)
      PROVE  \E S : Frame(S)
  <2>1. Leaves({p, q})
    BY <1>1, <1>6, MoveLeaves DEF MoveFile
  <2>2. Frame({p, q})
    BY <1>1, <1>2, <1>6, <2>1 DEF MoveFile, Touched, Counted
  <2> QED BY <2>2
<1>7. ASSUME Overflow
      PROVE  \E S : Frame(S)
  <2>1. PICK cached \in SUBSET PathsOf(natives) :
           /\ natives' \in SetToSeqs(LastNotes(natives, PathsOf(natives) \ cached))
           /\ ours' = ours \ cached
    BY <1>7 DEF Overflow
  <2>2. Leaves({})
    <3>1. FilesThere' /\ \A r : Content(r)' = Content(r)
      BY <1>1, <1>7 DEF FilesThere, Content, Overflow
    <3>2. ASSUME NEW T, natives \in Seq(T) PROVE natives' \in Seq(T)
      BY <2>1, <3>2, LastNotesIn
    <3>3. natives' \in Seq(Named)
      BY <1>1, <3>2
    <3> QED BY <3>1, <3>2, <3>3 DEF Leaves
  <2>3. Frame({})
    BY <1>2, <1>7, <2>1, <2>2 DEF Overflow
  <2> QED BY <2>3
<1> QED BY <1>3, <1>4, <1>5, <1>6, <1>7 DEF Environment

\* A reported change moves from the debounced ones to those to be ingested.
LEMMA DeliverKeeps ==
    ASSUME IInv, NEW i \in DOMAIN natives, Deliver(i), UNCHANGED world
    PROVE  IInv'
<1> DEFINE n == natives[i]
           e == IF n.kind = "Remove" THEN n ELSE [n EXCEPT !.stamp = disk[n.path].stamp]
<1>1. /\ natives' = RemoveAt(natives, i) /\ inbox' = Append(inbox, e)
      /\ UNCHANGED <<disk, reconcile, docs, pending, selected, expectations, saving,
                     answered, misanswered, ours, externals, commands, world>>
  BY DEF Deliver, flowVars, observerVars
<1>2. FilesThere /\ EventsNamed /\ Sound(Flow) /\ Counted
  BY DEF IInv
<1>3. ASSUME NEW T \in {Named} \cup {Silent(p) : p \in Paths},
             natives \in Seq(T), inbox \in Seq(T)
      PROVE  natives' \in Seq(T) /\ inbox' \in Seq(T)
  <2>1. n \in T
    BY <1>3, LenProperties, ElementOfSeq
  <2>2. n \in Named
    BY <2>1 DEF Silent
  <2>3. disk[n.path].stamp \in Nat
    BY <1>2, <2>2 DEF Named, Natives, FilesThere, Files
  <2>4. e \in T
    <3>1. e \in Named
      BY <2>2, <2>3 DEF Named, Natives
    <3>2. e.kind = n.kind /\ e.path = n.path
      BY <2>2 DEF Named, Natives
    <3> HIDE DEF n, e
    <3>3. CASE T = Named
      BY <3>1, <3>3
    <3>4. CASE \E p \in Paths : T = Silent(p)
      BY <2>1, <3>1, <3>2, <3>4 DEF Silent
    <3> QED BY <3>3, <3>4
  <2> HIDE DEF e
  <2>5. natives' \in Seq(T)
    BY <1>1, <1>3, WithoutOne
  <2>6. inbox' \in Seq(T)
    BY <1>1, <1>3, <2>4, AppendProperties
  <2> QED BY <2>5, <2>6
<1> HIDE DEF n, e
<1>4. EventsNamed'
  BY <1>2, <1>3 DEF EventsNamed
<1>5. FilesThere' /\ Counted'
  BY <1>1, <1>2 DEF FilesThere, Content, Counted, IsOpen
<1>6. Flow' = Flow
  BY <1>1 DEF Flow
<1>7. Sound(Flow)'
  BY <1>2, <1>6
<1>8. ASSUME NEW p \in answered' PROVE Dismissed(p)'
  <2>1. p \in Paths /\ Dismissed(p)
    BY <1>1, <1>2, <1>8 DEF IInv, Counted
  <2>2. Content(p)' = Content(p) /\ Silent(p)' = Silent(p)
    BY <1>1 DEF Content, Silent, Named, Natives
  <2>3. Settled(Flow, p)'
    BY <1>6, <2>1, <2>2 DEF Dismissed, Settled
  <2>4. (Content(p) = Absent => natives \in Seq(Silent(p)) /\ inbox \in Seq(Silent(p)))'
    BY <1>3, <2>1, <2>2 DEF Dismissed
  <2> QED BY <1>1, <2>1, <2>3, <2>4 DEF Dismissed
<1> QED BY <1>4, <1>5, <1>7, <1>8 DEF IInv

\* What Pump makes of the flow.
LEMMA Pumping ==
    ASSUME IInv, Pump
    PROVE  /\ Sound(Flow')
           /\ \A t : Held(Flow, t) => Held(Flow', t)
           /\ \A p \in Paths :
                 Settled(Flow, p) /\ (\A i \in DOMAIN inbox : Harmless(inbox[i], p))
                    => Settled(Flow', p)
<1> DEFINE f == IngestedAll(Flow, inbox)
<1>1. disk \in [Paths -> Files] /\ Sound(Flow) /\ inbox \in Seq(Named)
  BY DEF IInv, FilesThere, EventsNamed
<1>2. /\ Sound(f)
      /\ \A t : Held(Flow, t) => Held(f, t)
      /\ \A p \in Paths :
            Settled(Flow, p) /\ (\A i \in DOMAIN inbox : Harmless(inbox[i], p))
               => Settled(f, p)
  BY <1>1, BatchKeeps
<1>3. PICK g \in IF reconcile THEN Reconciled(f) ELSE {f} : SetFlow(g)
  BY DEF Pump
<1> HIDE DEF f
<1>4. /\ Sound(g)
      /\ \A t : Held(f, t) => Held(g, t)
      /\ \A p \in Paths : Settled(f, p) => Settled(g, p)
  <2>1. CASE reconcile
    BY <1>1, <1>2, <1>3, <2>1, ReconciledKeeps
  <2>2. CASE ~reconcile
    BY <1>2, <1>3, <2>2
  <2> QED BY <2>1, <2>2
<1>5. Flow' = g
  <2>1. /\ docs' = g.docs /\ pending' = g.pending /\ selected' = g.selected
        /\ expectations' = g.expectations
    BY <1>3 DEF SetFlow
  <2>2. g = [docs |-> g.docs, pending |-> g.pending, selected |-> g.selected,
             expectations |-> g.expectations]
    BY <1>4 DEF Sound, Flows
  <2> QED BY <2>1, <2>2 DEF Flow
<1> QED BY <1>2, <1>4, <1>5

\* Ingesting what the watcher reported keeps the invariant.
LEMMA PumpKeeps ==
    ASSUME IInv, Pump, UNCHANGED world
    PROVE  IInv'
<1>1. /\ UNCHANGED <<disk, natives, saving, ours, externals, commands>>
      /\ inbox' = <<>> /\ reconcile' = FALSE /\ saving = NoPath
      /\ misanswered' \subseteq misanswered
      /\ answered' = {p \in answered : \A i \in DOMAIN inbox : ~TakesAway(inbox[i], p)}
  BY DEF Pump, diskVars
<1>2. FilesThere /\ EventsNamed /\ Sound(Flow) /\ Counted
  BY DEF IInv
<1>3. FilesThere' /\ Counted'
  BY <1>1, <1>2 DEF FilesThere, Content, Counted
<1>4. EventsNamed'
  BY <1>1, <1>2, EmptySeq DEF EventsNamed
<1>5. Sound(Flow)'
  BY Pumping
<1>6. ASSUME NEW p \in answered' PROVE Dismissed(p)'
  <2>1. /\ p \in answered /\ p \in Paths
        /\ \A i \in DOMAIN inbox : ~TakesAway(inbox[i], p)
    BY <1>1, <1>2, <1>6 DEF Counted
  <2>2. Dismissed(p)
    BY <2>1 DEF IInv
  <2>3. \A i \in DOMAIN inbox : Harmless(inbox[i], p)
    <3>1. Content(p) = Absent => \A i \in DOMAIN inbox : inbox[i] \in Silent(p)
      BY <2>2, LenProperties, ElementOfSeq DEF Dismissed
    <3> QED BY <2>1, <3>1 DEF Harmless
  <2>4. Settled(Flow', p)
    BY <2>1, <2>2, <2>3, Pumping DEF Dismissed
  <2>5. Content(p)' = Content(p) /\ Silent(p)' = Silent(p)
    BY <1>1 DEF Content, Silent, Named, Natives
  <2>6. Settled(Flow, p)'
    BY <2>4, <2>5 DEF Settled
  <2>7. (Content(p) = Absent => natives \in Seq(Silent(p)) /\ inbox \in Seq(Silent(p)))'
    BY <1>1, <2>2, <2>5, EmptySeq DEF Dismissed
  <2> QED BY <1>1, <2>2, <2>6, <2>7 DEF Dismissed
<1> QED BY <1>3, <1>4, <1>5, <1>6 DEF IInv

\* What the invariant says of the parts that a command reads.
LEMMA Parts ==
    ASSUME IInv
    PROVE  /\ FilesThere /\ natives \in Seq(Named) /\ inbox \in Seq(Named) /\ Counted
           /\ docs \in [Paths -> Documents \cup {NoDocument}]
           /\ pending \in Seq(Offers) /\ OneEach(pending)
           /\ IF pending = <<>> THEN selected = NoPath ELSE selected \in PathsOf(pending)
           /\ expectations \subseteq [path : Paths, stamp : Nat \ {NoStamp}]
           /\ NoPath \notin Paths
BY FlowFields, ExternalAssumption DEF IInv, EventsNamed, Sound, Flows, Selecting, NoPath

\* A command of the user on documents and files is about the paths it names.
LEMMA CommandFrames ==
    ASSUME IInv, Command, UNCHANGED <<world, pending, selected, expectations>>,
           NEW S \in SUBSET Paths, Leaves(S),
           docs' \in [Paths -> Documents \cup {NoDocument}],
           \A r \in Paths \ S : docs[r] # NoDocument =>
              docs'[r] # NoDocument /\ docs'[r].baseline = docs[r].baseline,
           saving' = NoPath \/ (saving' \in S /\ docs'[saving'] # NoDocument),
           answered' \subseteq answered \ S, misanswered' \subseteq misanswered,
           ours' \subseteq ours \cup S
    PROVE  Frame(S)
<1>1. /\ saving = NoPath /\ commands' = commands + 1
      /\ inbox' = inbox /\ reconcile' = reconcile /\ externals' = externals
  BY DEF Command
<1>2. Counted'
  BY <1>1, Parts DEF Counted, IsOpen
<1> QED BY <1>1, <1>2, Parts DEF Frame

\* A document begins, is replaced or ends, the files staying as they are.
LEMMA DocumentFrames ==
    ASSUME IInv, OnDocuments, UNCHANGED world, NEW p \in Paths,
           NEW d \in Documents \cup {NoDocument}, SetDocument(p, d)
    PROVE  Frame({p})
<1>1. /\ Command /\ UNCHANGED <<world, pending, selected, expectations>>
      /\ UNCHANGED diskVars /\ saving' = saving /\ saving = NoPath
  BY DEF OnDocuments, Command
<1>2. Leaves({p})
  BY <1>1, StillLeaves
<1>3. /\ docs' = [docs EXCEPT ![p] = d] /\ answered' = answered \ {p}
      /\ misanswered' = misanswered \ {p} /\ ours' = ours \ {p}
  BY DEF SetDocument
<1>4. docs' \in [Paths -> Documents \cup {NoDocument}]
  BY <1>3, Parts
<1>5. \A r \in Paths \ {p} : docs'[r] = docs[r]
  BY <1>3, Parts
<1> QED BY <1>1, <1>2, <1>3, <1>4, <1>5, CommandFrames

\* A document read from disk is one.
LEMMA FromDiskIsDocument ==
    ASSUME NEW p \in Paths, Content(p) \in Texts
    PROVE  FromDisk(p) \in Documents
BY DEF FromDisk, Documents, Texts

\* A write of a document is about its path and the one it is written to.
LEMMA WriteFrames ==
    ASSUME IInv, NEW p \in Paths, NEW q \in Paths, WriteDocument(p, q), UNCHANGED world
    PROVE  Frame({p, q})
<1>1. /\ Command /\ IsOpen(p) /\ Changed(q, docs[p].text, NextStamp)
      /\ UNCHANGED <<pending, selected, expectations>>
      /\ saving' = q /\ ours' = (ours \ {p}) \cup {q}
      /\ answered' = answered \ {p, q} /\ misanswered' = misanswered \ {p, q}
      /\ docs' = [docs EXCEPT ![p] = NoDocument,
                              ![q] = [docs[p] EXCEPT !.persisted = TRUE,
                                                     !.decoded = docs[p].text]]
  BY DEF WriteDocument
<1>2. docs[p] \in Documents
  BY <1>1, Parts DEF IsOpen
<1> DEFINE d == [docs[p] EXCEPT !.persisted = TRUE, !.decoded = docs[p].text]
<1>3. d \in Documents /\ docs[p].text \in Contents
  BY <1>2 DEF Documents, Texts
<1> HIDE DEF d
<1>4. docs' = [docs EXCEPT ![p] = NoDocument, ![q] = d]
  BY <1>1 DEF d
<1>5. docs' \in [Paths -> Documents \cup {NoDocument}]
  BY <1>3, <1>4, Parts
<1>6. docs'[q] # NoDocument
  BY <1>3, <1>4, Parts, NoneIsOpen
<1>7. \A r \in Paths \ {p, q} : docs'[r] = docs[r]
  BY <1>4, Parts
<1>8. Leaves({q})
  <2>1. NextStamp \in Nat /\ NextStamp # NoStamp
    <3>1. externals' = externals /\ commands' = commands + 1 /\ externals \in Nat /\ commands \in Nat
      BY <1>1, Parts DEF Command, Counted
    <3> QED BY <3>1 DEF NextStamp, NoStamp
  <2> QED BY <1>1, <1>3, <2>1, Parts, ChangeLeaves
<1>9. Leaves({p, q})
  BY <1>8 DEF Leaves
<1> QED BY <1>1, <1>5, <1>6, <1>7, <1>9, CommandFrames

\* A command on documents.
LEMMA UserFrames ==
    ASSUME IInv, UNCHANGED world, NEW p \in Paths, NEW q \in Paths, NEW text \in Texts,
           \/ OpenFile(p) \/ NewFile(p) \/ ReloadFile(p) \/ CloseDocument(p)
           \/ DeleteFile(p) \/ Save(p) \/ Edit(p, text) \/ RenameFile(p, q)
           \/ SaveAs(p, q)
    PROVE  \E S : Frame(S)
<1>1. CASE OpenFile(p)
  BY <1>1, FromDiskIsDocument, DocumentFrames DEF OpenFile
<1>2. CASE NewFile(p)
  <2>1. [text |-> Empty, decoded |-> Empty, persisted |-> FALSE, baseline |-> Unknown]
           \in Documents
    BY ExternalAssumption DEF Documents, Texts
  <2> QED BY <1>2, <2>1, DocumentFrames DEF NewFile
<1>3. CASE ReloadFile(p)
  <2>1. docs[p] \in Documents /\ FromDisk(p) \in Documents
    BY <1>3, Parts, FromDiskIsDocument DEF ReloadFile, IsOpen
  <2>2. [FromDisk(p) EXCEPT !.persisted = docs[p].persisted] \in Documents
    BY <2>1 DEF Documents
  <2> QED BY <1>3, <2>2, DocumentFrames DEF ReloadFile
<1>4. CASE CloseDocument(p)
  BY <1>4, DocumentFrames DEF CloseDocument
<1>5. CASE DeleteFile(p)
  <2>1. /\ Command /\ Changed(p, Absent, NoStamp) /\ saving' = saving /\ saving = NoPath
        /\ UNCHANGED <<pending, selected, expectations>>
        /\ docs' = [docs EXCEPT ![p] = NoDocument] /\ answered' = answered \ {p}
        /\ misanswered' = misanswered \ {p} /\ ours' = ours \ {p}
    BY <1>5 DEF DeleteFile, SetDocument, Command
  <2>2. Leaves({p})
    BY <2>1, Parts, ChangeLeaves DEF NoStamp
  <2>3. docs' \in [Paths -> Documents \cup {NoDocument}]
    BY <2>1, Parts
  <2>4. \A r \in Paths \ {p} : docs'[r] = docs[r]
    BY <2>1, Parts
  <2>5. Frame({p})
    BY <2>1, <2>2, <2>3, <2>4, CommandFrames
  <2> QED BY <2>5
<1>6. CASE Save(p)
  BY <1>6, WriteFrames DEF Save
<1>7. CASE Edit(p, text)
  <2>1. /\ Command /\ UNCHANGED <<pending, selected, expectations>>
        /\ UNCHANGED diskVars /\ saving' = saving /\ saving = NoPath
        /\ UNCHANGED observerVars
        /\ IsOpen(p) /\ docs' = [docs EXCEPT ![p].text = text]
    BY <1>7 DEF Edit, OnDocuments, Command
  <2>2. Leaves({})
    BY <2>1, StillLeaves
  <2>3. docs[p] \in Documents
    BY <2>1, Parts DEF IsOpen
  <2> DEFINE d == [docs[p] EXCEPT !.text = text]
  <2>4. d \in Documents /\ d.baseline = docs[p].baseline
    BY <2>3 DEF Documents
  <2>5. docs' = [docs EXCEPT ![p] = d]
    BY <2>1
  <2> HIDE DEF d
  <2>6. docs' \in [Paths -> Documents \cup {NoDocument}]
    BY <2>4, <2>5, Parts
  <2>7. \A r \in Paths : docs[r] # NoDocument =>
           docs'[r] # NoDocument /\ docs'[r].baseline = docs[r].baseline
    <3>1. \A r \in Paths : docs'[r] = IF r = p THEN d ELSE docs[r]
      BY <2>5, Parts
    <3> QED BY <2>4, <3>1, NoneIsOpen
  <2>8. Frame({})
    BY <2>1, <2>2, <2>6, <2>7, CommandFrames DEF observerVars
  <2> QED BY <2>8
<1>8. CASE RenameFile(p, q)
  <2>1. /\ Command /\ Moved(p, q) /\ saving' = saving /\ saving = NoPath
        /\ UNCHANGED <<pending, selected, expectations>>
        /\ docs' = [docs EXCEPT ![q] = docs[p], ![p] = NoDocument]
        /\ answered' = answered \ {p, q} /\ ours' = ours \ {p, q}
        /\ misanswered' = misanswered \ {p, q}
    BY <1>8 DEF RenameFile, Touched, Command
  <2>2. Leaves({p, q})
    BY <2>1, Parts, MoveLeaves
  <2>3. docs' \in [Paths -> Documents \cup {NoDocument}]
    BY <2>1, Parts
  <2>4. \A r \in Paths \ {p, q} : docs'[r] = docs[r]
    BY <2>1, Parts
  <2>5. Frame({p, q})
    BY <2>1, <2>2, <2>3, <2>4, CommandFrames
  <2> QED BY <2>5
<1>9. CASE SaveAs(p, q)
  BY <1>9, WriteFrames DEF SaveAs
<1> QED BY <1>1, <1>2, <1>3, <1>4, <1>5, <1>6, <1>7, <1>8, <1>9

\* The save is registered: only its own document branches from another state.
LEMMA RegisterFrames ==
    ASSUME IInv, RegisterSave, UNCHANGED world
    PROVE  Frame({saving})
<1>1. /\ saving # NoPath /\ saving' = NoPath
      /\ docs' = [docs EXCEPT ![saving].baseline = Captured(saving, docs[saving].text)]
      /\ UNCHANGED <<disk, natives, inbox, reconcile, pending, selected, answered,
                     misanswered, ours, externals, commands>>
      /\ expectations' = IF Content(saving) = Absent THEN expectations
                         ELSE expectations \cup {[path |-> saving,
                                                  stamp |-> disk[saving].stamp]}
  BY DEF RegisterSave, diskVars, observerVars
<1>2. saving \in Paths /\ docs[saving] \in Documents
  BY <1>1, Parts DEF Counted, IsOpen
<1>3. Leaves({saving})
  BY <1>1, StillLeaves DEF diskVars
<1> DEFINE d == [docs[saving] EXCEPT !.baseline = Captured(saving, docs[saving].text)]
<1>4. d \in Documents
  <2>1. Captured(saving, docs[saving].text) \in Contents \cup {Absent, Unknown}
    BY <1>2 DEF Captured, Documents, Texts
  <2> QED BY <1>2, <2>1 DEF Documents
<1>5. docs' = [docs EXCEPT ![saving] = d]
  BY <1>1
<1> HIDE DEF d
<1>6. /\ docs' \in [Paths -> Documents \cup {NoDocument}]
      /\ \A r \in Paths \ {saving} : docs'[r] = docs[r]
  BY <1>2, <1>4, <1>5, Parts
<1>7. saving \notin answered
  BY DEF IInv, Dismissed
<1>8. Content(saving) # Absent => disk[saving].stamp \in Nat \ {NoStamp}
  BY <1>2, Parts DEF FilesThere, Files
<1>9. expectations' \subseteq [path : Paths, stamp : Nat \ {NoStamp}]
  BY <1>1, <1>2, <1>8, Parts
<1>10. Counted'
  BY <1>1, Parts DEF Counted
<1> QED BY <1>1, <1>2, <1>3, <1>6, <1>7, <1>9, <1>10, Parts DEF Frame

\* The selection moves to a conflict.
LEMMA SelectFrames ==
    ASSUME IInv, NEW k \in Nat, Select(k), UNCHANGED world
    PROVE  Frame({})
<1>1. /\ saving = NoPath /\ Len(pending) > 1 /\ selected # NoPath
      /\ UNCHANGED <<disk, natives, inbox, reconcile, docs, pending, expectations, saving,
                     answered, misanswered, ours, externals, commands>>
      /\ selected' = pending[((IndexOf(pending, selected) - 1 + k) % Len(pending)) + 1].path
  BY DEF Select, diskVars, observerVars
<1>2. Leaves({})
  BY <1>1, StillLeaves DEF diskVars
<1>3. DOMAIN pending = 1..Len(pending) /\ Len(pending) \in Nat
  BY Parts, LenProperties
<1>4. pending # <<>>
  BY <1>1, <1>3, EmptySeq
<1> DEFINE place == IndexOf(pending, selected)
           at == ((place - 1 + k) % Len(pending)) + 1
<1>5. place \in 1..Len(pending)
  <2>1. selected \in PathsOf(pending)
    BY <1>4, Parts
  <2> QED BY <1>3, <2>1 DEF PathsOf, IndexOf
<1> HIDE DEF place
<1>6. at \in 1..Len(pending)
  BY <1>1, <1>3, <1>5
<1>7. selected' = pending[at].path
  BY <1>1 DEF place
<1> HIDE DEF at
<1>8. selected' \in PathsOf(pending)
  BY <1>3, <1>6, <1>7 DEF PathsOf
<1>9. Counted'
  BY <1>1, Parts DEF Counted, IsOpen
<1> QED BY <1>1, <1>2, <1>4, <1>8, <1>9, Parts DEF Frame

\* A conflict is answered with a document.  When the answer is what is on disk,
\* the path is dismissed from then on.
LEMMA AnswerKeeps ==
    ASSUME IInv, UNCHANGED world, NEW i \in DOMAIN pending, OnConflict(i),
           NEW d \in Documents, Answer(i, d),
           pending[i].content = Content(pending[i].path) => d.baseline = pending[i].content
    PROVE  IInv'
<1> DEFINE c == pending[i]
           p == c.path
           g == [Flow EXCEPT !.pending = RemoveAt(pending, i), !.selected = p]
           f == Reselected(g, i)
<1>1. /\ UNCHANGED <<disk, natives, inbox, reconcile, expectations, saving, ours, externals>>
      /\ saving = NoPath /\ commands' = commands + 1
  BY DEF OnConflict, Command, diskVars
<1>2. c \in Offers /\ p \in Paths /\ i \in Nat \ {0}
  <2>1. i \in 1..Len(pending) /\ Len(pending) \in Nat /\ c \in Offers
    BY Parts, LenProperties, ElementOfSeq
  <2> QED BY <2>1 DEF Offers, Conflicts
<1>3. /\ docs' = [docs EXCEPT ![p] = d]
      /\ pending' = f.pending /\ selected' = f.selected
      /\ answered' = IF c.content = Content(p) /\ ~Announced(p)
                     THEN answered \cup {p} ELSE answered
      /\ misanswered' \subseteq misanswered \cup {p}
  BY DEF Answer
<1>4. d # NoDocument
  BY NoneIsOpen
<1>5. docs' \in [Paths -> Documents \cup {NoDocument}] /\ docs'[p] = d
      /\ \A r \in Paths \ {p} : docs'[r] = docs[r]
  BY <1>2, <1>3, Parts
<1>6. /\ RemoveAt(pending, i) \in Seq(Offers) /\ OneEach(RemoveAt(pending, i))
      /\ PathsOf(RemoveAt(pending, i)) = PathsOf(pending) \ {p}
  BY Parts, OneGoes
<1>7. g \in Flows /\ OneEach(g.pending) /\ g.pending = RemoveAt(pending, i)
  BY <1>2, <1>6 DEF IInv, Sound, Flows, Flow
<1> HIDE DEF g
<1>8. Sound(f) /\ f.pending = RemoveAt(pending, i)
  BY <1>2, <1>7, Reselecting
<1> HIDE DEF f
<1>9. Sound(Flow)'
  <2>1. /\ Flow'.pending = f.pending /\ Flow'.selected = f.selected /\ Flow' \in Flows
    BY <1>1, <1>3, <1>5, <1>8, Parts DEF Flow, Flows, Sound
  <2>2. Sound(Flow')
    BY <1>8, <2>1 DEF Sound, Selecting
  <2> QED BY <2>2
<1>10. FilesThere' /\ EventsNamed'
  BY <1>1, Parts DEF FilesThere, Content, EventsNamed
<1>11. Counted'
  BY <1>1, <1>2, <1>3, Parts DEF Counted
<1>12. p \notin PathsOf(pending') /\ PathsOf(pending') \subseteq PathsOf(pending)
  BY <1>3, <1>6, <1>8
<1>13. \A r : Content(r)' = Content(r) /\ Silent(r)' = Silent(r)
  BY <1>1 DEF Content, Silent, Named, Natives
<1>14. ASSUME NEW r \in answered', r # p PROVE Dismissed(r)'
  <2>1. r \in answered /\ r \in Paths
    BY <1>3, <1>11, <1>14 DEF Counted
  <2>2. Dismissed(r)
    BY <2>1 DEF IInv
  <2>3. Settled(Flow, r)'
    BY <1>5, <1>12, <1>13, <1>14, <2>1, <2>2 DEF Dismissed, Settled, Flow
  <2>4. (Content(r) = Absent => natives \in Seq(Silent(r)) /\ inbox \in Seq(Silent(r)))'
    BY <1>1, <1>13, <2>2 DEF Dismissed
  <2> QED BY <1>1, <2>2, <2>3, <2>4 DEF Dismissed
<1>15. ASSUME NEW r \in answered', r = p PROVE Dismissed(r)'
  <2>1. c.content = Content(r) /\ ~Announced(r) /\ r \in Paths
    <3>1. r \in PathsOf(pending)
      BY <1>15 DEF PathsOf
    <3>2. r \notin answered
      BY <3>1, FlowFields DEF IInv, Dismissed, Settled
    <3> QED BY <1>2, <1>3, <1>15, <3>2
  <2>2. Settled(Flow, r)'
    <3>1. docs'[r] # NoDocument /\ docs'[r].baseline = Content(r) /\ r \notin PathsOf(pending')
      BY <1>4, <1>5, <1>12, <1>15, <2>1
    <3> QED BY <1>13, <3>1 DEF Settled, Flow
  <2>3. inbox \in Seq(Silent(r))
    <3>1. \A j \in DOMAIN inbox : inbox[j] \in Silent(r)
      BY <2>1, Parts, LenProperties, ElementOfSeq DEF Announced, Silent
    <3> QED BY <3>1, Parts, SeqOver
  <2>4. Content(r) = Absent => natives \in Seq(Silent(r))
    <3>1. Content(r) = Absent => \A j \in DOMAIN natives : natives[j] \in Silent(r)
      BY <2>1, Parts, LenProperties, ElementOfSeq DEF Announced, Silent, ToSet
    <3> QED BY <3>1, Parts, SeqOver
  <2>5. (Content(r) = Absent => natives \in Seq(Silent(r)) /\ inbox \in Seq(Silent(r)))'
    BY <1>1, <1>13, <2>3, <2>4
  <2>6. r # saving'
    BY <1>1, <2>1, Parts
  <2> QED BY <2>2, <2>5, <2>6 DEF Dismissed
<1>16. \A r \in answered' : Dismissed(r)'
  BY <1>14, <1>15
<1> QED BY <1>9, <1>10, <1>11, <1>16 DEF IInv

\* An answer that is refused only moves the selection.
LEMMA RefuseFrames ==
    ASSUME IInv, UNCHANGED world, NEW i \in DOMAIN pending, OnConflict(i), Refuse(i)
    PROVE  Frame({})
<1>1. /\ UNCHANGED <<disk, natives, inbox, reconcile, expectations, saving, ours, externals,
                     docs, pending, answered, misanswered>>
      /\ saving = NoPath /\ commands' = commands + 1 /\ selected' = pending[i].path
  BY DEF OnConflict, Command, Refuse, diskVars
<1>2. Leaves({})
  BY <1>1, StillLeaves DEF diskVars
<1>3. selected' \in PathsOf(pending)
  BY <1>1 DEF PathsOf
<1>4. pending # <<>>
  OBVIOUS
<1>5. Counted'
  BY <1>1, Parts DEF Counted, IsOpen
<1> QED BY <1>1, <1>2, <1>3, <1>4, <1>5, Parts DEF Frame

\* An answer of the user keeps the invariant.
LEMMA AnswersKeep ==
    ASSUME IInv, UNCHANGED world, NEW i \in DOMAIN pending,
           ReloadOffered(i) \/ KeepBuffer(i)
    PROVE  IInv'
<1> DEFINE c == pending[i]
<1>1. c \in Offers /\ c.path \in Paths
  <2>1. c \in Offers
    BY Parts, LenProperties, ElementOfSeq
  <2> QED BY <2>1 DEF Offers, Conflicts
<1>2. IsOpen(c.path) => docs[c.path] \in Documents
  BY <1>1, Parts DEF IsOpen
<1>3. CASE ReloadOffered(i)
  <2>1. CASE IsOpen(c.path) /\ c.content \in Texts
    <3> DEFINE d == Reloaded(docs[c.path], c.path, c.content)
    <3>1. d \in Documents
      BY <1>2, <2>1, DocumentTypes
    <3>2. c.content = Content(c.path) => d.baseline = c.content
      <4>1. c.content # Absent
        BY <2>1, ExternalAssumption DEF Texts, Absent
      <4>2. d.baseline = Captured(c.path, c.content)
        BY <1>2, <2>1 DEF Reloaded, Documents
      <4> QED BY <4>1, <4>2 DEF Captured
    <3>3. OnConflict(i) /\ Answer(i, d)
      BY <1>3, <2>1 DEF ReloadOffered
    <3> HIDE DEF d
    <3> QED BY <3>1, <3>2, <3>3, AnswerKeeps
  <2>2. CASE ~(IsOpen(c.path) /\ c.content \in Texts)
    BY <1>3, <2>2, RefuseFrames, FrameKeeps DEF ReloadOffered
  <2> QED BY <2>1, <2>2
<1>4. CASE KeepBuffer(i)
  <2>1. CASE IsOpen(c.path)
    <3> DEFINE b == IF c.removed THEN Absent ELSE c.content
               d == [docs[c.path] EXCEPT !.baseline = b]
    <3>1. b = c.content /\ b \in Contents \cup {Absent}
      BY <1>1 DEF Offers, Conflicts
    <3> HIDE DEF b
    <3>2. d \in Documents /\ d.baseline = c.content
      BY <1>2, <2>1, <3>1 DEF Documents
    <3>3. OnConflict(i) /\ Answer(i, d)
      BY <1>4, <2>1 DEF KeepBuffer, b
    <3> HIDE DEF d
    <3> QED BY <3>2, <3>3, AnswerKeeps
  <2>2. CASE ~IsOpen(c.path)
    BY <1>4, <2>2, RefuseFrames, FrameKeeps DEF KeepBuffer
  <2> QED BY <2>1, <2>2
<1> QED BY <1>3, <1>4

\* Nothing happens.
LEMMA StutterKeeps == ASSUME IInv, UNCHANGED vars PROVE IInv'
<1>1. UNCHANGED <<disk, natives, inbox, reconcile, docs, pending, selected, expectations,
                  saving, answered, misanswered, ours, world, externals, commands>>
  BY DEF vars, diskVars, flowVars, observerVars
<1>2. Leaves({})
  BY <1>1, StillLeaves DEF diskVars
<1>3. Counted'
  BY <1>1, Parts DEF Counted, IsOpen
<1>4. Frame({})
  BY <1>1, <1>2, <1>3, Parts DEF Frame
<1> QED BY <1>4, FrameKeeps

\* Every step keeps the invariant.
LEMMA StepKeeps == IInv /\ [Next]_vars => IInv'
<1> SUFFICES ASSUME IInv, [Next]_vars PROVE IInv'
  OBVIOUS
<1>1. CASE UNCHANGED vars
  BY <1>1, StutterKeeps
<1>2. CASE Environment /\ UNCHANGED world
  BY <1>2, EnvironmentFrames, FrameKeeps
<1>3. CASE (\E i \in DOMAIN natives : Deliver(i)) /\ UNCHANGED world
  BY <1>3, DeliverKeeps
<1>4. CASE Pump /\ UNCHANGED world
  BY <1>4, PumpKeeps
<1>5. CASE User /\ UNCHANGED world
  <2>1. Empty \in Texts
    BY ExternalAssumption DEF Texts
  <2>2. ASSUME NEW p \in Paths,
               \/ OpenFile(p) \/ NewFile(p) \/ ReloadFile(p) \/ CloseDocument(p)
               \/ DeleteFile(p) \/ Save(p)
        PROVE  IInv'
    <3>1. \E S : Frame(S)
      BY <1>5, <2>1, <2>2, UserFrames
    <3> QED BY <3>1, FrameKeeps
  <2>3. ASSUME NEW p \in Paths, NEW text \in Texts, Edit(p, text) PROVE IInv'
    <3>1. \E S : Frame(S)
      BY <1>5, <2>3, UserFrames
    <3> QED BY <3>1, FrameKeeps
  <2>4. ASSUME NEW p \in Paths, NEW q \in Paths, RenameFile(p, q) \/ SaveAs(p, q) PROVE IInv'
    <3>1. \E S : Frame(S)
      BY <1>5, <2>1, <2>4, UserFrames
    <3> QED BY <3>1, FrameKeeps
  <2>5. CASE RegisterSave
    BY <1>5, <2>5, RegisterFrames, FrameKeeps
  <2>6. CASE \E i \in DOMAIN pending : ReloadOffered(i) \/ KeepBuffer(i)
    BY <1>5, <2>6, AnswersKeep
  <2>7. CASE Select(1) \/ Select(Len(pending) - 1)
    <3>1. Len(pending) \in Nat
      BY Parts, LenProperties
    <3>2. Len(pending) > 1
      BY <2>7 DEF Select
    <3>3. 1 \in Nat /\ Len(pending) - 1 \in Nat
      BY <3>1, <3>2
    <3> QED BY <1>5, <2>7, <3>3, SelectFrames, FrameKeeps
  <2> QED BY <1>5, <2>2, <2>3, <2>4, <2>5, <2>6, <2>7 DEF User
<1> QED BY <1>1, <1>2, <1>3, <1>4, <1>5 DEF Next

-----------------------------------------------------------------------------
(* Sequences of changes with one element more, less or other.               *)

\* A sequence with another element in a place.
WithOther(s, i, e, r) == r = SubSeq(s, 1, i - 1) \o <<e>> \o SubSeq(s, i + 1, Len(s))

\* One element of a sequence gives way to another.
LEMMA OneReplaced ==
    ASSUME NEW S, NEW s \in Seq(S), NEW i \in DOMAIN s, NEW e \in S, NEW r,
           WithOther(s, i, e, r)
    PROVE  /\ r \in Seq(S) /\ DOMAIN r = DOMAIN s
           /\ \A j \in DOMAIN s : r[j] = IF j = i THEN e ELSE s[j]
<1> DEFINE a == SubSeq(s, 1, i - 1)
           b == SubSeq(s, i + 1, Len(s))
           u == <<e>>
<1>1. Len(s) \in Nat /\ DOMAIN s = 1..Len(s) /\ i \in 1..Len(s)
  BY LenProperties
<1>2. /\ a \in Seq(S) /\ Len(a) = i - 1 /\ \A j \in 1..i - 1 : a[j] = s[j]
  <2>1. i - 1 \in Nat /\ 1 \in Nat \ {0} /\ i - 1 <= Len(s)
    BY <1>1
  <2>2. /\ a \in Seq(S) /\ Len(a) = IF 1 <= i - 1 THEN i - 1 - 1 + 1 ELSE 0
        /\ \A j \in 1..i - 1 - 1 + 1 : a[j] = s[1 + j - 1]
    BY <2>1, PartOfSeq
  <2> HIDE DEF a
  <2> QED BY <1>1, <2>2
<1>3. /\ b \in Seq(S) /\ Len(b) = Len(s) - i /\ \A j \in 1..Len(s) - i : b[j] = s[i + j]
  <2>1. i + 1 \in Nat \ {0}
    BY <1>1
  <2>2. /\ b \in Seq(S) /\ Len(b) = IF i + 1 <= Len(s) THEN Len(s) - (i + 1) + 1 ELSE 0
        /\ \A j \in 1..Len(s) - (i + 1) + 1 : b[j] = s[i + 1 + j - 1]
    BY <1>1, <2>1, PartOfSeq
  <2> HIDE DEF b
  <2>3. Len(s) - (i + 1) + 1 = Len(s) - i /\ \A j \in 1..Len(s) - i : i + 1 + j - 1 = i + j
    BY <1>1
  <2> QED BY <1>1, <2>2, <2>3
<1>4. u \in Seq(S) /\ Len(u) = 1 /\ u[1] = e
  OBVIOUS
<1> HIDE DEF a, b, u
<1>5. /\ a \o u \in Seq(S) /\ Len(a \o u) = Len(a) + Len(u)
      /\ \A j \in 1..Len(a) + Len(u) : (a \o u)[j] = IF j <= Len(a) THEN a[j] ELSE u[j - Len(a)]
  BY <1>2, <1>4, ConcatProperties
<1> DEFINE v == a \o u
<1>6. Len(v) = i /\ \A j \in 1..i : v[j] = IF j = i THEN e ELSE s[j]
  <2>1. Len(a) + Len(u) = i /\ i - Len(a) = 1
    BY <1>1, <1>2, <1>4
  <2>2. \A j \in 1..i : j # i => j <= Len(a) /\ j \in 1..i - 1
    BY <1>1, <1>2
  <2>3. ~(i <= Len(a)) /\ i \in 1..i
    BY <1>1, <1>2
  <2> QED BY <1>2, <1>4, <1>5, <2>1, <2>2, <2>3
<1> HIDE DEF v
<1>7. v \in Seq(S)
  BY <1>5 DEF v
<1>8. /\ v \o b \in Seq(S) /\ Len(v \o b) = Len(v) + Len(b)
      /\ \A j \in 1..Len(v) + Len(b) : (v \o b)[j] = IF j <= Len(v) THEN v[j] ELSE b[j - Len(v)]
  BY <1>3, <1>7, ConcatProperties
<1> DEFINE t == v \o b
<1>9. t \in Seq(S) /\ Len(t) = Len(s)
  <2>1. Len(v) + Len(b) = Len(s)
    BY <1>1, <1>3, <1>6
  <2> QED BY <1>8, <2>1
<1>10. ASSUME NEW j \in 1..Len(s) PROVE t[j] = IF j = i THEN e ELSE s[j]
  <2>1. j \in 1..Len(v) + Len(b)
    BY <1>1, <1>3, <1>6
  <2>2. CASE j <= i
    <3>1. j \in 1..i
      BY <1>1, <2>2
    <3> QED BY <1>6, <1>8, <2>1, <2>2, <3>1
  <2>3. CASE ~(j <= i)
    <3>1. j - i \in 1..Len(s) - i /\ i + (j - i) = j /\ j # i
      BY <1>1, <2>3
    <3>2. t[j] = b[j - i]
      BY <1>6, <1>8, <2>1, <2>3
    <3> QED BY <1>3, <3>1, <3>2
  <2> QED BY <2>2, <2>3
<1> HIDE DEF t
<1>11. DOMAIN t = DOMAIN s
  BY <1>1, <1>9, LenProperties
<1>12. r = t
  BY DEF WithOther, t, v, a, b, u
<1> QED BY <1>1, <1>9, <1>10, <1>11, <1>12

\* Of a path two changes at most are noted: a removal, and that another file was
\* made since.
Orderly(ns) ==
    \A i, j \in DOMAIN ns : i < j /\ ns[i].path = ns[j].path
                            => ns[i].kind = "Remove" /\ ns[j].kind = "Create"
\* The change of a path that was noted last.
Latest(ns, n) ==
    /\ n \in ToSet(ns)
    /\ n.kind = "Create" \/ \A o \in ToSet(ns) : o.path = n.path => o = n

\* What follows for two changes of a path.
LEMMA OrderlyNotes ==
    ASSUME NEW ns \in Seq(Named), Orderly(ns)
    PROVE  /\ \A i, j \in DOMAIN ns : ns[i] = ns[j] => i = j
           /\ \A i, j \in DOMAIN ns : ns[i].path = ns[j].path /\ ns[i].kind # "Remove" => j <= i
           /\ \A i, j \in DOMAIN ns :
                 ns[i].path = ns[j].path /\ ns[i].kind \notin {"Remove", "Create"} => j = i
           /\ \A n, o \in ToSet(ns) :
                 n.path = o.path /\ n.kind \notin {"Remove", "Create"} => o = n
           /\ \A n, o \in ToSet(ns) : n.path = o.path /\ n.kind = o.kind => n = o
           /\ \A n, o \in ToSet(ns) : n.path = o.path /\ n # o =>
                 \/ n.kind = "Remove" /\ o.kind = "Create"
                 \/ n.kind = "Create" /\ o.kind = "Remove"
<1>1. DOMAIN ns = 1..Len(ns) /\ Len(ns) \in Nat
  BY LenProperties
<1>2. \A i, j \in DOMAIN ns : i # j => i < j \/ j < i
  BY <1>1
<1>3. \A i, j \in DOMAIN ns : ns[i].path = ns[j].path /\ i # j =>
         \/ i < j /\ ns[i].kind = "Remove" /\ ns[j].kind = "Create"
         \/ j < i /\ ns[j].kind = "Remove" /\ ns[i].kind = "Create"
  BY <1>2 DEF Orderly
<1>4. \A i, j \in DOMAIN ns : ns[i] = ns[j] => i = j
  BY <1>3
<1>5. \A i, j \in DOMAIN ns : ns[i].path = ns[j].path /\ ns[i].kind # "Remove" => j <= i
  BY <1>1, <1>3
<1>6. \A i, j \in DOMAIN ns :
         ns[i].path = ns[j].path /\ ns[i].kind \notin {"Remove", "Create"} => j = i
  BY <1>3
<1>7. \A n, o \in ToSet(ns) : n.path = o.path /\ n # o =>
         \/ n.kind = "Remove" /\ o.kind = "Create"
         \/ n.kind = "Create" /\ o.kind = "Remove"
  BY <1>3 DEF ToSet
<1>8. /\ \A n, o \in ToSet(ns) :
            n.path = o.path /\ n.kind \notin {"Remove", "Create"} => o = n
      /\ \A n, o \in ToSet(ns) : n.path = o.path /\ n.kind = o.kind => n = o
  BY <1>7
<1> QED BY <1>4, <1>5, <1>6, <1>7, <1>8

\* A path of which something is noted has a last change.
LEMMA LatestThere ==
    ASSUME NEW ns \in Seq(Named), Orderly(ns), NEW n \in ToSet(ns)
    PROVE  \E o : Latest(ns, o) /\ o.path = n.path
<1>1. CASE \A o \in ToSet(ns) : o.path = n.path => o = n
  BY <1>1 DEF Latest
<1>2. ASSUME NEW o \in ToSet(ns), o.path = n.path, o # n
      PROVE  \E c : Latest(ns, c) /\ c.path = n.path
  <2>1. n.kind = "Create" \/ o.kind = "Create"
    BY <1>2, OrderlyNotes
  <2> QED BY <1>2, <2>1 DEF Latest
<1> QED BY <1>1, <1>2

\* Where the last change of a path is noted.
LEMMA LatestAt ==
    ASSUME NEW ns \in Seq(Named), Orderly(ns), NEW n, Latest(ns, n)
    PROVE  \E i \in DOMAIN ns : /\ ns[i] = n /\ Noted(ns, n.path) = {i}
                                /\ \A j \in DOMAIN ns : ns[j].path = n.path => j <= i
<1>1. DOMAIN ns = 1..Len(ns) /\ Len(ns) \in Nat
  BY LenProperties
<1>2. PICK i \in DOMAIN ns : ns[i] = n
  BY DEF Latest, ToSet
<1>3. \A j \in DOMAIN ns : ns[j].path = n.path => j <= i
  <2>1. CASE n.kind = "Create"
    BY <1>2, <2>1, OrderlyNotes
  <2>2. CASE \A o \in ToSet(ns) : o.path = n.path => o = n
    <3>1. \A j \in DOMAIN ns : ns[j].path = n.path => j = i
      BY <1>2, <2>2, OrderlyNotes DEF ToSet
    <3> QED BY <1>1, <3>1
  <2> QED BY <2>1, <2>2 DEF Latest
<1>4. \A j \in Noted(ns, n.path) : j = i
  <2>1. ASSUME NEW j \in Noted(ns, n.path) PROVE j = i
    <3>1. j \in DOMAIN ns /\ j <= i /\ i <= j
      BY <1>2, <1>3 DEF Noted
    <3> QED BY <1>1, <3>1
  <2> QED BY <2>1
<1>5. i \in Noted(ns, n.path)
  BY <1>2, <1>3 DEF Noted
<1> QED BY <1>2, <1>3, <1>4, <1>5

\* The notes without one.
LEMMA ElementsWithout ==
    ASSUME NEW s \in Seq(Named), Orderly(s), NEW i \in DOMAIN s
    PROVE  /\ ToSet(RemoveAt(s, i)) = ToSet(s) \ {s[i]}
           /\ Orderly(RemoveAt(s, i))
<1> DEFINE t == RemoveAt(s, i)
           at(j) == IF j < i THEN j ELSE j + 1
<1>1. /\ t \in Seq(Named) /\ Len(t) = Len(s) - 1
      /\ \A j \in DOMAIN t : t[j] = s[at(j)]
  BY WithoutOne
<1>2. /\ DOMAIN s = 1..Len(s) /\ Len(s) \in Nat /\ DOMAIN t = 1..Len(s) - 1
      /\ i \in 1..Len(s)
  <2> HIDE DEF t
  <2> QED BY <1>1, LenProperties
<1> HIDE DEF t
<1>3. \A j \in DOMAIN t : at(j) \in DOMAIN s /\ at(j) # i
  BY <1>2
<1>4. \A j, k \in DOMAIN t : j < k => at(j) < at(k)
  BY <1>2
<1> HIDE DEF at
<1>5. Orderly(t)
  BY <1>1, <1>3, <1>4 DEF Orderly
<1>6. \A j \in DOMAIN t : t[j] \in ToSet(s) /\ t[j] # s[i]
  BY <1>1, <1>3, OrderlyNotes DEF ToSet
<1>7. ASSUME NEW k \in DOMAIN s, k # i PROVE s[k] \in ToSet(t)
  BY <1>7, OthersStay DEF ToSet, t
<1>8. ToSet(t) = ToSet(s) \ {s[i]}
  <2>1. \A x \in ToSet(t) : x \in ToSet(s) \ {s[i]}
    BY <1>6 DEF ToSet
  <2>2. \A x \in ToSet(s) \ {s[i]} : x \in ToSet(t)
    BY <1>7 DEF ToSet
  <2> QED BY <2>1, <2>2
<1> QED BY <1>5, <1>8 DEF t

\* What may take the place of a note.
MayFollow(ns, n, e) == \/ e.path = n.path /\ e.kind = "Create" /\ n.kind = "Create"
                       \/ e.path = n.path /\ \A o \in ToSet(ns) : o.path = n.path => o = n
                       \/ \A o \in ToSet(ns) : o.path # e.path

\* One note gives way to another.
LEMMA ElementsWithOther ==
    ASSUME NEW s \in Seq(Named), Orderly(s), NEW i \in DOMAIN s,
           NEW t, DOMAIN t = DOMAIN s, NEW e,
           \A j \in DOMAIN s : t[j] = IF j = i THEN e ELSE s[j]
    PROVE  /\ ToSet(t) = (ToSet(s) \ {s[i]}) \cup {e}
           /\ MayFollow(s, s[i], e) => Orderly(t)
<1>1. \A j \in DOMAIN s : j # i => s[j] # s[i]
  BY OrderlyNotes
<1>2. ToSet(t) = (ToSet(s) \ {s[i]}) \cup {e}
  BY <1>1 DEF ToSet
<1>3. ASSUME e.path = s[i].path, e.kind = "Create", s[i].kind = "Create"
      PROVE  Orderly(t)
  BY <1>3 DEF Orderly
<1>4. ASSUME \A o \in ToSet(s) : o # s[i] => o.path # e.path
      PROVE  Orderly(t)
  <2>1. \A j \in DOMAIN s : j # i => s[j].path # e.path
    BY <1>1, <1>4 DEF ToSet
  <2>2. DOMAIN s = 1..Len(s) /\ Len(s) \in Nat
    BY LenProperties
  <2>3. \A j \in DOMAIN s : ~(j < j)
    BY <2>2
  <2> QED BY <2>1, <2>3 DEF Orderly
<1> QED BY <1>2, <1>3, <1>4 DEF MayFollow

\* What two changes of a path come to, at most one change.
Single(s) == s = <<>> \/ \E e : s = <<e>>
\* No change, or one, is at most one.
LEMMA Singles == Single(<<>>) /\ \A e : Single(<<e>>)
BY DEF Single

\* A move that a removal takes back.
TakenBack(n, m) == [m EXCEPT !.path = n.previous, !.previous = n.path]

\* The table of the coalescing: what each two kinds of change come to.
LEMMA Coalescing ==
    ASSUME NEW n, NEW m
    PROVE  /\ n.kind = "Create" /\ m.kind = "Remove" => Coalesced(n, m) = <<>>
           /\ n.kind \in {"Create", "Rename"} /\ m.kind = "Modify" => Coalesced(n, m) = <<n>>
           /\ n.kind = "Remove" /\ m.kind = "Create"
                 => Coalesced(n, m) = <<[m EXCEPT !.kind = "Modify"]>>
           /\ n.kind = "Rename" /\ m.kind = "Remove"
                 => Coalesced(n, m) = <<TakenBack(n, m)>>
           /\ n.kind = "Create" /\ m.kind = "Create" => Coalesced(n, m) = <<m>>
           /\ n.kind = "Remove" /\ m.kind \in {"Modify", "Remove"} => Coalesced(n, m) = <<m>>
           /\ n.kind \in {"Create", "Remove", "Modify"} /\ m.kind = "Rename"
                 => Coalesced(n, m) = <<m>>
           /\ n.kind = "Modify" => Coalesced(n, m) = <<m>>
           /\ n.kind \in Kinds /\ m.kind \in Kinds => Single(Coalesced(n, m))
BY Singles DEF Coalesced, Kinds, TakenBack

\* A file made where another was removed is noted apart from it.
Apart(n, next, another) == another /\ n.kind = "Remove" /\ next.kind = "Create"

\* What the watcher debounces once a first change of a path is noted.
LEMMA EnqueuingFirst ==
    ASSUME NEW ns \in Seq(Named), Orderly(ns), NEW next \in Named, NEW another \in BOOLEAN,
           \A n \in ToSet(ns) : n.path = next.path => Apart(n, next, another)
    PROVE  LET after == Enqueued(ns, next, another)
           IN  ToSet(after) = ToSet(ns) \cup {next} /\ Orderly(after)
<1>1. DOMAIN ns = 1..Len(ns) /\ Len(ns) \in Nat /\ \A i \in DOMAIN ns : ns[i] \in Named
  BY LenProperties, ElementOfSeq
<1> DEFINE r == Append(ns, next)
<1>2. \A i \in Noted(ns, next.path) : Apart(ns[i], next, another)
  BY DEF Noted, ToSet
<1>3. Enqueued(ns, next, another) = r
  BY <1>2 DEF Enqueued, Apart
<1>4. /\ r \in Seq(Named) /\ Len(r) = Len(ns) + 1
      /\ \A i \in 1..Len(ns) : r[i] = ns[i]
      /\ r[Len(ns) + 1] = next
  BY AppendProperties
<1> HIDE DEF r
<1>5. /\ DOMAIN r = DOMAIN ns \cup {Len(ns) + 1} /\ Len(ns) + 1 \notin DOMAIN ns
      /\ \A i \in DOMAIN ns : ~(Len(ns) + 1 < i)
      /\ ~(Len(ns) + 1 < Len(ns) + 1)
  BY <1>1, <1>4, LenProperties
<1>6. ToSet(r) = ToSet(ns) \cup {next}
  BY <1>1, <1>4, <1>5 DEF ToSet
<1>7. \A i \in DOMAIN ns : ns[i].path = next.path
         => ns[i].kind = "Remove" /\ next.kind = "Create"
  BY DEF ToSet, Apart
<1>8. Orderly(r)
  BY <1>1, <1>4, <1>5, <1>7 DEF Orderly
<1> QED BY <1>3, <1>6, <1>8

\* And once a change is noted that coalesces with the last of its path.
LEMMA EnqueuingNext ==
    ASSUME NEW ns \in Seq(Named), Orderly(ns), NEW next \in Named, NEW another \in BOOLEAN,
           NEW n, Latest(ns, n), n.path = next.path, ~Apart(n, next, another)
    PROVE  LET after == Enqueued(ns, next, another)
               made == ToSet(Coalesced(n, next))
           IN  /\ ToSet(after) = (ToSet(ns) \ {n}) \cup made
               /\ (\A m \in made : MayFollow(ns, n, m)) => Orderly(after)
<1>1. DOMAIN ns = 1..Len(ns) /\ Len(ns) \in Nat /\ \A i \in DOMAIN ns : ns[i] \in Named
  BY LenProperties, ElementOfSeq
<1>2. PICK i \in DOMAIN ns : ns[i] = n /\ Noted(ns, n.path) = {i}
  BY LatestAt
<1>3. Noted(ns, next.path) = {i}
  BY <1>2
<1> DEFINE t == Enqueued(ns, next, another)
<1>4. t = SubSeq(ns, 1, i - 1) \o Coalesced(n, next) \o SubSeq(ns, i + 1, Len(ns))
  <2>1. (CHOOSE j \in Noted(ns, next.path) : TRUE) = i
    BY <1>3
  <2> QED BY <1>2, <1>3, <2>1 DEF Enqueued, Apart
<1> HIDE DEF t
<1>5. n \in Named
  BY <1>1, <1>2
<1>6. Coalesced(n, next) = <<>> \/ \E e \in Named : Coalesced(n, next) = <<e>>
  <2>1. Coalesced(n, next) \in Seq(Named)
    BY <1>5, CoalescedIn
  <2>2. Coalesced(n, next) = <<>> \/ \E e : Coalesced(n, next) = <<e>>
    <3>1. n.kind \in Kinds /\ next.kind \in Kinds
      BY <1>5 DEF Named, Natives
    <3> QED BY <3>1, Coalescing, Zenon DEF Single
  <2>3. ASSUME NEW e, Coalesced(n, next) = <<e>> PROVE e \in Named
    <3>1. <<e>> \in Seq(Named)
      BY <2>1, <2>3
    <3>2. 1 \in DOMAIN <<e>> /\ <<e>>[1] = e
      OBVIOUS
    <3> QED BY <3>1, <3>2, ElementOfSeq, LenProperties
  <2> QED BY <2>2, <2>3
<1>7. CASE Coalesced(n, next) = <<>>
  <2>1. SubSeq(ns, 1, i - 1) \o <<>> = SubSeq(ns, 1, i - 1)
    <3>1. SubSeq(ns, 1, i - 1) \in Seq(Named)
      <4>1. 1 \in Nat \ {0} /\ i - 1 \in Nat /\ i - 1 <= Len(ns)
        BY <1>1
      <4> QED BY <4>1, PartOfSeq
    <3> QED BY <3>1, ConcatEmptySeq
  <2>2. t = RemoveAt(ns, i)
    BY <1>4, <1>7, <2>1 DEF RemoveAt
  <2>3. ToSet(Coalesced(n, next)) = {}
    BY <1>7 DEF ToSet
  <2> QED BY <1>2, <2>2, <2>3, ElementsWithout DEF t
<1>8. ASSUME NEW e \in Named, Coalesced(n, next) = <<e>>
      PROVE  /\ ToSet(t) = (ToSet(ns) \ {n}) \cup {e}
             /\ MayFollow(ns, n, e) => Orderly(t)
  <2>1. WithOther(ns, i, e, t)
    BY <1>4, <1>8 DEF WithOther
  <2>2. t \in Seq(Named) /\ DOMAIN t = DOMAIN ns
        /\ \A j \in DOMAIN ns : t[j] = IF j = i THEN e ELSE ns[j]
    BY <2>1, OneReplaced
  <2> QED BY <1>2, <2>2, ElementsWithOther
<1>9. \A e : ToSet(<<e>>) = {e}
  BY DEF ToSet
<1> QED BY <1>6, <1>7, <1>8, <1>9 DEF t

-----------------------------------------------------------------------------
(* What is known of a path, and how the watcher notes a change.             *)

\* The path whose document an event is about; a file that moves to a path.
About(e) == IF e.kind = "Rename" THEN e.previous ELSE e.path
MovesTo(e, p) == e.kind = "Rename" /\ e.path = p

\* What is left to ingest of a batch after its first k events.
Rest(events, k) == {i \in DOMAIN events : i > k}
Expects(f, p, stamp) == [path |-> p, stamp |-> stamp] \in f.expectations

\* The document of the path does not branch from what is on disk.
Off(f, p) == /\ f.docs[p] # NoDocument
             /\ IF Content(p) \in Contents THEN f.docs[p].baseline # Content(p)
                                           ELSE f.docs[p].baseline \in Contents
\* Something still to come will tell the flow so: a later event of the batch, a
\* change the watcher debounces, the registration of a save or the comparison
\* after an overflow; or the user was told.
Later(events, k, p) == \E i \in Rest(events, k) : About(events[i]) = p
Noticed(p) == \E n \in ToSet(natives) : About(n) = p
Excused(p, lost) == p \in misanswered \/ p = saving \/ lost \/ Noticed(p)

\* A file moved here: it holds text, no document is open here, and none of our
\* writes is expected.
Free(f, p) == Content(p) \in Texts /\ f.docs[p] = NoDocument /\ p \notin ours
Arrivals(f, events, k, p) ==
    /\ \A i \in Rest(events, k) : MovesTo(events[i], p) =>
          /\ Free(f, p) /\ events[i].previous # p
          /\ events[i].stamp # NoStamp /\ ~Expects(f, p, events[i].stamp)
          /\ \A j \in Rest(events, k) : MovesTo(events[j], p) => i = j
    /\ \A n \in ToSet(natives) : MovesTo(n, p) =>
          /\ Free(f, p) /\ n.previous # p
          /\ ~Expects(f, p, disk[p].stamp) /\ ~Delivered(p)

\* The watcher debounces that the file is new: it is there.  A removal it debounces:
\* another file was made since, or the file is gone, and where the removal will be
\* taken for a write of our own, the document knows.
Created(p) == \E n \in ToSet(natives) : n.kind = "Create" /\ n.path = p
Removals(f, p) ==
    /\ Created(p) => Content(p) # Absent
    /\ \A n \in ToSet(natives) : n.kind = "Remove" /\ n.path = p =>
          \/ Created(p)
          \/ /\ Content(p) = Absent
             /\ f.docs[p] # NoDocument /\ Expects(f, p, n.stamp)
                   => f.docs[p].baseline \notin Contents \/ p \in misanswered

\* A write of our own that is still expected is what the document branches from.
Agreement(f, p) ==
    f.docs[p] # NoDocument /\ Expects(f, p, disk[p].stamp)
       => f.docs[p].baseline = Content(p) \/ p \in misanswered

\* An event that will be taken for a write of our own hides no divergence.
Reports(f, events, k, lost, p) ==
    \A i \in Rest(events, k) :
       (/\ events[i].path = p /\ events[i].kind # "Rename"
        /\ events[i].stamp # NoStamp /\ Expects(f, p, events[i].stamp) /\ Off(f, p))
          => Excused(p, lost) \/ Later(events, i, p)

\* A divergence is offered, or the flow will be told.
Known(f, events, k, lost, p) ==
    Off(f, p) => p \in PathsOf(f.pending) \/ Excused(p, lost) \/ Later(events, k, p)

\* The report of our last write is still to come.
Unheard(f, events, k, p) ==
    /\ p = saving \/ Expects(f, p, disk[p].stamp)
    /\ \/ \E n \in ToSet(natives) : n.path = p /\ n.kind \notin {"Remove", "Rename"}
       \/ \E i \in Rest(events, k) :
             /\ events[i].path = p /\ events[i].kind # "Rename"
             /\ events[i].stamp \in {NoStamp, disk[p].stamp}

\* A file of which our write is the last holds text, its document branches from it
\* once the save is registered, and a conflict of it will be ended.
Mended(f, events, k, p) ==
    p \in ours =>
       /\ Content(p) \in Texts
       /\ f.docs[p] # NoDocument /\ p # saving /\ f.docs[p].baseline # Content(p)
             => p \in misanswered
       /\ p \in PathsOf(f.pending) =>
             /\ f.docs[p] # NoDocument
             /\ \/ p # saving /\ f.docs[p].baseline # Content(p)
                \/ Unheard(f, events, k, p)

Good(f, events, k, lost, p) ==
    /\ Arrivals(f, events, k, p) /\ Removals(f, p) /\ Agreement(f, p)
    /\ Reports(f, events, k, lost, p) /\ Known(f, events, k, lost, p)
    /\ Mended(f, events, k, p)

\* The file being saved holds its document's text under a stamp of its own.
Saving == saving # NoPath =>
    /\ Content(saving) = docs[saving].text /\ saving \in ours
    /\ \A r \in Paths \ {saving} : disk[r].stamp # disk[saving].stamp

\* Stamps are not used again, and an expected one is of no other path.
Stamps ==
    /\ \A p \in Paths : /\ disk[p].stamp <= externals + commands + 1
                        /\ Content(p) = Absent => disk[p].stamp = NoStamp
    /\ \A e \in expectations : /\ e.stamp <= externals + commands + 1
                               /\ \A r \in Paths : disk[r].stamp = e.stamp => r = e.path

\* Nothing gets lost before the flow is told of it, and no move is undone over
\* another change of its source.
Calm == Faithful /\ "Undo" \notin External

\* The flow knows, or will be told.
Informed ==
    /\ Orderly(natives) /\ Saving /\ Stamps
    /\ \A p \in Paths : Good(Flow, inbox, 0, reconcile, p)
KnownInv == IInv /\ (Calm => Informed)

\* What is noted of a path, or of a document whose file has moved.
Concerns(n, p) == n.path = p \/ About(n) = p
SameNotes(p) == \A n : Concerns(n, p) => (n \in ToSet(natives') <=> n \in ToSet(natives))
SameDocument(p) ==
    /\ docs'[p] = NoDocument <=> docs[p] = NoDocument
    /\ docs[p] # NoDocument => docs'[p].baseline = docs[p].baseline
SameFlow(p) ==
    /\ SameDocument(p)
    /\ p \in PathsOf(pending') <=> p \in PathsOf(pending)
    /\ \A s : [path |-> p, stamp |-> s] \in expectations'
                 <=> [path |-> p, stamp |-> s] \in expectations
    /\ p \in misanswered' <=> p \in misanswered
    /\ p = saving' <=> p = saving

\* A step that is not about the path.
Alike(p) ==
    /\ disk'[p] = disk[p] /\ SameNotes(p) /\ SameFlow(p)
    /\ p \in ours' => p \in ours
    /\ reconcile => reconcile'
    /\ inbox' = inbox

\* What is known of a path stays known.
LEMMA AlikeKeeps ==
    ASSUME NEW p, Good(Flow, inbox, 0, reconcile, p), Alike(p)
    PROVE  Good(Flow, inbox, 0, reconcile, p)'
<1>1. /\ Content(p)' = Content(p) /\ disk'[p] = disk[p]
      /\ Delivered(p)' = Delivered(p)
  BY DEF Alike, Content, Delivered
<1>2. /\ Flow.docs = docs /\ Flow.pending = pending /\ Flow.expectations = expectations
      /\ Flow'.docs = docs' /\ Flow'.pending = pending' /\ Flow'.expectations = expectations'
  BY DEF Flow
<1>3. \A s : Expects(Flow, p, s)' <=> Expects(Flow, p, s)
  BY <1>2 DEF Alike, SameFlow, Expects
<1>4. \A n : MovesTo(n, p) => Concerns(n, p)
  BY DEF MovesTo, Concerns
<1>5. (Off(Flow, p)' <=> Off(Flow, p)) /\ (Free(Flow, p) => Free(Flow, p)')
  BY <1>1, <1>2 DEF Alike, SameFlow, SameDocument, Off, Free
<1>6. inbox' = inbox
  BY DEF Alike
<1>7. Excused(p, reconcile) => Excused(p, reconcile)'
  BY DEF Alike, SameFlow, SameNotes, Concerns, Excused, Noticed
<1>8. Unheard(Flow, inbox, 0, p) => Unheard(Flow, inbox, 0, p)'
  BY <1>1, <1>3, <1>6 DEF Alike, SameFlow, SameNotes, Concerns, Unheard
<1>9. Arrivals(Flow, inbox, 0, p)'
  BY <1>1, <1>3, <1>4, <1>5, <1>6 DEF Good, Arrivals, Alike, SameNotes
<1>10. Removals(Flow, p)'
  BY <1>1, <1>2, <1>3 DEF Good, Removals, Created, Alike, SameNotes, Concerns, SameFlow, SameDocument
<1>11. Agreement(Flow, p)'
  BY <1>1, <1>2, <1>3 DEF Good, Agreement, Alike, SameFlow, SameDocument
<1>12. Reports(Flow, inbox, 0, reconcile, p)'
  BY <1>3, <1>5, <1>6, <1>7 DEF Good, Reports, Later
<1>13. Known(Flow, inbox, 0, reconcile, p)'
  BY <1>2, <1>5, <1>6, <1>7 DEF Good, Known, Later, Alike, SameFlow
<1>14. Mended(Flow, inbox, 0, p)'
  BY <1>1, <1>2, <1>8 DEF Good, Mended, Alike, SameFlow, SameDocument
<1> QED BY <1>9, <1>10, <1>11, <1>12, <1>13, <1>14 DEF Good

\* A path that no file on its way moves to, and of which all is noted.
Plain(p) ==
    /\ \A i \in DOMAIN inbox : ~MovesTo(inbox[i], p)
    /\ \A n \in ToSet(natives) : ~MovesTo(n, p)
    /\ Removals(Flow, p) /\ Agreement(Flow, p)
    /\ Off(Flow, p) => Noticed(p) \/ p = saving \/ p \in misanswered
    /\ Mended(Flow, inbox, 0, p)

\* Of such a path nothing can get lost.
LEMMA PlainIsGood == ASSUME NEW p, Plain(p)' PROVE Good(Flow, inbox, 0, reconcile, p)'
<1>1. Arrivals(Flow, inbox, 0, p)'
  BY DEF Plain, Arrivals, Rest
<1>2. Off(Flow, p)' => Excused(p, reconcile)'
  BY DEF Plain, Excused
<1>3. Reports(Flow, inbox, 0, reconcile, p)' /\ Known(Flow, inbox, 0, reconcile, p)'
  BY <1>2 DEF Reports, Known
<1> QED BY <1>1, <1>3 DEF Plain, Good

\* What two changes of a path come to, as a change.
Comes(n, m, x) == Coalesced(n, m) = <<x>>
Gone(n, m) == Coalesced(n, m) = <<>>

\* The same table, as what is noted after.
LEMMA Netting ==
    ASSUME NEW n, NEW m
    PROVE  /\ n.kind = "Create" /\ m.kind = "Remove" => Gone(n, m)
           /\ n.kind \in {"Create", "Rename"} /\ m.kind = "Modify" => Comes(n, m, n)
           /\ n.kind = "Remove" /\ m.kind = "Create"
                 => Comes(n, m, [m EXCEPT !.kind = "Modify"])
           /\ n.kind = "Rename" /\ m.kind = "Remove"
                 => Comes(n, m, TakenBack(n, m))
           /\ n.kind = "Create" /\ m.kind = "Create" => Comes(n, m, m)
           /\ n.kind = "Remove" /\ m.kind \in {"Modify", "Remove"} => Comes(n, m, m)
           /\ n.kind \in {"Create", "Remove", "Modify"} /\ m.kind = "Rename" => Comes(n, m, m)
           /\ n.kind = "Modify" => Comes(n, m, m)
           /\ Gone(n, m) => ToSet(Coalesced(n, m)) = {}
           /\ \A x : Comes(n, m, x) => ToSet(Coalesced(n, m)) = {x}
<1>1. ToSet(<<>>) = {} /\ \A x : ToSet(<<x>>) = {x}
  BY DEF ToSet
<1>2. Gone(n, m) => ToSet(Coalesced(n, m)) = {}
  BY <1>1, Zenon DEF Gone
<1>3. \A x : Comes(n, m, x) => ToSet(Coalesced(n, m)) = {x}
  BY <1>1, Zenon DEF Comes
<1> QED BY <1>2, <1>3, Coalescing, Zenon DEF Comes, Gone

\* A file being written is noted under its path, behind a removal if there is one; a
\* file that moved here is still noted as moved.
Wrote(ns, after, q) ==
    /\ Orderly(after)
    /\ \A n : n.path # q \/ n.kind = "Rename" => (n \in ToSet(after) <=> n \in ToSet(ns))
    /\ \A n \in ToSet(after) : n.path = q /\ n.kind = "Remove" =>
          \E m \in ToSet(after) : m.kind = "Create" /\ m.path = q
    /\ \/ \E n \in ToSet(ns) : MovesTo(n, q)
       \/ \E n \in ToSet(after) : n.path = q /\ n.kind \notin {"Remove", "Rename"}

\* A write is noted so, whatever was noted before.
LEMMA WriteNoted ==
    ASSUME NEW ns \in Seq(Named), Orderly(ns), NEW q \in Paths, NEW another \in BOOLEAN,
           NEW kind \in {"Create", "Modify"},
           kind = "Create" => \A n \in ToSet(ns) : ~MovesTo(n, q)
    PROVE  Wrote(ns, Enqueued(ns, Native(kind, q, NoPath, NoStamp), another), q)
<1> DEFINE next == Native(kind, q, NoPath, NoStamp)
           after == Enqueued(ns, next, another)
<1>1. next \in Named /\ next.path = q /\ next.kind = kind
  BY DEF Named, Native, Natives, Kinds, NoStamp
<1> HIDE DEF next, after
<1>2. ASSUME \A n \in ToSet(ns) : n.path = next.path => Apart(n, next, another)
      PROVE  Wrote(ns, after, q)
  <2>1. ToSet(after) = ToSet(ns) \cup {next} /\ Orderly(after)
    BY <1>1, <1>2, EnqueuingFirst DEF after
  <2>2. \A n \in ToSet(ns) : n.path = q => next.kind = "Create"
    BY <1>1, <1>2 DEF Apart
  <2> QED BY <1>1, <1>2, <2>1, <2>2 DEF Wrote, MovesTo
<1>3. ASSUME NEW n, Latest(ns, n), n.path = next.path, ~Apart(n, next, another)
      PROVE  Wrote(ns, after, q)
  <2>1. n \in Named /\ n \in ToSet(ns) /\ n.path = q
    BY <1>1, <1>3, ElementOfSeq, LenProperties DEF Latest, ToSet
  <2>2. \A m \in ToSet(ns) : m.path = q /\ m # n => m.kind = "Remove" /\ n.kind = "Create"
    BY <1>3, <2>1, OrderlyNotes DEF Latest
  <2>3. PICK x : /\ Comes(n, next, x) /\ x.path = q /\ x.kind # "Remove"
                 /\ IF n.kind = "Rename" THEN x = n ELSE x.kind # "Rename"
                 /\ n.kind = "Create" => x.kind = "Create"
    <3>1. n.kind \in Kinds
      BY <2>1 DEF Named, Natives
    <3>2. CASE n.kind = "Create" /\ kind = "Modify"
      BY <1>1, <2>1, <3>2, Netting
    <3>3. CASE n.kind = "Create" /\ kind = "Create"
      BY <1>1, <2>1, <3>3, Netting
    <3>4. CASE n.kind = "Rename"
      BY <1>1, <2>1, <3>4, Netting DEF MovesTo
    <3>5. CASE n.kind = "Remove" /\ kind = "Create"
      <4>1. Comes(n, next, [next EXCEPT !.kind = "Modify"])
        BY <1>1, <3>5, Netting
      <4>2. [next EXCEPT !.kind = "Modify"].path = q
            /\ [next EXCEPT !.kind = "Modify"].kind = "Modify"
        BY <1>1 DEF Named, Natives
      <4> QED BY <3>5, <4>1, <4>2
    <3>6. CASE n.kind = "Remove" /\ kind = "Modify"
      BY <1>1, <3>6, Netting
    <3>7. CASE n.kind = "Modify"
      BY <1>1, <3>7, Netting
    <3> QED BY <3>1, <3>2, <3>3, <3>4, <3>5, <3>6, <3>7 DEF Kinds
  <2>4. ToSet(Coalesced(n, next)) = {x}
    BY <2>3, Netting
  <2>5. ToSet(after) = (ToSet(ns) \ {n}) \cup {x} /\ Orderly(after)
    <3>1. MayFollow(ns, n, x)
      BY <2>1, <2>2, <2>3 DEF MayFollow
    <3> QED BY <1>3, <2>4, <3>1, <1>1, EnqueuingNext DEF after
  <2>6. \A m \in ToSet(after) : m.path = q /\ m.kind = "Remove" => x.kind = "Create"
    BY <2>2, <2>3, <2>5
  <2>7. CASE n.kind = "Rename"
    BY <2>1, <2>2, <2>3, <2>5, <2>6, <2>7 DEF Wrote, MovesTo
  <2>8. CASE n.kind # "Rename"
    <3>1. \A m \in ToSet(ns) : m.kind = "Rename" => m # n /\ (m.path = q => FALSE)
      BY <2>2, <2>8
    <3> QED BY <2>1, <2>3, <2>5, <2>6, <2>8, <3>1 DEF Wrote, MovesTo
  <2> QED BY <2>7, <2>8
<1>4. Wrote(ns, after, q)
  <2>1. SUFFICES ASSUME NEW m \in ToSet(ns), m.path = next.path, ~Apart(m, next, another)
                 PROVE  Wrote(ns, after, q)
    BY <1>2
  <2>2. PICK n : Latest(ns, n) /\ n.path = next.path
    BY <2>1, LatestThere
  <2>3. ~Apart(n, next, another)
    <3>1. n = m \/ n.kind = "Create"
      BY <2>1, <2>2 DEF Latest
    <3> QED BY <2>1, <3>1 DEF Apart
  <2> QED BY <1>3, <2>2, <2>3
<1> QED BY <1>4 DEF after, next

\* A file going is noted, but for one that had just come: then an older removal is
\* all that may be left.
Dropped(ns, after, q, next) ==
    /\ Orderly(after)
    /\ \A n : n.path # q => (n \in ToSet(after) <=> n \in ToSet(ns))
    /\ \A n \in ToSet(after) : n.path = q =>
          /\ n.kind = "Remove"
          /\ n = next \/ \E m \in ToSet(ns) : m.kind = "Create" /\ m.path = q
    /\ next \in ToSet(after) \/ \E n \in ToSet(ns) : n.kind = "Create" /\ n.path = q

\* A removal is noted so, whatever was noted before.
LEMMA RemovalNoted ==
    ASSUME NEW ns \in Seq(Named), Orderly(ns), NEW q \in Paths, NEW seen \in Nat,
           \A n \in ToSet(ns) : ~MovesTo(n, q)
    PROVE  LET next == Native("Remove", q, NoPath, seen)
           IN  Dropped(ns, Enqueued(ns, next, FALSE), q, next)
<1> DEFINE next == Native("Remove", q, NoPath, seen)
           off == FALSE
           after == Enqueued(ns, next, off)
<1>1. /\ next \in Named /\ next.path = q /\ next.kind = "Remove"
      /\ off \in BOOLEAN
  BY DEF Named, Native, Natives, Kinds
<1> HIDE DEF next, off, after
<1>2. ASSUME \A n \in ToSet(ns) : n.path # q
      PROVE  Dropped(ns, after, q, next)
  <2>1. ToSet(after) = ToSet(ns) \cup {next} /\ Orderly(after)
    BY <1>1, <1>2, EnqueuingFirst DEF after
  <2> QED BY <1>1, <1>2, <2>1 DEF Dropped
<1>3. ASSUME NEW n, Latest(ns, n), n.path = q
      PROVE  Dropped(ns, after, q, next)
  <2>1. n \in Named /\ n \in ToSet(ns) /\ ~Apart(n, next, off)
    BY <1>1, <1>3, ElementOfSeq, LenProperties DEF Latest, ToSet, Apart
  <2>2. \A m \in ToSet(ns) : m.path = q /\ m # n => m.kind = "Remove" /\ n.kind = "Create"
    BY <1>3, <2>1, OrderlyNotes DEF Latest
  <2>3. n.kind \in {"Create", "Modify", "Remove"}
    BY <1>3, <2>1 DEF Named, Natives, Kinds, MovesTo
  <2>4. CASE n.kind = "Create"
    <3>1. ToSet(Coalesced(n, next)) = {}
      BY <1>1, <2>4, Netting
    <3>2. ToSet(after) = ToSet(ns) \ {n} /\ Orderly(after)
      BY <1>1, <1>3, <2>1, <3>1, EnqueuingNext DEF after
    <3> QED BY <1>3, <2>1, <2>2, <2>4, <3>2 DEF Dropped
  <2>5. CASE n.kind # "Create"
    <3>1. Comes(n, next, next)
      BY <1>1, <2>3, <2>5, Netting
    <3>2. ToSet(Coalesced(n, next)) = {next} /\ MayFollow(ns, n, next)
      BY <1>1, <1>3, <2>2, <2>5, <3>1, Netting DEF MayFollow
    <3>3. ToSet(after) = (ToSet(ns) \ {n}) \cup {next} /\ Orderly(after)
      BY <1>1, <1>3, <2>1, <3>2, EnqueuingNext DEF after
    <3> QED BY <1>1, <1>3, <2>2, <2>5, <3>3 DEF Dropped
  <2> QED BY <2>4, <2>5
<1>4. Dropped(ns, after, q, next)
  BY <1>2, <1>3, LatestThere
<1> QED BY <1>4 DEF after, next, off

\* A file that had just moved goes: its source is noted as removed.
GivesWay(ns, after, n, back) ==
    ToSet(after) = (ToSet(ns) \ {n}) \cup {back} /\ Orderly(after)

\* A removal that takes back a move is noted so.
LEMMA MoveUndone ==
    ASSUME NEW ns \in Seq(Named), Orderly(ns), NEW q \in Paths, NEW seen \in Nat,
           NEW n \in ToSet(ns), MovesTo(n, q),
           \A m \in ToSet(ns) : m.path # n.previous
    PROVE  LET after == Enqueued(ns, Native("Remove", q, NoPath, seen), FALSE)
               back == Native("Remove", n.previous, q, seen)
           IN  GivesWay(ns, after, n, back)
<1> DEFINE next == Native("Remove", q, NoPath, seen)
           back == Native("Remove", n.previous, q, seen)
           off == FALSE
<1>1. /\ next \in Named /\ next.path = q /\ next.kind = "Remove"
      /\ off \in BOOLEAN
  BY DEF Named, Native, Natives, Kinds
<1>2. TakenBack(n, next) = back /\ back.path = n.previous
  <2> DEFINE a == Native("Remove", n.previous, NoPath, seen)
  <2>1. [next EXCEPT !.path = n.previous] = a
    BY DEF Native
  <2>2. [a EXCEPT !.previous = q] = back /\ back.path = n.previous
    BY DEF Native
  <2>3. n.path = q
    BY DEF MovesTo
  <2> HIDE DEF a, next, back
  <2> QED BY <2>1, <2>2, <2>3 DEF TakenBack
<1> HIDE DEF next, back, off
<1>3. Comes(n, next, back)
  BY <1>1, <1>2, Netting DEF MovesTo
<1>4. ToSet(Coalesced(n, next)) = {back} /\ MayFollow(ns, n, back)
  BY <1>2, <1>3, Netting DEF MayFollow
<1>5. n.path = next.path /\ Latest(ns, n) /\ ~Apart(n, next, off)
  BY <1>1, OrderlyNotes DEF MovesTo, Latest, Apart
<1>6. GivesWay(ns, Enqueued(ns, next, off), n, back)
  BY <1>1, <1>4, <1>5, EnqueuingNext DEF GivesWay
<1> QED BY <1>6 DEF next, back, off

\* A file that moves is noted under its new path, with its old one unless it had
\* just come there; then an older removal may be left.
NotedAsMoved(ns, after, p, q) ==
    LET move == Native("Rename", q, p, NoStamp)
    IN  /\ Orderly(after)
        /\ \A n : n.path \notin {p, q} => (n \in ToSet(after) <=> n \in ToSet(ns))
        /\ \A n \in ToSet(after) : n.path = p => n.kind = "Remove"
        /\ \A n \in ToSet(after) : n.path = q =>
              /\ n.kind = "Remove" => \E m \in ToSet(after) : m.kind = "Create" /\ m.path = q
              /\ n.kind = "Rename" => n = move
        /\ \/ move \in ToSet(after) /\ \A n \in ToSet(after) : n.path # p
           \/ \E n \in ToSet(ns) : n.kind = "Create" /\ n.path = p

\* A move is noted so, whatever was noted before.
LEMMA MoveNoted ==
    ASSUME NEW ns \in Seq(Named), Orderly(ns), NEW p \in Paths, NEW q \in Paths, p # q,
           NEW another \in BOOLEAN,
           \A n \in ToSet(ns) : ~MovesTo(n, p) /\ ~MovesTo(n, q),
           \A n \in ToSet(ns) : n.path = q => n.kind # "Create"
    PROVE  NotedAsMoved(ns, Renamed(ns, p, q, FALSE, another), p, q)
<1> DEFINE move == Native("Rename", q, p, NoStamp)
           sourceIsNew == \E i \in Noted(ns, p) : ns[i].kind = "Create"
           next == IF sourceIsNew THEN Native("Create", q, NoPath, NoStamp) ELSE move
           left == IF Noted(ns, p) = {} THEN ns
                   ELSE RemoveAt(ns, CHOOSE i \in Noted(ns, p) : TRUE)
           after == Enqueued(left, next, another)
<1>1. Renamed(ns, p, q, FALSE, another) = after
  BY DEF Renamed
<1>2. /\ next \in Named /\ next.path = q /\ next.kind \in {"Create", "Rename"}
      /\ next.kind = "Rename" => next = move
      /\ \/ next = move /\ ~sourceIsNew
         \/ \E n \in ToSet(ns) : n.kind = "Create" /\ n.path = p
  BY DEF Named, Native, Natives, Kinds, NoStamp, Noted, ToSet
<1>3. DOMAIN ns = 1..Len(ns) /\ Len(ns) \in Nat /\ \A i \in DOMAIN ns : ns[i] \in Named
  BY LenProperties, ElementOfSeq
<1>4. /\ left \in Seq(Named) /\ Orderly(left)
      /\ \A n : n \in ToSet(left) => n \in ToSet(ns)
      /\ \A n \in ToSet(ns) : n.path # p => n \in ToSet(left)
      /\ \A n \in ToSet(left) : n.path = p => n.kind = "Remove" /\ sourceIsNew
  <2>1. CASE \A n \in ToSet(ns) : n.path # p
    <3>1. Noted(ns, p) = {}
      BY <2>1 DEF Noted, ToSet
    <3> QED BY <2>1, <3>1
  <2>2. ASSUME NEW m \in ToSet(ns), m.path = p
        PROVE  /\ left \in Seq(Named) /\ Orderly(left)
               /\ \A n : n \in ToSet(left) => n \in ToSet(ns)
               /\ \A n \in ToSet(ns) : n.path # p => n \in ToSet(left)
               /\ \A n \in ToSet(left) : n.path = p => n.kind = "Remove" /\ sourceIsNew
    <3>1. PICK o : Latest(ns, o) /\ o.path = p
      BY <2>2, LatestThere
    <3>2. PICK i \in DOMAIN ns : ns[i] = o /\ Noted(ns, p) = {i}
      BY <3>1, LatestAt
    <3>3. left = RemoveAt(ns, i)
      <4>1. (CHOOSE j \in Noted(ns, p) : TRUE) = i
        BY <3>2
      <4> QED BY <3>2, <4>1
    <3>4. sourceIsNew <=> o.kind = "Create"
      BY <3>2
    <3> HIDE DEF left, sourceIsNew
    <3>5. ToSet(left) = ToSet(ns) \ {o} /\ Orderly(left) /\ left \in Seq(Named)
      BY <3>2, <3>3, ElementsWithout, WithoutOne
    <3>6. \A n \in ToSet(ns) : n.path = p /\ n # o => n.kind = "Remove" /\ o.kind = "Create"
      BY <3>1, OrderlyNotes DEF Latest
    <3> QED BY <3>1, <3>4, <3>5, <3>6
  <2> QED BY <2>1, <2>2
<1> HIDE DEF next, left, after, move, sourceIsNew
<1>5. /\ move.kind = "Rename" /\ move.path = q
      /\ \A n \in ToSet(left) : n.path # p \/ \E m \in ToSet(ns) : m.kind = "Create" /\ m.path = p
  BY <1>2, <1>4 DEF move, Native
<1>6. ASSUME \A n \in ToSet(left) : n.path = next.path => Apart(n, next, another)
      PROVE  NotedAsMoved(ns, after, p, q)
  <2>1. ToSet(after) = ToSet(left) \cup {next} /\ Orderly(after)
    BY <1>2, <1>4, <1>6, EnqueuingFirst DEF after
  <2>2. \A n \in ToSet(left) : n.path = q => n.kind = "Remove" /\ next.kind = "Create"
    BY <1>2, <1>6 DEF Apart
  <2>3. \A n : n.path \notin {p, q} => (n \in ToSet(after) <=> n \in ToSet(ns))
    BY <1>2, <1>4, <2>1
  <2>4. \A n \in ToSet(after) : n.path = p => n.kind = "Remove"
    BY <1>2, <1>4, <2>1
  <2>5. \A n \in ToSet(after) : n.path = q =>
           /\ n.kind = "Remove" => \E m \in ToSet(after) : m.kind = "Create" /\ m.path = q
           /\ n.kind = "Rename" => n = move
    BY <1>2, <2>1, <2>2
  <2>6. \/ move \in ToSet(after) /\ \A n \in ToSet(after) : n.path # p
        \/ \E n \in ToSet(ns) : n.kind = "Create" /\ n.path = p
    BY <1>2, <1>4, <2>1
  <2> QED BY <2>1, <2>3, <2>4, <2>5, <2>6 DEF NotedAsMoved, move
<1>7. ASSUME NEW n, Latest(left, n), n.path = next.path, ~Apart(n, next, another)
      PROVE  NotedAsMoved(ns, after, p, q)
  <2>1. n \in Named /\ n \in ToSet(ns) /\ n \in ToSet(left) /\ n.path = q
    BY <1>2, <1>4, <1>7, ElementOfSeq, LenProperties DEF Latest, ToSet
  <2>2. \A m \in ToSet(left) : m.path = q => m = n
    BY <1>7, <2>1 DEF Latest
  <2>3. n.kind \in {"Modify", "Remove"}
    BY <2>1 DEF Named, Natives, Kinds, MovesTo
  <2>4. PICK x : /\ Comes(n, next, x) /\ x.path = q /\ x.kind # "Remove"
                 /\ x = next \/ (next.kind = "Create" /\ x.kind # "Rename")
    <3>1. CASE next.kind = "Rename"
      BY <1>2, <2>3, <3>1, Netting
    <3>2. CASE next.kind = "Create" /\ n.kind = "Remove"
      <4>1. Comes(n, next, [next EXCEPT !.kind = "Modify"])
        BY <3>2, Netting
      <4>2. [next EXCEPT !.kind = "Modify"].path = q
            /\ [next EXCEPT !.kind = "Modify"].kind = "Modify"
        BY <1>2 DEF Named, Natives
      <4> QED BY <3>2, <4>1, <4>2
    <3>3. CASE next.kind = "Create" /\ n.kind = "Modify"
      BY <1>2, <3>3, Netting
    <3> QED BY <1>2, <2>3, <3>1, <3>2, <3>3
  <2>5. ToSet(Coalesced(n, next)) = {x} /\ MayFollow(left, n, x)
    BY <2>1, <2>2, <2>4, Netting DEF MayFollow
  <2>6. ToSet(after) = (ToSet(left) \ {n}) \cup {x} /\ Orderly(after)
    BY <1>2, <1>4, <1>7, <2>5, EnqueuingNext DEF after
  <2>7. \A m : m.path \notin {p, q} => (m \in ToSet(after) <=> m \in ToSet(ns))
    BY <1>4, <2>1, <2>4, <2>6
  <2>8. \A m \in ToSet(after) : m.path = p => m.kind = "Remove"
    BY <1>4, <2>4, <2>6
  <2>9. \A m \in ToSet(after) : m.path = q => m = x
    BY <2>2, <2>6
  <2>10. x.kind = "Rename" => x = move
    BY <1>2, <2>4
  <2>11. \/ move \in ToSet(after) /\ \A m \in ToSet(after) : m.path # p
         \/ \E m \in ToSet(ns) : m.kind = "Create" /\ m.path = p
    <3>1. CASE next = move /\ ~sourceIsNew
      BY <1>4, <1>5, <2>4, <2>6, <3>1
    <3> QED BY <1>2, <3>1
  <2> QED BY <2>4, <2>6, <2>7, <2>8, <2>9, <2>10, <2>11 DEF NotedAsMoved, move
<1>8. NotedAsMoved(ns, after, p, q)
  <2>1. SUFFICES ASSUME NEW m \in ToSet(left), m.path = next.path, ~Apart(m, next, another)
                 PROVE  NotedAsMoved(ns, after, p, q)
    BY <1>6
  <2>2. PICK n : Latest(left, n) /\ n.path = next.path
    BY <1>4, <2>1, LatestThere
  <2>3. ~Apart(n, next, another)
    <3>1. n = m \/ n.kind = "Create"
      BY <2>1, <2>2 DEF Latest
    <3> QED BY <2>1, <3>1 DEF Apart
  <2> QED BY <1>7, <2>2, <2>3
<1> QED BY <1>1, <1>8

-----------------------------------------------------------------------------
(* The environment keeps what is known.                                     *)

\* What is known in a calm state.
LEMMA WhatIsKnown ==
    ASSUME IInv, Informed
    PROVE  /\ natives \in Seq(Named) /\ inbox \in Seq(Named) /\ Orderly(natives)
           /\ disk \in [Paths -> Files] /\ externals \in Nat /\ commands \in Nat
           /\ \A p \in Paths : Content(p) # Absent => disk[p].stamp # NoStamp
           /\ \A n \in ToSet(natives) : n \in Named
           /\ \A i \in DOMAIN inbox : inbox[i] \in Named
           /\ \A p \in Paths : Good(Flow, inbox, 0, reconcile, p)
           /\ Absent \notin Contents /\ Unreadable \notin Contents /\ Absent # Unreadable
           /\ Unknown \notin Contents /\ Texts \subseteq Contents
           /\ \A e \in expectations : e.stamp # NoStamp
           /\ \A p \in Paths : docs[p] # NoDocument => docs[p] \in Documents
           /\ NoPath \notin Paths
<1>1. Absent \notin Contents /\ Unreadable \notin Contents /\ Absent # Unreadable
      /\ Unknown \notin Contents
  BY ExternalAssumption DEF Absent, Unreadable, Unknown
<1>2. /\ \A n \in ToSet(natives) : n \in Named
      /\ \A i \in DOMAIN inbox : inbox[i] \in Named
  BY Parts, ElementOfSeq, LenProperties DEF ToSet
<1>3. /\ \A e \in expectations : e.stamp # NoStamp
      /\ \A p \in Paths : docs[p] # NoDocument => docs[p] \in Documents
  BY Parts
<1> QED BY <1>1, <1>2, <1>3, Parts DEF Informed, FilesThere, Counted, Texts

\* What has moved and was not followed yet is free, and nothing else is known of it.
LEMMA Movers ==
    ASSUME inbox \in Seq(Named), NEW p, Good(Flow, inbox, 0, reconcile, p)
    PROVE  /\ \A i \in DOMAIN inbox : MovesTo(inbox[i], p) => Free(Flow, p)
           /\ \A n \in ToSet(natives) : MovesTo(n, p) =>
                 Free(Flow, p) /\ n.previous # p /\ ~Delivered(p)
           /\ Arriving(p) <=> (\E i \in DOMAIN inbox : MovesTo(inbox[i], p))
                              \/ (\E n \in ToSet(natives) : MovesTo(n, p))
           /\ Free(Flow, p) <=> Content(p) \in Texts /\ docs[p] = NoDocument /\ p \notin ours
           /\ Off(Flow, p) => docs[p] # NoDocument
<1>1. \A i \in DOMAIN inbox : i \in Rest(inbox, 0)
  BY LenProperties DEF Rest
<1>2. /\ \A i \in DOMAIN inbox : MovesTo(inbox[i], p) => Free(Flow, p)
      /\ \A n \in ToSet(natives) : MovesTo(n, p) =>
            Free(Flow, p) /\ n.previous # p /\ ~Delivered(p)
  BY <1>1 DEF Good, Arrivals
<1>3. Free(Flow, p) <=> Content(p) \in Texts /\ docs[p] = NoDocument /\ p \notin ours
  BY FlowFields DEF Free
<1>4. Off(Flow, p) => docs[p] # NoDocument
  BY FlowFields DEF Off
<1> QED BY <1>2, <1>3, <1>4 DEF Arriving, Delivered, MovesTo

\* A step of another program: nothing is being saved.
LEMMA OthersStep ==
    ASSUME IInv, Calm, Informed, NEW kind, Another(kind), UNCHANGED world
    PROVE  /\ UNCHANGED <<inbox, docs, pending, expectations, saving, misanswered, commands>>
           /\ saving = NoPath /\ kind \in External /\ "Undo" \notin External
           /\ External \cap Races = {}
           /\ externals' = externals + 1 /\ NextStamp = externals + commands + 2
           /\ externals' \in Nat
           /\ Saving' /\ Flow' = [Flow EXCEPT !.selected = selected']
<1>1. "Race" \notin External /\ "Undo" \notin External /\ External \cap Races = {}
  BY DEF Calm, Faithful, Races
<1>2. UNCHANGED <<inbox, docs, pending, expectations, saving, misanswered, commands>>
  BY DEF Another, flowVars
<1>3. saving = NoPath /\ kind \in External /\ externals' = externals + 1
  BY <1>1 DEF Another
<1>4. NextStamp = externals + commands + 2 /\ externals' \in Nat
  BY <1>2, <1>3, WhatIsKnown DEF NextStamp
<1>5. Saving'
  BY <1>2, <1>3 DEF Saving
<1>6. Flow' = [Flow EXCEPT !.selected = selected']
  BY <1>2 DEF Flow
<1> QED BY <1>1, <1>2, <1>3, <1>4, <1>5, <1>6

\* A step that leaves the flow alone is about the paths whose notes it changes.
LEMMA OthersAlike ==
    ASSUME NEW p, UNCHANGED <<inbox, docs, pending, expectations, saving, misanswered>>,
           disk'[p] = disk[p], SameNotes(p), ours' \subseteq ours, reconcile => reconcile'
    PROVE  Alike(p)
BY DEF Alike, SameFlow, SameDocument

\* A file written by another program.
LEMMA WriteInforms ==
    ASSUME IInv, Calm, Informed, NEW q \in Paths, NEW c \in Contents, WriteFile(q, c),
           UNCHANGED world
    PROVE  Informed'
<1>1. /\ UNCHANGED <<inbox, docs, pending, expectations, saving, misanswered, commands>>
      /\ "MoveAgain" \notin External
      /\ externals' = externals + 1 /\ NextStamp = externals + commands + 2
      /\ Saving' /\ reconcile' = reconcile /\ ours' = ours \ {q}
      /\ c \in Texts \/ ~Arriving(q)
  <2>1. "MoveAgain" \notin External
    BY DEF Calm, Faithful, Races
  <2> QED BY <2>1, OthersStep DEF WriteFile, Touched, LeftAlone
<1>2. /\ disk' = [disk EXCEPT ![q] = [content |-> c, stamp |-> externals + commands + 2]]
      /\ \E kind \in {"Create", "Modify"}, another \in BOOLEAN :
            /\ natives' = Enqueued(natives, Native(kind, q, NoPath, NoStamp), another)
            /\ kind = "Create" => Content(q) = Absent
  <2>1. c # Absent
    BY WhatIsKnown
  <2> QED BY <1>1, <2>1 DEF WriteFile, Changed
<1>3. \A p \in Paths : Content(p)' = IF p = q THEN c ELSE Content(p)
  BY <1>2, WhatIsKnown DEF Content
<1>4. disk'[q].stamp = externals + commands + 2
      /\ \A p \in Paths : p # q => disk'[p] = disk[p]
  BY <1>2, WhatIsKnown
<1>5. Wrote(natives, natives', q)
  <2>1. PICK kind \in {"Create", "Modify"}, another \in BOOLEAN :
            /\ natives' = Enqueued(natives, Native(kind, q, NoPath, NoStamp), another)
            /\ kind = "Create" => Content(q) = Absent
    BY <1>2
  <2>2. Content(q) = Absent => \A n \in ToSet(natives) : ~MovesTo(n, q)
    BY Movers, WhatIsKnown
  <2> QED BY <2>1, <2>2, WriteNoted, WhatIsKnown
<1>6. ASSUME NEW p \in Paths, p # q PROVE Alike(p)
  <2>1. SameNotes(p)
    BY <1>5, <1>6 DEF Wrote, SameNotes, Concerns, About
  <2> QED BY <1>1, <1>4, <1>6, <2>1, OthersAlike
<1>7. \A s : [path |-> q, stamp |-> s] \in expectations' => s # disk'[q].stamp
  BY <1>1, <1>4, WhatIsKnown DEF Informed, Stamps
<1>8. Good(Flow, inbox, 0, reconcile, q)'
  <2>1. Good(Flow, inbox, 0, reconcile, q) /\ inbox \in Seq(Named)
    BY WhatIsKnown
  <2>2. Flow'.docs = Flow.docs /\ Flow'.expectations = Flow.expectations
        /\ Flow.docs = docs /\ Flow.expectations = expectations
    BY <1>1 DEF Flow
  <2>3. (\/ \E i \in DOMAIN inbox : MovesTo(inbox[i], q)
         \/ \E n \in ToSet(natives) : MovesTo(n, q))
           => c \in Texts /\ docs[q] = NoDocument /\ Free(Flow, q)'
    BY <1>1, <1>3, <2>1, <2>2, Movers DEF Free
  <2>4. \A n \in ToSet(natives') : MovesTo(n, q) => n \in ToSet(natives)
    BY <1>5 DEF Wrote, MovesTo
  <2>5. Arrivals(Flow, inbox, 0, q)'
    <3>1. \A s : Expects(Flow, q, s)' <=> Expects(Flow, q, s)
      BY <2>2 DEF Expects
    <3>2. Rest(inbox, 0)' = Rest(inbox, 0) /\ (Delivered(q)' <=> Delivered(q)) /\ inbox' = inbox
      BY <1>1 DEF Delivered
    <3>3. ~Expects(Flow, q, disk[q].stamp)'
      BY <1>1, <1>7, <2>2 DEF Expects
    <3>4. \A i \in Rest(inbox, 0) : i \in DOMAIN inbox
      BY DEF Rest
    <3> QED BY <2>1, <2>3, <2>4, <3>1, <3>2, <3>3, <3>4 DEF Good, Arrivals
  <2>6. Removals(Flow, q)'
    <3>1. Content(q)' # Absent
      BY <1>3, WhatIsKnown
    <3> QED BY <1>5, <3>1 DEF Wrote, Removals, Created
  <2>7. Agreement(Flow, q)'
    BY <1>1, <1>7, <2>2 DEF Agreement, Expects
  <2>8. Off(Flow, q)' => Excused(q, reconcile)'
    <3>1. Off(Flow, q)' => docs[q] # NoDocument
      BY <2>2 DEF Off
    <3>2. (\E n \in ToSet(natives') : n.path = q /\ n.kind \notin {"Remove", "Rename"})
             => Noticed(q)'
      BY DEF Noticed, About
    <3> QED BY <1>5, <2>3, <3>1, <3>2 DEF Wrote, Excused
  <2>9. Reports(Flow, inbox, 0, reconcile, q)' /\ Known(Flow, inbox, 0, reconcile, q)'
    BY <2>8 DEF Reports, Known
  <2>10. Mended(Flow, inbox, 0, q)'
    BY <1>1 DEF Mended
  <2> QED BY <2>5, <2>6, <2>7, <2>9, <2>10 DEF Good
<1>9. Stamps'
  <2>1. /\ \A p \in Paths : disk[p].stamp \in Nat
        /\ \A e \in expectations : e.stamp <= externals + commands + 1
    BY WhatIsKnown DEF Informed, Stamps, Files
  <2>2. /\ \A p \in Paths : /\ disk'[p].stamp <= externals' + commands' + 1
                            /\ Content(p)' = Absent => disk'[p].stamp = NoStamp
    BY <1>1, <1>3, <1>4, <2>1, WhatIsKnown DEF Informed, Stamps
  <2>3. \A e \in expectations : e.stamp \in Nat
    BY Parts
  <2>4. \A e \in expectations : /\ e.stamp <= externals' + commands' + 1
                                /\ \A r \in Paths : disk'[r].stamp = e.stamp => r = e.path
    BY <1>1, <1>4, <2>1, <2>3, WhatIsKnown DEF Informed, Stamps
  <2> QED BY <1>1, <2>2, <2>4 DEF Stamps
<1>10. \A p \in Paths : Good(Flow, inbox, 0, reconcile, p)'
  BY <1>6, <1>8, AlikeKeeps, WhatIsKnown
<1> QED BY <1>1, <1>5, <1>9, <1>10 DEF Informed, Wrote

\* What the bound on stamps needs of numbers.
LEMMA Sums ==
    /\ \A i, j, k, l \in Nat : i + j <= k + l => i + j + 1 <= k + l + 1
    /\ \A i, j \in Nat : i + j \in Nat /\ i + j + 1 \in Nat
    /\ \A i, j, l \in Nat : j <= l => i + j <= i + l
OBVIOUS

\* Files that keep their stamp or lose it.
LEMMA StampsStay ==
    ASSUME IInv, Informed, expectations' = expectations,
           externals' \in Nat, commands' \in Nat,
           externals + commands <= externals' + commands',
           \A p \in Paths : /\ disk'[p].stamp \in {NoStamp, disk[p].stamp}
                            /\ Content(p)' = Absent => disk'[p].stamp = NoStamp
    PROVE  Stamps'
<1>1. /\ \A p \in Paths : disk[p].stamp \in Nat
      /\ \A e \in expectations : e.stamp \in Nat /\ e.stamp # NoStamp
  BY WhatIsKnown, Parts DEF Files
<1>2. Stamps /\ externals \in Nat /\ commands \in Nat
  BY WhatIsKnown DEF Informed
<1> DEFINE b == externals + commands + 1
           c == externals' + commands' + 1
<1>3. b \in Nat /\ c \in Nat /\ b <= c
  BY <1>2, Sums, Zenon
<1>4. /\ \A p \in Paths : disk[p].stamp <= b
      /\ \A e \in expectations : e.stamp <= b
      /\ \A e \in expectations : \A r \in Paths : disk[r].stamp = e.stamp => r = e.path
  BY <1>2 DEF Stamps
<1> HIDE DEF b, c
<1>5. \A p \in Paths : disk'[p].stamp <= c
  BY <1>1, <1>3, <1>4 DEF NoStamp
<1>6. \A e \in expectations : e.stamp <= c
  BY <1>1, <1>3, <1>4
<1>7. \A e \in expectations : \A r \in Paths : disk'[r].stamp = e.stamp => r = e.path
  BY <1>1, <1>4
<1> QED BY <1>5, <1>6, <1>7 DEF Stamps, c

\* The notes of a file that goes, and of its source where it had just moved.
LEMMA RemoveInforms ==
    ASSUME IInv, Calm, Informed, NEW q \in Paths, RemoveFile(q), UNCHANGED world
    PROVE  Informed'
<1>1. /\ UNCHANGED <<inbox, docs, pending, expectations, saving, misanswered, commands>>
      /\ externals' = externals + 1 /\ externals' \in Nat
      /\ Saving' /\ reconcile' = reconcile /\ ours' = ours \ {q}
      /\ Content(q) # Absent /\ ~Undoes(q) /\ ~Delivered(q) /\ ~Unreported(q) /\ ~Fresh(q)
  <2>1. "MoveAgain" \notin External /\ "Race" \notin External
    BY DEF Calm, Faithful, Races
  <2> QED BY <2>1, OthersStep DEF RemoveFile, Touched
<1>2. PICK seen \in {disk[q].stamp, NoStamp} :
         /\ disk' = [disk EXCEPT ![q] = [content |-> Absent, stamp |-> NoStamp]]
         /\ natives' = Enqueued(natives, Native("Remove", q, NoPath, seen), FALSE)
  BY DEF RemoveFile, Changed
<1> DEFINE next == Native("Remove", q, NoPath, seen)
<1>3. seen \in Nat
  BY <1>2, WhatIsKnown DEF Files, NoStamp
<1>4. /\ \A p \in Paths : Content(p)' = IF p = q THEN Absent ELSE Content(p)
      /\ disk'[q].stamp = NoStamp
      /\ \A p \in Paths : p # q => disk'[p] = disk[p]
  BY <1>2, WhatIsKnown DEF Content
<1>5. \A s : [path |-> q, stamp |-> s] \in expectations => s # seen /\ s # NoStamp
  BY <1>1, <1>2, WhatIsKnown DEF Unreported
<1>6. Stamps'
  BY <1>1, <1>4, StampsStay, WhatIsKnown DEF Informed, Stamps
<1>7. /\ Flow'.docs = docs /\ Flow'.expectations = expectations
      /\ Flow.docs = docs /\ Flow.expectations = expectations
  BY <1>1 DEF Flow
<1>8. \A p \in Paths : /\ Good(Flow, inbox, 0, reconcile, p)
                       /\ inbox \in Seq(Named)
  BY WhatIsKnown
<1>9. \A i \in DOMAIN inbox : ~MovesTo(inbox[i], q)
  BY <1>1 DEF Delivered, MovesTo
<1>10. ASSUME /\ \A n \in ToSet(natives') : n.path = q =>
                    n.kind = "Remove" /\ (n = next \/ docs[q] = NoDocument)
              /\ Off(Flow, q)' => next \in ToSet(natives')
       PROVE  Good(Flow, inbox, 0, reconcile, q)'
  <2>1. next.kind = "Remove" /\ next.path = q /\ next.stamp = seen
    BY DEF Native
  <2> HIDE DEF next
  <2>2. \A n \in ToSet(natives') : ~MovesTo(n, q)
    BY <1>10, <2>1 DEF MovesTo
  <2>3. Removals(Flow, q)'
    <3>1. ~Created(q)'
      BY <1>10 DEF Created
    <3> QED BY <1>1, <1>4, <1>5, <1>7, <1>10, <2>1, <3>1 DEF Removals, Expects
  <2>4. Agreement(Flow, q)'
    BY <1>1, <1>4, <1>5, <1>7 DEF Agreement, Expects
  <2>5. Off(Flow, q)' => Noticed(q)'
    BY <1>10, <2>1 DEF Noticed, About
  <2>6. Mended(Flow, inbox, 0, q)'
    BY <1>1 DEF Mended
  <2> QED BY <1>1, <1>9, <2>2, <2>3, <2>4, <2>5, <2>6, PlainIsGood DEF Plain
<1>11. Off(Flow, q)' => docs[q] # NoDocument
  BY <1>7 DEF Off
<1>12. CASE \A n \in ToSet(natives) : ~MovesTo(n, q)
  <2>1. Dropped(natives, natives', q, next)
    BY <1>2, <1>3, <1>12, RemovalNoted, WhatIsKnown
  <2> HIDE DEF next
  <2>2. Off(Flow, q)' => next \in ToSet(natives')
    BY <1>1, <1>11, <2>1 DEF Dropped, Fresh, IsOpen
  <2>3. Good(Flow, inbox, 0, reconcile, q)'
    <3>1. (\E m \in ToSet(natives) : m.kind = "Create" /\ m.path = q) => docs[q] = NoDocument
      BY <1>1 DEF Fresh, IsOpen
    <3> QED BY <1>10, <2>1, <2>2, <3>1 DEF Dropped, next
  <2>4. ASSUME NEW p \in Paths, p # q PROVE Alike(p)
    <3>1. SameNotes(p)
      <4>1. next.kind = "Remove"
        BY DEF next, Native
      <4> QED BY <1>12, <2>1, <2>4, <4>1 DEF Dropped, SameNotes, Concerns, About, MovesTo
    <3> QED BY <1>1, <1>4, <2>4, <3>1, OthersAlike
  <2> QED BY <1>1, <1>6, <1>8, <2>1, <2>3, <2>4, AlikeKeeps DEF Informed, Dropped
<1>13. ASSUME NEW n \in ToSet(natives), MovesTo(n, q)
       PROVE  Informed'
  <2> DEFINE s == n.previous
             back == Native("Remove", s, q, seen)
  <2>1. /\ n \in Named /\ s \in Paths /\ s # q /\ docs[q] = NoDocument
        /\ \A m \in ToSet(natives) : m.path = q => m = n
    <3>1. n \in Named
      BY WhatIsKnown
    <3>2. \A m \in ToSet(natives) : m.path = q => m = n
      BY <1>13, WhatIsKnown, OrderlyNotes DEF MovesTo
    <3> QED BY <1>8, <1>13, <3>1, <3>2, Movers DEF Named, MovesTo
  <2>2. Content(s) = Absent /\ \A m \in ToSet(natives) : m.path # s
    <3>1. PICK i \in DOMAIN natives : natives[i] = n
      BY DEF ToSet
    <3>2. i \in Noted(natives, q)
      <4>1. \A j \in DOMAIN natives : natives[j].path = q => j <= i
        <5>1. \A j \in DOMAIN natives : natives[j].path = q => j = i
          BY <1>13, <3>1, WhatIsKnown, OrderlyNotes DEF MovesTo
        <5> QED BY <5>1, WhatIsKnown, LenProperties
      <4> QED BY <1>13, <3>1, <4>1 DEF Noted, MovesTo
    <3>3. Content(s) = Absent /\ Noted(natives, s) = {}
      BY <1>1, <1>13, <3>1, <3>2 DEF Undoes, MovesTo
    <3>4. ASSUME NEW m \in ToSet(natives), m.path = s PROVE FALSE
      <4>1. PICK o : Latest(natives, o) /\ o.path = s
        BY <3>4, LatestThere, WhatIsKnown
      <4>2. PICK k \in DOMAIN natives : Noted(natives, o.path) = {k}
        <5>1. natives \in Seq(Named) /\ Orderly(natives)
          BY WhatIsKnown
        <5> QED BY <4>1, <5>1, LatestAt
      <4> QED BY <3>3, <4>1, <4>2
    <3> QED BY <3>3, <3>4
  <2>3. ToSet(natives') = (ToSet(natives) \ {n}) \cup {back} /\ Orderly(natives')
    <3>1. GivesWay(natives, natives', n, back)
      BY <1>2, <1>3, <1>13, <2>2, MoveUndone, WhatIsKnown
    <3> QED BY <3>1 DEF GivesWay
  <2>4. back.kind = "Remove" /\ back.path = s /\ back.stamp = seen
    BY DEF Native
  <2> HIDE DEF s, back, next
  <2>5. n.path = q /\ About(n) = s /\ About(back) = s /\ n.kind = "Rename"
    BY <1>13, <2>4 DEF About, MovesTo, s
  <2>6. Good(Flow, inbox, 0, reconcile, q)'
    <3>1. \A m \in ToSet(natives') : m.path # q
      BY <2>1, <2>3, <2>4
    <3> QED BY <1>10, <1>11, <2>1, <3>1
  <2>7. Good(Flow, inbox, 0, reconcile, s)'
    <3>1. \A i \in DOMAIN inbox : ~MovesTo(inbox[i], s)
      BY <1>8, <2>1, <2>2, Movers, WhatIsKnown
    <3>2. \A m \in ToSet(natives') : ~MovesTo(m, s)
      BY <2>2, <2>3, <2>4 DEF MovesTo
    <3>3. [path |-> s, stamp |-> seen] \notin expectations
      BY <1>2, <2>1, WhatIsKnown DEF Informed, Stamps
    <3>4. Removals(Flow, s)'
      <4>1. \A m \in ToSet(natives') : m.path = s => m = back
        BY <2>2, <2>3, <2>4
      <4>2. ~Created(s)'
        BY <2>4, <4>1 DEF Created
      <4> QED BY <1>4, <1>7, <2>1, <2>2, <2>4, <3>3, <4>1, <4>2 DEF Removals, Expects
    <3>5. Agreement(Flow, s)'
      BY <1>1, <1>4, <1>7, <1>8, <2>1 DEF Good, Agreement, Expects
    <3>6. Noticed(s)'
      BY <2>3, <2>5 DEF Noticed
    <3>7. Mended(Flow, inbox, 0, s)'
      <4>1. s \notin ours
        BY <1>8, <2>1, <2>2, WhatIsKnown DEF Good, Mended
      <4> QED BY <1>1, <4>1 DEF Mended
    <3> QED BY <1>1, <3>1, <3>2, <3>4, <3>5, <3>6, <3>7, PlainIsGood DEF Plain
  <2>8. ASSUME NEW p \in Paths, p # q, p # s PROVE Alike(p)
    <3>1. SameNotes(p)
      BY <2>3, <2>4, <2>5, <2>8 DEF SameNotes, Concerns
    <3> QED BY <1>1, <1>4, <2>8, <3>1, OthersAlike
  <2> QED BY <1>1, <1>6, <1>8, <2>3, <2>6, <2>7, <2>8, AlikeKeeps DEF Informed
<1> QED BY <1>12, <1>13

\* A file that can no more be read.
LEMMA HideInforms ==
    ASSUME IInv, Calm, Informed, NEW q \in Paths, HideFile(q), UNCHANGED world
    PROVE  Informed'
<1>1. /\ UNCHANGED <<inbox, docs, pending, expectations, saving, misanswered, commands>>
      /\ externals' = externals + 1 /\ externals' \in Nat
      /\ Saving' /\ reconcile' = reconcile /\ ours' = ours \ {q}
      /\ Content(q) \in Contents /\ ~Arriving(q) /\ ~Unreported(q)
  <2>1. "MoveAgain" \notin External /\ "Race" \notin External
    BY DEF Calm, Faithful, Races
  <2> QED BY <2>1, OthersStep DEF HideFile, Touched, LeftAlone
<1>2. /\ disk' = [disk EXCEPT ![q] = [content |-> Unreadable, stamp |-> disk[q].stamp]]
      /\ \E another \in BOOLEAN :
            natives' = Enqueued(natives, Native("Modify", q, NoPath, NoStamp), another)
  <2>1. Unreadable # Absent /\ Content(q) # Absent
    BY <1>1, WhatIsKnown
  <2> QED BY <2>1 DEF HideFile, Changed
<1>3. /\ \A p \in Paths : Content(p)' = IF p = q THEN Unreadable ELSE Content(p)
      /\ disk'[q].stamp = disk[q].stamp
      /\ \A p \in Paths : p # q => disk'[p] = disk[p]
  BY <1>2, WhatIsKnown DEF Content
<1>4. Stamps'
  BY <1>1, <1>3, StampsStay, WhatIsKnown DEF Informed, Stamps
<1>5. /\ \A p \in Paths : Good(Flow, inbox, 0, reconcile, p)
      /\ \A i \in DOMAIN inbox : ~MovesTo(inbox[i], q)
      /\ \A n \in ToSet(natives) : ~MovesTo(n, q)
  BY <1>1, Movers, WhatIsKnown
<1>6. Wrote(natives, natives', q)
  <2>1. PICK another \in BOOLEAN :
            natives' = Enqueued(natives, Native("Modify", q, NoPath, NoStamp), another)
    BY <1>2
  <2> QED BY <2>1, WriteNoted, WhatIsKnown
<1>7. ASSUME NEW p \in Paths, p # q PROVE Alike(p)
  <2>1. SameNotes(p)
    BY <1>6, <1>7 DEF Wrote, SameNotes, Concerns, About
  <2> QED BY <1>1, <1>3, <1>7, <2>1, OthersAlike
<1>8. Good(Flow, inbox, 0, reconcile, q)'
  <2>1. Flow'.docs = docs /\ Flow'.expectations = expectations
    BY <1>1 DEF Flow
  <2>2. \A n \in ToSet(natives') : ~MovesTo(n, q)
    BY <1>5, <1>6 DEF Wrote, MovesTo
  <2>3. Removals(Flow, q)'
    <3>1. Content(q)' # Absent
      BY <1>3, WhatIsKnown
    <3> QED BY <1>6, <3>1 DEF Wrote, Removals, Created
  <2>4. Agreement(Flow, q)'
    BY <1>1, <1>3, <2>1 DEF Agreement, Expects, Unreported
  <2>5. Noticed(q)'
    BY <1>5, <1>6 DEF Wrote, Noticed, About
  <2>6. Mended(Flow, inbox, 0, q)'
    BY <1>1 DEF Mended
  <2> QED BY <1>1, <1>5, <2>2, <2>3, <2>4, <2>5, <2>6, PlainIsGood DEF Plain
<1> QED BY <1>1, <1>4, <1>5, <1>6, <1>7, <1>8, AlikeKeeps DEF Informed, Wrote

\* A file moved by another program.
LEMMA MoveInforms ==
    ASSUME IInv, Calm, Informed, NEW p \in Paths, NEW q \in Paths, MoveFile(p, q),
           UNCHANGED world
    PROVE  Informed'
<1> DEFINE move == Native("Rename", q, p, NoStamp)
<1>1. /\ UNCHANGED <<inbox, docs, pending, expectations, saving, misanswered, commands>>
      /\ externals' = externals + 1 /\ externals' \in Nat
      /\ Saving' /\ reconcile' = reconcile /\ ours' = ours \ {p, q}
      /\ p # q /\ Content(p) \in Texts /\ Content(q) = Absent /\ docs[q] = NoDocument
      /\ ~Arriving(p) /\ ~Unreported(p) /\ ~Fresh(p)
  <2>1. "MoveAgain" \notin External /\ "Race" \notin External /\ "Replace" \notin External
    BY DEF Calm, Faithful, Races
  <2> QED BY <2>1, OthersStep DEF MoveFile, Touched, LeftAlone, IsOpen
<1>2. /\ disk' = [disk EXCEPT ![q] = disk[p],
                              ![p] = [content |-> Absent, stamp |-> NoStamp]]
      /\ \E another \in BOOLEAN : natives' = Renamed(natives, p, q, FALSE, another)
  BY <1>1 DEF MoveFile, Moved
<1>3. /\ \A r \in Paths : Content(r)' = IF r = p THEN Absent ELSE IF r = q THEN Content(p)
                                                             ELSE Content(r)
      /\ disk'[p].stamp = NoStamp /\ disk'[q].stamp = disk[p].stamp
      /\ \A r \in Paths : r # p /\ r # q => disk'[r] = disk[r]
  BY <1>1, <1>2, WhatIsKnown DEF Content
<1>4. \A e \in expectations : e.stamp # disk[p].stamp /\ e.stamp # NoStamp
  BY <1>1, WhatIsKnown DEF Unreported
<1>5. /\ \A r \in Paths : Good(Flow, inbox, 0, reconcile, r)
      /\ \A i \in DOMAIN inbox : ~MovesTo(inbox[i], p) /\ ~MovesTo(inbox[i], q)
      /\ \A n \in ToSet(natives) : ~MovesTo(n, p) /\ ~MovesTo(n, q)
  BY <1>1, Movers, WhatIsKnown
<1>6. NotedAsMoved(natives, natives', p, q)
  <2>1. PICK another \in BOOLEAN : natives' = Renamed(natives, p, q, FALSE, another)
    BY <1>2
  <2>2. \A n \in ToSet(natives) : n.path = q => n.kind # "Create"
    BY <1>1, <1>5 DEF Good, Removals, Created
  <2> QED BY <1>1, <1>5, <2>1, <2>2, MoveNoted, WhatIsKnown
<1>7. move.kind = "Rename" /\ move.path = q /\ move.previous = p /\ About(move) = p
  BY DEF Native, About
<1>8. NotedAsMoved(natives, natives', p, q) =>
         /\ Orderly(natives')
         /\ \A n : n.path \notin {p, q} => (n \in ToSet(natives') <=> n \in ToSet(natives))
         /\ \A n \in ToSet(natives') : n.path = p => n.kind = "Remove"
         /\ \A n \in ToSet(natives') : n.path = q =>
               /\ n.kind = "Remove" =>
                     \E m \in ToSet(natives') : m.kind = "Create" /\ m.path = q
               /\ n.kind = "Rename" => n = move
         /\ \/ move \in ToSet(natives') /\ \A n \in ToSet(natives') : n.path # p
            \/ \E n \in ToSet(natives) : n.kind = "Create" /\ n.path = p
  BY DEF NotedAsMoved
<1> HIDE DEF move
<1>9. Flow'.docs = docs /\ Flow'.expectations = expectations
  BY <1>1 DEF Flow
<1>10. ASSUME NEW r \in Paths, r # p, r # q PROVE Alike(r)
  <2>1. SameNotes(r)
    <3> SUFFICES ASSUME NEW n, Concerns(n, r)
                 PROVE  n \in ToSet(natives') <=> n \in ToSet(natives)
      BY DEF SameNotes
    <3>1. CASE n.path \notin {p, q}
      BY <1>6, <1>8, <3>1
    <3>2. CASE n.path \in {p, q}
      BY <1>5, <1>6, <1>7, <1>8, <1>10, <3>2 DEF Concerns, About, MovesTo
    <3> QED BY <3>1, <3>2
  <2> QED BY <1>1, <1>3, <1>10, <2>1, OthersAlike
<1>11. Good(Flow, inbox, 0, reconcile, p)'
  <2>1. Off(Flow, p)' => Noticed(p)'
    <3>1. Off(Flow, p)' => docs[p] # NoDocument
      BY <1>9 DEF Off
    <3>2. move \in ToSet(natives') => Noticed(p)'
      BY <1>7 DEF Noticed
    <3> QED BY <1>1, <1>6, <1>8, <3>1, <3>2 DEF Fresh, IsOpen
  <2>2. Removals(Flow, p)' /\ Mended(Flow, inbox, 0, p)'
    <3>1. docs[p] = NoDocument \/ \A n \in ToSet(natives') : n.path # p
      BY <1>1, <1>6, <1>8 DEF Fresh, IsOpen
    <3>2. ~Created(p)' /\ Content(p)' = Absent
      BY <1>3, <1>6, <1>8 DEF Created
    <3> QED BY <1>1, <1>9, <3>1, <3>2 DEF Removals, Mended
  <2>3. Agreement(Flow, p)'
    BY <1>3, <1>4, <1>9 DEF Agreement, Expects
  <2>4. \A n \in ToSet(natives') : ~MovesTo(n, p)
    BY <1>6, <1>8 DEF MovesTo
  <2> QED BY <1>1, <1>5, <2>1, <2>2, <2>3, <2>4, PlainIsGood DEF Plain
<1>12. Good(Flow, inbox, 0, reconcile, q)'
  <2>1. ~Off(Flow, q)' /\ Free(Flow, q)'
    BY <1>1, <1>3, <1>9 DEF Off, Free
  <2>2. Arrivals(Flow, inbox, 0, q)'
    <3>1. \A n \in ToSet(natives') : MovesTo(n, q) => n.previous # q
      BY <1>1, <1>6, <1>7, <1>8 DEF MovesTo
    <3>2. ~Expects(Flow, q, disk[q].stamp)' /\ ~Delivered(q)'
      BY <1>1, <1>3, <1>4, <1>5, <1>9 DEF Expects, Delivered, MovesTo
    <3>3. \A i \in Rest(inbox, 0)' : ~MovesTo(inbox'[i], q)
      BY <1>1, <1>5 DEF Rest
    <3> QED BY <2>1, <3>1, <3>2, <3>3 DEF Arrivals
  <2>3. Removals(Flow, q)' /\ Agreement(Flow, q)' /\ Mended(Flow, inbox, 0, q)'
    <3>1. Content(q)' # Absent
      BY <1>1, <1>3, WhatIsKnown
    <3> QED BY <1>1, <1>6, <1>8, <1>9, <3>1 DEF Removals, Created, Agreement, Mended
  <2> QED BY <2>1, <2>2, <2>3 DEF Good, Reports, Known
<1>13. Stamps'
  <2>1. /\ \A r \in Paths : disk[r].stamp \in Nat /\ disk[r].stamp <= externals + commands + 1
        /\ externals \in Nat /\ commands \in Nat
        /\ \A e \in expectations : e.stamp \in Nat /\ e.stamp <= externals + commands + 1
    BY WhatIsKnown, Parts DEF Informed, Stamps, Files
  <2>2. Content(p) # Absent
    BY <1>1, WhatIsKnown
  <2>3. \A r \in Paths : /\ disk'[r].stamp <= externals' + commands' + 1
                         /\ Content(r)' = Absent => disk'[r].stamp = NoStamp
    BY <1>1, <1>3, <2>1, <2>2 DEF Informed, Stamps, NoStamp
  <2>4. \A e \in expectations : e.stamp <= externals' + commands' + 1
    BY <1>1, <2>1
  <2>5. \A e \in expectations : \A r \in Paths : disk'[r].stamp = e.stamp => r = e.path
    BY <1>3, <1>4 DEF Informed, Stamps
  <2> QED BY <1>1, <2>3, <2>4, <2>5 DEF Stamps
<1> QED BY <1>1, <1>5, <1>6, <1>8, <1>10, <1>11, <1>12, <1>13, AlikeKeeps DEF Informed

\* What is lost is made up for by a comparison with the disk.
LEMMA OverflowInforms ==
    ASSUME IInv, Calm, Informed, Overflow, UNCHANGED world
    PROVE  Informed'
<1>1. /\ UNCHANGED <<inbox, docs, pending, expectations, saving, misanswered, commands, disk>>
      /\ externals' = externals + 1 /\ externals' \in Nat /\ saving = NoPath
      /\ Saving' /\ reconcile' = TRUE
  BY OthersStep DEF Overflow
<1> PICK cached \in SUBSET PathsOf(natives) :
       /\ natives' \in SetToSeqs(LastNotes(natives, PathsOf(natives) \ cached))
       /\ ours' = ours \ cached
  BY DEF Overflow
<1>2. Stamps'
  BY <1>1, StampsStay, WhatIsKnown DEF Informed, Stamps, Content
<1>3. natives \in Seq(Named) /\ Orderly(natives)
  BY DEF IInv, EventsNamed, Informed
<1>4. /\ ToSet(natives') = LastNotes(natives, PathsOf(natives) \ cached)
      /\ natives' \in Seq(Named)
      /\ \A i, j \in DOMAIN natives' : i # j => natives'[i] # natives'[j]
  BY <1>3, LastNotesIn
\* What is told of a path is what was noted last.
<1>5. \A n \in ToSet(natives') : Latest(natives, n)
  <2>1. ASSUME NEW n \in ToSet(natives') PROVE Latest(natives, n)
    <3> PICK q \in PathsOf(natives) \ cached : \E i \in Noted(natives, q) : n = natives[i]
      BY <1>4, <2>1 DEF LastNotes
    <3>1. PICK i \in Noted(natives, q) : n = natives[i]
      OBVIOUS
    <3>2. i \in DOMAIN natives /\ natives[i].path = q
          /\ \A j \in DOMAIN natives : natives[j].path = q => j <= i
      BY <3>1 DEF Noted
    <3>3. n \in ToSet(natives)
      BY <3>1, <3>2 DEF ToSet
    <3>4. ASSUME NEW o \in ToSet(natives), o.path = n.path, o # n PROVE n.kind = "Create"
      <4>1. PICK j \in DOMAIN natives : natives[j] = o
        BY DEF ToSet
      <4>2. j < i
        BY <1>3, <3>1, <3>2, <3>4, <4>1, LenProperties
      <4> QED BY <1>3, <3>1, <3>2, <3>4, <4>1, <4>2 DEF Orderly
    <3> QED BY <3>3, <3>4 DEF Latest
  <2> QED BY <2>1
<1>6. \A n, o \in ToSet(natives') : n.path = o.path => n = o
  <2>1. ASSUME NEW n \in ToSet(natives'), NEW o \in ToSet(natives'), n.path = o.path
        PROVE  n = o
    <3>1. Latest(natives, n) /\ Latest(natives, o)
      BY <1>5
    <3> QED BY <1>3, <2>1, <3>1, OrderlyNotes DEF Latest
  <2> QED BY <2>1
<1>7. Orderly(natives')
  <2>1. ASSUME NEW i \in DOMAIN natives', NEW j \in DOMAIN natives', i < j,
               natives'[i].path = natives'[j].path
        PROVE  FALSE
    <3>1. natives'[i] = natives'[j]
      BY <1>6, <2>1 DEF ToSet
    <3>2. i # j
      BY <1>4, <2>1, LenProperties
    <3> QED BY <1>4, <3>1, <3>2
  <2> QED BY <2>1 DEF Orderly
<1>8. /\ Flow'.docs = docs /\ Flow'.expectations = expectations /\ Flow'.pending = pending
      /\ Flow.docs = docs /\ Flow.expectations = expectations /\ Flow.pending = pending
  BY <1>1 DEF Flow
<1>9. ASSUME NEW p \in Paths PROVE Good(Flow, inbox, 0, reconcile, p)'
  <2>1. Good(Flow, inbox, 0, reconcile, p) /\ Content(p)' = Content(p)
    BY <1>1, WhatIsKnown DEF Content
  <2>2. /\ \A s : Expects(Flow, p, s)' <=> Expects(Flow, p, s)
        /\ Free(Flow, p) => Free(Flow, p)'
    BY <1>1, <1>8, <2>1 DEF Expects, Free
  <2>3. ToSet(natives') \subseteq ToSet(natives)
    BY <1>5 DEF Latest
  <2>4. Arrivals(Flow, inbox, 0, p)'
    BY <1>1, <2>1, <2>2, <2>3 DEF Good, Arrivals, Delivered
  <2>5. Removals(Flow, p)'
    <3>1. Created(p)' => Content(p)' # Absent
      BY <2>1, <2>3 DEF Good, Removals, Created
    <3>2. ASSUME NEW n \in ToSet(natives'), n.kind = "Remove", n.path = p
          PROVE  ~Created(p)
      BY <1>5, <3>2 DEF Latest, Created
    <3> QED BY <1>1, <1>8, <2>1, <2>2, <2>3, <3>1, <3>2 DEF Good, Removals
  <2>6. Agreement(Flow, p)'
    BY <1>1, <1>8, <2>1, <2>2 DEF Good, Agreement
  <2>7. Reports(Flow, inbox, 0, reconcile, p)' /\ Known(Flow, inbox, 0, reconcile, p)'
    BY <1>1 DEF Reports, Known, Excused
  <2>8. Mended(Flow, inbox, 0, p)'
    <3>1. SUFFICES ASSUME p \in ours' PROVE Mended(Flow, inbox, 0, p)'
      BY DEF Mended
    <3>2. p \in ours /\ p \notin cached
      BY <3>1
    <3>3. ASSUME NEW n \in ToSet(natives), n.path = p, n.kind \notin {"Remove", "Rename"}
          PROVE  n \in ToSet(natives')
      <4>1. Latest(natives, n)
        BY <1>3, <3>3, OrderlyNotes DEF Latest
      <4>2. PICK i \in DOMAIN natives : natives[i] = n /\ Noted(natives, p) = {i}
        BY <1>3, <3>3, <4>1, LatestAt
      <4>3. p \in PathsOf(natives)
        BY <3>3, <4>2 DEF PathsOf
      <4> QED BY <1>4, <3>2, <4>2, <4>3 DEF LastNotes
    <3>4. Unheard(Flow, inbox, 0, p) => Unheard(Flow, inbox, 0, p)'
      BY <1>1, <2>2, <3>3 DEF Unheard
    <3> QED BY <1>1, <1>8, <2>1, <3>2, <3>4 DEF Good, Mended
  <2> QED BY <2>4, <2>5, <2>6, <2>7, <2>8 DEF Good
<1> QED BY <1>1, <1>2, <1>7, <1>9 DEF Informed

\* The debounce of a change is over: what was noted is now to be ingested.
LEMMA DeliverInforms ==
    ASSUME IInv, Calm, Informed, NEW i \in DOMAIN natives, Deliver(i), UNCHANGED world
    PROVE  Informed'
<1> DEFINE n == natives[i]
           e == IF n.kind = "Remove" THEN n ELSE [n EXCEPT !.stamp = disk[n.path].stamp]
           L == Len(inbox)
<1>1. /\ natives' = RemoveAt(natives, i) /\ inbox' = Append(inbox, e)
      /\ UNCHANGED <<disk, reconcile, docs, pending, expectations, saving, misanswered,
                     ours, externals, commands>>
  BY DEF Deliver, flowVars, observerVars
<1>0. \A j \in DOMAIN natives : j < i => natives[j].path # n.path
  <2>1. DOMAIN natives = 1..Len(natives) /\ Len(natives) \in Nat
    BY WhatIsKnown, LenProperties
  <2>2. "Undo" \notin External
    BY DEF Calm
  <2>3. \A j \in 1..i - 1 : natives[j].path # n.path
    BY <2>2 DEF Deliver
  <2> QED BY <2>1, <2>3
<1>2. n \in ToSet(natives) /\ n \in Named
  BY WhatIsKnown DEF ToSet
<1>3. /\ e.kind = n.kind /\ e.path = n.path /\ e.previous = n.previous
      /\ e.stamp = IF n.kind = "Remove" THEN n.stamp ELSE disk[n.path].stamp
  BY <1>2 DEF Named, Natives
<1>4. ToSet(natives') = ToSet(natives) \ {n} /\ Orderly(natives')
  BY <1>1, ElementsWithout, WhatIsKnown
<1>11. \A m \in ToSet(natives') : m.path = n.path => n.kind = "Remove" /\ m.kind = "Create"
  <2>1. DOMAIN natives = 1..Len(natives) /\ Len(natives) \in Nat
    BY WhatIsKnown, LenProperties
  <2>2. SUFFICES ASSUME NEW j \in DOMAIN natives, natives[j].path = n.path, natives[j] # n
                 PROVE  n.kind = "Remove" /\ natives[j].kind = "Create"
    BY <1>4 DEF ToSet
  <2>3. i < j
    BY <1>0, <2>1, <2>2
  <2> QED BY <2>2, <2>3, WhatIsKnown DEF Orderly
<1> HIDE DEF n
<1>5. e \in Named
  <2>1. n.path \in Paths => disk[n.path].stamp \in Nat
    BY WhatIsKnown DEF Files
  <2> QED BY <1>2, <2>1 DEF Named, Natives
<1> HIDE DEF e
<1>6. /\ L \in Nat /\ DOMAIN inbox = 1..L /\ DOMAIN inbox' = 1..L + 1
      /\ \A j \in 1..L : inbox'[j] = inbox[j]
      /\ inbox'[L + 1] = e
  BY <1>1, <1>5, WhatIsKnown, LenProperties, AppendProperties
<1> HIDE DEF L
<1>7. /\ Rest(inbox, 0) = 1..L /\ Rest(inbox', 0) = 1..L + 1
      /\ \A j : j \in 1..L + 1 <=> j \in 1..L \/ j = L + 1
      /\ L + 1 \notin 1..L
  BY <1>6 DEF Rest
<1>8. /\ Flow'.docs = docs /\ Flow'.expectations = expectations /\ Flow'.pending = pending
      /\ Flow.docs = docs /\ Flow.expectations = expectations /\ Flow.pending = pending
  BY <1>1 DEF Flow
<1>9. ASSUME NEW p \in Paths PROVE Good(Flow, inbox, 0, reconcile, p)'
  <2>1. Good(Flow, inbox, 0, reconcile, p) /\ Content(p)' = Content(p)
    BY <1>1, WhatIsKnown DEF Content
  <2>2. /\ \A s : Expects(Flow, p, s)' <=> Expects(Flow, p, s)
        /\ Free(Flow, p)' <=> Free(Flow, p)
        /\ Off(Flow, p)' <=> Off(Flow, p)
    BY <1>1, <1>8, <2>1 DEF Expects, Free, Off
  <2>3. Rest(inbox, 0)' = 1..L + 1
    BY <1>7 DEF Rest
  <2>4. MovesTo(e, p) <=> MovesTo(n, p)
    BY <1>3 DEF MovesTo
  <2>5. About(e) = About(n)
    BY <1>3 DEF About
  <2>6. MovesTo(n, p) =>
           /\ Free(Flow, p) /\ n.previous # p /\ ~Expects(Flow, p, disk[p].stamp)
           /\ \A j \in 1..L : ~MovesTo(inbox[j], p)
           /\ disk[p].stamp # NoStamp /\ e.stamp = disk[p].stamp
    <3>1. SUFFICES ASSUME MovesTo(n, p) PROVE
             /\ Free(Flow, p) /\ n.previous # p /\ ~Expects(Flow, p, disk[p].stamp)
             /\ \A j \in 1..L : ~MovesTo(inbox[j], p)
             /\ disk[p].stamp # NoStamp /\ e.stamp = disk[p].stamp
      OBVIOUS
    <3>2. /\ Free(Flow, p) /\ n.previous # p
          /\ ~Expects(Flow, p, disk[p].stamp) /\ ~Delivered(p)
      BY <1>2, <2>1, <3>1 DEF Good, Arrivals
    <3>3. disk[p].stamp # NoStamp
      BY <3>2, WhatIsKnown DEF Free
    <3> QED BY <1>3, <1>6, <3>1, <3>2, <3>3 DEF Delivered, MovesTo
  <2>7. Arrivals(Flow, inbox, 0, p)'
    <3>1. \A j \in 1..L : MovesTo(inbox[j], p) =>
             /\ Free(Flow, p) /\ inbox[j].previous # p
             /\ inbox[j].stamp # NoStamp /\ ~Expects(Flow, p, inbox[j].stamp)
             /\ \A k \in 1..L : MovesTo(inbox[k], p) => j = k
      BY <1>7, <2>1 DEF Good, Arrivals
    <3>2. \A j \in 1..L + 1 : MovesTo(inbox'[j], p) =>
             /\ Free(Flow, p) /\ inbox'[j].previous # p
             /\ inbox'[j].stamp # NoStamp /\ ~Expects(Flow, p, inbox'[j].stamp)
             /\ \A k \in 1..L + 1 : MovesTo(inbox'[k], p) => j = k
      BY <1>3, <1>6, <1>7, <2>4, <2>6, <3>1
    <3>3. \A m \in ToSet(natives') : MovesTo(m, p) =>
             Free(Flow, p) /\ m.previous # p /\ ~Expects(Flow, p, disk[p].stamp)
               /\ ~Delivered(p)
      BY <1>4, <2>1 DEF Good, Arrivals
    <3>4. \A m \in ToSet(natives') : MovesTo(m, p) => ~Delivered(p)'
      <4>1. \A m \in ToSet(natives') : MovesTo(m, p) => ~MovesTo(n, p)
        BY <1>11 DEF MovesTo
      <4>2. Delivered(p)' => Delivered(p) \/ MovesTo(n, p)
        BY <1>3, <1>6, <1>7 DEF Delivered, MovesTo
      <4> QED BY <3>3, <4>1, <4>2
    <3> QED BY <1>1, <2>2, <2>3, <3>2, <3>3, <3>4 DEF Arrivals
  <2>8. Removals(Flow, p)' /\ Agreement(Flow, p)'
    <3>1. Created(p)' => Created(p)
      BY <1>4 DEF Created
    <3>2. ASSUME NEW m \in ToSet(natives'), m.kind = "Remove", m.path = p, Created(p)
          PROVE  Created(p)'
      <4>1. PICK o \in ToSet(natives) : o.kind = "Create" /\ o.path = p
        BY <3>2 DEF Created
      <4>2. o # n
        BY <1>11, <3>2, <4>1
      <4> QED BY <1>4, <4>1, <4>2 DEF Created
    <3>3. Removals(Flow, p)'
      BY <1>1, <1>4, <1>8, <2>1, <2>2, <3>1, <3>2 DEF Good, Removals
    <3> QED BY <1>1, <1>8, <2>1, <2>2, <3>3 DEF Good, Agreement
  <2>9. Noticed(p) => Noticed(p)' \/ About(e) = p
    BY <1>4, <2>5 DEF Noticed
  <2>10. /\ \A j \in 1..L : About(inbox[j]) = p => About(inbox'[j]) = p
         /\ About(inbox'[L + 1]) = About(e)
    BY <1>6
  <2>11. \A k \in 0..L : Later(inbox, k, p) \/ About(e) = p => Later(inbox, k, p)'
    <3> SUFFICES ASSUME NEW k \in 0..L, Later(inbox, k, p) \/ About(e) = p
                 PROVE  Later(inbox', k, p)
      BY DEF Later, Rest
    <3>1. /\ L + 1 \in Rest(inbox', k)
          /\ \A j \in Rest(inbox, k) : j \in Rest(inbox', k) /\ j \in 1..L
      BY <1>6 DEF Rest
    <3> QED BY <2>10, <3>1 DEF Later
  <2>12. /\ \A k \in 0..L : Excused(p, reconcile) \/ Later(inbox, k, p)
                => Excused(p, reconcile)' \/ Later(inbox, k, p)'
    BY <1>1, <2>9, <2>11 DEF Excused
  <2>13. Known(Flow, inbox, 0, reconcile, p)'
    <3>1. 0 \in 0..L
      BY <1>6
    <3> QED BY <1>8, <2>1, <2>2, <2>12, <3>1 DEF Good, Known
  <2>14. Reports(Flow, inbox, 0, reconcile, p)'
    <3>1. ASSUME NEW j \in 1..L, inbox'[j].path = p, inbox'[j].kind # "Rename",
                 inbox'[j].stamp # NoStamp, Expects(Flow, p, inbox'[j].stamp), Off(Flow, p)
          PROVE  Excused(p, reconcile)' \/ Later(inbox, j, p)'
      <4>1. Excused(p, reconcile) \/ Later(inbox, j, p)
        BY <1>6, <1>7, <2>1, <3>1 DEF Good, Reports
      <4>2. j \in 0..L
        BY <1>6
      <4> QED BY <2>12, <4>1, <4>2
    <3>2. ASSUME e.path = p, e.kind # "Rename", e.stamp # NoStamp,
                 Expects(Flow, p, e.stamp), Off(Flow, p)
          PROVE  p \in misanswered \/ Noticed(p)'
      <4>1. CASE n.kind = "Remove"
        <5>0. CASE Created(p)
          <6>1. PICK o \in ToSet(natives) : o.kind = "Create" /\ o.path = p
            BY <5>0 DEF Created
          <6>2. o \in ToSet(natives')
            BY <1>4, <4>1, <6>1
          <6> QED BY <6>1, <6>2 DEF Noticed, About
        <5>1. ASSUME ~Created(p)
              PROVE
              /\ Content(p) = Absent
              /\ docs[p] # NoDocument /\ Expects(Flow, p, n.stamp)
                   => docs[p].baseline \notin Contents \/ p \in misanswered
          BY <1>2, <1>3, <1>8, <2>1, <3>2, <4>1, <5>1 DEF Good, Removals
        <5> QED BY <1>3, <1>8, <3>2, <4>1, <5>0, <5>1, WhatIsKnown DEF Off
      <4>2. CASE n.kind # "Remove"
        <5>1. Expects(Flow, p, disk[p].stamp) /\ docs[p] # NoDocument
          BY <1>3, <1>8, <3>2, <4>2 DEF Off
        <5>2. docs[p].baseline = Content(p) \/ p \in misanswered
          BY <1>8, <2>1, <5>1 DEF Good, Agreement
        <5> QED BY <1>8, <3>2, <5>2 DEF Off
      <4> QED BY <4>1, <4>2
    <3>3. p \in misanswered \/ Noticed(p)' => Excused(p, reconcile)'
      BY <1>1 DEF Excused
    <3> QED BY <1>6, <1>7, <2>2, <2>3, <3>1, <3>2, <3>3 DEF Reports
  <2>15. Mended(Flow, inbox, 0, p)'
    <3>1. Unheard(Flow, inbox, 0, p) => Unheard(Flow, inbox, 0, p)'
      <4>1. ASSUME NEW m \in ToSet(natives), m.path = p, m.kind \notin {"Remove", "Rename"}
            PROVE  \/ \E o \in ToSet(natives') :
                         o.path = p /\ o.kind \notin {"Remove", "Rename"}
                   \/ \E j \in 1..L + 1 : /\ inbox'[j].path = p /\ inbox'[j].kind # "Rename"
                                          /\ inbox'[j].stamp \in {NoStamp, disk[p].stamp}
        <5>1. CASE m # n
          BY <1>4, <4>1, <5>1
        <5>2. CASE m = n
          BY <1>3, <1>6, <1>7, <4>1, <5>2
        <5> QED BY <5>1, <5>2
      <4>2. ASSUME NEW j \in 1..L, inbox[j].path = p, inbox[j].kind # "Rename",
                   inbox[j].stamp \in {NoStamp, disk[p].stamp}
            PROVE  \E k \in 1..L + 1 : /\ inbox'[k].path = p /\ inbox'[k].kind # "Rename"
                                       /\ inbox'[k].stamp \in {NoStamp, disk[p].stamp}
        BY <1>6, <1>7, <4>2
      <4> QED BY <1>1, <1>7, <2>2, <2>3, <4>1, <4>2 DEF Unheard
    <3> QED BY <1>1, <1>8, <2>1, <3>1 DEF Good, Mended
  <2> QED BY <2>7, <2>8, <2>13, <2>14, <2>15 DEF Good
<1>10. Saving' /\ Stamps'
  BY <1>1 DEF Informed, Saving, Stamps, Content
<1> QED BY <1>4, <1>9, <1>10 DEF Informed

-----------------------------------------------------------------------------
(* The commands that touch no file.                                         *)

\* A command of the user changes one document, and the file of none or of the same.
LEMMA CommandStep ==
    ASSUME IInv, Informed, Command
    PROVE  /\ UNCHANGED <<inbox, reconcile, externals>> /\ saving = NoPath
           /\ commands' = commands + 1 /\ commands' \in Nat /\ externals' \in Nat
           /\ externals + commands <= externals' + commands'
<1>1. externals \in Nat /\ commands \in Nat
  BY WhatIsKnown
<1> QED BY <1>1 DEF Command

\* Documents begin, are reloaded or end, and nothing else changes.
LEMMA DocumentInforms ==
    ASSUME IInv, Informed, NEW q \in Paths, NEW d,
           OnDocuments, SetDocument(q, d),
           /\ \A i \in DOMAIN inbox : ~MovesTo(inbox[i], q)
           /\ \A n \in ToSet(natives) : ~MovesTo(n, q),
           \/ d = NoDocument
           \/ Content(q) \in Contents /\ d.baseline = Content(q)
           \/ Content(q) = Absent /\ d.baseline = Unknown
    PROVE  Informed'
<1>1. /\ UNCHANGED <<inbox, reconcile, externals, disk, natives, pending, selected,
                     expectations, saving>>
      /\ saving = NoPath /\ commands' \in Nat /\ externals' \in Nat
      /\ externals + commands <= externals' + commands'
      /\ docs' = [docs EXCEPT ![q] = d]
      /\ misanswered' = misanswered \ {q} /\ ours' = ours \ {q}
  BY CommandStep DEF OnDocuments, SetDocument, diskVars
<1>2. docs'[q] = d /\ \A p \in Paths : p # q => docs'[p] = docs[p]
  BY <1>1, Parts
<1>3. ASSUME NEW p \in Paths, p # q PROVE Alike(p)
  BY <1>1, <1>2, <1>3 DEF Alike, SameNotes, SameFlow, SameDocument
<1>4. Flow'.docs = docs' /\ Flow'.expectations = expectations
      /\ Flow.docs = docs /\ Flow.expectations = expectations
  BY <1>1 DEF Flow
<1>5. Content(q)' = Content(q) /\ disk'[q] = disk[q]
  BY <1>1 DEF Content
<1>6. d # NoDocument => \/ d.baseline = Content(q) /\ Content(q) \in Contents
                        \/ d.baseline \notin Contents /\ Content(q) = Absent
  BY WhatIsKnown
<1>7. Off(Flow, q)' => FALSE
  BY <1>2, <1>4, <1>5, <1>6, WhatIsKnown DEF Off
<1>8. Removals(Flow, q)'
  <2>1. Removals(Flow, q)
    BY WhatIsKnown DEF Good
  <2>2. Created(q)' <=> Created(q)
    BY <1>1 DEF Created
  <2> QED BY <1>1, <1>2, <1>4, <1>5, <1>6, <2>1, <2>2, WhatIsKnown DEF Removals
<1>9. Agreement(Flow, q)'
  <2>1. Content(q) = Absent => disk[q].stamp = NoStamp
    BY DEF Informed, Stamps
  <2>2. Content(q) = Absent => ~Expects(Flow, q, disk[q].stamp)'
    BY <1>1, <1>4, <2>1, WhatIsKnown DEF Expects
  <2> QED BY <1>2, <1>4, <1>5, <1>6, <2>2 DEF Agreement
<1>10. Mended(Flow, inbox, 0, q)'
  BY <1>1 DEF Mended
<1>11. Good(Flow, inbox, 0, reconcile, q)'
  BY <1>1, <1>7, <1>8, <1>9, <1>10, PlainIsGood DEF Plain
<1>12. Stamps'
  BY <1>1, StampsStay, WhatIsKnown DEF Informed, Stamps, Content
<1>13. Saving' /\ Orderly(natives')
  BY <1>1, WhatIsKnown DEF Saving
<1> QED BY <1>3, <1>11, <1>12, <1>13, AlikeKeeps, WhatIsKnown DEF Informed

\* Every command that opens, reloads or closes documents.
LEMMA DocumentsInform ==
    ASSUME IInv, Calm, Informed, UNCHANGED world, NEW q \in Paths,
           OpenFile(q) \/ NewFile(q) \/ ReloadFile(q) \/ CloseDocument(q)
    PROVE  Informed'
<1>1. "MoveAgain" \notin External
  BY DEF Calm, Faithful, Races
<1>2. ASSUME ~Arriving(q) \/ docs[q] # NoDocument \/ Content(q) = Absent
      PROVE  /\ \A i \in DOMAIN inbox : ~MovesTo(inbox[i], q)
             /\ \A n \in ToSet(natives) : ~MovesTo(n, q)
  BY <1>2, Movers, WhatIsKnown
<1>3. CASE OpenFile(q)
  <2>1. OnDocuments /\ SetDocument(q, FromDisk(q)) /\ ~Arriving(q) /\ Content(q) \in Contents
    BY <1>1, <1>3, WhatIsKnown DEF OpenFile, LeftAlone
  <2>2. FromDisk(q).baseline = Content(q)
    BY DEF FromDisk
  <2> QED BY <1>2, <2>1, <2>2, DocumentInforms
<1>4. CASE NewFile(q)
  <2> DEFINE d == [text |-> Empty, decoded |-> Empty, persisted |-> FALSE,
                   baseline |-> Unknown]
  <2>1. OnDocuments /\ SetDocument(q, d) /\ Content(q) = Absent /\ d.baseline = Unknown
    BY <1>4 DEF NewFile
  <2> HIDE DEF d
  <2> QED BY <1>2, <2>1, DocumentInforms
<1>5. CASE ReloadFile(q)
  <2> DEFINE d == [FromDisk(q) EXCEPT !.persisted = docs[q].persisted]
  <2>1. /\ OnDocuments /\ SetDocument(q, d) /\ Content(q) \in Contents
        /\ docs[q] # NoDocument
    BY <1>5, WhatIsKnown DEF ReloadFile, IsOpen
  <2>2. d.baseline = Content(q)
    BY DEF FromDisk
  <2> HIDE DEF d
  <2> QED BY <1>2, <2>1, <2>2, DocumentInforms
<1>6. CASE CloseDocument(q)
  <2>1. OnDocuments /\ SetDocument(q, NoDocument) /\ docs[q] # NoDocument
    BY <1>6 DEF CloseDocument, IsOpen
  <2> QED BY <1>2, <2>1, DocumentInforms
<1> QED BY <1>3, <1>4, <1>5, <1>6

\* Editing and moving the selection leave all as it is.
LEMMA EditInforms ==
    ASSUME IInv, Informed, NEW q \in Paths, NEW text, Edit(q, text)
    PROVE  Informed'
<1>1. /\ UNCHANGED <<inbox, reconcile, externals, disk, natives, pending, selected,
                     expectations, saving, misanswered, ours>>
      /\ saving = NoPath /\ commands' \in Nat /\ externals' \in Nat
      /\ externals + commands <= externals' + commands'
      /\ docs' = [docs EXCEPT ![q].text = text] /\ docs[q] # NoDocument
  BY CommandStep DEF OnDocuments, Edit, diskVars, observerVars, IsOpen
<1>2. ASSUME NEW p \in Paths PROVE SameDocument(p)
  <2>1. CASE p # q
    BY <1>1, <2>1, Parts DEF SameDocument
  <2>2. CASE p = q
    <3>1. docs[q] \in Documents /\ docs'[q] = [docs[q] EXCEPT !.text = text]
      BY <1>1, Parts
    <3>2. docs'[q].baseline = docs[q].baseline /\ "baseline" \in DOMAIN docs'[q]
      BY <3>1 DEF Documents
    <3>3. "baseline" \notin DOMAIN NoDocument
      BY DEF NoDocument
    <3> QED BY <1>1, <2>2, <3>2, <3>3 DEF SameDocument
  <2> QED BY <2>1, <2>2
<1>3. ASSUME NEW p \in Paths PROVE Alike(p)
  BY <1>1, <1>2 DEF Alike, SameNotes, SameFlow
<1>4. Stamps'
  BY <1>1, StampsStay, WhatIsKnown DEF Informed, Stamps, Content
<1>5. Saving' /\ Orderly(natives')
  BY <1>1, WhatIsKnown DEF Saving
<1> QED BY <1>3, <1>4, <1>5, AlikeKeeps, WhatIsKnown DEF Informed

\* A step that leaves all but the count of commands alone.
LEMMA StillInforms ==
    ASSUME IInv, Informed,
           UNCHANGED <<inbox, reconcile, externals, disk, natives, docs, pending,
                       expectations, saving, misanswered, ours>>,
           commands' \in Nat, commands <= commands'
    PROVE  Informed'
<1>1. ASSUME NEW p \in Paths PROVE Alike(p)
  BY DEF Alike, SameNotes, SameFlow, SameDocument
<1>2. Stamps'
  <2>1. externals \in Nat /\ commands \in Nat
    BY WhatIsKnown
  <2>2. externals' \in Nat /\ externals + commands <= externals' + commands'
    BY <2>1, Sums, Zenon
  <2> QED BY <2>2, StampsStay, WhatIsKnown DEF Informed, Stamps, Content
<1>3. Saving' /\ Orderly(natives')
  BY WhatIsKnown DEF Saving, Informed, Content
<1> QED BY <1>1, <1>2, <1>3, AlikeKeeps, WhatIsKnown DEF Informed

-----------------------------------------------------------------------------
(* The commands that write or delete a file.                                *)

\* A file deleted in the editor takes its document with it.
LEMMA DeleteInforms ==
    ASSUME IInv, Informed, NEW q \in Paths, DeleteFile(q)
    PROVE  Informed'
<1>1. /\ UNCHANGED <<inbox, reconcile, externals, pending, expectations, saving>>
      /\ saving = NoPath /\ commands' \in Nat /\ externals' \in Nat
      /\ externals + commands <= externals' + commands'
      /\ docs[q] # NoDocument /\ docs' = [docs EXCEPT ![q] = NoDocument]
      /\ misanswered' = misanswered \ {q} /\ ours' = ours \ {q}
  BY CommandStep DEF DeleteFile, SetDocument, IsOpen
<1>2. PICK seen \in {disk[q].stamp, NoStamp} :
         /\ disk' = [disk EXCEPT ![q] = [content |-> Absent, stamp |-> NoStamp]]
         /\ natives' = Enqueued(natives, Native("Remove", q, NoPath, seen), FALSE)
  BY DEF DeleteFile, Changed
<1> DEFINE next == Native("Remove", q, NoPath, seen)
<1>3. seen \in Nat
  BY <1>2, WhatIsKnown DEF Files, NoStamp
<1>4. /\ \A p \in Paths : Content(p)' = IF p = q THEN Absent ELSE Content(p)
      /\ disk'[q].stamp = NoStamp /\ docs'[q] = NoDocument
      /\ \A p \in Paths : p # q => disk'[p] = disk[p] /\ docs'[p] = docs[p]
  BY <1>1, <1>2, WhatIsKnown, Parts DEF Content
<1>5. /\ \A i \in DOMAIN inbox : ~MovesTo(inbox[i], q)
      /\ \A n \in ToSet(natives) : ~MovesTo(n, q)
  BY <1>1, Movers, WhatIsKnown
<1>6. Dropped(natives, natives', q, next)
  BY <1>2, <1>3, <1>5, RemovalNoted, WhatIsKnown
<1>7. next.kind = "Remove" /\ next.path = q
  BY DEF Native
<1> HIDE DEF next
<1>8. Flow'.docs[q] = NoDocument
  BY <1>4 DEF Flow
<1>9. Good(Flow, inbox, 0, reconcile, q)'
  <2>1. \A n \in ToSet(natives') : ~MovesTo(n, q)
    BY <1>6, <1>7 DEF Dropped, MovesTo
  <2>2. Removals(Flow, q)'
    BY <1>4, <1>6, <1>7, <1>8 DEF Removals, Created, Dropped
  <2>3. Agreement(Flow, q)' /\ ~Off(Flow, q)' /\ Mended(Flow, inbox, 0, q)'
    BY <1>1, <1>8 DEF Agreement, Off, Mended
  <2> QED BY <1>1, <1>5, <2>1, <2>2, <2>3, PlainIsGood DEF Plain
<1>10. ASSUME NEW p \in Paths, p # q PROVE Alike(p)
  <2>1. SameNotes(p)
    BY <1>5, <1>6, <1>7, <1>10 DEF Dropped, SameNotes, Concerns, About, MovesTo
  <2>2. SameFlow(p)
    BY <1>1, <1>4, <1>10 DEF SameFlow, SameDocument
  <2> QED BY <1>1, <1>4, <1>10, <2>1, <2>2 DEF Alike
<1>11. Stamps'
  BY <1>1, <1>4, StampsStay, WhatIsKnown DEF Informed, Stamps
<1>12. Saving'
  BY <1>1 DEF Saving
<1> QED BY <1>6, <1>9, <1>10, <1>11, <1>12, AlikeKeeps, WhatIsKnown DEF Informed, Dropped

\* A document written over its file, or to a new one.
LEMMA SaveInforms ==
    ASSUME IInv, Informed, NEW p \in Paths, NEW q \in Paths, WriteDocument(p, q),
           p = q \/ docs[q] = NoDocument
    PROVE  Informed'
<1>1. /\ UNCHANGED <<inbox, reconcile, externals, pending, expectations>>
      /\ commands' = commands + 1 /\ commands' \in Nat /\ externals' \in Nat
      /\ saving = NoPath /\ saving' = q /\ ours' = (ours \ {p}) \cup {q}
      /\ misanswered' = misanswered \ {p, q}
      /\ docs[p] # NoDocument /\ (p = q \/ Content(q) = Absent)
  BY CommandStep DEF WriteDocument, IsOpen
<1>2. /\ docs[p] \in Documents /\ docs[p].text \in Texts /\ docs[p].text \in Contents
      /\ docs[p].text # Absent
  BY <1>1, WhatIsKnown DEF Documents, WriteDocument, IsOpen
<1> DEFINE d == [docs[p] EXCEPT !.persisted = TRUE, !.decoded = docs[p].text]
           t == docs[p].text
           b == externals + commands + 2
<1>3. d \in Documents /\ d.text = t /\ d # NoDocument
  BY <1>2, NoneIsOpen DEF Documents
<1>4. NextStamp = b /\ externals' + commands' + 1 = b
      /\ b \in Nat /\ externals + commands + 1 < b
  BY <1>1, WhatIsKnown DEF NextStamp
<1>5. /\ docs' = [docs EXCEPT ![p] = NoDocument, ![q] = d]
      /\ Changed(q, t, b)
  BY <1>4 DEF WriteDocument
<1> HIDE DEF d, t, b
<1>6. /\ disk' = [disk EXCEPT ![q] = [content |-> t, stamp |-> b]]
      /\ \E kind \in {"Create", "Modify"}, another \in BOOLEAN :
            /\ natives' = Enqueued(natives, Native(kind, q, NoPath, NoStamp), another)
            /\ kind = "Create" => Content(q) = Absent
  BY <1>2, <1>5 DEF Changed, t
<1>7. /\ \A r \in Paths : Content(r)' = IF r = q THEN t ELSE Content(r)
      /\ disk'[q].stamp = b /\ docs'[q] = d
      /\ p # q => docs'[p] = NoDocument
      /\ \A r \in Paths : r # q => disk'[r] = disk[r]
      /\ \A r \in Paths : r # q /\ r # p => docs'[r] = docs[r]
  BY <1>5, <1>6, WhatIsKnown, Parts DEF Content
<1>8. /\ \A r \in {p, q} : \A i \in DOMAIN inbox : ~MovesTo(inbox[i], r)
      /\ \A r \in {p, q} : \A n \in ToSet(natives) : ~MovesTo(n, r)
  <2>1. \A r \in {p, q} : docs[r] # NoDocument \/ Content(r) \notin Texts
    BY <1>1, WhatIsKnown DEF WriteDocument, IsOpen
  <2> QED BY <2>1, Movers, WhatIsKnown
<1>9. Wrote(natives, natives', q)
  <2>1. PICK kind \in {"Create", "Modify"}, another \in BOOLEAN :
            /\ natives' = Enqueued(natives, Native(kind, q, NoPath, NoStamp), another)
            /\ kind = "Create" => Content(q) = Absent
    BY <1>6
  <2> QED BY <1>8, <2>1, WriteNoted, WhatIsKnown
<1>10. PICK written \in ToSet(natives') :
          written.path = q /\ written.kind \notin {"Remove", "Rename"}
  BY <1>8, <1>9 DEF Wrote
<1>11. /\ Flow'.docs = docs' /\ Flow'.pending = pending /\ Flow'.expectations = expectations
       /\ Flow.docs = docs
  BY <1>1 DEF Flow
<1>12. \A e \in expectations : e.stamp \in Nat /\ e.stamp < b
  <2>1. \A e \in expectations : e.stamp \in Nat /\ e.stamp <= externals + commands + 1
    BY Parts DEF Informed, Stamps
  <2>2. externals + commands + 1 \in Nat
    BY WhatIsKnown
  <2> QED BY <1>4, <2>1, <2>2
<1>13. \A r \in {p, q} : \A n \in ToSet(natives') : ~MovesTo(n, r)
  BY <1>8, <1>9 DEF Wrote, MovesTo
<1>14. Good(Flow, inbox, 0, reconcile, q)'
  <2>1. Removals(Flow, q)'
    BY <1>2, <1>7, <1>9 DEF Wrote, Removals, Created, t
  <2>2. Agreement(Flow, q)'
    BY <1>7, <1>11, <1>12, <1>4 DEF Agreement, Expects
  <2>3. Unheard(Flow, inbox, 0, q)'
    BY <1>1, <1>10 DEF Unheard
  <2>4. Mended(Flow, inbox, 0, q)'
    BY <1>1, <1>2, <1>3, <1>7, <1>11, <2>3 DEF Mended, t
  <2> QED BY <1>1, <1>8, <1>13, <2>1, <2>2, <2>4, PlainIsGood DEF Plain
<1>15. ASSUME p # q PROVE Good(Flow, inbox, 0, reconcile, p)'
  <2>1. Removals(Flow, p)'
    <3>1. \A n : n.path = p => (n \in ToSet(natives') <=> n \in ToSet(natives))
      BY <1>9, <1>15 DEF Wrote
    <3>2. Removals(Flow, p)
      BY WhatIsKnown DEF Good
    <3>3. Created(p)' <=> Created(p)
      BY <3>1 DEF Created
    <3> QED BY <1>7, <1>11, <1>15, <3>1, <3>2, <3>3 DEF Removals
  <2>2. Agreement(Flow, p)' /\ ~Off(Flow, p)' /\ Mended(Flow, inbox, 0, p)'
    BY <1>1, <1>7, <1>11, <1>15 DEF Agreement, Off, Mended
  <2> QED BY <1>1, <1>8, <1>13, <2>1, <2>2, PlainIsGood DEF Plain
<1>16. ASSUME NEW r \in Paths, r # q, r # p PROVE Alike(r)
  <2>1. SameNotes(r)
    BY <1>9, <1>16 DEF Wrote, SameNotes, Concerns, About
  <2>2. SameFlow(r)
    <3>1. r # saving
      BY <1>1, <1>16, Parts
    <3> QED BY <1>1, <1>7, <1>16, <3>1 DEF SameFlow, SameDocument
  <2> QED BY <1>1, <1>7, <1>16, <2>1, <2>2 DEF Alike
<1>17. \A r \in Paths : disk[r].stamp \in Nat /\ disk[r].stamp < b
  <2>1. \A r \in Paths : disk[r].stamp \in Nat /\ disk[r].stamp <= externals + commands + 1
    BY WhatIsKnown DEF Informed, Stamps, Files
  <2>2. externals + commands + 1 \in Nat
    BY WhatIsKnown
  <2> QED BY <1>4, <2>1, <2>2
<1>18. Stamps'
  <2>1. \A r \in Paths : /\ disk'[r].stamp <= b
                         /\ Content(r)' = Absent => disk'[r].stamp = NoStamp
    BY <1>2, <1>4, <1>7, <1>17 DEF Informed, Stamps, t
  <2>2. \A e \in expectations : /\ e.stamp <= b
                                /\ \A r \in Paths : disk'[r].stamp = e.stamp => r = e.path
    BY <1>4, <1>7, <1>12 DEF Informed, Stamps
  <2> QED BY <1>1, <1>4, <2>1, <2>2 DEF Stamps
<1>19. Saving'
  BY <1>1, <1>3, <1>7, <1>17 DEF Saving
<1> QED BY <1>9, <1>14, <1>15, <1>16, <1>18, <1>19, AlikeKeeps, WhatIsKnown
        DEF Informed, Wrote

\* The save is registered: its document branches from what was written.
LEMMA RegisterInforms ==
    ASSUME IInv, Informed, RegisterSave
    PROVE  Informed'
<1>0. PICK q \in Paths : q = saving
  BY Parts DEF RegisterSave, Counted
<1>1. /\ saving # NoPath /\ saving' = NoPath /\ saving = q
      /\ docs' = [docs EXCEPT ![q].baseline = Captured(q, docs[q].text)]
      /\ UNCHANGED <<disk, natives, inbox, reconcile, pending, misanswered, ours,
                     externals, commands>>
      /\ expectations' = IF Content(q) = Absent THEN expectations
                         ELSE expectations \cup {[path |-> q, stamp |-> disk[q].stamp]}
  BY <1>0 DEF RegisterSave, diskVars, observerVars
<1> DEFINE t == docs[q].text
<1>2. q \in Paths /\ docs[q] # NoDocument /\ docs[q] \in Documents
  BY <1>1, Parts DEF Counted, IsOpen
<1>3. Content(q) = t /\ t \in Texts /\ t \in Contents /\ t # Absent /\ q \in ours
  BY <1>1, <1>2, WhatIsKnown DEF Informed, Saving, Documents
<1>4. /\ docs'[q].baseline = Content(q) /\ docs'[q] # NoDocument
      /\ \A p \in Paths : p # q => docs'[p] = docs[p]
  <2> DEFINE d == [docs[q] EXCEPT !.baseline = Captured(q, t)]
  <2>1. Captured(q, t) = t /\ t \in Contents \cup {Absent, Unknown}
    BY <1>3 DEF Captured
  <2>2. d \in Documents /\ d.baseline = t
    BY <1>2, <2>1 DEF Documents
  <2>3. docs' = [docs EXCEPT ![q] = d]
    BY <1>1
  <2> HIDE DEF d
  <2> QED BY <1>2, <1>3, <2>2, <2>3, NoneIsOpen, Parts
<1>5. expectations' = expectations \cup {[path |-> q, stamp |-> disk[q].stamp]}
  BY <1>1, <1>3
<1> HIDE DEF t
<1>6. /\ Flow'.docs = docs' /\ Flow'.pending = pending /\ Flow'.expectations = expectations'
      /\ Flow.docs = docs /\ Flow.pending = pending /\ Flow.expectations = expectations
  BY <1>1 DEF Flow
<1>7. Content(q)' = Content(q)
  BY <1>1 DEF Content
<1>8. /\ \A i \in DOMAIN inbox : ~MovesTo(inbox[i], q)
      /\ \A n \in ToSet(natives) : ~MovesTo(n, q)
  BY <1>2, Movers, WhatIsKnown
<1>9. Good(Flow, inbox, 0, reconcile, q)'
  <2>1. Removals(Flow, q)'
    <3>1. \A n \in ToSet(natives) : n.kind = "Remove" /\ n.path = q =>
             Created(q) \/ Content(q) = Absent
      BY <1>2, WhatIsKnown DEF Good, Removals
    <3> QED BY <1>1, <1>3, <1>7, <3>1 DEF Removals, Created
  <2>2. Agreement(Flow, q)' /\ ~Off(Flow, q)'
    BY <1>3, <1>4, <1>6, <1>7 DEF Agreement, Off
  <2>3. Unheard(Flow, inbox, 0, q) => Unheard(Flow, inbox, 0, q)'
    <3>1. Expects(Flow, q, disk[q].stamp)'
      BY <1>1, <1>5, <1>6 DEF Expects
    <3> QED BY <1>1, <3>1 DEF Unheard
  <2>4. Mended(Flow, inbox, 0, q)'
    <3>1. q \in PathsOf(Flow.pending) => Unheard(Flow, inbox, 0, q)
      BY <1>1, <1>2, <1>3, WhatIsKnown DEF Good, Mended
    <3> QED BY <1>3, <1>4, <1>6, <1>7, <2>3, <3>1 DEF Mended
  <2> QED BY <1>1, <1>8, <2>1, <2>2, <2>4, PlainIsGood DEF Plain
<1>10. ASSUME NEW p \in Paths, p # q PROVE Alike(p)
  <2>1. SameFlow(p)
    <3>1. p # saving' /\ p # saving
      BY <1>1, <1>10, Parts
    <3> QED BY <1>1, <1>4, <1>5, <1>10, <3>1 DEF SameFlow, SameDocument
  <2> QED BY <1>1, <1>10, <2>1 DEF Alike, SameNotes
<1>11. Stamps'
  <2>1. \A r \in Paths : disk[r].stamp = disk[q].stamp => r = q
    BY <1>1 DEF Informed, Saving
  <2>2. disk[q].stamp <= externals + commands + 1
    BY <1>2 DEF Informed, Stamps
  <2> QED BY <1>1, <1>5, <2>1, <2>2 DEF Informed, Stamps, Content
<1>12. Saving' /\ Orderly(natives')
  BY <1>1, WhatIsKnown DEF Saving
<1> QED BY <1>9, <1>10, <1>11, <1>12, AlikeKeeps, WhatIsKnown DEF Informed

-----------------------------------------------------------------------------
(* The answers, and all the user does.                                      *)

\* A conflict is answered: its document branches from what is on disk, or the
\* answer is known to be no more on disk.
LEMMA AnswerInforms ==
    ASSUME IInv, Informed, NEW i \in DOMAIN pending, OnConflict(i),
           NEW d \in Documents, Answer(i, d), IsOpen(pending[i].path),
           pending[i].content = Content(pending[i].path) => d.baseline = pending[i].content
    PROVE  Informed'
<1>1. PICK q : q = pending[i].path
  OBVIOUS
<1>2. pending[i] \in Offers /\ q \in Paths /\ pending[i].content \in Contents \cup {Absent}
  <2>1. pending[i] \in Offers
    BY Parts, LenProperties, ElementOfSeq
  <2> QED BY <1>1, <2>1 DEF Offers, Conflicts
<1>3. /\ UNCHANGED <<disk, natives, inbox, reconcile, expectations, saving, ours>>
      /\ saving = NoPath /\ commands' \in Nat /\ externals' \in Nat
      /\ externals + commands <= externals' + commands'
  BY CommandStep DEF OnConflict, diskVars
<1>4. /\ docs' = [docs EXCEPT ![q] = d]
      /\ misanswered' = IF pending[i].content = Content(q) THEN misanswered \ {q}
                        ELSE misanswered \cup {q}
      /\ pending' = RemoveAt(pending, i)
  BY <1>1 DEF Answer, Reselected, Flow
<1>5. PathsOf(pending') = PathsOf(pending) \ {q}
  BY <1>1, <1>4, Parts, OneGoes
<1>6. /\ docs'[q] = d /\ docs[q] # NoDocument
      /\ \A p \in Paths : p # q => docs'[p] = docs[p]
  BY <1>1, <1>2, <1>4, Parts DEF IsOpen
<1>7. /\ Flow'.docs = docs' /\ Flow'.pending = pending' /\ Flow'.expectations = expectations
      /\ Flow.docs = docs
  BY <1>3 DEF Flow
<1>8. \/ d.baseline = Content(q) /\ Content(q) \in Contents \cup {Absent}
      \/ q \in misanswered'
  BY <1>1, <1>2, <1>4
<1>9. /\ \A j \in DOMAIN inbox : ~MovesTo(inbox[j], q)
      /\ \A n \in ToSet(natives) : ~MovesTo(n, q)
  BY <1>2, <1>6, Movers, WhatIsKnown
<1>10. Content(q)' = Content(q)
  BY <1>3 DEF Content
<1>11. Good(Flow, inbox, 0, reconcile, q)'
  <2>1. Removals(Flow, q)'
    <3>1. Removals(Flow, q)
      BY <1>2, WhatIsKnown DEF Good
    <3>2. Created(q)' <=> Created(q)
      BY <1>3 DEF Created
    <3> QED BY <1>3, <1>6, <1>7, <1>8, <1>10, <3>1, <3>2, WhatIsKnown DEF Removals
  <2>2. Agreement(Flow, q)'
    BY <1>6, <1>7, <1>8, <1>10 DEF Agreement
  <2>3. Off(Flow, q)' => q \in misanswered'
    BY <1>6, <1>7, <1>8, <1>10, WhatIsKnown DEF Off
  <2>4. Mended(Flow, inbox, 0, q)'
    <3>1. q \in ours => Content(q) \in Texts
      BY <1>2, WhatIsKnown DEF Good, Mended
    <3> QED BY <1>3, <1>5, <1>6, <1>7, <1>8, <1>10, <3>1 DEF Mended
  <2> QED BY <1>3, <1>9, <2>1, <2>2, <2>3, <2>4, PlainIsGood DEF Plain
<1>12. ASSUME NEW p \in Paths, p # q PROVE Alike(p)
  <2>1. SameFlow(p)
    BY <1>3, <1>4, <1>5, <1>6, <1>12 DEF SameFlow, SameDocument
  <2> QED BY <1>3, <2>1 DEF Alike, SameNotes
<1>13. Stamps'
  BY <1>3, StampsStay, WhatIsKnown DEF Informed, Stamps, Content
<1>14. Saving' /\ Orderly(natives')
  BY <1>3, WhatIsKnown DEF Saving
<1> QED BY <1>11, <1>12, <1>13, <1>14, AlikeKeeps, WhatIsKnown DEF Informed

\* An answer of the user, or one that is refused.
LEMMA AnswersInform ==
    ASSUME IInv, Informed, NEW i \in DOMAIN pending, ReloadOffered(i) \/ KeepBuffer(i)
    PROVE  Informed'
<1> DEFINE c == pending[i]
<1>1. c \in Offers /\ c.path \in Paths
  <2>1. c \in Offers
    BY Parts, LenProperties, ElementOfSeq
  <2> QED BY <2>1 DEF Offers, Conflicts
<1>2. IsOpen(c.path) => docs[c.path] \in Documents
  BY <1>1, Parts DEF IsOpen
<1>3. ASSUME OnConflict(i), Refuse(i) PROVE Informed'
  <2>1. /\ UNCHANGED <<inbox, reconcile, externals, disk, natives, docs, pending,
                       expectations, saving, misanswered, ours>>
        /\ commands' = commands + 1 /\ commands' \in Nat
    BY <1>3, CommandStep DEF OnConflict, Refuse, diskVars
  <2>2. commands <= commands'
    BY <2>1, WhatIsKnown
  <2> QED BY <2>1, <2>2, StillInforms
<1>4. CASE ReloadOffered(i)
  <2>1. CASE IsOpen(c.path) /\ c.content \in Texts
    <3> DEFINE d == Reloaded(docs[c.path], c.path, c.content)
    <3>1. d \in Documents
      BY <1>2, <2>1, DocumentTypes
    <3>2. c.content = Content(c.path) => d.baseline = c.content
      <4>1. c.content # Absent
        BY <2>1, WhatIsKnown
      <4>2. d.baseline = Captured(c.path, c.content)
        BY <1>2, <2>1 DEF Reloaded, Documents
      <4> QED BY <4>1, <4>2 DEF Captured
    <3>3. OnConflict(i) /\ Answer(i, d)
      BY <1>4, <2>1 DEF ReloadOffered
    <3> HIDE DEF d
    <3> QED BY <2>1, <3>1, <3>2, <3>3, AnswerInforms
  <2>2. CASE ~(IsOpen(c.path) /\ c.content \in Texts)
    BY <1>3, <1>4, <2>2 DEF ReloadOffered
  <2> QED BY <2>1, <2>2
<1>5. CASE KeepBuffer(i)
  <2>1. CASE IsOpen(c.path)
    <3> DEFINE b == IF c.removed THEN Absent ELSE c.content
               d == [docs[c.path] EXCEPT !.baseline = b]
    <3>1. b = c.content /\ b \in Contents \cup {Absent}
      BY <1>1 DEF Offers, Conflicts
    <3> HIDE DEF b
    <3>2. d \in Documents /\ d.baseline = c.content
      BY <1>2, <2>1, <3>1 DEF Documents
    <3>3. OnConflict(i) /\ Answer(i, d)
      BY <1>5, <2>1 DEF KeepBuffer, b
    <3> HIDE DEF d
    <3> QED BY <2>1, <3>2, <3>3, AnswerInforms
  <2>2. CASE ~IsOpen(c.path)
    BY <1>3, <1>5, <2>2 DEF KeepBuffer
  <2> QED BY <2>1, <2>2
<1> QED BY <1>4, <1>5

\* Nothing is lost by what the user does.
LEMMA UserInforms ==
    ASSUME IInv, Calm, Informed, User, UNCHANGED world
    PROVE  Informed'
<1>1. ASSUME NEW p \in Paths,
             \/ OpenFile(p) \/ NewFile(p) \/ ReloadFile(p) \/ CloseDocument(p)
             \/ DeleteFile(p) \/ Save(p)
      PROVE  Informed'
  BY <1>1, DocumentsInform, DeleteInforms, SaveInforms DEF Save
<1>2. ASSUME NEW p \in Paths, NEW text \in Texts, Edit(p, text) PROVE Informed'
  BY <1>2, EditInforms
<1>3. ASSUME NEW p \in Paths, NEW q \in Paths, RenameFile(p, q) \/ SaveAs(p, q)
      PROVE  Informed'
  <2>1. ~RenameFile(p, q)
    BY DEF RenameFile, Calm, Faithful
  <2> QED BY <1>3, <2>1, SaveInforms DEF SaveAs, IsOpen
<1>4. ASSUME NEW k, Select(k) PROVE Informed'
  <2>1. /\ UNCHANGED <<inbox, reconcile, externals, disk, natives, docs, pending,
                       expectations, saving, misanswered, ours>>
        /\ commands' = commands
    BY <1>4 DEF Select, diskVars, observerVars
  <2>2. commands' \in Nat /\ commands <= commands'
    BY <2>1, WhatIsKnown
  <2> QED BY <2>1, <2>2, StillInforms
<1> QED BY <1>1, <1>2, <1>3, <1>4, RegisterInforms, AnswersInform DEF User

\* In the beginning nothing is open and nothing is on its way.
LEMMA InitInforms == Init => Informed
<1> SUFFICES ASSUME Init PROVE Informed
  OBVIOUS
<1>1. /\ natives = <<>> /\ inbox = <<>> /\ docs = [p \in Paths |-> NoDocument]
      /\ pending = <<>> /\ expectations = {} /\ saving = NoPath /\ ours = {}
      /\ externals = 0 /\ commands = 0
      /\ \A p \in Paths : disk[p] \in {[content |-> Empty, stamp |-> 1],
                                       [content |-> Absent, stamp |-> NoStamp]}
  BY DEF Init
<1>2. ToSet(natives) = {} /\ DOMAIN inbox = {} /\ DOMAIN natives = {} /\ Empty # Absent
  <2>1. Empty # Absent
    BY ExternalAssumption DEF Absent
  <2> QED BY <1>1, <2>1 DEF ToSet
<1>3. Orderly(natives) /\ Saving
  BY <1>1, <1>2 DEF Orderly, Saving
<1>4. Stamps
  BY <1>1, <1>2 DEF Stamps, Content, NoStamp
<1>5. ASSUME NEW p \in Paths PROVE Good(Flow, inbox, 0, reconcile, p)
  <2>1. Flow.docs[p] = NoDocument /\ Flow.expectations = {}
    BY <1>1 DEF Flow
  <2>2. Rest(inbox, 0) = {}
    BY <1>2 DEF Rest
  <2>3. ~Off(Flow, p) /\ p \notin ours
    BY <1>1, <2>1 DEF Off
  <2>4. Arrivals(Flow, inbox, 0, p) /\ Removals(Flow, p) /\ Agreement(Flow, p)
    BY <1>2, <2>1, <2>2 DEF Arrivals, Removals, Created, Agreement
  <2>5. Reports(Flow, inbox, 0, reconcile, p) /\ Known(Flow, inbox, 0, reconcile, p)
        /\ Mended(Flow, inbox, 0, p)
    BY <2>2, <2>3 DEF Reports, Known, Mended
  <2> QED BY <2>4, <2>5 DEF Good
<1> QED BY <1>3, <1>4, <1>5 DEF Informed

-----------------------------------------------------------------------------
(* What ingesting one event does.                                           *)

\* The write of our own that an event would report.
SaveOf(e) == [path |-> e.path,
              stamp |-> IF e.stamp # NoStamp THEN e.stamp ELSE disk[e.path].stamp]
\* The document of the path and whether it has a conflict stay as they are.
Stays(f, h, p) ==
    /\ h.docs[p] = f.docs[p]
    /\ p \in PathsOf(h.pending) <=> p \in PathsOf(f.pending)

\* What a change of a file does: nothing where no document is open or where
\* there is nothing new; a write of our own ends the conflict; else the content is
\* adopted or offered.
Ended(f, e, h) == /\ SaveOf(e) \in f.expectations /\ h.docs[e.path] = f.docs[e.path]
                  /\ e.path \notin PathsOf(h.pending)
Ignored(f, e, h) == /\ SaveOf(e) \notin f.expectations /\ Stays(f, h, e.path)
                    /\ SaysNothing(f.docs[e.path], Observed(e))
Adopted(f, e, h) == /\ SaveOf(e) \notin f.expectations /\ Content(e.path) \in Texts
                    /\ h.docs[e.path] # NoDocument
                    /\ h.docs[e.path].baseline = Content(e.path)
                    /\ e.path \notin PathsOf(h.pending)
Offered(f, e, h) == /\ SaveOf(e) \notin f.expectations /\ h.docs[e.path] = f.docs[e.path]
                    /\ ~SaysNothing(f.docs[e.path], Observed(e))
                    /\ e.path \in PathsOf(h.pending)
Heard(f, e, h) ==
    /\ h.expectations = f.expectations \ {SaveOf(e)}
    /\ \A p \in Paths \ {e.path} : Stays(f, h, p)
    /\ IF f.docs[e.path] = NoDocument THEN Stays(f, h, e.path)
       ELSE Ended(f, e, h) \/ Ignored(f, e, h) \/ Adopted(f, e, h) \/ Offered(f, e, h)

\* What a move of a file to a path where no document is open does: the document of
\* its source, if one is open, is there now.
Carried(f, e, h) ==
    /\ h.expectations = f.expectations
    /\ \A p \in Paths \ {e.path, e.previous} : Stays(f, h, p)
    /\ IF f.docs[e.previous] = NoDocument THEN Stays(f, h, e.previous) /\ Stays(f, h, e.path)
       ELSE /\ h.docs[e.previous] = NoDocument /\ e.previous \notin PathsOf(h.pending)
            /\ h.docs[e.path] # NoDocument /\ h.docs[e.path].baseline = Content(e.path)

\* The flow with another list of conflicts, and with a document elsewhere.
Relisted(f, list) == Reselected([f EXCEPT !.pending = list], 1)
Placed(f, list, p, q, new) ==
    Reselected([[f EXCEPT !.pending = list] EXCEPT
                   !.docs = [@ EXCEPT ![p] = NoDocument, ![q] = new]], 1)

\* Their fields.
LEMMA Relisting ==
    ASSUME NEW f \in Flows, NEW list
    PROVE  /\ Relisted(f, list).docs = f.docs /\ Relisted(f, list).pending = list
           /\ Relisted(f, list).expectations = f.expectations
BY DEF Reselected, Flows, Relisted

\* Where the documents are then.
LEMMA Placing ==
    ASSUME NEW f \in Flows, NEW list, NEW p \in Paths, NEW q \in Paths, NEW new,
           NEW h, h = Placed(f, list, p, q, new)
    PROVE  /\ h.docs[q] = new /\ (p # q => h.docs[p] = NoDocument)
           /\ \A r \in Paths \ {p, q} : h.docs[r] = f.docs[r]
           /\ h.pending = list /\ h.expectations = f.expectations
BY DEF Reselected, Flows, Placed

\* A document that takes over what a file holds branches from it.
LEMMA BranchesFrom ==
    ASSUME NEW d \in Documents, NEW p, Content(p) \in Texts
    PROVE  /\ Reloaded(d, p, Content(p)) # NoDocument
           /\ Reloaded(d, p, Content(p)).baseline = Content(p)
           /\ Followed(d, p, Content(p)) # NoDocument
           /\ Followed(d, p, Content(p)).baseline = Content(p)
<1>1. Content(p) # Absent
  BY ExternalAssumption DEF Texts, Absent
<1>2. /\ Reloaded(d, p, Content(p)).baseline = Content(p)
      /\ Followed(d, p, Content(p)).baseline = Content(p)
  BY <1>1 DEF Reloaded, Followed, Captured, Documents
<1> QED BY <1>2, DocumentTypes, NoneIsOpen

\* An event that is not a move does just that.
LEMMA Hearing ==
    ASSUME disk \in [Paths -> Files], NEW e \in Named, e.kind # "Rename", NEW f, Sound(f)
    PROVE  Heard(f, e, Ingested(f, e))
<1> DEFINE q == e.path
           seen == Observed(e)
           own == SaveOf(e) \in f.expectations
           g == [f EXCEPT !.expectations = @ \ {SaveOf(e)}]
           d == f.docs[q]
           offer == [path |-> q, removed |-> seen.kind = "Remove", content |-> seen.content]
           h == Ingested(f, e)
<1>1. /\ f \in Flows /\ f.pending \in Seq(Offers) /\ OneEach(f.pending)
      /\ f.docs \in [Paths -> Documents \cup {NoDocument}]
  BY DEF Sound, Flows
<1>2. /\ g \in Flows /\ g.docs = f.docs /\ g.pending = f.pending
      /\ g.expectations = f.expectations \ {SaveOf(e)}
  <2> HIDE DEF own
  <2>1. f.expectations \ {SaveOf(e)} \in SUBSET [path : Paths, stamp : Nat \ {NoStamp}]
    BY <1>1 DEF Flows
  <2> QED BY <1>1, <2>1 DEF Flows
<1>3. /\ q \in Paths /\ seen.kind # "Rename"
      /\ seen.content # Absent => seen.content = Content(q)
  BY Seen
<1>4. offer \in Offers
  <2>1. /\ seen.content \in Contents \cup {Absent}
        /\ seen.kind = "Remove" <=> seen.content = Absent
    BY Seen
  <2> HIDE DEF seen, q
  <2>2. offer \in Conflicts
    BY <1>3, <2>1 DEF Conflicts
  <2> QED BY <2>1, <2>2 DEF Offers
<1>5. h = IF d = NoDocument \/ (~own /\ SaysNothing(d, seen)) THEN g
          ELSE Processed(g, e, seen, own)
  BY <1>2 DEF Ingested, SaveOf
<1> HIDE DEF g, h
<1>6. Processed(g, e, seen, own) =
         IF d = NoDocument THEN g
         ELSE IF own THEN Relisted(g, Without(f.pending, q))
         ELSE IF CanCleanAdopt(d, seen, own) /\ seen.content \in Texts
              THEN Placed(g, Without(f.pending, q), q, q, Reloaded(d, q, seen.content))
         ELSE Relisted(g, Raised(f.pending, offer))
  BY <1>2, <1>3 DEF Processed, Placed, Relisted
<1> HIDE DEF own, seen, d, offer, q
<1>7. /\ PathsOf(Without(f.pending, q)) = PathsOf(f.pending) \ {q}
      /\ PathsOf(Raised(f.pending, offer)) = PathsOf(f.pending) \cup {q}
  <2>1. offer.path = q
    BY DEF offer
  <2> QED BY <1>1, <1>4, <2>1, PathGoes, OneComes
<1>8. ASSUME h = g, d = NoDocument \/ (~own /\ SaysNothing(d, seen))
      PROVE  Heard(f, e, h)
  <2>1. \A p : Stays(f, h, p)
    BY <1>2, <1>8 DEF Stays
  <2> QED BY <1>2, <1>8, <2>1 DEF Heard, Ignored, own, d, q, seen
<1>9. ASSUME d # NoDocument, own,
             h = Relisted(g, Without(f.pending, q))
      PROVE  Heard(f, e, h)
  <2>1. h.docs = f.docs /\ h.pending = Without(f.pending, q)
        /\ h.expectations = f.expectations \ {SaveOf(e)}
    BY <1>2, <1>9, Relisting
  <2>2. \A p \in Paths \ {q} : Stays(f, h, p)
    BY <1>7, <2>1 DEF Stays
  <2>3. Ended(f, e, h)
    BY <1>7, <1>9, <2>1 DEF Ended, own, q
  <2> QED BY <1>9, <2>1, <2>2, <2>3 DEF Heard, d, q
<1>10. ASSUME d # NoDocument, ~own, seen.content \in Texts,
              h = Placed(g, Without(f.pending, q), q, q, Reloaded(d, q, seen.content))
       PROVE  Heard(f, e, h)
  <2> DEFINE new == Reloaded(d, q, seen.content)
  <2>1. seen.content = Content(q) /\ Content(q) \in Texts
    <3>1. seen.content # Absent
      BY <1>10, ExternalAssumption DEF Texts, Absent
    <3> QED BY <1>3, <1>10, <3>1
  <2>2. d \in Documents
    BY <1>1, <1>3, <1>10 DEF d
  <2>3. new # NoDocument /\ new.baseline = Content(q)
    BY <2>1, <2>2, BranchesFrom
  <2> HIDE DEF new
  <2>4. /\ h.docs[q] = new /\ \A p \in Paths \ {q} : h.docs[p] = g.docs[p]
        /\ h.pending = Without(f.pending, q) /\ h.expectations = g.expectations
    BY <1>2, <1>3, <1>10, Placing DEF new
  <2>5. /\ \A p \in Paths \ {q} : h.docs[p] = f.docs[p]
        /\ h.expectations = f.expectations \ {SaveOf(e)}
    BY <1>2, <2>4
  <2>6. \A p \in Paths \ {q} : Stays(f, h, p)
    BY <1>7, <2>4, <2>5 DEF Stays
  <2>7. Adopted(f, e, h)
    BY <1>7, <1>10, <2>1, <2>3, <2>4, <2>5 DEF Adopted, own, q
  <2> QED BY <1>10, <2>5, <2>6, <2>7 DEF Heard, d, q
<1>11. ASSUME d # NoDocument, ~own, ~SaysNothing(d, seen),
              h = Relisted(g, Raised(f.pending, offer))
       PROVE  Heard(f, e, h)
  <2>1. h.docs = f.docs /\ h.pending = Raised(f.pending, offer)
        /\ h.expectations = f.expectations \ {SaveOf(e)}
    BY <1>2, <1>11, Relisting
  <2>2. \A p \in Paths \ {q} : Stays(f, h, p)
    BY <1>7, <2>1 DEF Stays
  <2>3. Offered(f, e, h)
    BY <1>7, <1>11, <2>1 DEF Offered, own, q, d, seen
  <2> QED BY <1>11, <2>1, <2>2, <2>3 DEF Heard, d, q
<1>12. Heard(f, e, h)
  BY <1>5, <1>6, <1>8, <1>9, <1>10, <1>11
<1> QED BY <1>12 DEF h

\* So does a move to a path that is free.
LEMMA Carrying ==
    ASSUME disk \in [Paths -> Files], NEW e \in Named, e.kind = "Rename", NEW f, Sound(f),
           e.previous # e.path, Content(e.path) \in Texts, f.docs[e.path] = NoDocument,
           SaveOf(e) \notin f.expectations
    PROVE  Carried(f, e, Ingested(f, e))
<1> DEFINE q == e.path
           s == e.previous
           seen == Observed(e)
           g == [f EXCEPT !.expectations = @ \ {SaveOf(e)}]
           d == f.docs[s]
           offer == [path |-> q, removed |-> seen.kind = "Remove", content |-> seen.content]
           kept == Without(f.pending, s)
           h == Ingested(f, e)
<1>1. /\ f \in Flows /\ f.pending \in Seq(Offers) /\ OneEach(f.pending)
      /\ f.docs \in [Paths -> Documents \cup {NoDocument}]
  BY DEF Sound, Flows
<1>2. /\ g \in Flows /\ g.docs = f.docs /\ g.pending = f.pending
      /\ g.expectations = f.expectations
  <2>1. f.expectations \ {SaveOf(e)} = f.expectations
    OBVIOUS
  <2> QED BY <1>1, <2>1 DEF Flows
<1>3. /\ q \in Paths /\ s \in Paths /\ s # q
      /\ Content(q) \in Contents /\ Absent \notin Contents
      /\ Content(q) \in Texts
  BY ExternalAssumption DEF Named, Natives, Texts, Absent
<1>4. /\ seen.kind = "Rename" /\ seen.content = Content(q)
      /\ (seen.kind = "Remove") = FALSE
  BY <1>3 DEF Observed
<1>5. h = IF d = NoDocument THEN g ELSE Processed(g, e, seen, FALSE)
  <2>1. SaveOf(e) \in f.expectations <=> FALSE
    OBVIOUS
  <2>2. ~SaysNothing(d, seen)
    BY <1>4 DEF SaysNothing
  <2> HIDE DEF seen
  <2>3. h = IF d = NoDocument \/ (~(SaveOf(e) \in f.expectations) /\ SaysNothing(d, seen))
            THEN g
            ELSE Processed(g, e, seen, SaveOf(e) \in f.expectations)
    BY <1>2 DEF Ingested, SaveOf, seen
  <2>4. (SaveOf(e) \in f.expectations) = FALSE
    BY <2>1
  <2> QED BY <2>2, <2>3, <2>4
<1> HIDE DEF g, h
<1> DEFINE adoptable == /\ seen.content \in Texts
                        /\ seen.kind = "Rename" => g.docs[q] = NoDocument
<1>6. Processed(g, e, seen, FALSE) =
         IF d = NoDocument THEN g
         ELSE IF CanCleanAdopt(d, seen, FALSE) /\ adoptable
              THEN Placed(g, Without(kept, q), s, q, Reloaded(d, q, seen.content))
         ELSE IF adoptable
              THEN Placed(g, Raised(kept, offer), s, q, Followed(d, q, seen.content))
         ELSE g
  <2> HIDE DEF seen
  <2> QED BY <1>2, <1>4 DEF Processed, Placed
<1>12. adoptable
  BY <1>2, <1>3, <1>4
<1> HIDE DEF adoptable
<1> HIDE DEF seen, d, offer, q, s, kept
<1>7. /\ PathsOf(Without(kept, q)) = PathsOf(f.pending) \ {s, q}
      /\ PathsOf(Raised(kept, offer)) = (PathsOf(f.pending) \ {s}) \cup {q}
  <2>1. offer.path = q /\ offer \in Offers
    BY <1>3, <1>4 DEF offer, Offers, Conflicts
  <2>2. kept \in Seq(Offers) /\ OneEach(kept) /\ PathsOf(kept) = PathsOf(f.pending) \ {s}
    BY <1>1, PathGoes DEF kept
  <2>3. /\ PathsOf(Without(kept, q)) = PathsOf(kept) \ {q}
        /\ PathsOf(Raised(kept, offer)) = PathsOf(kept) \cup {q}
    BY <2>1, <2>2, PathGoes, OneComes
  <2> QED BY <2>2, <2>3
<1>8. ASSUME d = NoDocument, h = g
      PROVE  Carried(f, e, h)
  <2>1. \A p : Stays(f, h, p)
    BY <1>2, <1>8 DEF Stays
  <2> QED BY <1>2, <1>8, <2>1 DEF Carried, d, s
<1>9. ASSUME d # NoDocument, NEW list, NEW new, new # NoDocument, new.baseline = Content(q),
             PathsOf(list) \in {PathsOf(f.pending) \ {s, q},
                                (PathsOf(f.pending) \ {s}) \cup {q}},
             h = Placed(g, list, s, q, new)
      PROVE  Carried(f, e, h)
  <2>1. /\ h.docs[q] = new /\ h.docs[s] = NoDocument
        /\ \A p \in Paths \ {s, q} : h.docs[p] = g.docs[p]
        /\ h.pending = list /\ h.expectations = g.expectations
    <3>1. g \in Flows /\ q \in Paths /\ s \in Paths /\ s # q /\ h = Placed(g, list, s, q, new)
      BY <1>2, <1>3, <1>9
    <3> QED BY <3>1, Placing
  <2>2. /\ h.expectations = f.expectations
        /\ \A p \in Paths \ {q, s} : h.docs[p] = f.docs[p]
    BY <1>2, <2>1
  <2>3. \A p \in Paths \ {q, s} : Stays(f, h, p)
    BY <1>9, <2>1, <2>2 DEF Stays
  <2>4. s \notin PathsOf(h.pending)
    BY <1>3, <1>9, <2>1
  <2> QED BY <1>9, <2>1, <2>2, <2>3, <2>4 DEF Carried, d, q, s
<1>10. ASSUME d # NoDocument PROVE Carried(f, e, h)
  <2>1. d \in Documents
    BY <1>1, <1>3, <1>10 DEF d
  <2>2. /\ Reloaded(d, q, Content(q)) # NoDocument
        /\ Reloaded(d, q, Content(q)).baseline = Content(q)
        /\ Followed(d, q, Content(q)) # NoDocument
        /\ Followed(d, q, Content(q)).baseline = Content(q)
    BY <1>3, <2>1, BranchesFrom
  <2>3. CASE CanCleanAdopt(d, seen, FALSE)
    BY <1>4, <1>5, <1>6, <1>7, <1>9, <1>10, <1>12, <2>2, <2>3
  <2>4. CASE ~CanCleanAdopt(d, seen, FALSE)
    BY <1>4, <1>5, <1>6, <1>7, <1>9, <1>10, <1>12, <2>2, <2>4
  <2> QED BY <2>3, <2>4
<1>11. Carried(f, e, h)
  BY <1>5, <1>8, <1>10
<1> QED BY <1>11 DEF h

-----------------------------------------------------------------------------
(* An event keeps what is known of the paths it is about.                   *)

\* What is left of a batch after one more event.
LEMMA OneLess ==
    ASSUME NEW events \in Seq(Named), NEW k \in 1..Len(events)
    PROVE  /\ Rest(events, k) \subseteq Rest(events, k - 1)
           /\ \A i \in Rest(events, k - 1) : i = k \/ i \in Rest(events, k)
           /\ k \in Rest(events, k - 1) /\ k \in DOMAIN events /\ events[k] \in Named
           /\ \A i \in Rest(events, k) : i # k /\ i \in DOMAIN events
<1>1. Len(events) \in Nat /\ DOMAIN events = 1..Len(events)
  BY LenProperties
<1> QED BY <1>1, ElementOfSeq DEF Rest

\* What is known of a path is not touched by an event about another.
LEMMA UntouchedStays ==
    ASSUME NEW events \in Seq(Named), NEW k \in 1..Len(events), NEW f, NEW h, NEW lost, NEW p,
           Good(f, events, k - 1, lost, p), Stays(f, h, p),
           About(events[k]) # p, events[k].path # p,
           \A s : Expects(h, p, s) <=> Expects(f, p, s)
    PROVE  Good(h, events, k, lost, p)
<1>1. (Off(h, p) <=> Off(f, p)) /\ (Free(f, p) => Free(h, p))
  BY DEF Stays, Off, Free
<1>2. Later(events, k - 1, p) => Later(events, k, p)
  BY OneLess DEF Later
<1>3. Unheard(f, events, k - 1, p) => Unheard(h, events, k, p)
  BY OneLess DEF Unheard
<1>4. Arrivals(h, events, k, p)
  BY <1>1, OneLess DEF Good, Arrivals
<1>5. Removals(h, p) /\ Agreement(h, p)
  BY DEF Good, Stays, Removals, Agreement
<1>6. Reports(h, events, k, lost, p)
  BY <1>1, OneLess DEF Good, Reports
<1>7. Known(h, events, k, lost, p)
  BY <1>1, <1>2 DEF Good, Known, Stays
<1>8. Mended(h, events, k, p)
  BY <1>3 DEF Good, Mended, Stays
<1> QED BY <1>4, <1>5, <1>6, <1>7, <1>8 DEF Good

\* Where no document is open, no event changes what is known.
LEMMA UnopenedStays ==
    ASSUME NEW events \in Seq(Named), NEW k \in 1..Len(events), NEW f, NEW h, NEW lost, NEW p,
           Good(f, events, k - 1, lost, p), Stays(f, h, p), f.docs[p] = NoDocument,
           h.expectations \subseteq f.expectations
    PROVE  Good(h, events, k, lost, p)
<1>1. h.docs[p] = NoDocument /\ ~Off(h, p) /\ (Free(f, p) => Free(h, p))
  BY DEF Stays, Off, Free
<1>2. \A s : Expects(h, p, s) => Expects(f, p, s)
  BY DEF Expects
<1>3. Arrivals(h, events, k, p)
  BY <1>1, <1>2, OneLess DEF Good, Arrivals
<1>4. Removals(h, p) /\ Agreement(h, p)
  BY <1>1 DEF Good, Removals, Agreement
<1>5. Reports(h, events, k, lost, p) /\ Known(h, events, k, lost, p)
  BY <1>1 DEF Reports, Known
<1>6. Mended(h, events, k, p)
  BY <1>1 DEF Good, Mended, Stays
<1> QED BY <1>3, <1>4, <1>5, <1>6 DEF Good

\* What the file holds when an event says nothing, or does.
LEMMA Telling ==
    ASSUME NEW e, e.kind # "Rename", NEW d
    PROVE  /\ SaysNothing(d, Observed(e)) =>
                IF Content(e.path) \in Contents THEN d.baseline = Content(e.path)
                                                ELSE d.baseline = Absent
           /\ ~SaysNothing(d, Observed(e)) /\ Content(e.path) \in Contents
                => d.baseline # Content(e.path)
BY DEF SaysNothing, Observed

\* What is known of the path of an event stays known when the event is ingested.
LEMMA HearingKeeps ==
    ASSUME saving = NoPath, NoPath \notin Paths, Absent \notin Contents,
           NEW events \in Seq(Named), NEW k \in 1..Len(events), events[k].kind # "Rename",
           NEW f, NEW h, Heard(f, events[k], h), NEW lost,
           Good(f, events, k - 1, lost, events[k].path), events[k].path \in Paths
    PROVE  Good(h, events, k, lost, events[k].path)
<1> DEFINE e == events[k]
           q == e.path
           d == f.docs[q]
           own == SaveOf(e) \in f.expectations
<1>1. CASE d = NoDocument
  BY <1>1, UnopenedStays DEF Heard
<1>2. ASSUME d # NoDocument PROVE Good(h, events, k, lost, q)
  <2>1. /\ \/ Ended(f, e, h) \/ Ignored(f, e, h) \/ Adopted(f, e, h) \/ Offered(f, e, h)
        /\ h.expectations = f.expectations \ {SaveOf(e)}
    BY <1>2 DEF Heard
  <2>2. \A s : Expects(h, q, s) => Expects(f, q, s)
    BY <2>1 DEF Expects
  <2>3. ~Free(f, q) /\ Texts \subseteq Contents
    BY <1>2 DEF Free, Texts
  <2>4. \/ h.docs[q] = d
        \/ /\ Adopted(f, e, h) /\ h.docs[q] # NoDocument /\ h.docs[q].baseline = Content(q)
           /\ Content(q) \in Texts /\ Content(q) # Absent /\ ~Off(h, q)
    <3>1. Adopted(f, e, h) => /\ h.docs[q] # NoDocument /\ h.docs[q].baseline = Content(q)
                              /\ Content(q) \in Texts
      BY DEF Adopted
    <3> QED BY <2>1, <2>3, <3>1 DEF Ended, Ignored, Offered, Stays, Off
  <2>5. Off(h, q) => Off(f, q) /\ h.docs[q] = d
    BY <2>4 DEF Off
  <2>6. Arrivals(h, events, k, q)
    BY <2>3, OneLess DEF Good, Arrivals
  <2>7. Removals(h, q)
    BY <2>2, <2>4 DEF Good, Removals
  <2>8. Agreement(h, q)
    BY <2>2, <2>4 DEF Good, Agreement
  <2>9. Reports(h, events, k, lost, q)
    BY <2>2, <2>5, OneLess DEF Good, Reports
  <2>10. Known(h, events, k, lost, q)
    <3>1. SUFFICES ASSUME Off(h, q)
                   PROVE  q \in PathsOf(h.pending) \/ Excused(q, lost) \/ Later(events, k, q)
      BY DEF Known
    <3>2. CASE Ended(f, e, h)
      <4>1. Off(f, q) /\ own
        BY <2>5, <3>1, <3>2 DEF Ended
      <4>2. CASE e.stamp # NoStamp
        <5>1. Expects(f, q, e.stamp)
          BY <4>1, <4>2 DEF Expects, SaveOf
        <5>2. Excused(q, lost) \/ Later(events, k, q)
          BY <4>1, <4>2, <5>1, OneLess DEF Good, Reports
        <5> QED BY <5>2
      <4>3. CASE e.stamp = NoStamp
        <5>1. Expects(f, q, disk[q].stamp)
          BY <4>1, <4>3 DEF Expects, SaveOf
        <5>2. d.baseline = Content(q) \/ q \in misanswered
          BY <1>2, <5>1 DEF Good, Agreement
        <5> QED BY <4>1, <5>2 DEF Off, Excused
      <4> QED BY <4>2, <4>3
    <3>3. ~Ignored(f, e, h)
      BY <2>5, <3>1, Telling DEF Ignored, Off
    <3>4. ~Adopted(f, e, h)
      BY <2>3, <3>1 DEF Adopted, Off
    <3>5. CASE Offered(f, e, h)
      BY <3>5 DEF Offered
    <3> QED BY <2>1, <3>2, <3>3, <3>4, <3>5
  <2>11. Mended(h, events, k, q)
    <3>1. SUFFICES ASSUME q \in ours
                   PROVE  /\ Content(q) \in Texts
                          /\ (/\ h.docs[q] # NoDocument /\ q # saving
                              /\ h.docs[q].baseline # Content(q))
                                => q \in misanswered
                          /\ q \in PathsOf(h.pending) =>
                                /\ h.docs[q] # NoDocument
                                /\ \/ q # saving /\ h.docs[q].baseline # Content(q)
                                   \/ Unheard(h, events, k, q)
      BY DEF Mended
    <3>2. /\ Content(q) \in Texts /\ Content(q) \in Contents
          /\ d.baseline # Content(q) => q \in misanswered
          /\ q \in PathsOf(f.pending) => d.baseline # Content(q) \/ Unheard(f, events, k - 1, q)
      BY <1>2, <2>3, <3>1 DEF Good, Mended
    <3>3. h.docs[q] # NoDocument => (h.docs[q].baseline # Content(q) => q \in misanswered)
      BY <2>4, <3>2
    <3>4. ASSUME q \in PathsOf(h.pending)
          PROVE  /\ h.docs[q] # NoDocument
                 /\ h.docs[q].baseline # Content(q) \/ Unheard(h, events, k, q)
      <4>1. ~Ended(f, e, h) /\ ~Adopted(f, e, h)
        BY <3>4 DEF Ended, Adopted
      <4>2. CASE Offered(f, e, h)
        BY <1>2, <2>4, <3>2, <4>1, <4>2, Telling DEF Offered
      <4>3. CASE Ignored(f, e, h)
        <5>1. q \in PathsOf(f.pending) /\ ~own /\ h.docs[q] = d
          BY <3>4, <4>3 DEF Ignored, Stays
        <5>2. \A s : Expects(h, q, s) <=> Expects(f, q, s)
          BY <2>1, <5>1 DEF Expects
        <5>3. Unheard(f, events, k - 1, q) => Unheard(h, events, k, q)
          <6>1. SUFFICES ASSUME Unheard(f, events, k - 1, q) PROVE Unheard(h, events, k, q)
            OBVIOUS
          <6>2. Expects(f, q, disk[q].stamp)
            BY <6>1 DEF Unheard
          <6>3. ~(e.stamp \in {NoStamp, disk[q].stamp})
            <7>1. e.stamp \in {NoStamp, disk[q].stamp}
                     => SaveOf(e) = [path |-> q, stamp |-> disk[q].stamp]
              BY DEF SaveOf
            <7> QED BY <5>1, <6>2, <7>1 DEF Expects
          <6> QED BY <5>2, <6>1, <6>2, <6>3, OneLess DEF Unheard
        <5> QED BY <1>2, <3>2, <5>1, <5>3
      <4> QED BY <2>1, <4>1, <4>2, <4>3
    <3> QED BY <3>2, <3>3, <3>4
  <2> QED BY <2>6, <2>7, <2>8, <2>9, <2>10, <2>11 DEF Good
<1> QED BY <1>1, <1>2

\* What is known of the two paths of a move stays known.
LEMMA CarryingKeeps ==
    ASSUME saving = NoPath, NEW events \in Seq(Named), NEW k \in 1..Len(events),
           events[k].kind = "Rename", Delivered(events[k].path), NEW f, NEW h,
           Carried(f, events[k], h), f.docs[events[k].path] = NoDocument, NEW lost, NEW p,
           p \in {events[k].path, events[k].previous},
           Good(f, events, k - 1, lost, events[k].path), Good(f, events, k - 1, lost, p)
    PROVE  Good(h, events, k, lost, p)
<1> DEFINE e == events[k]
           q == e.path
           s == e.previous
<1>1. CASE f.docs[s] = NoDocument
  BY <1>1, UnopenedStays DEF Carried
<1>2. ASSUME f.docs[s] # NoDocument PROVE Good(h, events, k, lost, p)
  <2>1. /\ h.expectations = f.expectations /\ h.docs[s] = NoDocument
        /\ s \notin PathsOf(h.pending)
        /\ h.docs[q] # NoDocument /\ h.docs[q].baseline = Content(q)
    BY <1>2 DEF Carried
  <2>2. /\ Content(q) \in Texts /\ Content(q) \in Contents /\ q \notin ours
        /\ \A i \in Rest(events, k) : ~MovesTo(events[i], q)
        /\ \A n \in ToSet(natives) : ~MovesTo(n, q)
    <3>1. MovesTo(e, q)
      BY DEF MovesTo
    <3>2. k \in Rest(events, k - 1)
      BY OneLess
    <3>3. Free(f, q) /\ \A j \in Rest(events, k - 1) : MovesTo(events[j], q) => k = j
      BY <3>1, <3>2 DEF Good, Arrivals
    <3>4. \A n \in ToSet(natives) : ~MovesTo(n, q)
      BY DEF Good, Arrivals
    <3>5. \A i \in Rest(events, k) : i \in Rest(events, k - 1) /\ i # k
      BY OneLess
    <3> QED BY <3>3, <3>4, <3>5 DEF Free, Texts
  <2>3. CASE p = s
    <3>1. ~Off(h, s) /\ ~Free(f, s)
      BY <1>2, <2>1 DEF Off, Free
    <3>2. Arrivals(h, events, k, s)
      BY <2>3, <3>1, OneLess DEF Good, Arrivals
    <3>3. Removals(h, s) /\ Agreement(h, s) /\ Mended(h, events, k, s)
      BY <2>1, <2>3 DEF Good, Removals, Agreement, Mended
    <3>4. Reports(h, events, k, lost, s) /\ Known(h, events, k, lost, s)
      BY <3>1 DEF Reports, Known
    <3> QED BY <2>3, <3>2, <3>3, <3>4 DEF Good
  <2>4. CASE p = q
    <3>1. ~Off(h, q)
      BY <2>1, <2>2 DEF Off
    <3>2. Arrivals(h, events, k, q)
      BY <2>2 DEF Arrivals
    <3>3. Removals(h, q)
      <4>1. Content(q) # Absent
        BY <2>2, ExternalAssumption DEF Absent
      <4> QED BY <2>4, <4>1 DEF Good, Removals
    <3>4. Agreement(h, q) /\ Mended(h, events, k, q)
      BY <2>1, <2>2 DEF Agreement, Mended
    <3>5. Reports(h, events, k, lost, q) /\ Known(h, events, k, lost, q)
      BY <3>1 DEF Reports, Known
    <3> QED BY <2>4, <3>2, <3>3, <3>4, <3>5 DEF Good
  <2> QED BY <2>3, <2>4
<1> QED BY <1>1, <1>2

-----------------------------------------------------------------------------
(* A batch and a comparison keep what is known.                             *)

\* A batch whose renames were delivered, and what is known of all paths after its
\* first k events.
Reported(events) ==
    \A i \in DOMAIN events : events[i].kind = "Rename" => Delivered(events[i].path)
AllGood(f, events, k, lost) == \A p \in Paths : Good(f, events, k, lost, p)

\* Ingesting one more event keeps what is known.
LEMMA EventKeepsGood ==
    ASSUME disk \in [Paths -> Files], saving = NoPath,
           NEW events \in Seq(Named), Reported(events), NEW k \in 1..Len(events),
           NEW f, Sound(f), NEW lost, AllGood(f, events, k - 1, lost)
    PROVE  /\ AllGood(Ingested(f, events[k]), events, k, lost)
           /\ Ingested(f, events[k]).expectations \subseteq f.expectations
<1> DEFINE e == events[k]
           h == Ingested(f, e)
<1>1. e \in Named /\ k \in DOMAIN events /\ k \in Rest(events, k - 1)
      /\ e.path \in Paths /\ (e.kind = "Rename" => e.previous \in Paths)
  BY OneLess DEF Named, Natives
<1>2. NoPath \notin Paths /\ Absent \notin Contents
  BY ExternalAssumption DEF NoPath, Absent
<1>3. \A p \in Paths : Good(f, events, k - 1, lost, p)
  BY DEF AllGood
<1> HIDE DEF h
<1>4. ASSUME e.kind # "Rename"
      PROVE  AllGood(h, events, k, lost) /\ h.expectations \subseteq f.expectations
  <2>1. Heard(f, e, h)
    BY <1>1, <1>4, Hearing DEF h
  <2>2. /\ h.expectations = f.expectations \ {SaveOf(e)}
        /\ \A p \in Paths \ {e.path} : Stays(f, h, p)
    BY <2>1 DEF Heard
  <2>3. Good(h, events, k, lost, e.path)
    BY <1>1, <1>2, <1>3, <1>4, <2>1, HearingKeeps
  <2>4. ASSUME NEW p \in Paths, p # e.path PROVE Good(h, events, k, lost, p)
    <3>1. About(e) # p
      BY <1>4, <2>4 DEF About
    <3>2. \A s : Expects(h, p, s) <=> Expects(f, p, s)
      <4>1. SaveOf(e).path = e.path
        BY DEF SaveOf
      <4>2. \A s : [path |-> p, stamp |-> s] # SaveOf(e)
        BY <2>4, <4>1
      <4> QED BY <2>2, <4>2 DEF Expects
    <3> QED BY <1>3, <2>2, <2>4, <3>1, <3>2, UntouchedStays
  <2> QED BY <2>2, <2>3, <2>4 DEF AllGood
<1>5. ASSUME e.kind = "Rename"
      PROVE  AllGood(h, events, k, lost) /\ h.expectations \subseteq f.expectations
  <2>1. /\ Free(f, e.path) /\ e.previous # e.path
        /\ e.stamp # NoStamp /\ ~Expects(f, e.path, e.stamp)
    <3>1. MovesTo(e, e.path)
      BY <1>5 DEF MovesTo
    <3> QED BY <1>1, <1>3, <3>1 DEF Good, Arrivals
  <2>2. SaveOf(e) \notin f.expectations
    BY <2>1 DEF SaveOf, Expects
  <2>3. Carried(f, e, h)
    BY <1>1, <1>5, <2>1, <2>2, Carrying DEF Free, h
  <2>4. /\ h.expectations = f.expectations
        /\ \A p \in Paths \ {e.path, e.previous} : Stays(f, h, p)
    BY <2>3 DEF Carried
  <2>5. Delivered(e.path)
    BY <1>1, <1>5 DEF Reported
  <2>6. ASSUME NEW p \in Paths, p \in {e.path, e.previous} PROVE Good(h, events, k, lost, p)
    BY <1>1, <1>3, <1>5, <2>1, <2>3, <2>5, <2>6, CarryingKeeps DEF Free
  <2>7. ASSUME NEW p \in Paths, p \notin {e.path, e.previous} PROVE Good(h, events, k, lost, p)
    <3>1. About(e) # p /\ e.path # p
      BY <1>5, <2>7 DEF About
    <3>2. \A s : Expects(h, p, s) <=> Expects(f, p, s)
      BY <2>4 DEF Expects
    <3> QED BY <1>3, <2>4, <2>7, <3>1, <3>2, UntouchedStays
  <2> QED BY <2>4, <2>6, <2>7 DEF AllGood
<1>6. AllGood(h, events, k, lost) /\ h.expectations \subseteq f.expectations
  BY <1>4, <1>5
<1> QED BY <1>6 DEF h

\* Ingesting a batch keeps what is known.
LEMMA BatchKeepsGood ==
    ASSUME disk \in [Paths -> Files], saving = NoPath,
           NEW events \in Seq(Named), Reported(events),
           NEW f, Sound(f), NEW lost, AllGood(f, events, 0, lost)
    PROVE  /\ AllGood(IngestedAll(f, events), events, Len(events), lost)
           /\ IngestedAll(f, events).expectations \subseteq f.expectations
           /\ Sound(IngestedAll(f, events))
<1> DEFINE L == Len(events)
<1>1. L \in Nat /\ \A i \in 1..L : events[i] \in Named
  BY LenProperties, ElementOfSeq
<1>2. PICK a : After(f, events, L, a) /\ IngestedAll(f, events) = a[L]
  BY <1>1, BatchIsAfter
<1>3. \A n \in 0..L : a[n] = IF n = 0 THEN f ELSE Ingested(a[n - 1], events[n])
  BY <1>2 DEF After
<1> DEFINE Keeps(n) == /\ Sound(a[n]) /\ AllGood(a[n], events, n, lost)
                       /\ a[n].expectations \subseteq f.expectations
           P == {n \in 0..L : Keeps(n)}
<1>4. 0 \in P
  <2>1. a[0] = f
    BY <1>1, <1>3
  <2> QED BY <1>1, <2>1
<1>5. ASSUME NEW n \in 1..L, n - 1 \in P PROVE n \in P
  <2> DEFINE g == a[n - 1]
  <2>1. a[n] = Ingested(g, events[n])
    BY <1>1, <1>3
  <2>2. Sound(g) /\ AllGood(g, events, n - 1, lost) /\ g.expectations \subseteq f.expectations
    BY <1>5
  <2> HIDE DEF g
  <2>3. Sound(Ingested(g, events[n]))
    BY <1>1, <2>2, IngestingKeeps
  <2>4. /\ AllGood(Ingested(g, events[n]), events, n, lost)
        /\ Ingested(g, events[n]).expectations \subseteq g.expectations
    BY <2>2, EventKeepsGood
  <2> QED BY <1>1, <2>1, <2>2, <2>3, <2>4
<1> HIDE DEF P, L
<1>6. \A n \in 0..L : n \in P
  BY <1>1, <1>4, <1>5, UpTo
<1>7. Keeps(L)
  BY <1>1, <1>6 DEF P
<1> QED BY <1>2, <1>7 DEF L

\* Telling the flow of every document that the disk contradicts leaves out none.
LEMMA ToldOfAll ==
    ASSUME NEW S, S \subseteq Paths, NEW order \in SetToSeqs(S)
    PROVE  /\ \A p \in S : \E i \in DOMAIN order : order[i] = p
           /\ order \in Seq(S)
  BY ExternalAssumption, FS_Subset, AllInOrder

\* Comparing every document with the disk makes up for the changes lost.
LEMMA ReconcilingKeepsGood ==
    ASSUME disk \in [Paths -> Files], saving = NoPath,
           NEW f, Sound(f), NEW events \in Seq(Named), NEW lost,
           AllGood(f, events, Len(events), lost), NEW g \in Reconciled(f)
    PROVE  /\ \E told \in Seq(Named) : AllGood(g, told, Len(told), FALSE)
           /\ g.expectations \subseteq f.expectations
<1>1. PICK order \in SetToSeqs(Contradicted(f)) :
         g = IngestedAll(f, [i \in DOMAIN order |-> Told(order[i])])
  BY DEF Reconciled
<1> DEFINE told == [i \in DOMAIN order |-> Told(order[i])]
<1>2. /\ \A p \in Contradicted(f) : \E i \in DOMAIN order : order[i] = p
      /\ order \in Seq(Contradicted(f)) /\ Contradicted(f) \subseteq Paths
  <2>1. Contradicted(f) \subseteq Paths
    BY DEF Contradicted
  <2> QED BY <2>1, ToldOfAll
<1>3. \A p \in Paths : /\ Told(p) \in Named /\ Told(p).kind # "Rename" /\ Told(p).path = p
                       /\ Told(p).stamp = NoStamp
  BY DEF Told, Native, Named, Natives, Kinds, NoStamp
<1>4. DOMAIN order = 1..Len(order) /\ Len(order) \in Nat
      /\ \A i \in DOMAIN order : order[i] \in Paths
  BY <1>2, LenProperties, ElementOfSeq
<1>5. told \in Seq(Named)
  <2>1. told \in [1..Len(order) -> Named]
    BY <1>3, <1>4
  <2> HIDE DEF told
  <2> QED BY <1>4, <2>1, SeqDef
<1>6. \A i \in DOMAIN told : told[i] = Told(order[i]) /\ order[i] \in Paths
  BY <1>4
<1>7. DOMAIN told = DOMAIN order
  OBVIOUS
<1> HIDE DEF told
<1>8. \A i \in DOMAIN told : told[i].kind # "Rename" /\ told[i].stamp = NoStamp
  BY <1>3, <1>6
<1>9. Reported(told)
  BY <1>8 DEF Reported
<1>10. ASSUME NEW p \in Paths PROVE Good(f, told, 0, FALSE, p)
  <2>1. Good(f, events, Len(events), lost, p)
    BY DEF AllGood
  <2>2. Rest(told, 0) = DOMAIN told
    <3>1. DOMAIN told = 1..Len(told) /\ Len(told) \in Nat
      BY <1>5, LenProperties
    <3>2. \A i \in DOMAIN told : i > 0
      BY <3>1
    <3> QED BY <3>2 DEF Rest
  <2>3. Rest(events, Len(events)) = {}
    BY LenProperties DEF Rest
  <2>4. Arrivals(f, told, 0, p)
    BY <1>8, <2>1, <2>2 DEF Good, Arrivals, MovesTo
  <2>5. Reports(f, told, 0, FALSE, p)
    BY <1>8, <2>2 DEF Reports
  <2>6. Known(f, told, 0, FALSE, p)
    <3>1. Off(f, p) => p \in Contradicted(f)
      BY DEF Off, Contradicted
    <3>2. p \in Contradicted(f) => \E i \in DOMAIN told : About(told[i]) = p
      BY <1>2, <1>3, <1>6, <1>7 DEF About
    <3> QED BY <2>2, <3>1, <3>2 DEF Known, Later
  <2>7. Mended(f, told, 0, p)
    BY <2>1, <2>3 DEF Good, Mended, Unheard
  <2> QED BY <2>1, <2>4, <2>5, <2>6, <2>7 DEF Good
<1>11. AllGood(f, told, 0, FALSE)
  BY <1>10 DEF AllGood
<1>12. /\ AllGood(IngestedAll(f, told), told, Len(told), FALSE)
       /\ IngestedAll(f, told).expectations \subseteq f.expectations
  BY <1>5, <1>9, <1>11, BatchKeepsGood
<1>13. g = IngestedAll(f, told)
  BY <1>1 DEF told
<1> QED BY <1>5, <1>12, <1>13

\* Pumping the events: the batch, or the comparison with the disk.
LEMMA PumpInforms ==
    ASSUME IInv, Informed, Pump
    PROVE  Informed'
<1> DEFINE f == IngestedAll(Flow, inbox)
<1>1. /\ UNCHANGED <<disk, natives, saving, ours, externals, commands>>
      /\ inbox' = <<>> /\ reconcile' = FALSE /\ saving = NoPath
      /\ misanswered' = {p \in misanswered : docs'[p] # NoDocument
                                             /\ docs'[p].baseline # Content(p)}
  BY DEF Pump, diskVars
<1>2. disk \in [Paths -> Files] /\ Sound(Flow) /\ inbox \in Seq(Named)
      /\ \A e \in expectations : e.stamp # NoStamp
  BY WhatIsKnown DEF IInv
<1>3. Reported(inbox) /\ AllGood(Flow, inbox, 0, reconcile)
  BY WhatIsKnown DEF Reported, Delivered, AllGood
<1>4. /\ AllGood(f, inbox, Len(inbox), reconcile) /\ Sound(f)
      /\ f.expectations \subseteq expectations
  BY <1>1, <1>2, <1>3, FlowFields, BatchKeepsGood
<1>5. PICK g \in IF reconcile THEN Reconciled(f) ELSE {f} : SetFlow(g)
  BY DEF Pump
<1> HIDE DEF f
<1>6. /\ \E told \in Seq(Named) : AllGood(g, told, Len(told), FALSE)
      /\ g.expectations \subseteq expectations
  <2>1. CASE reconcile
    BY <1>1, <1>2, <1>4, <1>5, <2>1, ReconcilingKeepsGood
  <2>2. CASE ~reconcile
    <3>1. g = f /\ reconcile = FALSE
      <4>1. reconcile \in BOOLEAN
        BY Parts DEF Counted
      <4> QED BY <1>5, <2>2, <4>1
    <3> QED BY <1>2, <1>4, <3>1
  <2> QED BY <2>1, <2>2
<1>7. PICK told \in Seq(Named) : AllGood(g, told, Len(told), FALSE)
  BY <1>6
<1>8. /\ Flow'.docs = g.docs /\ Flow'.pending = g.pending
      /\ Flow'.expectations = g.expectations /\ docs' = g.docs
      /\ expectations' \subseteq expectations
  BY <1>5, <1>6 DEF SetFlow, Flow
<1>9. \A p : Content(p)' = Content(p)
  BY <1>1 DEF Content
<1>10. Rest(told, Len(told)) = {} /\ Rest(inbox', 0) = {} /\ Rest(inbox, 0)' = {}
  <2>1. DOMAIN <<>> = {}
    OBVIOUS
  <2> QED BY <1>1, <2>1, LenProperties DEF Rest
<1>11. ASSUME NEW p \in Paths PROVE Good(Flow, inbox, 0, reconcile, p)'
  <2>1. Good(g, told, Len(told), FALSE, p)
    BY <1>7 DEF AllGood
  <2>2. p \in misanswered => \/ p \in misanswered' \/ g.docs[p] = NoDocument
                             \/ g.docs[p].baseline = Content(p)
    BY <1>1, <1>8
  <2>3. \A s : Expects(Flow, p, s)' <=> Expects(g, p, s)
    BY <1>8 DEF Expects
  <2>4. Arrivals(Flow, inbox, 0, p)'
    <3>1. ~Delivered(p)'
      BY <1>1 DEF Delivered
    <3>2. Free(g, p) => Free(Flow, p)'
      BY <1>1, <1>8, <1>9 DEF Free
    <3> QED BY <1>1, <1>10, <2>1, <2>3, <3>1, <3>2 DEF Good, Arrivals
  <2>5. Removals(Flow, p)'
    <3>1. Absent \notin Contents
      BY WhatIsKnown
    <3>2. Created(p)' <=> Created(p)
      BY <1>1 DEF Created
    <3> QED BY <1>1, <1>8, <1>9, <2>1, <2>2, <2>3, <3>1, <3>2 DEF Good, Removals
  <2>6. Agreement(Flow, p)'
    BY <1>1, <1>8, <1>9, <2>1, <2>2, <2>3 DEF Good, Agreement
  <2>7. Reports(Flow, inbox, 0, reconcile, p)'
    BY <1>10 DEF Reports
  <2>8. Known(Flow, inbox, 0, reconcile, p)'
    <3>1. SUFFICES ASSUME Off(Flow, p)'
                   PROVE  p \in PathsOf(Flow'.pending) \/ Excused(p, reconcile)'
      BY DEF Known
    <3>2. Off(g, p) /\ g.docs[p] # NoDocument /\ g.docs[p].baseline # Content(p)
      BY <1>8, <1>9, <3>1 DEF Off
    <3>3. ~Later(told, Len(told), p)
      BY <1>10 DEF Later
    <3>4. p \in PathsOf(g.pending) \/ Excused(p, FALSE)
      BY <2>1, <3>2, <3>3 DEF Good, Known
    <3>5. Noticed(p) => Noticed(p)'
      BY <1>1 DEF Noticed
    <3> QED BY <1>1, <1>8, <2>2, <3>2, <3>4, <3>5 DEF Excused
  <2>9. Mended(Flow, inbox, 0, p)'
    <3>1. Unheard(g, told, Len(told), p) => Unheard(Flow, inbox, 0, p)'
      BY <1>1, <1>10, <2>3 DEF Unheard
    <3> QED BY <1>1, <1>8, <1>9, <2>1, <2>2, <3>1 DEF Good, Mended
  <2> QED BY <2>4, <2>5, <2>6, <2>7, <2>8, <2>9 DEF Good
<1>12. Stamps'
  BY <1>1, <1>8, <1>9 DEF Informed, Stamps
<1>13. Saving' /\ Orderly(natives')
  BY <1>1, WhatIsKnown DEF Saving
<1> QED BY <1>11, <1>12, <1>13 DEF Informed

-----------------------------------------------------------------------------
(* Every step keeps what is known.                                          *)

\* Every step keeps what is known.
LEMMA StepInforms ==
    ASSUME IInv, Calm, Informed, [Next]_vars
    PROVE  Informed'
<1>1. CASE UNCHANGED vars
  <2>1. /\ UNCHANGED <<inbox, reconcile, externals, disk, natives, docs, pending,
                       expectations, saving, misanswered, ours>>
        /\ commands' = commands
    BY <1>1 DEF vars, diskVars, flowVars, observerVars
  <2>2. commands' \in Nat /\ commands <= commands'
    BY <2>1, WhatIsKnown
  <2> QED BY <2>1, <2>2, StillInforms
<1>2. CASE Environment /\ UNCHANGED world
  <2>1. world.contents \subseteq Contents
    <3>1. world \in World
      BY Parts, ExternalAssumption DEF Counted
    <3> QED BY <3>1 DEF World
  <2>2. ASSUME NEW p \in Paths, NEW c \in Contents, WriteFile(p, c) PROVE Informed'
    BY <1>2, <2>2, WriteInforms
  <2>3. ASSUME NEW p \in Paths, RemoveFile(p) \/ HideFile(p) PROVE Informed'
    BY <1>2, <2>3, RemoveInforms, HideInforms
  <2>4. ASSUME NEW p \in Paths, NEW q \in Paths, MoveFile(p, q) PROVE Informed'
    BY <1>2, <2>4, MoveInforms
  <2>5. CASE Overflow
    BY <1>2, <2>5, OverflowInforms
  <2> QED BY <1>2, <2>1, <2>2, <2>3, <2>4, <2>5 DEF Environment
<1>3. CASE (\E i \in DOMAIN natives : Deliver(i)) /\ UNCHANGED world
  BY <1>3, DeliverInforms
<1>4. CASE Pump /\ UNCHANGED world
  BY <1>4, PumpInforms
<1>5. CASE User /\ UNCHANGED world
  BY <1>5, UserInforms
<1> QED BY <1>1, <1>2, <1>3, <1>4, <1>5 DEF Next

\* The invariant is inductive.
LEMMA KnownStepKeeps == KnownInv /\ [Next]_vars => KnownInv'
<1> SUFFICES ASSUME KnownInv, [Next]_vars PROVE KnownInv'
  OBVIOUS
<1>1. IInv /\ IInv'
  BY StepKeeps DEF KnownInv
<1>2. world' = world
  BY DEF Next, vars
<1>3. Calm' => Calm
  BY <1>2 DEF Calm, Faithful, External, Commands
<1> QED BY <1>1, <1>3, StepInforms DEF KnownInv

\* Once all has reached the flow, what is known is what the runs check.
LEMMA QuietIsKnown ==
    ASSUME IInv, Informed
    PROVE  DivergenceIsKnown /\ SaveEndsConflict
<1> SUFFICES ASSUME Quiet
             PROVE  /\ \A p \in Paths : IsOpen(p) /\ Diverges(p)
                                           => p \in PendingPaths \cup misanswered
                    /\ ours \cap PendingPaths \subseteq misanswered
  BY DEF DivergenceIsKnown, SaveEndsConflict
<1>1. natives = <<>> /\ inbox = <<>> /\ ~reconcile /\ saving = NoPath
  BY DEF Quiet
<1>2. ToSet(natives) = {} /\ Rest(inbox, 0) = {}
  <2>1. DOMAIN <<>> = {}
    OBVIOUS
  <2> QED BY <1>1, <2>1 DEF ToSet, Rest
<1>3. ASSUME NEW p \in Paths, IsOpen(p), Diverges(p)
      PROVE  p \in PendingPaths \cup misanswered
  <2>1. Off(Flow, p)
    BY <1>3, FlowFields DEF Off, IsOpen, Diverges
  <2>2. p # saving /\ ~Noticed(p) /\ ~Later(inbox, 0, p)
    BY <1>1, <1>2, WhatIsKnown DEF Noticed, Later
  <2>3. Known(Flow, inbox, 0, reconcile, p)
    BY WhatIsKnown DEF Good
  <2> QED BY <1>1, <2>1, <2>2, <2>3, FlowFields DEF Known, Excused, PendingPaths
<1>4. ASSUME NEW p \in ours, p \in PendingPaths PROVE p \in misanswered
  <2>1. p \in Paths
    BY Parts DEF Counted
  <2>2. Mended(Flow, inbox, 0, p) /\ ~Unheard(Flow, inbox, 0, p)
    BY <1>2, <2>1, WhatIsKnown DEF Good, Unheard
  <2> QED BY <1>4, <2>2, FlowFields DEF Mended, PendingPaths
<1> QED BY <1>3, <1>4

-----------------------------------------------------------------------------
(* The theorems.                                                            *)

\* The inductive invariant holds in every state.
THEOREM FlowAgreesWithDisk == Spec => []IInv
<1>1. IInv /\ [Next]_vars => IInv'
  BY StepKeeps
<1> QED BY InitKeeps, <1>1, PTL DEF Spec

\* In every world, however many files, changes and events there are, one of the
\* conflicts offered is selected, a path has one at most, and none was dismissed
\* for what is still on disk (processEvent, reconcileSelection, keepBuffer,
\* matchesExternalBaseline).
THEOREM ConflictsStaySound == Spec => []ConflictsAreSound
BY FlowAgreesWithDisk, InvariantImplies, PTL

\* Ingesting a batch of events of any length, or comparing every document with
\* the disk after an overflow, never loses unsaved text: it stays in a document
\* or is what a file holds (processEvent, adoptExternalRename).
THEOREM UnsavedTextIsKept == Spec => UnsavedTextSurvives
<1>1. ASSUME IInv, Pump
      PROVE  \A p \in Paths : IsOpen(p) /\ Dirty(docs[p]) =>
                \E q \in Paths : docs[p].text \in {docs'[q].text, Content(q)}
  <2> SUFFICES ASSUME NEW p \in Paths, IsOpen(p), Dirty(docs[p])
               PROVE  \E q \in Paths : docs[p].text \in {docs'[q].text, Content(q)}
    OBVIOUS
  <2>1. Held(Flow, docs[p].text)
    BY FlowFields DEF Held, IsOpen
  <2>2. Held(Flow', docs[p].text)
    BY <1>1, <2>1, Pumping
  <2>3. Flow'.docs = docs'
    BY DEF Flow
  <2>4. CASE \E q \in Paths : docs'[q].text = docs[p].text
    BY <2>4
  <2>5. CASE \E q \in Paths : Content(q) = docs[p].text
    BY <2>5
  <2> QED BY <2>2, <2>3, <2>4, <2>5 DEF Held
<1>2. IInv /\ [Next]_vars =>
         [Pump => \A p \in Paths : IsOpen(p) /\ Dirty(docs[p]) =>
             \E q \in Paths : docs[p].text \in {docs'[q].text, Content(q)}]_vars
  BY <1>1
<1> QED BY <1>2, FlowAgreesWithDisk, PTL DEF Spec, UnsavedTextSurvives

\* In a calm world nothing a file came to hold gets lost on its way to the flow, in
\* any state (WatchEventNormalizer, ingest, reconcileDocuments, processEvent).
THEOREM ChangesAreKnown == Spec => []KnownInv
<1>1. Init => KnownInv
  BY InitKeeps, InitInforms DEF KnownInv
<1> QED BY <1>1, KnownStepKeeps, PTL DEF Spec

\* Once every change has reached the flow, an open document that does not branch
\* from what is on disk has a conflict, unless its last answer was no more about
\* what the file held (processEvent, matchesExternalBaseline, coalesce).
THEOREM DivergenceStaysKnown ==
    Spec => []("Undo" \notin External => DivergenceIsKnown)
<1>1. KnownInv => ("Undo" \notin External => DivergenceIsKnown)
  BY QuietIsKnown DEF KnownInv, Calm, DivergenceIsKnown
<1> QED BY <1>1, ChangesAreKnown, PTL

\* A file that was last written by a save of the editor is in no conflict once the
\* report of that write came (registerExpectedWrite, processEvent, clearConflict).
THEOREM SavesEndConflicts ==
    Spec => []("Undo" \notin External => SaveEndsConflict)
<1>1. KnownInv => ("Undo" \notin External => SaveEndsConflict)
  BY QuietIsKnown DEF KnownInv, Calm, SaveEndsConflict
<1> QED BY <1>1, ChangesAreKnown, PTL
===============================================================================
