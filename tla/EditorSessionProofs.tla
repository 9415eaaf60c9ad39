-------------------------- MODULE EditorSessionProofs --------------------------
(***************************************************************************)
(* Proofs about EditorSession: whatever the paths, the texts, the bounds   *)
(* and the order of the commands, the tabs mirror the workspace and every  *)
(* text that was read from a file was edited from what the file holds.     *)
(*                                                                         *)
(* Well says what a session always is: no file is open twice, a document   *)
(* has one tab, and what is closed can come back without clashing with     *)
(* what is open.  Branches adds what the texts were made from, and         *)
(* Restorable the same of the snapshot.  Most lemmas are about one part of *)
(* a command, for any session, any forgotten documents (gone) and any      *)
(* bound of the records (limit).  Closing several tabs and restoring the   *)
(* snapshot go over a sequence: what one place keeps (OneMoreCloses,       *)
(* OneMoreRestored) is carried to its end by UpTo.                         *)
(***************************************************************************)
EXTENDS EditorSession, SequenceLemmas, FiniteSetTheorems

-----------------------------------------------------------------------------
(* The inductive invariant.                                                *)

ClosedTabs == [tab : TabStates, index : Ids, record : Ids]
FileRecords == [id : Ids, kind : {"File"}]
DocumentRecords == [id : Ids, kind : {"Document"}, document : Documents, taken : BOOLEAN]
Records == FileRecords \cup DocumentRecords
DocumentMaps == UNION {[X -> Documents] : X \in SUBSET Ids}
Sessions == [documents : DocumentMaps, tabs : Seq(TabStates), active : Nat,
             closed : Seq(ClosedTabs), records : Seq(Records)]

\* No two elements share an identifier.
Distinct(q) == \A i, j \in DOMAIN q : q[i].id = q[j].id => i = j
DistinctTabs(q) == \A i, j \in DOMAIN q : q[i].tab.id = q[j].tab.id => i = j

\* A document has one tab at most, an active one exists, and a tab shows a
\* document the workspace has or one that openDirectory forgot.
OwnTab(s) == \A t, u \in Tabs(s) : t.document = u.document => t = u
Selected(s) == IF s.tabs = <<>> THEN s.active = None ELSE ActiveTab(s) # {}
Backed(s, gone) ==
    /\ DOMAIN s.documents \cap gone = {}
    /\ \A t \in Tabs(s) :
          /\ t.document \in DOMAIN s.documents \cup gone
          /\ Closable(s, t) => t.path = s.documents[t.document].path

\* No file is open twice.
OneDocument(s) == \A d, e \in DOMAIN s.documents :
    s.documents[d].path = s.documents[e].path /\ s.documents[d].path # Untitled => d = e

\* A document's tab: its own, or a stranded one of its file.
HasTab(s, d) == \E t \in Tabs(s) :
    \/ t.document = d
    \/ /\ s.documents[d].path # Untitled
       /\ t.path = s.documents[d].path /\ ~Closable(s, t)

\* The closed tabs are no longer open, and the record of one is a document at
\* the path of the tab.
History(s) ==
    /\ Len(s.closed) <= MaxClosed /\ DistinctTabs(s.closed)
    /\ \A c \in ToSet(s.closed) :
          /\ \A t \in Tabs(s) : c.tab.id # t.id
          /\ \A r \in ToSet(s.records) : r.id = c.record =>
                r \in DocumentRecords /\ r.document.path = c.tab.path

Arranged(s, gone) ==
    Distinct(s.tabs) /\ OwnTab(s) /\ Selected(s) /\ Backed(s, gone) /\ OneDocument(s)
Sound(s, gone, limit) ==
    /\ s \in Sessions /\ IsFiniteSet(DOMAIN s.documents)
    /\ Arranged(s, gone)
    /\ Distinct(s.records) /\ Len(s.records) <= limit
    /\ History(s)
Well(s, gone, limit) ==
    Sound(s, gone, limit) /\ \A d \in DOMAIN s.documents : HasTab(s, d)

\* An editor that runs has something to show for it.
Busy(s) == s.tabs # <<>> \/ s.closed # <<>> \/ s.records # <<>>

\* The text was edited from what the file holds, and that is what saving it
\* compares with.
BranchesFrom(d, files) ==
    d.path # Untitled /\ d.persisted /\ ~d.revived =>
       files[d.path] = d.base /\ d.base = d.saved
Branches(s, files) == \A d \in DOMAIN s.documents : BranchesFrom(s.documents[d], files)

\* What the snapshot keeps: every file once, with what its text branches from.
SavedTabs == [backing : {"Untitled", "PersistedPath", "NeverCreatedPath"},
              document : Documents, active : BOOLEAN]
Restorable(saved) ==
    /\ saved \in Seq(SavedTabs)
    /\ \A i \in DOMAIN saved :
          LET d == saved[i].document
          IN  /\ saved[i].backing = Backing(d)
              /\ d.path # Untitled /\ d.persisted /\ ~d.revived => d.base = d.saved
    /\ \A i, j \in DOMAIN saved :
          (saved[i].document.path = saved[j].document.path
              /\ saved[i].document.path # Untitled) => i = j

Files == Contents \cup {Missing}
Outside ==
    /\ disk \in [Paths -> Files]
    /\ running \in BOOLEAN /\ blocked \in BOOLEAN /\ failures \in Nat
    /\ DOMAIN dropped \subseteq Ids /\ IsFiniteSet(DOMAIN dropped)
    /\ IF running THEN Busy(session) ELSE session = NoSession /\ dropped = <<>>

IInv ==
    /\ Outside
    /\ Well(session, DOMAIN dropped, MaxRecords + failures)
    /\ Branches(session, disk) /\ Restorable(snapshot)

-----------------------------------------------------------------------------
(* Sequences of tabs and records.                                          *)

\* Identifiers differ among fewer elements, too.
LEMMA FewerElements ==
    ASSUME NEW q, NEW p, Picked(p, q)
    PROVE  /\ ToSet(p) \subseteq ToSet(q)
           /\ Distinct(q) => Distinct(p)
           /\ DistinctTabs(q) => DistinctTabs(p)
<1>1. PICK at \in [DOMAIN p -> DOMAIN q] :
         /\ \A i, j \in DOMAIN p : at[i] = at[j] => i = j
         /\ \A i \in DOMAIN p : p[i] = q[at[i]]
  BY DEF Picked
<1>2. ToSet(p) \subseteq ToSet(q)
  BY <1>1 DEF ToSet
<1>3. Distinct(q) => Distinct(p)
  BY <1>1 DEF Distinct
<1>4. DistinctTabs(q) => DistinctTabs(p)
  BY <1>1 DEF DistinctTabs
<1> QED BY <1>2, <1>3, <1>4

\* Where an element of a sequence is.
LEMMA Elements ==
    ASSUME NEW S, NEW q \in Seq(S)
    PROVE  /\ Len(q) \in Nat /\ DOMAIN q = 1..Len(q)
           /\ \A i \in DOMAIN q : q[i] \in S
           /\ ToSet(q) \subseteq S
           /\ \A e : e \in ToSet(q) <=> \E i \in DOMAIN q : q[i] = e
           /\ q = <<>> <=> ToSet(q) = {}
<1>1. Len(q) \in Nat /\ DOMAIN q = 1..Len(q) /\ q \in [1..Len(q) -> S]
  BY LenProperties
<1>2. \A e : e \in ToSet(q) <=> \E i \in DOMAIN q : q[i] = e
  BY DEF ToSet
<1>3. q = <<>> <=> Len(q) = 0
  BY EmptySeq
<1>4. q = <<>> <=> ToSet(q) = {}
  <2>1. CASE Len(q) = 0
    BY <1>1, <1>2, <1>3, <2>1
  <2>2. CASE Len(q) # 0
    <3>1. 1 \in DOMAIN q
      BY <1>1, <2>2
    <3> QED BY <1>2, <1>3, <2>2, <3>1
  <2> QED BY <2>1, <2>2
<1> QED BY <1>1, <1>2, <1>4

\* One element more at the end.
LEMMA OneAppended ==
    ASSUME NEW S, NEW q \in Seq(S), NEW e \in S
    PROVE  /\ Append(q, e) \in Seq(S) /\ Append(q, e) # <<>>
           /\ Len(Append(q, e)) = Len(q) + 1
           /\ ToSet(Append(q, e)) = ToSet(q) \cup {e}
           /\ Distinct(q) /\ (\A f \in ToSet(q) : f.id # e.id) => Distinct(Append(q, e))
           /\ DistinctTabs(q) /\ (\A f \in ToSet(q) : f.tab.id # e.tab.id)
                 => DistinctTabs(Append(q, e))
<1> DEFINE p == Append(q, e)
<1>1. /\ p \in Seq(S) /\ p # <<>> /\ Len(p) = Len(q) + 1
      /\ \A i \in 1..Len(q) : p[i] = q[i]
      /\ p[Len(q) + 1] = e
  BY AppendProperties
<1>2. Len(q) \in Nat /\ DOMAIN q = 1..Len(q) /\ DOMAIN p = 1..Len(q) + 1
  BY <1>1, LenProperties
<1> HIDE DEF p
<1>3. \A i \in DOMAIN p : (i \in DOMAIN q /\ p[i] = q[i]) \/ (i = Len(q) + 1 /\ p[i] = e)
  <2> TAKE i \in DOMAIN p
  <2>1. i \in 1..Len(q) \/ i = Len(q) + 1
    BY <1>2
  <2> QED BY <1>1, <1>2, <2>1
<1>4. \A i \in DOMAIN q : i \in DOMAIN p /\ p[i] = q[i]
  BY <1>1, <1>2
<1>5. Len(q) + 1 \in DOMAIN p
  BY <1>2
<1>6. ToSet(p) = ToSet(q) \cup {e}
  BY <1>1, <1>3, <1>4, <1>5 DEF ToSet
<1>7. ASSUME Distinct(q), \A f \in ToSet(q) : f.id # e.id PROVE Distinct(p)
  BY <1>3, <1>7 DEF Distinct, ToSet
<1>8. ASSUME DistinctTabs(q), \A f \in ToSet(q) : f.tab.id # e.tab.id
      PROVE  DistinctTabs(p)
  BY <1>3, <1>8 DEF DistinctTabs, ToSet
<1> QED BY <1>1, <1>6, <1>7, <1>8 DEF p

\* One element more in the middle.
LEMMA OnePut ==
    ASSUME NEW S, NEW q \in Seq(S), NEW k \in 1..Len(q) + 1, NEW e \in S
    PROVE  /\ InsertAt(q, k, e) \in Seq(S)
           /\ ToSet(InsertAt(q, k, e)) = ToSet(q) \cup {e}
           /\ Distinct(q) /\ (\A f \in ToSet(q) : f.id # e.id) => Distinct(InsertAt(q, k, e))
<1> DEFINE p == InsertAt(q, k, e)
<1>1. /\ p \in Seq(S) /\ Len(p) = Len(q) + 1
      /\ \A i \in 1..Len(q) + 1 :
            p[i] = IF i < k THEN q[i] ELSE IF i = k THEN e ELSE q[i - 1]
  BY OneInserted
<1>2. Len(q) \in Nat /\ DOMAIN q = 1..Len(q) /\ DOMAIN p = 1..Len(q) + 1 /\ k \in Nat
  BY <1>1, LenProperties
<1> HIDE DEF p
<1> DEFINE from == [i \in DOMAIN p |-> IF i < k THEN i ELSE i - 1]
<1>3. \A i \in DOMAIN p : \/ i = k /\ p[i] = e
                          \/ i # k /\ from[i] \in DOMAIN q /\ p[i] = q[from[i]]
  BY <1>1, <1>2
<1>4. \A i, j \in DOMAIN p : i # k /\ j # k /\ from[i] = from[j] => i = j
  BY <1>2
<1>5. \A i \in DOMAIN q : \E j \in DOMAIN p : p[j] = q[i]
  <2> TAKE i \in DOMAIN q
  <2>1. CASE i < k
    <3>1. i \in DOMAIN p /\ p[i] = q[i]
      BY <1>1, <1>2, <2>1
    <3> QED BY <3>1
  <2>2. CASE ~(i < k)
    <3>1. i + 1 \in DOMAIN p /\ ~(i + 1 < k) /\ i + 1 # k /\ i + 1 - 1 = i
      BY <1>2, <2>2
    <3>2. p[i + 1] = q[i]
      BY <1>1, <1>2, <3>1
    <3> QED BY <3>1, <3>2
  <2> QED BY <2>1, <2>2
<1>6. k \in DOMAIN p /\ p[k] = e
  BY <1>2, <1>3
<1> HIDE DEF from
<1>7. ToSet(p) = ToSet(q) \cup {e}
  BY <1>3, <1>5, <1>6 DEF ToSet
<1>8. ASSUME Distinct(q), \A f \in ToSet(q) : f.id # e.id PROVE Distinct(p)
  BY <1>3, <1>4, <1>8 DEF Distinct, ToSet
<1> QED BY <1>1, <1>7, <1>8 DEF p

\* One element less.
LEMMA OneTaken ==
    ASSUME NEW S, NEW q \in Seq(S), NEW i \in DOMAIN q, Distinct(q)
    PROVE  /\ RemoveAt(q, i) \in Seq(S) /\ Distinct(RemoveAt(q, i))
           /\ Len(RemoveAt(q, i)) = Len(q) - 1
           /\ ToSet(RemoveAt(q, i)) = ToSet(q) \ {q[i]}
<1> DEFINE p == RemoveAt(q, i)
<1>1. /\ p \in Seq(S) /\ Len(p) = Len(q) - 1
      /\ \A j \in DOMAIN p : p[j] = q[IF j < i THEN j ELSE j + 1]
  BY WithoutOne
<1>2. /\ Picked(p, q)
      /\ \A e : e # q[i] /\ (\E k \in DOMAIN q : q[k] = e) => \E j \in DOMAIN p : p[j] = e
  BY WithoutOneIsPicked
<1>3. ToSet(p) \subseteq ToSet(q) /\ Distinct(p)
  BY <1>2, FewerElements
<1>4. q[i] \notin ToSet(p)
  <2>1. Len(q) \in Nat /\ DOMAIN q = 1..Len(q) /\ DOMAIN p = 1..Len(q) - 1 /\ i \in Nat
    BY <1>1, LenProperties
  <2> HIDE DEF p
  <2>2. SUFFICES ASSUME NEW j \in DOMAIN p, p[j] = q[i] PROVE FALSE
    BY DEF ToSet
  <2>3. /\ (IF j < i THEN j ELSE j + 1) \in DOMAIN q
        /\ (IF j < i THEN j ELSE j + 1) # i
    BY <2>1
  <2> QED BY <1>1, <2>2, <2>3 DEF Distinct
<1>5. ToSet(q) \ {q[i]} \subseteq ToSet(p)
  <2> HIDE DEF p
  <2> QED BY <1>2 DEF ToSet
<1> HIDE DEF p
<1>6. ToSet(p) = ToSet(q) \ {q[i]}
  BY <1>3, <1>4, <1>5
<1> QED BY <1>1, <1>3, <1>6 DEF p

\* The newest elements of a history.
LEMMA NewestKept ==
    ASSUME NEW S, NEW q \in Seq(S), NEW n \in Nat \ {0}
    PROVE  /\ Newest(q, n) \in Seq(S) /\ Picked(Newest(q, n), q)
           /\ Len(Newest(q, n)) <= n /\ Len(Newest(q, n)) <= Len(q)
           /\ q # <<>> => Newest(q, n) # <<>>
<1> DEFINE m == IF Len(q) > n THEN Len(q) - n + 1 ELSE 1
<1>1. Len(q) \in Nat /\ (q = <<>> <=> Len(q) = 0)
  BY LenProperties, EmptySeq
<1>2. m \in Nat \ {0}
  BY <1>1
<1>3. Newest(q, n) = SubSeq(q, m, Len(q))
  BY DEF Newest
<1>4. (m <= Len(q) => Len(q) - m + 1 <= n /\ Len(q) - m + 1 <= Len(q))
      /\ (Len(q) # 0 => m <= Len(q))
  BY <1>1
<1> HIDE DEF m
<1> DEFINE p == SubSeq(q, m, Len(q))
<1>5. p \in Seq(S) /\ Len(p) = IF m <= Len(q) THEN Len(q) - m + 1 ELSE 0
  BY <1>1, <1>2, PartOfSeq
<1>6. Picked(p, q)
  BY <1>1, <1>2, PartIsPicked
<1> HIDE DEF p
<1>7. p = <<>> <=> Len(p) = 0
  BY <1>5, EmptySeq
<1>8. Len(p) <= n /\ Len(p) <= Len(q) /\ (q # <<>> => p # <<>>)
  BY <1>1, <1>2, <1>4, <1>5, <1>7
<1> QED BY <1>3, <1>5, <1>6, <1>8 DEF p

\* The elements of a sequence that are in a set, in their order.
LEMMA AmongThem ==
    ASSUME NEW T, NEW q \in Seq(T), NEW S
    PROVE  /\ Among(q, S) \in Seq(T) /\ Picked(Among(q, S), q)
           /\ Len(Among(q, S)) <= Len(q)
           /\ ToSet(Among(q, S)) = ToSet(q) \cap S
<1> DEFINE L == Len(q)
           Stage(f, n) == f = [k \in 0..n |->
                              IF k = 0 THEN <<>>
                              ELSE IF q[k] \in S THEN Append(f[k - 1], q[k]) ELSE f[k - 1]]
           Stages == {n \in 0..L : \E f : Stage(f, n)}
<1>1. L \in Nat /\ DOMAIN q = 1..L /\ \A i \in 1..L : q[i] \in T
  BY LenProperties, ElementOfSeq
<1> HIDE DEF L
<1>2. 0 \in Stages
  <2>1. Stage([k \in 0..0 |-> <<>>], 0) /\ 0 \in 0..L
    BY <1>1
  <2> HIDE DEF Stage
  <2> QED BY <2>1
<1>3. ASSUME NEW n \in 1..L, n - 1 \in Stages PROVE n \in Stages
  <2>1. n \in Nat /\ n # 0 /\ n - 1 \in Nat
    BY <1>1
  <2>2. PICK f : Stage(f, n - 1)
    BY <1>3
  <2> DEFINE g == [k \in 0..n |->
                     IF k = n THEN IF q[n] \in S THEN Append(f[n - 1], q[n]) ELSE f[n - 1]
                              ELSE f[k]]
  <2>3. \A k \in 0..n - 1 : f[k] =
            IF k = 0 THEN <<>>
            ELSE IF q[k] \in S THEN Append(f[k - 1], q[k]) ELSE f[k - 1]
    BY <2>2
  <2>4. \A k \in 0..n : g[k] =
            IF k = 0 THEN <<>>
            ELSE IF q[k] \in S THEN Append(g[k - 1], q[k]) ELSE g[k - 1]
    <3> TAKE k \in 0..n
    <3>1. CASE k = n
      <4>1. k # 0 /\ k - 1 \in 0..n /\ k - 1 # n
        BY <2>1, <3>1
      <4>2. g[k - 1] = f[n - 1]
        BY <3>1, <4>1
      <4>3. g[k] = IF q[n] \in S THEN Append(f[n - 1], q[n]) ELSE f[n - 1]
        BY <3>1
      <4> QED BY <3>1, <4>1, <4>2, <4>3
    <3>2. CASE k # n
      <4>1. k \in 0..n - 1 /\ (k # 0 => k - 1 \in 0..n /\ k - 1 # n)
        BY <2>1, <3>2
      <4>2. g[k] = f[k] /\ (k # 0 => g[k - 1] = f[k - 1])
        BY <3>2, <4>1
      <4> QED BY <2>3, <4>1, <4>2
    <3> QED BY <3>1, <3>2
  <2>5. g = [k \in 0..n |-> g[k]]
    OBVIOUS
  <2> HIDE DEF g
  <2>6. Stage(g, n) /\ n \in 0..L
    BY <1>1, <2>4, <2>5
  <2> HIDE DEF Stage
  <2> QED BY <2>6
<1>4. L \in Stages
  <2> HIDE DEF Stages
  <2>1. \A n \in 0..L : n \in Stages
    BY <1>1, <1>2, <1>3, UpTo
  <2> QED BY <1>1, <2>1
<1> DEFINE kept == CHOOSE f : f = [n \in 0..L |->
                      IF n = 0 THEN <<>>
                      ELSE IF q[n] \in S THEN Append(f[n - 1], q[n]) ELSE f[n - 1]]
<1>5. \E f : Stage(f, L)
  BY <1>4
<1>6. Stage(kept, L)
  BY <1>5, Zenon
<1>7. Among(q, S) = kept[L]
  BY DEF Among, L
<1> HIDE DEF kept
<1>8. \A n \in 0..L : kept[n] =
         IF n = 0 THEN <<>>
         ELSE IF q[n] \in S THEN Append(kept[n - 1], q[n]) ELSE kept[n - 1]
  BY <1>6
<1> HIDE DEF Stage, Stages
\* After n elements, those among them are picked from the first n.
<1> DEFINE Good(n) ==
              /\ kept[n] \in Seq(T) /\ Len(kept[n]) <= n
              /\ \A i \in 1..n : q[i] \in S => \E j \in DOMAIN kept[n] : kept[n][j] = q[i]
              /\ \E at \in [DOMAIN kept[n] -> 1..n] :
                    /\ \A i, j \in DOMAIN kept[n] : at[i] = at[j] => i = j
                    /\ \A i \in DOMAIN kept[n] : kept[n][i] = q[at[i]] /\ q[at[i]] \in S
           Goods == {n \in 0..L : Good(n)}
<1>9. 0 \in Goods
  <2>1. kept[0] = <<>> /\ <<>> \in Seq(T) /\ Len(<<>>) = 0 /\ DOMAIN <<>> = {} /\ 0 \in 0..L
    BY <1>1, <1>8
  <2>2. Len(kept[0]) <= 0 /\ DOMAIN kept[0] = {} /\ 1..0 = {}
    BY <2>1
  <2>3. [i \in {} |-> 0] \in [DOMAIN kept[0] -> 1..0]
    BY <2>2
  <2>4. Good(0)
    BY <2>1, <2>2, <2>3
  <2> QED BY <2>1, <2>4
<1>10. ASSUME NEW n \in 1..L, n - 1 \in Goods PROVE n \in Goods
  <2> DEFINE a == kept[n - 1]
             b == kept[n]
  <2>1. n \in Nat /\ n - 1 \in Nat /\ n \in 0..L /\ q[n] \in T /\ n # 0
    BY <1>1
  <2>2. b = IF q[n] \in S THEN Append(a, q[n]) ELSE a
    BY <1>8, <2>1
  <2>3. /\ a \in Seq(T) /\ Len(a) <= n - 1
        /\ \A i \in 1..n - 1 : q[i] \in S => \E j \in DOMAIN a : a[j] = q[i]
    BY <1>10
  <2>4. PICK at \in [DOMAIN a -> 1..n - 1] :
           /\ \A i, j \in DOMAIN a : at[i] = at[j] => i = j
           /\ \A i \in DOMAIN a : a[i] = q[at[i]] /\ q[at[i]] \in S
    BY <1>10
  <2> SUFFICES Good(n)
    BY <2>1
  <2> HIDE DEF a, b
  <2>5. Len(a) \in Nat /\ DOMAIN a = 1..Len(a)
    BY <2>3, LenProperties
  <2>6. CASE q[n] \notin S
    <3>1. b = a
      BY <2>2, <2>6
    <3>2. at \in [DOMAIN b -> 1..n]
      BY <2>1, <3>1
    <3>3. \A i \in 1..n : i = n \/ i \in 1..n - 1
      BY <2>1
    <3>4. \A i \in 1..n : q[i] \in S => \E j \in DOMAIN b : b[j] = q[i]
      BY <2>3, <2>6, <3>1, <3>3
    <3>5. Len(b) <= n
      BY <2>1, <2>3, <2>5, <3>1
    <3>6. /\ \A i, j \in DOMAIN b : at[i] = at[j] => i = j
          /\ \A i \in DOMAIN b : b[i] = q[at[i]] /\ q[at[i]] \in S
      BY <2>4, <3>1
    <3> QED BY <2>3, <3>1, <3>2, <3>4, <3>5, <3>6 DEF b
  <2>7. CASE q[n] \in S
    <3>1. b = Append(a, q[n])
      BY <2>2, <2>7
    <3>2. /\ b \in Seq(T) /\ Len(b) = Len(a) + 1
          /\ \A i \in 1..Len(a) : b[i] = a[i]
          /\ b[Len(a) + 1] = q[n]
      BY <2>1, <2>3, <3>1, AppendProperties
    <3>3. DOMAIN b = 1..Len(a) + 1
      BY <3>2, LenProperties
    <3> DEFINE to == [i \in DOMAIN b |-> IF i = Len(a) + 1 THEN n ELSE at[i]]
    <3>4. \A i \in DOMAIN b : i = Len(a) + 1 \/ i \in DOMAIN a
      BY <2>5, <3>3
    <3>5. \A i \in DOMAIN a : i # Len(a) + 1 /\ i \in DOMAIN b /\ at[i] \in 1..n - 1
                              /\ at[i] # n /\ at[i] \in 1..n
      BY <2>1, <2>5, <3>3
    <3>6. to \in [DOMAIN b -> 1..n]
      BY <2>1, <3>4, <3>5
    <3>7. \A i, j \in DOMAIN b : to[i] = to[j] => i = j
      BY <2>4, <3>4, <3>5
    <3>8. \A i \in DOMAIN b : b[i] = q[to[i]] /\ q[to[i]] \in S
      BY <2>4, <2>5, <2>7, <3>2, <3>4, <3>5
    <3> HIDE DEF to
    <3>9. \A i \in 1..n : i = n \/ i \in 1..n - 1
      BY <2>1
    <3>10. \A i \in 1..n : q[i] \in S => \E j \in DOMAIN b : b[j] = q[i]
      <4>1. Len(a) + 1 \in DOMAIN b
        BY <2>5, <3>3
      <4>2. \A j \in DOMAIN a : j \in DOMAIN b /\ b[j] = a[j]
        BY <2>5, <3>2, <3>5
      <4> QED BY <2>3, <3>2, <3>9, <4>1, <4>2
    <3>11. Len(b) <= n
      BY <2>1, <2>3, <2>5, <3>2
    <3> QED BY <3>2, <3>6, <3>7, <3>8, <3>10, <3>11 DEF b
  <2> QED BY <2>6, <2>7
<1>11. Good(L)
  <2> HIDE DEF Good
  <2>1. 0 \in Goods /\ \A n \in 1..L : n - 1 \in Goods => n \in Goods
    BY <1>9, <1>10
  <2> HIDE DEF Goods
  <2>2. \A n \in 0..L : n \in Goods
    BY <1>1, <2>1, UpTo
  <2>3. L \in 0..L
    BY <1>1
  <2> QED BY <2>2, <2>3 DEF Goods
<1> DEFINE p == kept[L]
<1>12. PICK at \in [DOMAIN p -> 1..L] :
         /\ \A i, j \in DOMAIN p : at[i] = at[j] => i = j
         /\ \A i \in DOMAIN p : p[i] = q[at[i]] /\ q[at[i]] \in S
  BY <1>11
<1>13. /\ p \in Seq(T) /\ Len(p) <= L
       /\ \A i \in 1..L : q[i] \in S => \E j \in DOMAIN p : p[j] = q[i]
  BY <1>11
<1> HIDE DEF p
<1>14. Picked(p, q)
  BY <1>1, <1>12 DEF Picked
<1>15. ToSet(p) = ToSet(q) \cap S
  BY <1>1, <1>12, <1>13 DEF ToSet
<1> QED BY <1>7, <1>13, <1>14, <1>15 DEF p, L

-----------------------------------------------------------------------------
(* Identifiers.                                                            *)

\* The values a function takes are finitely many, and different ones are as many
\* as their places.
Values(f, n) == {f[i] : i \in 1..n}

LEMMA FinitelyMany ==
    ASSUME NEW n \in Nat, NEW f, f = [i \in 1..n |-> f[i]]
    PROVE  /\ IsFiniteSet(Values(f, n))
           /\ (\A i, j \in 1..n : f[i] = f[j] => i = j) => Cardinality(Values(f, n)) = n
<1> DEFINE R == Values(f, n)
<1>1. f \in Surjection(1..n, R)
  BY DEF Surjection, Values
<1>2. IsFiniteSet(1..n) /\ Cardinality(1..n) = n
  <2>1. IsFiniteSet(1..n) /\ Cardinality(1..n) = IF 1 > n THEN 0 ELSE n - 1 + 1
    BY FS_Interval
  <2> QED BY <2>1
<1>3. IsFiniteSet(R) /\ (Cardinality(R) = Cardinality(1..n) <=> f \in Injection(1..n, R))
  BY <1>1, <1>2, FS_Surjection
<1>4. (\A i, j \in 1..n : f[i] = f[j] => i = j) => f \in Injection(1..n, R)
  BY <1>1 DEF Surjection, Injection, IsInjective
<1> QED BY <1>2, <1>3, <1>4

\* A fresh identifier is none of those in use.
LEMMA FreshIsNew ==
    ASSUME NEW used, IsFiniteSet(used)
    PROVE  Fresh(used) \in Ids \ used
<1> DEFINE n == Cardinality(used) + 1
           Free == {k \in 1..n : k \notin used}
<1>1. Cardinality(used) \in Nat
  BY FS_CardinalityType
<1>2. n \in Nat \ {0}
  BY <1>1
<1>3. Free # {}
  <2>1. SUFFICES ASSUME 1..n \subseteq used PROVE FALSE
    OBVIOUS
  <2>2. Cardinality(1..n) <= Cardinality(used)
    BY <2>1, FS_Subset
  <2>3. Cardinality(1..n) = IF 1 > n THEN 0 ELSE n - 1 + 1
    BY <1>2, FS_Interval
  <2> QED BY <1>1, <2>2, <2>3
<1>4. PICK k \in Free : \A m \in Free : k <= m
  <2>1. Free \subseteq Nat
    BY <1>2
  <2> HIDE DEF Free
  <2> QED BY <1>3, <2>1, LeastNumber
<1>5. k \in 1..n /\ k \notin used /\ \A m \in 1..k - 1 : m \in used
  BY <1>2, <1>4
<1>6. Fresh(used) \in 1..n /\ Fresh(used) \notin used
  BY <1>5 DEF Fresh
<1> QED BY <1>2, <1>6 DEF Ids

-----------------------------------------------------------------------------
(* The parts of a session, and what changing one of them leaves.           *)

LEMMA SessionParts ==
    ASSUME NEW s \in Sessions
    PROVE  /\ s.documents \in DocumentMaps /\ DOMAIN s.documents \subseteq Ids
           /\ s.documents \in [DOMAIN s.documents -> Documents]
           /\ \A d \in DOMAIN s.documents : s.documents[d] \in Documents
           /\ s.tabs \in Seq(TabStates) /\ s.active \in Nat
           /\ s.closed \in Seq(ClosedTabs) /\ s.records \in Seq(Records)
<1>1. /\ s.documents \in DocumentMaps
      /\ s.tabs \in Seq(TabStates) /\ s.active \in Nat
      /\ s.closed \in Seq(ClosedTabs) /\ s.records \in Seq(Records)
  BY DEF Sessions
<1>2. PICK X \in SUBSET Ids : s.documents \in [X -> Documents]
  BY <1>1 DEF DocumentMaps
<1>3. DOMAIN s.documents = X
  BY <1>2
<1> QED BY <1>1, <1>2, <1>3

LEMMA MapIsOne ==
    ASSUME NEW X, X \subseteq Ids, NEW f \in [X -> Documents]
    PROVE  f \in DocumentMaps
<1>1. [X -> Documents] \in {[Y -> Documents] : Y \in SUBSET Ids}
  OBVIOUS
<1> QED BY <1>1 DEF DocumentMaps

\* Each part may be replaced by another of its kind.
LEMMA PartsReplaced ==
    ASSUME NEW s \in Sessions
    PROVE  /\ \A x \in DocumentMaps : [s EXCEPT !.documents = x] \in Sessions
           /\ \A x \in Seq(TabStates) : [s EXCEPT !.tabs = x] \in Sessions
           /\ \A x \in Nat : [s EXCEPT !.active = x] \in Sessions
           /\ \A x \in Seq(ClosedTabs) : [s EXCEPT !.closed = x] \in Sessions
           /\ \A x \in Seq(Records) : [s EXCEPT !.records = x] \in Sessions
           /\ \A x \in Seq(TabStates), y \in Nat :
                 [s EXCEPT !.tabs = x, !.active = y] \in Sessions
BY DEF Sessions

LEMMA PartsAreTheirs ==
    ASSUME NEW s \in Sessions, NEW x, NEW y
    PROVE  /\ LET t == [s EXCEPT !.documents = x]
              IN  /\ t.documents = x /\ t.tabs = s.tabs /\ t.active = s.active
                  /\ t.closed = s.closed /\ t.records = s.records
           /\ LET t == [s EXCEPT !.tabs = x]
              IN  /\ t.documents = s.documents /\ t.tabs = x /\ t.active = s.active
                  /\ t.closed = s.closed /\ t.records = s.records
           /\ LET t == [s EXCEPT !.active = x]
              IN  /\ t.documents = s.documents /\ t.tabs = s.tabs /\ t.active = x
                  /\ t.closed = s.closed /\ t.records = s.records
           /\ LET t == [s EXCEPT !.closed = x]
              IN  /\ t.documents = s.documents /\ t.tabs = s.tabs /\ t.active = s.active
                  /\ t.closed = x /\ t.records = s.records
           /\ LET t == [s EXCEPT !.records = x]
              IN  /\ t.documents = s.documents /\ t.tabs = s.tabs /\ t.active = s.active
                  /\ t.closed = s.closed /\ t.records = x
           /\ LET t == [s EXCEPT !.tabs = x, !.active = y]
              IN  /\ t.documents = s.documents /\ t.tabs = x /\ t.active = y
                  /\ t.closed = s.closed /\ t.records = s.records
BY DEF Sessions

\* A document set, or forgotten.
LEMMA DocumentSet ==
    ASSUME NEW s \in Sessions, NEW d \in Ids, NEW x \in Documents
    PROVE  LET t == WithDocument(s, d, x)
           IN  /\ t \in Sessions /\ t.tabs = s.tabs /\ t.active = s.active
               /\ t.closed = s.closed /\ t.records = s.records
               /\ DOMAIN t.documents = DOMAIN s.documents \cup {d}
               /\ t.documents[d] = x
               /\ \A e \in DOMAIN s.documents \ {d} : t.documents[e] = s.documents[e]
<1> DEFINE f == [e \in DOMAIN s.documents \cup {d} |-> IF e = d THEN x ELSE s.documents[e]]
<1>1. f \in [DOMAIN s.documents \cup {d} -> Documents]
  BY SessionParts
<1>2. f \in DocumentMaps
  BY <1>1, SessionParts, MapIsOne
<1>3. WithDocument(s, d, x) = [s EXCEPT !.documents = f]
  BY DEF WithDocument
<1>4. /\ DOMAIN f = DOMAIN s.documents \cup {d} /\ f[d] = x
      /\ \A e \in DOMAIN s.documents \ {d} : f[e] = s.documents[e]
  OBVIOUS
<1> HIDE DEF f
<1> DEFINE t == [s EXCEPT !.documents = f]
<1>5. t \in Sessions
  BY <1>2, PartsReplaced
<1>6. /\ t.documents = f /\ t.tabs = s.tabs /\ t.active = s.active
      /\ t.closed = s.closed /\ t.records = s.records
  BY PartsAreTheirs
<1> HIDE DEF t
<1> QED BY <1>3, <1>4, <1>5, <1>6 DEF t

LEMMA DocumentForgotten ==
    ASSUME NEW s \in Sessions, NEW d
    PROVE  LET t == WithoutDocument(s, d)
           IN  /\ t \in Sessions /\ t.tabs = s.tabs /\ t.active = s.active
               /\ t.closed = s.closed /\ t.records = s.records
               /\ DOMAIN t.documents = DOMAIN s.documents \ {d}
               /\ \A e \in DOMAIN t.documents : t.documents[e] = s.documents[e]
<1> DEFINE f == [e \in DOMAIN s.documents \ {d} |-> s.documents[e]]
<1>1. f \in [DOMAIN s.documents \ {d} -> Documents]
  BY SessionParts
<1>2. f \in DocumentMaps
  BY <1>1, SessionParts, MapIsOne
<1>3. WithoutDocument(s, d) = [s EXCEPT !.documents = f]
  BY DEF WithoutDocument
<1>4. /\ DOMAIN f = DOMAIN s.documents \ {d}
      /\ \A e \in DOMAIN f : f[e] = s.documents[e]
  OBVIOUS
<1> HIDE DEF f
<1> DEFINE t == [s EXCEPT !.documents = f]
<1>5. t \in Sessions
  BY <1>2, PartsReplaced
<1>6. /\ t.documents = f /\ t.tabs = s.tabs /\ t.active = s.active
      /\ t.closed = s.closed /\ t.records = s.records
  BY PartsAreTheirs
<1> HIDE DEF t
<1> QED BY <1>3, <1>4, <1>5, <1>6 DEF t

\* What has an identifier, and what a record is.
LEMMA TabsAndRecords ==
    /\ \A t \in TabStates : t.id \in Ids /\ t.document \in Ids
                            /\ t.path \in Paths \cup {Untitled}
    /\ \A r \in Records : r.id \in Ids
    /\ \A r \in DocumentRecords : r.document \in Documents /\ r.taken \in BOOLEAN
                                  /\ r.id \in Ids
    /\ \A c \in ClosedTabs : c.tab \in TabStates /\ c.index \in Ids /\ c.record \in Ids
BY DEF TabStates, Records, FileRecords, DocumentRecords, ClosedTabs

\* A new tab or record has an identifier of its own.
LEMMA FreshTabIsNew ==
    ASSUME NEW s \in Sessions
    PROVE  /\ FreshTab(s) \in Ids
           /\ \A t \in Tabs(s) : t.id # FreshTab(s)
           /\ \A c \in ToSet(s.closed) : c.tab.id # FreshTab(s)
<1> DEFINE a == {t.id : t \in Tabs(s)}
           b == {c.tab.id : c \in ToSet(s.closed)}
           f == [i \in 1..Len(s.tabs) |-> s.tabs[i].id]
           g == [i \in 1..Len(s.closed) |-> s.closed[i].tab.id]
<1>1. /\ Len(s.tabs) \in Nat /\ DOMAIN s.tabs = 1..Len(s.tabs)
      /\ \A i \in DOMAIN s.tabs : s.tabs[i] \in TabStates
  BY SessionParts, Elements
<1>2. /\ Len(s.closed) \in Nat /\ DOMAIN s.closed = 1..Len(s.closed)
      /\ \A i \in DOMAIN s.closed : s.closed[i] \in ClosedTabs
  BY SessionParts, Elements
<1>3. f \in [1..Len(s.tabs) -> Ids] /\ g \in [1..Len(s.closed) -> Ids]
  BY <1>1, <1>2, TabsAndRecords
<1>4. a = {f[i] : i \in 1..Len(s.tabs)} /\ b = {g[i] : i \in 1..Len(s.closed)}
  BY <1>1, <1>2 DEF Tabs, ToSet
<1> HIDE DEF f, g
<1>5. IsFiniteSet(a) /\ IsFiniteSet(b)
  <2>1. IsFiniteSet(Values(f, Len(s.tabs)))
    BY <1>1, <1>3, FinitelyMany
  <2>2. IsFiniteSet(Values(g, Len(s.closed)))
    BY <1>2, <1>3, FinitelyMany
  <2> QED BY <1>4, <2>1, <2>2 DEF Values
<1> HIDE DEF a, b
<1>6. IsFiniteSet(a \cup b)
  BY <1>5, FS_Union
<1>7. Fresh(a \cup b) \in Ids \ (a \cup b)
  BY <1>6, FreshIsNew
<1>8. FreshTab(s) = Fresh(a \cup b)
  BY DEF FreshTab, a, b
<1> QED BY <1>7, <1>8 DEF a, b

LEMMA FreshRecordIsNew ==
    ASSUME NEW s \in Sessions
    PROVE  /\ FreshRecord(s) \in Ids
           /\ \A r \in ToSet(s.records) : r.id # FreshRecord(s)
           /\ \A c \in ToSet(s.closed) : c.record # FreshRecord(s)
<1> DEFINE a == {r.id : r \in ToSet(s.records)}
           b == {c.record : c \in ToSet(s.closed)}
           f == [i \in 1..Len(s.records) |-> s.records[i].id]
           g == [i \in 1..Len(s.closed) |-> s.closed[i].record]
<1>1. /\ Len(s.records) \in Nat /\ DOMAIN s.records = 1..Len(s.records)
      /\ \A i \in DOMAIN s.records : s.records[i] \in Records
  BY SessionParts, Elements
<1>2. /\ Len(s.closed) \in Nat /\ DOMAIN s.closed = 1..Len(s.closed)
      /\ \A i \in DOMAIN s.closed : s.closed[i] \in ClosedTabs
  BY SessionParts, Elements
<1>3. f \in [1..Len(s.records) -> Ids] /\ g \in [1..Len(s.closed) -> Ids]
  BY <1>1, <1>2, TabsAndRecords
<1>4. a = {f[i] : i \in 1..Len(s.records)} /\ b = {g[i] : i \in 1..Len(s.closed)}
  BY <1>1, <1>2 DEF ToSet
<1> HIDE DEF f, g
<1>5. IsFiniteSet(a) /\ IsFiniteSet(b)
  <2>1. IsFiniteSet(Values(f, Len(s.records)))
    BY <1>1, <1>3, FinitelyMany
  <2>2. IsFiniteSet(Values(g, Len(s.closed)))
    BY <1>2, <1>3, FinitelyMany
  <2> QED BY <1>4, <2>1, <2>2 DEF Values
<1> HIDE DEF a, b
<1>6. IsFiniteSet(a \cup b)
  BY <1>5, FS_Union
<1>7. Fresh(a \cup b) \in Ids \ (a \cup b)
  BY <1>6, FreshIsNew
<1>8. FreshRecord(s) = Fresh(a \cup b)
  BY DEF FreshRecord, a, b
<1> QED BY <1>7, <1>8 DEF a, b

LEMMA FreshDocumentIsNew ==
    ASSUME NEW s, IsFiniteSet(DOMAIN s.documents), IsFiniteSet(DOMAIN dropped)
    PROVE  FreshDocument(s) \in Ids \ (DOMAIN s.documents \cup DOMAIN dropped)
<1>1. IsFiniteSet(DOMAIN s.documents \cup DOMAIN dropped)
  BY FS_Union
<1> QED BY <1>1, FreshIsNew DEF FreshDocument

-----------------------------------------------------------------------------
(* Records, and a tab that closes.                                         *)

\* Documents and tabs that stay are arranged as they were.
LEMMA ArrangedAgrees ==
    ASSUME NEW s, NEW t, t.documents = s.documents, t.tabs = s.tabs, t.active = s.active,
           NEW gone
    PROVE  /\ Arranged(s, gone) => Arranged(t, gone)
           /\ \A d : HasTab(s, d) => HasTab(t, d)
<1>1. Tabs(t) = Tabs(s) /\ ActiveTab(t) = ActiveTab(s)
  BY DEF Tabs, ActiveTab
<1>2. \A u : Closable(t, u) <=> Closable(s, u)
  BY DEF Closable
<1>3. \A d : HasTab(s, d) => HasTab(t, d)
  BY <1>1, <1>2 DEF HasTab
<1>4. Arranged(s, gone) => Arranged(t, gone)
  BY <1>1, <1>2 DEF Arranged, OwnTab, Selected, Backed, OneDocument
<1> QED BY <1>3, <1>4

\* A record joins the others.
LEMMA JournaledFields ==
    ASSUME NEW s \in Sessions, NEW r \in Records
    PROVE  LET t == Journaled(s, r)
           IN  /\ t \in Sessions
               /\ t.documents = s.documents /\ t.tabs = s.tabs /\ t.active = s.active
               /\ t.closed = s.closed /\ t.records # <<>> /\ Len(t.records) <= MaxRecords
               /\ ToSet(t.records) \subseteq ToSet(s.records) \cup {r}
               /\ Distinct(s.records) /\ (\A x \in ToSet(s.records) : x.id # r.id)
                     => Distinct(t.records)
<1> DEFINE q == Append(s.records, r)
           n == Newest(q, MaxRecords)
           t == [s EXCEPT !.records = n]
<1>1. s.records \in Seq(Records)
  BY SessionParts
<1>2. /\ q \in Seq(Records) /\ q # <<>> /\ ToSet(q) = ToSet(s.records) \cup {r}
      /\ Distinct(s.records) /\ (\A x \in ToSet(s.records) : x.id # r.id) => Distinct(q)
  BY <1>1, OneAppended
<1> HIDE DEF q
<1>3. MaxRecords \in Nat \ {0}
  BY SessionAssumption
<1>4. n \in Seq(Records) /\ Picked(n, q) /\ Len(n) <= MaxRecords /\ n # <<>>
  BY <1>2, <1>3, NewestKept
<1>5. ToSet(n) \subseteq ToSet(q) /\ (Distinct(q) => Distinct(n))
  BY <1>2, <1>4, FewerElements
<1> HIDE DEF n
<1>7. Journaled(s, r) = t
  BY DEF Journaled, n, q
<1>8. t \in Sessions
  BY <1>1, <1>4, PartsReplaced
<1>9. /\ t.documents = s.documents /\ t.tabs = s.tabs /\ t.active = s.active
      /\ t.closed = s.closed /\ t.records = n
  BY <1>1, PartsAreTheirs
<1> HIDE DEF t
<1> QED BY <1>2, <1>4, <1>5, <1>7, <1>8, <1>9

\* With an identifier of its own it disturbs nothing.
LEMMA JournaledKeeps ==
    ASSUME NEW gone, NEW limit \in Nat, MaxRecords <= limit,
           NEW s, Sound(s, gone, limit), NEW r \in Records,
           \A x \in ToSet(s.records) : x.id # r.id,
           \A c \in ToSet(s.closed) : c.record # r.id
    PROVE  Sound(Journaled(s, r), gone, limit)
<1> DEFINE t == Journaled(s, r)
<1>1. s \in Sessions /\ Distinct(s.records)
  BY DEF Sound
<1>2. /\ t \in Sessions
      /\ t.documents = s.documents /\ t.tabs = s.tabs /\ t.active = s.active
      /\ t.closed = s.closed /\ Len(t.records) <= MaxRecords
      /\ ToSet(t.records) \subseteq ToSet(s.records) \cup {r}
      /\ Distinct(t.records)
  BY <1>1, JournaledFields
<1> HIDE DEF t
<1>3. Len(t.records) <= limit
  <2>1. Len(t.records) \in Nat /\ MaxRecords \in Nat
    BY <1>2, SessionParts, Elements, SessionAssumption
  <2> QED BY <1>2, <2>1
<1>4. Arranged(t, gone) /\ IsFiniteSet(DOMAIN t.documents)
  BY <1>2, ArrangedAgrees DEF Sound
<1>5. History(t)
  BY <1>2 DEF Sound, History, Tabs
<1> QED BY <1>2, <1>3, <1>4, <1>5 DEF Sound, t

\* A tab is removed, and another is active if there is one.
LEMMA TabRemoved ==
    ASSUME NEW s \in Sessions, Distinct(s.tabs), Selected(s), NEW i \in DOMAIN s.tabs
    PROVE  LET u == WithoutTab(s, i)
           IN  /\ u \in Sessions /\ Distinct(u.tabs) /\ Selected(u)
               /\ u.documents = s.documents /\ u.closed = s.closed
               /\ u.records = s.records
               /\ Tabs(u) = Tabs(s) \ {s.tabs[i]} /\ Len(u.tabs) = Len(s.tabs) - 1
               /\ u.tabs = RemoveAt(s.tabs, i)
<1> DEFINE rest == RemoveAt(s.tabs, i)
           a == IF rest = <<>> THEN None
                ELSE IF s.active = s.tabs[i].id THEN rest[Smaller(i, Len(rest))].id
                ELSE s.active
           u == [s EXCEPT !.tabs = rest, !.active = a]
<1>1. s.tabs \in Seq(TabStates) /\ s.active \in Nat
  BY SessionParts
<1>2. /\ rest \in Seq(TabStates) /\ Distinct(rest) /\ Len(rest) = Len(s.tabs) - 1
      /\ ToSet(rest) = ToSet(s.tabs) \ {s.tabs[i]}
  BY <1>1, OneTaken
<1> HIDE DEF rest
<1>3. WithoutTab(s, i) = u
  BY DEF WithoutTab, rest
<1>4. /\ Len(rest) \in Nat /\ DOMAIN rest = 1..Len(rest)
      /\ \A k \in DOMAIN rest : rest[k] \in TabStates /\ rest[k] \in ToSet(rest)
      /\ (rest = <<>> <=> Len(rest) = 0)
  <2>1. /\ Len(rest) \in Nat /\ DOMAIN rest = 1..Len(rest)
        /\ \A k \in DOMAIN rest : rest[k] \in TabStates
        /\ \A e : e \in ToSet(rest) <=> \E k \in DOMAIN rest : rest[k] = e
    BY <1>2, Elements
  <2> QED BY <1>2, <2>1, EmptySeq
<1>5. i \in Nat \ {0}
  BY <1>1, Elements
<1>6. rest # <<>> => Smaller(i, Len(rest)) \in DOMAIN rest
  BY <1>4, <1>5 DEF Smaller
<1>7. a \in Nat /\ (rest = <<>> => a = None)
      /\ (rest # <<>> => \E t \in ToSet(rest) : t.id = a)
  <2>1. CASE rest = <<>>
    BY <2>1 DEF None
  <2>2. CASE rest # <<>> /\ s.active = s.tabs[i].id
    <3>1. rest[Smaller(i, Len(rest))] \in TabStates
          /\ rest[Smaller(i, Len(rest))] \in ToSet(rest)
      BY <1>4, <1>6, <2>2
    <3>2. a = rest[Smaller(i, Len(rest))].id
      BY <2>2
    <3>3. a \in Nat
      BY <3>1, <3>2, TabsAndRecords DEF Ids
    <3> QED BY <2>2, <3>1, <3>2, <3>3
  <2>3. CASE rest # <<>> /\ s.active # s.tabs[i].id
    <3>1. ActiveTab(s) # {}
      <4>1. s.tabs # <<>>
        BY <1>1, Elements
      <4> QED BY <4>1 DEF Selected
    <3>2. PICK t \in Tabs(s) : t.id = s.active
      BY <3>1 DEF ActiveTab
    <3>3. t # s.tabs[i]
      BY <2>3, <3>2
    <3>4. t \in ToSet(rest)
      BY <1>2, <3>2, <3>3 DEF Tabs
    <3>5. a = s.active
      BY <2>3
    <3> QED BY <1>1, <2>3, <3>2, <3>4, <3>5
  <2> QED BY <2>1, <2>2, <2>3
<1> HIDE DEF a
<1>8. u \in Sessions
  BY <1>2, <1>7, PartsReplaced
<1>9. /\ u.documents = s.documents /\ u.tabs = rest /\ u.active = a
      /\ u.closed = s.closed /\ u.records = s.records
  BY PartsAreTheirs
<1> HIDE DEF u
<1>10. Selected(u)
  BY <1>7, <1>9 DEF Selected, ActiveTab, Tabs
<1>11. Tabs(u) = Tabs(s) \ {s.tabs[i]}
  BY <1>2, <1>9 DEF Tabs
<1> QED BY <1>2, <1>3, <1>8, <1>9, <1>10, <1>11 DEF rest

\* A tab closes: its document is forgotten, a record and its place are kept.
Closes(u, s, i, gone, limit) ==
    /\ Sound(u, gone, limit)
    /\ DOMAIN u.documents = DOMAIN s.documents \ {s.tabs[i].document}
    /\ \A e \in DOMAIN u.documents : u.documents[e] = s.documents[e]
    /\ u.tabs = RemoveAt(s.tabs, i) /\ Tabs(u) = Tabs(s) \ {s.tabs[i]}
    /\ Len(u.tabs) = Len(s.tabs) - 1
    /\ u.closed # <<>>
    /\ \A e \in DOMAIN u.documents : HasTab(s, e) => HasTab(u, e)

LEMMA CloseKeeps ==
    ASSUME NEW gone, NEW limit \in Nat, MaxRecords <= limit,
           NEW s, Sound(s, gone, limit), NEW i \in DOMAIN s.tabs, Closable(s, s.tabs[i]),
           NEW place \in Ids
    PROVE  Closes(ClosedAs(s, i, place), s, i, gone, limit)
<1> DEFINE t == s.tabs[i]
           d == t.document
           r == DocumentRecord(s, d)
           j == Journaled(s, r)
           w == WithoutDocument(j, d)
           c == [tab |-> t, index |-> place, record |-> r.id]
           q == Append(w.closed, c)
           n == Newest(q, MaxClosed)
           v == [w EXCEPT !.closed = n]
           u == WithoutTab(v, i)
<1>1. /\ s \in Sessions /\ Arranged(s, gone) /\ History(s)
      /\ IsFiniteSet(DOMAIN s.documents)
  BY DEF Sound
<1>2. t \in TabStates /\ t \in Tabs(s) /\ d \in DOMAIN s.documents
  BY <1>1, SessionParts, Elements DEF Closable, Tabs
<1>3. t.path = s.documents[d].path
  BY <1>1, <1>2 DEF Arranged, Backed, Closable
<1>4. /\ r.id = FreshRecord(s) /\ r.document = s.documents[d]
      /\ r \in DocumentRecords /\ r \in Records
  <2>1. s.documents[d] \in Documents /\ FreshRecord(s) \in Ids
    BY <1>1, <1>2, SessionParts, FreshRecordIsNew
  <2> QED BY <2>1 DEF DocumentRecord, DocumentRecords, Records
<1> HIDE DEF r
<1>5. /\ Sound(j, gone, limit)
      /\ j.documents = s.documents /\ j.tabs = s.tabs /\ j.active = s.active
      /\ j.closed = s.closed
      /\ ToSet(j.records) \subseteq ToSet(s.records) \cup {r}
  <2>1. /\ \A x \in ToSet(s.records) : x.id # r.id
        /\ \A x \in ToSet(s.closed) : x.record # r.id
    BY <1>1, <1>4, FreshRecordIsNew
  <2>2. Sound(j, gone, limit)
    BY <1>4, <2>1, JournaledKeeps
  <2> QED BY <1>1, <1>4, <2>2, JournaledFields
<1> HIDE DEF j
<1>6. /\ w \in Sessions /\ w.tabs = s.tabs /\ w.active = s.active
      /\ w.closed = s.closed /\ w.records = j.records
      /\ DOMAIN w.documents = DOMAIN s.documents \ {d}
      /\ \A e \in DOMAIN w.documents : w.documents[e] = s.documents[e]
  <2>1. j \in Sessions
    BY <1>5 DEF Sound
  <2> QED BY <1>5, <2>1, DocumentForgotten
<1> HIDE DEF w
<1>7. c \in ClosedTabs /\ c.tab = t /\ c.record = r.id
  BY <1>2, <1>4, TabsAndRecords DEF ClosedTabs
<1> HIDE DEF c
<1>8. /\ q \in Seq(ClosedTabs) /\ q # <<>> /\ ToSet(q) = ToSet(s.closed) \cup {c}
      /\ DistinctTabs(q)
  <2>1. DistinctTabs(s.closed) /\ \A e \in ToSet(s.closed) : e.tab.id # c.tab.id
    BY <1>1, <1>2, <1>7 DEF History
  <2>2. s.closed \in Seq(ClosedTabs)
    BY <1>1, SessionParts
  <2> QED BY <1>6, <1>7, <2>1, <2>2, OneAppended
<1> HIDE DEF q
<1>9. MaxClosed \in Nat \ {0}
  BY SessionAssumption
<1>10. /\ n \in Seq(ClosedTabs) /\ n # <<>> /\ Len(n) <= MaxClosed
       /\ ToSet(n) \subseteq ToSet(s.closed) \cup {c} /\ DistinctTabs(n)
  <2>1. n \in Seq(ClosedTabs) /\ n # <<>> /\ Len(n) <= MaxClosed /\ Picked(n, q)
    BY <1>8, <1>9, NewestKept
  <2>2. ToSet(n) \subseteq ToSet(q) /\ DistinctTabs(n)
    BY <1>8, <2>1, FewerElements
  <2> QED BY <1>8, <2>1, <2>2
<1> HIDE DEF n
<1>11. v \in Sessions
  BY <1>6, <1>10, PartsReplaced
<1>12. /\ v.documents = w.documents /\ v.tabs = s.tabs /\ v.active = s.active
       /\ v.closed = n /\ v.records = j.records
  BY <1>6, PartsAreTheirs
<1> HIDE DEF v
<1>13. Distinct(v.tabs) /\ Selected(v) /\ Tabs(v) = Tabs(s)
  BY <1>1, <1>12 DEF Arranged, Selected, ActiveTab, Tabs
<1>14. /\ u \in Sessions /\ Distinct(u.tabs) /\ Selected(u)
       /\ u.documents = w.documents /\ u.closed = n /\ u.records = j.records
       /\ Tabs(u) = Tabs(s) \ {t} /\ Len(u.tabs) = Len(s.tabs) - 1
       /\ u.tabs = RemoveAt(s.tabs, i)
  BY <1>11, <1>12, <1>13, TabRemoved
<1> HIDE DEF u
<1>15. Retired(s, t, place) = v
  BY <1>7 DEF Retired, v, n, q, c, w, j, r
<1>16. ClosedAs(s, i, place) = u
  BY <1>15 DEF ClosedAs, u
<1>17. OwnTab(u) /\ OneDocument(u)
  BY <1>1, <1>6, <1>14 DEF Arranged, OwnTab, OneDocument
<1>18. \A x \in Tabs(u) : x.document # d
  BY <1>1, <1>2, <1>14 DEF Arranged, OwnTab
<1>19. Backed(u, gone)
  BY <1>1, <1>6, <1>14, <1>18 DEF Arranged, Backed, Closable
<1>20. History(u)
  <2>1. \A e \in ToSet(n), x \in Tabs(u) : e.tab.id # x.id
    <3>1. \A x \in Tabs(u) : x.id # t.id
      <4>1. Distinct(s.tabs)
        BY <1>1 DEF Arranged
      <4> QED BY <1>14, <4>1 DEF Distinct, Tabs, ToSet
    <3> QED BY <1>1, <1>7, <1>10, <1>14, <3>1 DEF History
  <2>2. ASSUME NEW e \in ToSet(n), NEW x \in ToSet(j.records), x.id = e.record
        PROVE  x \in DocumentRecords /\ x.document.path = e.tab.path
    <3>1. CASE e = c
      <4>1. x.id = FreshRecord(s)
        BY <1>4, <1>7, <2>2, <3>1
      <4>2. x = r
        BY <1>1, <1>5, <4>1, FreshRecordIsNew
      <4> QED BY <1>3, <1>4, <1>7, <3>1, <4>2
    <3>2. CASE e # c
      <4>1. e \in ToSet(s.closed)
        BY <1>10, <3>2
      <4>2. x # r
        BY <1>1, <1>4, <2>2, <4>1, FreshRecordIsNew
      <4> QED BY <1>1, <1>5, <2>2, <4>1, <4>2 DEF History
    <3> QED BY <3>1, <3>2
  <2> QED BY <1>10, <1>14, <2>1, <2>2 DEF History
<1>21. IsFiniteSet(DOMAIN u.documents)
  BY <1>1, <1>6, <1>14, FS_RemoveElement
<1>22. Sound(u, gone, limit)
  BY <1>5, <1>14, <1>17, <1>19, <1>20, <1>21 DEF Sound, Arranged
<1>23. ASSUME NEW e \in DOMAIN u.documents, HasTab(s, e) PROVE HasTab(u, e)
  <2>1. e # d /\ e \in DOMAIN s.documents /\ u.documents[e] = s.documents[e]
    BY <1>6, <1>14
  <2>2. PICK x \in Tabs(s) :
           \/ x.document = e
           \/ /\ s.documents[e].path # Untitled
              /\ x.path = s.documents[e].path /\ ~Closable(s, x)
    BY <1>23 DEF HasTab
  <2>3. x # t
    BY <1>2, <2>1, <2>2 DEF Closable
  <2>4. x \in Tabs(u) /\ (~Closable(s, x) => ~Closable(u, x))
    BY <1>6, <1>14, <2>2, <2>3 DEF Closable
  <2> QED BY <2>1, <2>2, <2>4 DEF HasTab
<1> QED BY <1>6, <1>10, <1>14, <1>16, <1>22, <1>23 DEF Closes

-----------------------------------------------------------------------------
(* A document that is opened.                                              *)

\* It has a tab that is active; the documents stay.
Opens(u, s, gone, limit) ==
    Well(u, gone, limit) /\ u.tabs # <<>> /\ u.documents = s.documents

\* Where a document may be shown: it has no tab yet, or it is a file's.
Showable(s, d) ==
    /\ d \in DOMAIN s.documents
    /\ \A e \in DOMAIN s.documents \ {d} : HasTab(s, e)
    /\ \/ \A t \in Tabs(s) : t.document # d
       \/ HasTab(s, d) /\ s.documents[d].path # Untitled

LEMMA TabOpens ==
    ASSUME NEW gone, NEW limit \in Nat,
           NEW s, Sound(s, gone, limit), NEW d, Showable(s, d)
    PROVE  Opens(WithTab(s, d), s, gone, limit)
<1> DEFINE path == s.documents[d].path
           on == OnFile(s, path)
<1>1. /\ s \in Sessions /\ Arranged(s, gone) /\ History(s) /\ d \in DOMAIN s.documents
      /\ s.tabs \in Seq(TabStates) /\ d \in Ids /\ s.documents[d] \in Documents
  BY SessionParts DEF Sound, Showable
<1>2. path \in Paths \cup {Untitled}
  BY <1>1 DEF Documents
<1>3. CASE on # {}
  <2> DEFINE v == CHOOSE x \in on : TRUE
             u == [s EXCEPT !.active = v.id]
  <2>1. v \in on
    BY <1>3
  <2>2. v \in Tabs(s) /\ path # Untitled /\ v.path = path
    BY <2>1 DEF OnFile
  <2>3. v.id \in Nat /\ s.tabs # <<>>
    <3>1. v \in TabStates /\ s.tabs # <<>>
      BY <1>1, <2>2, Elements DEF Tabs
    <3> QED BY <3>1, TabsAndRecords DEF Ids
  <2>4. WithTab(s, d) = u
    BY <1>3 DEF WithTab
  <2> HIDE DEF v
  <2>5. u \in Sessions
    BY <1>1, <2>3, PartsReplaced
  <2>6. /\ u.documents = s.documents /\ u.tabs = s.tabs /\ u.active = v.id
        /\ u.closed = s.closed /\ u.records = s.records
    BY <1>1, PartsAreTheirs
  <2> HIDE DEF u
  <2>7. Tabs(u) = Tabs(s) /\ (\A x : Closable(u, x) <=> Closable(s, x))
    BY <2>6 DEF Tabs, Closable
  <2>8. Selected(u)
    BY <2>2, <2>3, <2>6, <2>7 DEF Selected, ActiveTab
  <2>9. Sound(u, gone, limit)
    BY <2>5, <2>6, <2>7, <2>8
       DEF Sound, Arranged, OwnTab, Backed, OneDocument, History
  <2>10. HasTab(s, d)
    <3>1. CASE Closable(s, v)
      <4>1. v.document \in DOMAIN s.documents
            /\ s.documents[v.document].path = s.documents[d].path
        BY <1>1, <2>2, <3>1 DEF Arranged, Backed, Closable
      <4>2. v.document = d
        BY <1>1, <2>2, <4>1 DEF Arranged, OneDocument
      <4> QED BY <2>2, <4>2 DEF HasTab
    <3>2. CASE ~Closable(s, v)
      BY <2>2, <3>2 DEF HasTab
    <3> QED BY <3>1, <3>2
  <2>11. \A e \in DOMAIN u.documents : HasTab(u, e)
    BY <2>6, <2>7, <2>10 DEF HasTab, Showable
  <2> QED BY <2>3, <2>4, <2>6, <2>9, <2>11 DEF Opens, Well
<1>4. CASE on = {}
  <2> DEFINE tab == [id |-> FreshTab(s), document |-> d, path |-> path]
             q == Append(s.tabs, tab)
             u == [s EXCEPT !.tabs = q, !.active = tab.id]
  <2>1. FreshTab(s) \in Ids
    BY <1>1, FreshTabIsNew
  <2>2. /\ tab \in TabStates /\ tab.id = FreshTab(s) /\ tab.document = d
        /\ tab.path = path
    BY <1>1, <1>2, <2>1 DEF TabStates
  <2>3. WithTab(s, d) = u
    BY <1>4 DEF WithTab
  <2> HIDE DEF tab
  <2>4. \A t \in Tabs(s) : t.id # tab.id
    BY <1>1, <2>2, FreshTabIsNew
  <2>5. /\ q \in Seq(TabStates) /\ q # <<>> /\ ToSet(q) = ToSet(s.tabs) \cup {tab}
        /\ Distinct(q)
    BY <1>1, <2>2, <2>4, OneAppended DEF Arranged, Tabs
  <2> HIDE DEF q
  <2>6. u \in Sessions
    BY <1>1, <2>1, <2>2, <2>5, PartsReplaced DEF Ids
  <2>7. /\ u.documents = s.documents /\ u.tabs = q /\ u.active = tab.id
        /\ u.closed = s.closed /\ u.records = s.records
    BY <1>1, PartsAreTheirs
  <2> HIDE DEF u
  <2>8. Tabs(u) = Tabs(s) \cup {tab} /\ (\A x : Closable(u, x) <=> Closable(s, x))
    BY <2>5, <2>7 DEF Tabs, Closable
  <2>9. Selected(u)
    BY <2>5, <2>7, <2>8 DEF Selected, ActiveTab
  <2>10. \A t \in Tabs(s) : t.document # d
    <3>1. SUFFICES ASSUME HasTab(s, d), path # Untitled PROVE FALSE
      BY DEF Showable
    <3>2. PICK t \in Tabs(s) : t.document = d \/ t.path = path
      BY <3>1 DEF HasTab
    <3>3. t.path = path
      BY <1>1, <3>2 DEF Arranged, Backed, Closable
    <3> QED BY <1>4, <3>1, <3>2, <3>3 DEF OnFile
  <2>11. OwnTab(u) /\ Backed(u, gone) /\ OneDocument(u)
    BY <1>1, <2>2, <2>7, <2>8, <2>10
       DEF Arranged, OwnTab, Backed, OneDocument, Closable
  <2>12. History(u)
    <3>1. \A c \in ToSet(s.closed) : c.tab.id # tab.id
      BY <1>1, <2>2, FreshTabIsNew
    <3> QED BY <1>1, <2>7, <2>8, <3>1 DEF History
  <2>13. Sound(u, gone, limit)
    BY <2>5, <2>6, <2>7, <2>9, <2>11, <2>12 DEF Sound, Arranged
  <2>14. \A e \in DOMAIN u.documents : HasTab(u, e)
    <3> TAKE e \in DOMAIN u.documents
    <3>1. CASE e = d
      BY <2>2, <2>8, <3>1 DEF HasTab
    <3>2. CASE e # d
      <4>1. HasTab(s, e)
        BY <2>7, <3>2 DEF Showable
      <4> QED BY <2>7, <2>8, <4>1 DEF HasTab
    <3> QED BY <3>1, <3>2
  <2> QED BY <2>3, <2>5, <2>7, <2>13, <2>14 DEF Opens, Well
<1> QED BY <1>3, <1>4

\* A blank buffer may give way to it.
Shows(u, s, gone, limit) ==
    /\ Well(u, gone, limit) /\ u.tabs # <<>>
    /\ DOMAIN u.documents \subseteq DOMAIN s.documents
    /\ \A e \in DOMAIN u.documents : u.documents[e] = s.documents[e]

LEMMA DocumentShows ==
    ASSUME NEW gone, NEW limit \in Nat, MaxRecords <= limit,
           NEW s, Sound(s, gone, limit), NEW d, Showable(s, d), NEW kept
    PROVE  Shows(Activated(s, d, kept), s, gone, limit)
<1> DEFINE w == WithTab(s, d)
<1>1. Opens(w, s, gone, limit)
  BY TabOpens
<1>2. CASE ~(Disposable(s, d) /\ ~kept)
  <2>1. Activated(s, d, kept) = w
    BY <1>2 DEF Activated
  <2> HIDE DEF w
  <2> QED BY <1>1, <2>1 DEF Opens, Shows
<1>3. CASE Disposable(s, d) /\ ~kept
  <2> DEFINE path == s.documents[d].path
             tab == [id |-> FreshTab(s), document |-> d, path |-> path]
             u == ClosedAs(w, 1, 1)
  <2>1. /\ s \in Sessions /\ s.tabs \in Seq(TabStates) /\ Len(s.tabs) = 1
        /\ s.tabs[1].path = Untitled /\ s.tabs[1].document \in DOMAIN s.documents \ {d}
        /\ DOMAIN s.tabs = 1..1
    BY <1>3, SessionParts, LenProperties DEF Sound, Disposable
  <2>2. OnFile(s, path) = {}
    BY <2>1 DEF OnFile, Tabs, ToSet
  <2>3. w.tabs = Append(s.tabs, tab)
    <3>1. w = [s EXCEPT !.tabs = Append(@, tab), !.active = tab.id]
      BY <2>2 DEF WithTab
    <3> QED BY <2>1, <3>1 DEF Sessions
  <2>4. Len(w.tabs) = 2 /\ 1 \in DOMAIN w.tabs /\ w.tabs[1] = s.tabs[1]
    <3>1. tab \in TabStates
      <4>1. FreshTab(s) \in Ids /\ d \in Ids /\ path \in Paths \cup {Untitled}
        BY <2>1, SessionParts, FreshTabIsNew DEF Showable, Documents
      <4> QED BY <4>1 DEF TabStates
    <3> HIDE DEF tab
    <3>2. /\ w.tabs \in Seq(TabStates) /\ Len(w.tabs) = 2
          /\ w.tabs[1] = s.tabs[1]
      BY <2>1, <2>3, <3>1, AppendProperties
    <3> HIDE DEF w
    <3>3. DOMAIN w.tabs = 1..2
      BY <3>2, LenProperties
    <3> QED BY <3>2, <3>3
  <2> HIDE DEF w, tab
  <2>5. Closable(w, w.tabs[1]) /\ Sound(w, gone, limit) /\ 1 \in Ids
    BY <1>1, <2>1, <2>4 DEF Opens, Well, Closable, Ids
  <2>6. Closes(u, w, 1, gone, limit)
    BY <2>4, <2>5, CloseKeeps
  <2>7. Activated(s, d, kept) = u
    BY <1>3 DEF Activated, ClosedAt, w
  <2> HIDE DEF u
  <2>8. u.tabs # <<>>
    <3>1. Len(u.tabs) = 1
      BY <2>4, <2>6 DEF Closes
    <3>2. u.tabs \in Seq(TabStates)
      BY <2>6, SessionParts DEF Closes, Sound
    <3> QED BY <3>1, <3>2, EmptySeq
  <2>9. \A e \in DOMAIN u.documents : HasTab(u, e)
    BY <1>1, <2>6 DEF Opens, Well, Closes
  <2> QED BY <1>1, <2>6, <2>7, <2>8, <2>9 DEF Opens, Well, Closes, Shows
<1> QED BY <1>2, <1>3

\* A document of its own: of no file, or of one that is not open.
Joins(u, s, x, gone, limit) ==
    /\ Well(u, gone, limit) /\ u.tabs # <<>>
    /\ \A e \in DOMAIN u.documents :
          \/ u.documents[e] = x
          \/ e \in DOMAIN s.documents /\ u.documents[e] = s.documents[e]

\* A document that joins the others has no tab yet.
LEMMA DocumentJoins ==
    ASSUME NEW gone, NEW limit \in Nat,
           NEW s, Well(s, gone, limit), NEW d \in Ids \ (DOMAIN s.documents \cup gone),
           NEW x \in Documents, x.path = Untitled \/ OfPath(s, x.path) = {}
    PROVE  /\ Sound(WithDocument(s, d, x), gone, limit)
           /\ Showable(WithDocument(s, d, x), d)
           /\ \A t \in Tabs(s) : t.document # d
<1> DEFINE u == WithDocument(s, d, x)
<1>1. /\ s \in Sessions /\ Arranged(s, gone) /\ History(s)
      /\ IsFiniteSet(DOMAIN s.documents)
  BY DEF Well, Sound
<1>2. /\ u \in Sessions /\ u.tabs = s.tabs /\ u.active = s.active
      /\ u.closed = s.closed /\ u.records = s.records
      /\ DOMAIN u.documents = DOMAIN s.documents \cup {d}
      /\ u.documents[d] = x
      /\ \A e \in DOMAIN s.documents \ {d} : u.documents[e] = s.documents[e]
  BY <1>1, DocumentSet
<1> HIDE DEF u
<1>3. \A t \in Tabs(s) : t.document # d
  BY <1>1 DEF Arranged, Backed
<1>4. Tabs(u) = Tabs(s) /\ \A t \in Tabs(s) : Closable(u, t) <=> Closable(s, t)
  BY <1>2, <1>3 DEF Tabs, Closable
<1>5. Distinct(u.tabs) /\ OwnTab(u) /\ Selected(u)
  BY <1>1, <1>2, <1>4 DEF Arranged, OwnTab, Selected, ActiveTab
<1>6. Backed(u, gone)
  BY <1>1, <1>2, <1>3, <1>4 DEF Arranged, Backed, Closable
<1>7. OneDocument(u)
  <2>1. \A e \in DOMAIN s.documents :
           e # d /\ (x.path # Untitled => s.documents[e].path # x.path)
    BY DEF OfPath
  <2> QED BY <1>1, <1>2, <2>1 DEF Arranged, OneDocument
<1>8. History(u)
  BY <1>1, <1>2, <1>4 DEF History
<1>9. IsFiniteSet(DOMAIN u.documents)
  BY <1>1, <1>2, FS_AddElement
<1>10. Sound(u, gone, limit)
  BY <1>2, <1>5, <1>6, <1>7, <1>8, <1>9 DEF Well, Sound, Arranged
<1>11. \A e \in DOMAIN u.documents \ {d} : HasTab(u, e)
  BY <1>2, <1>4 DEF Well, HasTab
<1>12. Showable(u, d)
  BY <1>2, <1>3, <1>4, <1>11 DEF Showable
<1> QED BY <1>3, <1>10, <1>12 DEF u

LEMMA NewKeeps ==
    ASSUME NEW limit \in Nat, MaxRecords <= limit, IsFiniteSet(DOMAIN dropped),
           NEW s, Well(s, DOMAIN dropped, limit), NEW x \in Documents,
           x.path = Untitled \/ OfPath(s, x.path) = {}, NEW kept
    PROVE  Joins(OpenedNew(s, x, kept), s, x, DOMAIN dropped, limit)
<1> DEFINE d == FreshDocument(s)
           w == WithDocument(s, d, x)
           u == Activated(w, d, kept)
<1>1. s \in Sessions /\ IsFiniteSet(DOMAIN s.documents)
  BY DEF Well, Sound
<1>2. d \in Ids \ (DOMAIN s.documents \cup DOMAIN dropped)
  BY <1>1, FreshDocumentIsNew
<1>3. OpenedNew(s, x, kept) = u
  BY DEF OpenedNew
<1> HIDE DEF d
<1>4. Sound(w, DOMAIN dropped, limit) /\ Showable(w, d)
  BY <1>2, DocumentJoins
<1>5. /\ DOMAIN w.documents = DOMAIN s.documents \cup {d} /\ w.documents[d] = x
      /\ \A e \in DOMAIN s.documents \ {d} : w.documents[e] = s.documents[e]
  BY <1>1, <1>2, DocumentSet
<1> HIDE DEF w
<1>6. Shows(u, w, DOMAIN dropped, limit)
  BY <1>4, DocumentShows
<1> HIDE DEF u
<1> QED BY <1>3, <1>5, <1>6 DEF Shows, Joins

\* What is read from a file.
LEMMA ReadIsDocument ==
    ASSUME disk \in [Paths -> Files], NEW path \in Paths, disk[path] # Missing
    PROVE  /\ ReadFrom(path) \in Documents /\ ReadFrom(path).path = path
           /\ BranchesFrom(ReadFrom(path), disk)
<1>1. disk[path] \in Contents
  BY DEF Files
<1>2. path # Untitled
  BY SessionAssumption DEF Untitled
<1> QED BY <1>1, <1>2 DEF ReadFrom, Document, Documents, BranchesFrom

\* A file that is open already is shown.
LEMMA FileOpens ==
    ASSUME NEW limit \in Nat, MaxRecords <= limit, IsFiniteSet(DOMAIN dropped),
           disk \in [Paths -> Files], NEW path \in Paths,
           NEW s, Well(s, DOMAIN dropped, limit), Branches(s, disk),
           disk[path] # Missing \/ OfPath(s, path) # {}, NEW kept
    PROVE  /\ Well(OpenedFile(s, path, kept), DOMAIN dropped, limit)
           /\ OpenedFile(s, path, kept).tabs # <<>>
           /\ Branches(OpenedFile(s, path, kept), disk)
<1>1. CASE OfPath(s, path) # {}
  <2> DEFINE d == CHOOSE d \in OfPath(s, path) : TRUE
  <2>1. d \in OfPath(s, path)
    BY <1>1
  <2>2. OpenedFile(s, path, kept) = Activated(s, d, kept)
    BY <1>1 DEF OpenedFile
  <2> HIDE DEF d
  <2>3. path # Untitled
    BY SessionAssumption DEF Untitled
  <2>4. Showable(s, d) /\ Sound(s, DOMAIN dropped, limit)
    BY <2>1, <2>3 DEF Showable, OfPath, Well
  <2>5. Shows(Activated(s, d, kept), s, DOMAIN dropped, limit)
    BY <2>4, DocumentShows
  <2> QED BY <2>2, <2>5 DEF Shows, Branches
<1>2. CASE OfPath(s, path) = {}
  <2>1. OpenedFile(s, path, kept) = OpenedNew(s, ReadFrom(path), kept)
    BY <1>2 DEF OpenedFile
  <2>2. /\ ReadFrom(path) \in Documents /\ ReadFrom(path).path = path
        /\ BranchesFrom(ReadFrom(path), disk)
    BY <1>2, ReadIsDocument
  <2>3. Joins(OpenedNew(s, ReadFrom(path), kept), s, ReadFrom(path), DOMAIN dropped, limit)
    BY <1>2, <2>2, NewKeeps
  <2> QED BY <2>1, <2>2, <2>3 DEF Joins, Branches
<1> QED BY <1>1, <1>2

-----------------------------------------------------------------------------
(* Documents that change, and tabs that follow them.                       *)

\* Documents that stay where they are keep their tabs.
LEMMA ContentsMayChange ==
    ASSUME NEW gone, NEW limit, NEW s, Well(s, gone, limit), NEW u \in Sessions,
           u.tabs = s.tabs, u.active = s.active, u.closed = s.closed,
           u.records = s.records, DOMAIN u.documents = DOMAIN s.documents,
           \A d \in DOMAIN s.documents : u.documents[d].path = s.documents[d].path
    PROVE  Well(u, gone, limit)
<1>1. Tabs(u) = Tabs(s) /\ \A t : Closable(u, t) <=> Closable(s, t)
  BY DEF Tabs, Closable
<1>2. \A d \in DOMAIN u.documents : HasTab(u, d)
  BY <1>1 DEF Well, HasTab
<1>3. OwnTab(u) /\ Selected(u) /\ Backed(u, gone) /\ OneDocument(u) /\ Distinct(u.tabs)
  BY <1>1 DEF Well, Sound, Arranged, OwnTab, Selected, ActiveTab, Backed, Closable,
              OneDocument
<1>4. History(u)
  BY <1>1 DEF Well, Sound, History
<1> QED BY <1>2, <1>3, <1>4 DEF Well, Sound, Arranged

LEMMA TextMayChange ==
    ASSUME NEW gone, NEW limit, NEW s, Well(s, gone, limit),
           NEW d \in DOMAIN s.documents, NEW x \in Documents, x.path = s.documents[d].path
    PROVE  Well(WithDocument(s, d, x), gone, limit)
<1>1. s \in Sessions /\ d \in Ids
  BY SessionParts DEF Well, Sound
<1> DEFINE u == WithDocument(s, d, x)
<1>2. /\ u \in Sessions /\ u.tabs = s.tabs /\ u.active = s.active
      /\ u.closed = s.closed /\ u.records = s.records
      /\ DOMAIN u.documents = DOMAIN s.documents \cup {d}
      /\ u.documents[d] = x
      /\ \A e \in DOMAIN s.documents \ {d} : u.documents[e] = s.documents[e]
  BY <1>1, DocumentSet
<1> HIDE DEF u
<1>3. /\ DOMAIN u.documents = DOMAIN s.documents
      /\ \A e \in DOMAIN s.documents : u.documents[e].path = s.documents[e].path
  BY <1>2
<1>4. Well(u, gone, limit)
  BY <1>2, <1>3, ContentsMayChange
<1> QED BY <1>4 DEF u

\* A document goes to another path and its tabs with it.
LEMMA PathsAreSynced ==
    ASSUME NEW gone, NEW limit, NEW s, Well(s, gone, limit),
           NEW d \in DOMAIN s.documents, \E t \in Tabs(s) : t.document = d,
           NEW x \in Documents, x.path # Untitled => OfPath(s, x.path) \subseteq {d}
    PROVE  LET u == Synced(WithDocument(s, d, x), d)
           IN  /\ Well(u, gone, limit)
               /\ DOMAIN u.documents = DOMAIN s.documents /\ u.documents[d] = x
               /\ \A e \in DOMAIN s.documents \ {d} : u.documents[e] = s.documents[e]
               /\ u.tabs # <<>> /\ u.closed = s.closed /\ u.records = s.records
<1>1. /\ s \in Sessions /\ Arranged(s, gone) /\ History(s)
      /\ d \in Ids /\ s.tabs \in Seq(TabStates)
  BY SessionParts DEF Well, Sound
<1> DEFINE w == WithDocument(s, d, x)
           q == [i \in DOMAIN s.tabs |->
                    IF s.tabs[i].document = d THEN [s.tabs[i] EXCEPT !.path = x.path]
                                              ELSE s.tabs[i]]
           u == [w EXCEPT !.tabs = q]
<1>2. /\ w \in Sessions /\ w.tabs = s.tabs /\ w.active = s.active
      /\ w.closed = s.closed /\ w.records = s.records
      /\ DOMAIN w.documents = DOMAIN s.documents \cup {d}
      /\ w.documents[d] = x
      /\ \A e \in DOMAIN s.documents \ {d} : w.documents[e] = s.documents[e]
  BY <1>1, DocumentSet
<1> HIDE DEF w
<1>3. Synced(w, d) = u
  BY <1>2 DEF Synced
<1>4. /\ Len(s.tabs) \in Nat /\ DOMAIN s.tabs = 1..Len(s.tabs)
      /\ \A i \in DOMAIN s.tabs : s.tabs[i] \in TabStates
  BY <1>1, Elements
<1>5. DOMAIN q = DOMAIN s.tabs
  OBVIOUS
<1>6. \A i \in DOMAIN s.tabs :
         /\ q[i] \in TabStates
         /\ q[i].id = s.tabs[i].id /\ q[i].document = s.tabs[i].document
         /\ s.tabs[i].document = d => q[i].path = x.path
         /\ s.tabs[i].document # d => q[i] = s.tabs[i]
  <2> TAKE i \in DOMAIN s.tabs
  <2>1. x.path \in Paths \cup {Untitled}
    BY DEF Documents
  <2>2. CASE s.tabs[i].document = d
    <3> DEFINE t == s.tabs[i]
    <3>1. t \in TabStates
      BY <1>4
    <3> HIDE DEF t
    <3>2. /\ [t EXCEPT !.path = x.path] \in TabStates
          /\ [t EXCEPT !.path = x.path].id = t.id
          /\ [t EXCEPT !.path = x.path].document = t.document
          /\ [t EXCEPT !.path = x.path].path = x.path
      BY <2>1, <3>1 DEF TabStates
    <3>3. q[i] = [t EXCEPT !.path = x.path]
      BY <2>2 DEF t
    <3> HIDE DEF q
    <3> QED BY <2>2, <3>2, <3>3 DEF t
  <2>3. CASE s.tabs[i].document # d
    BY <1>4, <2>3
  <2> QED BY <2>2, <2>3
<1> HIDE DEF q
<1>7. q \in Seq(TabStates) /\ (q = <<>> <=> s.tabs = <<>>)
  <2>1. q \in [DOMAIN s.tabs -> TabStates]
    <3>1. q = [i \in DOMAIN s.tabs |-> q[i]]
      BY DEF q
    <3> QED BY <1>5, <1>6, <3>1
  <2>2. q \in Seq(TabStates)
    BY <1>4, <2>1, SeqDef
  <2>3. Len(q) = Len(s.tabs)
    BY <1>4, <1>5, <2>2, LenProperties
  <2> QED BY <1>1, <2>2, <2>3, EmptySeq
<1>8. u \in Sessions
  BY <1>2, <1>7, PartsReplaced
<1>9. /\ u.documents = w.documents /\ u.tabs = q /\ u.active = s.active
      /\ u.closed = s.closed /\ u.records = s.records
  BY <1>2, PartsAreTheirs
<1> HIDE DEF u
<1>10. DOMAIN u.documents = DOMAIN s.documents
  BY <1>2, <1>9
<1>11. \A v \in Tabs(u) : \E t \in Tabs(s) :
          /\ v.id = t.id /\ v.document = t.document
          /\ t.document = d => v.path = x.path
          /\ t.document # d => v = t
  BY <1>5, <1>6, <1>9 DEF Tabs, ToSet
<1>12. \A t \in Tabs(s) : \E v \in Tabs(u) :
          /\ v.id = t.id /\ v.document = t.document
          /\ t.document # d => v = t
  BY <1>5, <1>6, <1>9 DEF Tabs, ToSet
<1>13. Distinct(u.tabs)
  BY <1>1, <1>5, <1>6, <1>9 DEF Arranged, Distinct
<1>14. OwnTab(u)
  <2> SUFFICES ASSUME NEW v1 \in Tabs(u), NEW v2 \in Tabs(u), v1.document = v2.document
               PROVE  v1 = v2
    BY DEF OwnTab
  <2>1. v1.id = v2.id
    BY <1>1, <1>11 DEF Arranged, OwnTab
  <2> QED BY <1>13, <2>1 DEF Distinct, Tabs, ToSet
<1>15. Selected(u)
  <2>1. CASE s.tabs = <<>>
    BY <1>1, <1>7, <1>9, <2>1 DEF Arranged, Selected
  <2>2. CASE s.tabs # <<>>
    <3>1. PICK t \in Tabs(s) : t.id = s.active
      BY <1>1, <2>2 DEF Arranged, Selected, ActiveTab
    <3>2. \E v \in Tabs(u) : v.id = u.active
      BY <1>9, <1>12, <3>1
    <3> QED BY <1>7, <1>9, <2>2, <3>2 DEF Selected, ActiveTab
  <2> QED BY <2>1, <2>2
<1>16. Backed(u, gone)
  BY <1>1, <1>2, <1>9, <1>10, <1>11 DEF Arranged, Backed, Closable
<1>17. OneDocument(u)
  BY <1>1, <1>2, <1>9, <1>10 DEF Arranged, OneDocument, OfPath
<1>18. History(u)
  BY <1>1, <1>9, <1>11 DEF History
<1>19. \A e \in DOMAIN u.documents : HasTab(u, e)
  <2> TAKE e \in DOMAIN u.documents
  <2>1. CASE e = d
    BY <1>12, <2>1 DEF HasTab
  <2>2. CASE e # d
    <3>1. e \in DOMAIN s.documents /\ u.documents[e] = s.documents[e]
      BY <1>2, <1>9, <1>10, <2>2
    <3>2. PICK t \in Tabs(s) :
             \/ t.document = e
             \/ /\ s.documents[e].path # Untitled
                /\ t.path = s.documents[e].path /\ ~Closable(s, t)
      BY <3>1 DEF Well, HasTab
    <3>3. t.document # d
      BY <2>2, <3>2 DEF Closable
    <3>4. t \in Tabs(u)
      BY <1>12, <3>3
    <3> QED BY <1>10, <3>1, <3>2, <3>4 DEF HasTab, Closable
  <2> QED BY <2>1, <2>2
<1>20. Well(u, gone, limit)
  BY <1>8, <1>9, <1>10, <1>13, <1>14, <1>15, <1>16, <1>17, <1>18, <1>19
     DEF Well, Sound, Arranged
<1>21. u.tabs # <<>>
  BY <1>1, <1>7, <1>9, Elements DEF Tabs
<1> QED BY <1>2, <1>3, <1>9, <1>10, <1>20, <1>21 DEF w

\* Another tab becomes the active one.
LEMMA AnotherActive ==
    ASSUME NEW gone, NEW limit, NEW s, Well(s, gone, limit), NEW t \in Tabs(s)
    PROVE  Well([s EXCEPT !.active = t.id], gone, limit)
<1>1. s \in Sessions /\ s.tabs \in Seq(TabStates)
  BY SessionParts DEF Well, Sound
<1>2. t.id \in Nat /\ s.tabs # <<>>
  <2>1. t \in TabStates /\ s.tabs # <<>>
    BY <1>1, Elements DEF Tabs
  <2> QED BY <2>1, TabsAndRecords DEF Ids
<1> DEFINE u == [s EXCEPT !.active = t.id]
<1>3. u \in Sessions
  BY <1>1, <1>2, PartsReplaced
<1>4. /\ u.documents = s.documents /\ u.tabs = s.tabs /\ u.active = t.id
      /\ u.closed = s.closed /\ u.records = s.records
  BY <1>1, PartsAreTheirs
<1> HIDE DEF u
<1>5. Tabs(u) = Tabs(s) /\ \A x : Closable(u, x) <=> Closable(s, x)
  BY <1>4 DEF Tabs, Closable
<1>6. \A d \in DOMAIN u.documents : HasTab(u, d)
  BY <1>4, <1>5 DEF Well, HasTab
<1>7. Selected(u)
  BY <1>2, <1>4, <1>5 DEF Selected, ActiveTab
<1>8. Arranged(u, gone) /\ History(u)
  BY <1>4, <1>5, <1>7
     DEF Well, Sound, Arranged, OwnTab, Backed, Closable, OneDocument, History
<1>9. Well(u, gone, limit)
  BY <1>3, <1>4, <1>6, <1>8 DEF Well, Sound
<1> QED BY <1>9 DEF u

\* Two neighbours change places.
LEMMA NeighboursSwap ==
    ASSUME NEW gone, NEW limit, NEW s, Well(s, gone, limit), NEW i \in 1..Len(s.tabs) - 1
    PROVE  Opens([s EXCEPT !.tabs[i] = s.tabs[i + 1], !.tabs[i + 1] = s.tabs[i]],
                 s, gone, limit)
<1>1. s \in Sessions /\ s.tabs \in Seq(TabStates)
  BY SessionParts DEF Well, Sound
<1>2. /\ Len(s.tabs) \in Nat /\ DOMAIN s.tabs = 1..Len(s.tabs)
      /\ \A j \in DOMAIN s.tabs : s.tabs[j] \in TabStates
  BY <1>1, Elements
<1>3. i \in DOMAIN s.tabs /\ i + 1 \in DOMAIN s.tabs /\ i # i + 1
  BY <1>2
<1> DEFINE q == [s.tabs EXCEPT ![i] = s.tabs[i + 1], ![i + 1] = s.tabs[i]]
           at == [j \in DOMAIN s.tabs |-> IF j = i THEN i + 1 ELSE IF j = i + 1 THEN i ELSE j]
           u == [s EXCEPT !.tabs = q]
<1>4. [s EXCEPT !.tabs[i] = s.tabs[i + 1], !.tabs[i + 1] = s.tabs[i]] = u
  BY <1>1 DEF Sessions
<1>5. DOMAIN q = DOMAIN s.tabs /\ \A j \in DOMAIN s.tabs : q[j] = s.tabs[at[j]]
  BY <1>3
<1>6. q \in Seq(TabStates) /\ Len(q) = Len(s.tabs)
  <2>1. q \in [1..Len(s.tabs) -> TabStates]
    BY <1>2, <1>3
  <2> HIDE DEF q
  <2>2. q \in Seq(TabStates)
    BY <1>2, <2>1, SeqDef
  <2> QED BY <1>2, <1>5, <2>2, LenProperties
<1>7. /\ \A j \in DOMAIN s.tabs : at[j] \in DOMAIN s.tabs /\ at[at[j]] = j
      /\ \A j, k \in DOMAIN s.tabs : at[j] = at[k] => j = k
  BY <1>2, <1>3
<1> HIDE DEF at, q
<1>8. ToSet(q) = ToSet(s.tabs)
  <2>1. \A j \in DOMAIN s.tabs : at[j] \in DOMAIN q /\ q[at[j]] = s.tabs[j]
    BY <1>5, <1>7
  <2> QED BY <1>5, <1>7, <2>1 DEF ToSet
<1>9. Distinct(s.tabs) => Distinct(q)
  <2> SUFFICES ASSUME Distinct(s.tabs), NEW j \in DOMAIN q, NEW k \in DOMAIN q,
                      q[j].id = q[k].id
               PROVE  j = k
    BY DEF Distinct
  <2>1. s.tabs[at[j]].id = s.tabs[at[k]].id
    BY <1>5
  <2>2. at[j] = at[k]
    BY <1>5, <1>7, <2>1 DEF Distinct
  <2> QED BY <1>5, <1>7, <2>2
<1>10. u \in Sessions
  BY <1>1, <1>6, PartsReplaced
<1>11. /\ u.documents = s.documents /\ u.tabs = q /\ u.active = s.active
       /\ u.closed = s.closed /\ u.records = s.records
  BY <1>1, PartsAreTheirs
<1> HIDE DEF u
<1>12. Tabs(u) = Tabs(s) /\ \A x : Closable(u, x) <=> Closable(s, x)
  BY <1>8, <1>11 DEF Tabs, Closable
<1>13. s.tabs # <<>> /\ u.tabs # <<>>
  BY <1>1, <1>3, <1>8, <1>11, <1>6, Elements
<1>14. \A d \in DOMAIN u.documents : HasTab(u, d)
  BY <1>11, <1>12 DEF Well, HasTab
<1>15. Arranged(u, gone) /\ History(u)
  BY <1>9, <1>11, <1>12, <1>13
     DEF Well, Sound, Arranged, Selected, ActiveTab, OwnTab, Backed, Closable,
         OneDocument, History
<1>16. Well(u, gone, limit)
  BY <1>10, <1>11, <1>14, <1>15 DEF Well, Sound
<1> QED BY <1>4, <1>11, <1>13, <1>16 DEF Opens

\* Fewer closed tabs, and other records as long as those of closed tabs stay
\* theirs.
LEMMA HistoriesMayChange ==
    ASSUME NEW gone, NEW limit, NEW s, Well(s, gone, limit), NEW more, NEW u \in Sessions,
           u.documents = s.documents, u.tabs = s.tabs, u.active = s.active,
           ToSet(u.closed) \subseteq ToSet(s.closed), DistinctTabs(u.closed),
           Len(u.closed) <= MaxClosed, Distinct(u.records), Len(u.records) <= more,
           \A r \in ToSet(u.records) :
              \/ \A c \in ToSet(s.closed) : c.record # r.id
              \/ \E x \in ToSet(s.records) :
                    /\ x.id = r.id
                    /\ x \in DocumentRecords =>
                          r \in DocumentRecords /\ r.document = x.document
    PROVE  Well(u, gone, more)
<1>1. Arranged(u, gone) /\ \A d \in DOMAIN u.documents : HasTab(u, d)
  BY ArrangedAgrees DEF Well, Sound
<1>2. History(u)
  <2>1. Tabs(u) = Tabs(s)
    BY DEF Tabs
  <2>2. ASSUME NEW c \in ToSet(u.closed), NEW r \in ToSet(u.records), r.id = c.record
        PROVE  r \in DocumentRecords /\ r.document.path = c.tab.path
    <3>1. PICK x \in ToSet(s.records) :
             /\ x.id = r.id
             /\ x \in DocumentRecords => r \in DocumentRecords /\ r.document = x.document
      BY <2>2
    <3>2. x \in DocumentRecords /\ x.document.path = c.tab.path
      BY <2>2, <3>1 DEF Well, Sound, History
    <3> QED BY <3>1, <3>2
  <2> QED BY <2>1, <2>2 DEF Well, Sound, History
<1> QED BY <1>1, <1>2 DEF Well, Sound

\* One more failure allows one more record.
LEMMA MoreAllowed ==
    ASSUME NEW gone, NEW limit \in Nat, NEW more \in Nat, limit <= more,
           NEW s, Well(s, gone, limit)
    PROVE  Well(s, gone, more)
<1>1. s \in Sessions /\ Len(s.records) <= limit
  BY DEF Well, Sound
<1>2. Len(s.records) \in Nat
  BY <1>1, SessionParts, LenProperties
<1>3. Len(s.records) <= more
  BY <1>1, <1>2
<1> QED BY <1>3 DEF Well, Sound

\* A record that was published although the closing was refused.
LEMMA StoredKeeps ==
    ASSUME NEW gone, NEW limit \in Nat, NEW s, Well(s, gone, limit), NEW t,
           Closable(s, t)
    PROVE  /\ Well(Stored(s, t), gone, limit + 1)
           /\ Stored(s, t).documents = s.documents /\ Stored(s, t).tabs = s.tabs
           /\ Busy(s) => Busy(Stored(s, t))
<1> DEFINE r == DocumentRecord(s, t.document)
           p == Append(s.records, r)
           q == IF Len(s.records) >= MaxRecords THEN p ELSE s.records
           u == [s EXCEPT !.records = q]
<1>1. /\ s \in Sessions /\ s.records \in Seq(Records)
      /\ Distinct(s.records) /\ Len(s.records) <= limit /\ History(s)
  BY SessionParts DEF Well, Sound
<1>2. r \in Records /\ r.id = FreshRecord(s)
  <2>1. s.documents[t.document] \in Documents
    BY <1>1, SessionParts DEF Closable
  <2>2. FreshRecord(s) \in Ids
    BY <1>1, FreshRecordIsNew
  <2> QED BY <2>1, <2>2 DEF DocumentRecord, Records, DocumentRecords
<1>3. Stored(s, t) = u
  BY <1>1 DEF Stored
<1> HIDE DEF r
<1>4. /\ \A x \in ToSet(s.records) : x.id # r.id
      /\ \A c \in ToSet(s.closed) : c.record # r.id
  BY <1>1, <1>2, FreshRecordIsNew
<1>5. /\ p \in Seq(Records) /\ p # <<>> /\ Len(p) = Len(s.records) + 1
      /\ ToSet(p) = ToSet(s.records) \cup {r} /\ Distinct(p)
  BY <1>1, <1>2, <1>4, OneAppended
<1> HIDE DEF p
<1>6. /\ q \in Seq(Records) /\ ToSet(q) \subseteq ToSet(s.records) \cup {r}
      /\ Distinct(q) /\ (s.records # <<>> => q # <<>>)
  BY <1>1, <1>5
<1>7. Len(q) <= limit + 1
  <2>1. Len(s.records) \in Nat
    BY <1>1, LenProperties
  <2> QED BY <1>1, <1>5, <2>1
<1> HIDE DEF q
<1>8. u \in Sessions
  BY <1>1, <1>6, PartsReplaced
<1>9. /\ u.documents = s.documents /\ u.tabs = s.tabs /\ u.active = s.active
      /\ u.closed = s.closed /\ u.records = q
  BY <1>1, PartsAreTheirs
<1> HIDE DEF u
<1>10. \A x \in ToSet(u.records) :
          \/ \A c \in ToSet(s.closed) : c.record # x.id
          \/ \E y \in ToSet(s.records) :
                /\ y.id = x.id
                /\ y \in DocumentRecords =>
                      x \in DocumentRecords /\ x.document = y.document
  BY <1>4, <1>6, <1>9
<1>11. /\ ToSet(u.closed) \subseteq ToSet(s.closed) /\ DistinctTabs(u.closed)
       /\ Len(u.closed) <= MaxClosed
       /\ Distinct(u.records) /\ Len(u.records) <= limit + 1
  BY <1>1, <1>6, <1>7, <1>9 DEF History
<1>12. Well(u, gone, limit + 1)
  BY <1>8, <1>9, <1>10, <1>11, HistoriesMayChange
<1>13. Busy(s) => Busy(u)
  BY <1>6, <1>9 DEF Busy
<1> QED BY <1>3, <1>9, <1>12, <1>13

-----------------------------------------------------------------------------
(* Several tabs close.                                                     *)

\* After the first n positions: what is left is sound, and the tabs further
\* right are there as they were.
Left(u, s, n, gone, limit) ==
    /\ Well(u, gone, limit)
    /\ DOMAIN u.documents \subseteq DOMAIN s.documents
    /\ \A e \in DOMAIN u.documents : u.documents[e] = s.documents[e]
    /\ \A k \in DOMAIN s.tabs : n < k =>
          /\ s.tabs[k] \in Tabs(u)
          /\ Closable(s, s.tabs[k]) => Closable(u, s.tabs[k])
    /\ Busy(s) => Busy(u)

LEMMA OneMoreCloses ==
    ASSUME NEW gone, NEW limit \in Nat, MaxRecords <= limit,
           NEW s, Well(s, gone, limit), NEW n \in DOMAIN s.tabs, Closable(s, s.tabs[n]),
           NEW r, Left(r, s, n - 1, gone, limit)
    PROVE  Left(ClosedAs(r, IndexOf(r.tabs, s.tabs[n]), n), s, n, gone, limit)
<1> DEFINE t == s.tabs[n]
           i == IndexOf(r.tabs, t)
           u == ClosedAs(r, i, n)
<1>1. /\ s \in Sessions /\ s.tabs \in Seq(TabStates) /\ Arranged(s, gone)
      /\ r \in Sessions /\ r.tabs \in Seq(TabStates) /\ Sound(r, gone, limit)
  BY SessionParts DEF Left, Well, Sound
<1>2. /\ DOMAIN s.tabs = 1..Len(s.tabs) /\ Len(s.tabs) \in Nat
      /\ n \in Nat \ {0} /\ n \in Ids /\ n - 1 < n
  BY <1>1, LenProperties DEF Ids
<1>3. t \in Tabs(r) /\ Closable(r, t)
  BY <1>2 DEF Left
<1>4. i \in DOMAIN r.tabs /\ r.tabs[i] = t
  BY <1>3 DEF IndexOf, Tabs, ToSet
<1> HIDE DEF i
<1>5. Closes(u, r, i, gone, limit)
  BY <1>1, <1>2, <1>3, <1>4, CloseKeeps
<1> HIDE DEF u
<1>6. Well(u, gone, limit) /\ Busy(u)
  BY <1>5 DEF Closes, Left, Well, Busy
<1>7. /\ DOMAIN u.documents = DOMAIN r.documents \ {t.document}
      /\ \A e \in DOMAIN u.documents : u.documents[e] = r.documents[e]
      /\ Tabs(u) = Tabs(r) \ {t}
  BY <1>4, <1>5 DEF Closes
<1>8. ASSUME NEW k \in DOMAIN s.tabs, n < k
      PROVE  s.tabs[k] \in Tabs(u) /\ (Closable(s, s.tabs[k]) => Closable(u, s.tabs[k]))
  <2>1. k # n /\ n - 1 < k
    BY <1>2, <1>8
  <2>2. s.tabs[k].document # t.document /\ s.tabs[k] # t
    <3>1. s.tabs[k] \in Tabs(s) /\ t \in Tabs(s)
      BY DEF Tabs, ToSet
    <3>2. s.tabs[k].id # t.id
      BY <1>1, <2>1 DEF Arranged, Distinct
    <3> QED BY <1>1, <3>1, <3>2 DEF Arranged, OwnTab
  <2>3. /\ s.tabs[k] \in Tabs(r)
        /\ Closable(s, s.tabs[k]) => Closable(r, s.tabs[k])
    BY <2>1 DEF Left
  <2> QED BY <1>7, <2>2, <2>3 DEF Closable
<1>9. /\ DOMAIN u.documents \subseteq DOMAIN s.documents
      /\ \A e \in DOMAIN u.documents : u.documents[e] = s.documents[e]
  BY <1>7 DEF Left
<1> HIDE DEF t
<1>10. Left(u, s, n, gone, limit)
  BY <1>6, <1>8, <1>9 DEF Left
<1> QED BY <1>10 DEF u, i, t

\* The sessions on the way.
Stages(f, s, positions, stored, n) ==
    f = [k \in 0..n |->
           IF k = 0 THEN s
           ELSE IF k \in positions
                THEN ClosedAs(f[k - 1], IndexOf(f[k - 1].tabs, s.tabs[k]), k)
           ELSE IF k \in stored THEN Stored(f[k - 1], s.tabs[k])
                ELSE f[k - 1]]

LEMMA StagesExist ==
    ASSUME NEW s, NEW positions, NEW stored, NEW L \in Nat
    PROVE  \E f : Stages(f, s, positions, stored, L)
<1> DEFINE Step(x, k) == IF k \in positions
                         THEN ClosedAs(x, IndexOf(x.tabs, s.tabs[k]), k)
                      ELSE IF k \in stored THEN Stored(x, s.tabs[k]) ELSE x
           P == {n \in 0..L : \E f : Stages(f, s, positions, stored, n)}
<1>1. 0 \in P
  <2>1. Stages([k \in 0..0 |-> s], s, positions, stored, 0)
    BY DEF Stages
  <2> QED BY <2>1
<1>2. ASSUME NEW n \in 1..L, n - 1 \in P PROVE n \in P
  <2>1. n \in Nat /\ n # 0 /\ n - 1 \in Nat /\ n \in 0..L
    OBVIOUS
  <2>2. PICK f : Stages(f, s, positions, stored, n - 1)
    BY <1>2
  <2> DEFINE g == [k \in 0..n |-> IF k = n THEN Step(f[n - 1], n) ELSE f[k]]
  <2>3. \A k \in 0..n - 1 : f[k] = IF k = 0 THEN s ELSE Step(f[k - 1], k)
    BY <2>2 DEF Stages
  <2> HIDE DEF Step
  <2>4. \A k \in 0..n : g[k] = IF k = 0 THEN s ELSE Step(g[k - 1], k)
    <3> TAKE k \in 0..n
    <3>1. CASE k = n
      <4>1. k # 0 /\ k - 1 \in 0..n /\ k - 1 # n
        BY <2>1, <3>1
      <4>2. g[k - 1] = f[n - 1]
        BY <3>1, <4>1
      <4>3. g[k] = Step(f[n - 1], n)
        BY <3>1
      <4> QED BY <3>1, <4>1, <4>2, <4>3
    <3>2. CASE k # n
      <4>1. k \in 0..n - 1 /\ (k # 0 => k - 1 \in 0..n /\ k - 1 # n)
        BY <2>1, <3>2
      <4>2. g[k] = f[k] /\ (k # 0 => g[k - 1] = f[k - 1])
        BY <3>2, <4>1
      <4> QED BY <2>3, <4>1, <4>2
    <3> QED BY <3>1, <3>2
  <2>5. g = [k \in 0..n |-> g[k]]
    OBVIOUS
  <2> HIDE DEF g
  <2>6. g = [k \in 0..n |-> IF k = 0 THEN s ELSE Step(g[k - 1], k)]
    BY <2>4, <2>5
  <2>7. Stages(g, s, positions, stored, n)
    BY <2>6 DEF Stages, Step
  <2> QED BY <2>1, <2>7
<1>3. \A n \in 0..L : n \in P
  <2> HIDE DEF P
  <2> QED BY <1>1, <1>2, UpTo
<1>4. L \in P
  BY <1>3
<1> QED BY <1>4

\* A closing that is refused leaves the tabs to its right, and one record more
\* than before at most.
LEMMA RefusedLeaves ==
    ASSUME NEW gone, NEW limit \in Nat, NEW s, NEW n \in DOMAIN s.tabs,
           DOMAIN s.tabs \subseteq Nat, Closable(s, s.tabs[n]),
           NEW r, Left(r, s, n - 1, gone, limit)
    PROVE  Left(Stored(r, s.tabs[n]), s, n, gone, limit + 1)
<1> DEFINE u == Stored(r, s.tabs[n])
<1>1. n \in Nat /\ n - 1 < n
  OBVIOUS
<1>2. Closable(r, s.tabs[n])
  BY <1>1 DEF Left
<1>3. /\ Well(u, gone, limit + 1) /\ u.documents = r.documents /\ u.tabs = r.tabs
      /\ Busy(r) => Busy(u)
  BY <1>2, StoredKeeps DEF Left
<1> HIDE DEF u
<1>4. \A k \in DOMAIN s.tabs : n < k => n - 1 < k
  BY <1>1
<1>5. Left(u, s, n, gone, limit + 1)
  BY <1>3, <1>4 DEF Left, Tabs, Closable
<1> QED BY <1>5 DEF u

\* One of them may be refused.
Refusable(s, positions, stored) ==
    /\ \A n \in positions \cup stored : n \in DOMAIN s.tabs /\ Closable(s, s.tabs[n])
    /\ stored \cap positions = {} /\ \A m, n \in stored : m = n

\* The records there may be after the first n positions.
Allowed(limit, stored, n) == IF \E k \in stored : k <= n THEN limit + 1 ELSE limit

LEMMA EachCloses ==
    ASSUME NEW gone, NEW limit \in Nat, MaxRecords <= limit,
           NEW s, Well(s, gone, limit), NEW positions, NEW stored,
           Refusable(s, positions, stored)
    PROVE  Left(ClosedEach(s, positions, stored), s, Len(s.tabs), gone,
                Allowed(limit, stored, Len(s.tabs)))
<1> DEFINE L == Len(s.tabs)
           after == CHOOSE f : f = [n \in 0..L |->
                       IF n = 0 THEN s
                       ELSE IF n \in positions
                            THEN ClosedAs(f[n - 1], IndexOf(f[n - 1].tabs, s.tabs[n]), n)
                       ELSE IF n \in stored THEN Stored(f[n - 1], s.tabs[n])
                            ELSE f[n - 1]]
<1>1. L \in Nat /\ DOMAIN s.tabs = 1..L
  BY SessionParts, LenProperties DEF Well, Sound
<1>2. ClosedEach(s, positions, stored) = after[L]
  BY DEF ClosedEach
<1>3. Stages(after, s, positions, stored, L)
  <2> HIDE DEF L
  <2>1. \E f : Stages(f, s, positions, stored, L)
    BY <1>1, StagesExist
  <2> QED BY <2>1, Zenon DEF Stages
<1> HIDE DEF after, L
<1>4. \A n \in 0..L : after[n] =
         IF n = 0 THEN s
         ELSE IF n \in positions
              THEN ClosedAs(after[n - 1], IndexOf(after[n - 1].tabs, s.tabs[n]), n)
         ELSE IF n \in stored THEN Stored(after[n - 1], s.tabs[n])
              ELSE after[n - 1]
  BY <1>3 DEF Stages
<1>5. stored \subseteq 1..L /\ positions \subseteq 1..L
  BY <1>1 DEF Refusable
<1>6. \A n \in 0..L : Allowed(limit, stored, n) \in {limit, limit + 1}
  BY DEF Allowed
<1> DEFINE P == {n \in 0..L : Left(after[n], s, n, gone, Allowed(limit, stored, n))}
<1>7. 0 \in P
  <2>1. after[0] = s /\ 0 \in 0..L
    BY <1>1, <1>4
  <2>2. \A k \in DOMAIN s.tabs : s.tabs[k] \in Tabs(s)
    BY DEF Tabs, ToSet
  <2>3. Left(s, s, 0, gone, limit)
    BY <2>2 DEF Left
  <2>4. Allowed(limit, stored, 0) = limit
    BY <1>5 DEF Allowed
  <2> QED BY <2>1, <2>3, <2>4
<1>8. ASSUME NEW n \in 1..L, n - 1 \in P PROVE n \in P
  <2> DEFINE r == after[n - 1]
             most == Allowed(limit, stored, n - 1)
  <2>1. Left(r, s, n - 1, gone, most) /\ n \in 0..L /\ n - 1 \in 0..L /\ n # 0 /\ n \in Nat
    BY <1>1, <1>8
  <2>2. most \in Nat /\ MaxRecords <= most
    <3>1. MaxRecords \in Nat
      BY SessionAssumption
    <3> QED BY <1>6, <2>1, <3>1
  <2>3. n \notin stored => Allowed(limit, stored, n) = most
    <3> SUFFICES ASSUME n \notin stored
                 PROVE  \A k \in stored : k <= n <=> k <= n - 1
      BY DEF Allowed
    <3> QED BY <1>5
  <2>4. n \in stored => Allowed(limit, stored, n) = limit + 1 /\ most = limit
    <3> SUFFICES ASSUME n \in stored
                 PROVE  n <= n /\ \A k \in stored : ~(k <= n - 1)
      BY DEF Allowed
    <3>1. \A k \in stored : k = n
      BY DEF Refusable
    <3> QED BY <3>1
  <2> HIDE DEF r, most
  <2>5. CASE n \in positions
    <3>1. after[n] = ClosedAs(r, IndexOf(r.tabs, s.tabs[n]), n)
      BY <1>4, <2>1, <2>5 DEF r
    <3>2. n \in DOMAIN s.tabs /\ Closable(s, s.tabs[n]) /\ n \notin stored
      BY <2>5 DEF Refusable
    <3>3. Well(s, gone, most)
      BY <1>6, <2>1, <2>2, MoreAllowed DEF most
    <3>4. Left(ClosedAs(r, IndexOf(r.tabs, s.tabs[n]), n), s, n, gone, most)
      BY <2>1, <2>2, <3>2, <3>3, OneMoreCloses
    <3> QED BY <2>1, <2>3, <3>1, <3>2, <3>4
  <2>6. CASE n \in stored
    <3>1. n \in DOMAIN s.tabs /\ Closable(s, s.tabs[n]) /\ n \notin positions
      BY <2>6 DEF Refusable
    <3>2. after[n] = Stored(r, s.tabs[n])
      BY <1>4, <2>1, <2>6, <3>1 DEF r
    <3>3. DOMAIN s.tabs \subseteq Nat
      BY <1>1
    <3>4. Left(r, s, n - 1, gone, limit)
      BY <2>1, <2>4, <2>6
    <3>5. Left(Stored(r, s.tabs[n]), s, n, gone, limit + 1)
      BY <3>1, <3>3, <3>4, RefusedLeaves
    <3> QED BY <2>1, <2>4, <2>6, <3>2, <3>5
  <2>7. CASE n \notin positions \cup stored
    <3>1. after[n] = r
      BY <1>4, <2>1, <2>7 DEF r
    <3>2. \A k \in DOMAIN s.tabs : n < k => n - 1 < k
      BY <1>1, <2>1
    <3>3. Left(r, s, n, gone, most)
      BY <2>1, <3>2 DEF Left
    <3> QED BY <2>1, <2>3, <2>7, <3>1, <3>3
  <2> QED BY <2>5, <2>6, <2>7
<1>9. L \in P
  <2> HIDE DEF P
  <2>1. \A n \in 0..L : n \in P
    BY <1>1, <1>7, <1>8, UpTo
  <2> QED BY <1>1, <2>1
<1>10. Left(after[L], s, L, gone, Allowed(limit, stored, L))
  BY <1>9
<1> QED BY <1>2, <1>10 DEF L

\* A survivor becomes active.
BatchLeaves(u, s, gone, limit) ==
    /\ Well(u, gone, limit)
    /\ DOMAIN u.documents \subseteq DOMAIN s.documents
    /\ \A e \in DOMAIN u.documents : u.documents[e] = s.documents[e]
    /\ Busy(s) => Busy(u)

LEMMA BatchCloses ==
    ASSUME NEW gone, NEW limit \in Nat, MaxRecords <= limit,
           NEW s, Well(s, gone, limit), NEW positions, NEW stored,
           Refusable(s, positions, stored)
    PROVE  BatchLeaves(ClosedBatch(s, positions, stored), s, gone,
                       IF stored = {} THEN limit ELSE limit + 1)
<1> DEFINE most == Allowed(limit, stored, Len(s.tabs))
           left == ClosedEach(s, positions, stored)
           right == {k \in DOMAIN s.tabs : /\ s.tabs[k] \in Tabs(left)
                                          /\ \E j \in 1..k : s.tabs[j].id = s.active}
           first == CHOOSE k \in right : \A j \in right : k <= j
           a == IF left.tabs = <<>> THEN None
                ELSE IF right # {} THEN s.tabs[first].id ELSE Last(left.tabs).id
           u == [left EXCEPT !.active = a]
<1>1. Left(left, s, Len(s.tabs), gone, most)
  BY EachCloses
<1>2. ClosedBatch(s, positions, stored) = u
  BY DEF ClosedBatch
<1> HIDE DEF left, most
<1>3. Well(left, gone, most) /\ left \in Sessions /\ left.tabs \in Seq(TabStates)
  BY <1>1, SessionParts DEF Left, Well, Sound
<1>4. right # {} => first \in right
  <2>1. right \subseteq Nat
    <3>1. DOMAIN s.tabs \subseteq Nat
      BY SessionParts, LenProperties DEF Well, Sound
    <3> QED BY <3>1
  <2> HIDE DEF right
  <2>2. right # {} => \E k \in right : \A j \in right : k <= j
    BY <2>1, LeastNumber
  <2> QED BY <2>2
<1>5. left.tabs # <<>> => \E t \in Tabs(left) : a = t.id
  <2> SUFFICES ASSUME left.tabs # <<>> PROVE \E t \in Tabs(left) : a = t.id
    OBVIOUS
  <2>1. CASE right # {}
    BY <1>4, <2>1
  <2>2. CASE right = {}
    <3>1. Last(left.tabs) \in Tabs(left)
      <4>1. Len(left.tabs) \in Nat /\ Len(left.tabs) # 0
            /\ DOMAIN left.tabs = 1..Len(left.tabs)
        BY <1>3, LenProperties, EmptySeq
      <4>2. Len(left.tabs) \in DOMAIN left.tabs
        BY <4>1
      <4> QED BY <4>2 DEF Last, Tabs, ToSet
    <3> QED BY <2>2, <3>1
  <2> QED BY <2>1, <2>2
<1>6. Well(u, gone, most)
  <2>1. CASE left.tabs # <<>>
    <3>1. PICK t \in Tabs(left) : a = t.id
      BY <1>5, <2>1
    <3> HIDE DEF a
    <3> QED BY <1>3, <3>1, AnotherActive
  <2>2. CASE left.tabs = <<>>
    <3>1. left.active = None /\ a = None
      BY <1>3, <2>2 DEF Well, Sound, Arranged, Selected
    <3> HIDE DEF a
    <3>2. u = left
      BY <1>3, <3>1 DEF Sessions
    <3> QED BY <1>3, <3>2
  <2> QED BY <2>1, <2>2
<1> HIDE DEF a
<1>7. /\ u.documents = left.documents /\ u.tabs = left.tabs
      /\ u.closed = left.closed /\ u.records = left.records
  BY <1>3, PartsAreTheirs
<1> HIDE DEF u
<1>8. Busy(s) => Busy(u)
  BY <1>1, <1>7 DEF Left, Busy
<1>9. BatchLeaves(u, s, gone, most)
  BY <1>1, <1>6, <1>7, <1>8 DEF Left, BatchLeaves
<1>10. most = IF stored = {} THEN limit ELSE limit + 1
  <2>1. DOMAIN s.tabs = 1..Len(s.tabs) /\ Len(s.tabs) \in Nat
    BY SessionParts, LenProperties DEF Well, Sound
  <2>2. \A n \in stored : n <= Len(s.tabs)
    BY <2>1 DEF Refusable
  <2> QED BY <2>2 DEF most, Allowed
<1> QED BY <1>2, <1>9, <1>10

-----------------------------------------------------------------------------
(* Histories that change, tabs that come back, files that go.              *)

\* The closed tabs but for the last one.
LEMMA FrontOfClosed ==
    ASSUME NEW q \in Seq(ClosedTabs), q # <<>>, DistinctTabs(q)
    PROVE  /\ Front(q) \in Seq(ClosedTabs) /\ ToSet(Front(q)) \subseteq ToSet(q)
           /\ Len(Front(q)) <= Len(q) /\ DistinctTabs(Front(q))
           /\ Last(q) \in ToSet(q) /\ Last(q) \in ClosedTabs
           /\ \A c \in ToSet(Front(q)) : c.tab.id # Last(q).tab.id
<1>1. Len(q) \in Nat \ {0} /\ DOMAIN q = 1..Len(q) /\ Len(q) - 1 \in Nat
      /\ Len(q) - 1 <= Len(q) /\ 1 \in Nat \ {0}
  BY LenProperties, EmptySeq
<1>2. Front(q) = SubSeq(q, 1, Len(q) - 1)
  BY DEF Front
<1> DEFINE p == SubSeq(q, 1, Len(q) - 1)
<1>3. /\ p \in Seq(ClosedTabs)
      /\ Len(p) = IF 1 <= Len(q) - 1 THEN Len(q) - 1 - 1 + 1 ELSE 0
      /\ \A i \in 1..Len(q) - 1 - 1 + 1 : p[i] = q[1 + i - 1]
  BY <1>1, PartOfSeq
<1>4. Picked(p, q)
  BY <1>1, PartIsPicked
<1> HIDE DEF p
<1>5. ToSet(p) \subseteq ToSet(q) /\ DistinctTabs(p)
  BY <1>4, FewerElements
<1>6. Len(p) = Len(q) - 1 /\ DOMAIN p = 1..Len(q) - 1
  <2>1. Len(q) - 1 - 1 + 1 = Len(q) - 1 /\ (~(1 <= Len(q) - 1) => Len(q) - 1 = 0)
    BY <1>1
  <2>2. Len(p) = Len(q) - 1
    BY <1>3, <2>1
  <2> QED BY <1>3, <2>2, LenProperties
<1>7. Last(q) = q[Len(q)] /\ Len(q) \in DOMAIN q
  BY <1>1 DEF Last
<1>8. Last(q) \in ToSet(q) /\ Last(q) \in ClosedTabs
  BY <1>7, Elements
<1>9. \A c \in ToSet(p) : c.tab.id # Last(q).tab.id
  <2> SUFFICES ASSUME NEW i \in DOMAIN p PROVE p[i].tab.id # q[Len(q)].tab.id
    BY <1>7 DEF ToSet
  <2>1. i \in DOMAIN q /\ i # Len(q) /\ i \in 1..Len(q) - 1 - 1 + 1 /\ 1 + i - 1 = i
    BY <1>1, <1>6
  <2>2. p[i] = q[i]
    BY <1>3, <2>1
  <2> QED BY <1>7, <2>1, <2>2 DEF DistinctTabs
<1> QED BY <1>1, <1>2, <1>3, <1>5, <1>6, <1>8, <1>9 DEF p

\* A tab comes back with its text, or what the file holds by now.
LEMMA ReopenedKeeps ==
    ASSUME NEW limit \in Nat, IsFiniteSet(DOMAIN dropped),
           Well(session, DOMAIN dropped, limit), disk \in [Paths -> Files],
           session.closed # <<>>, OnFile(session, Last(session.closed).tab.path) = {},
           NEW record \in ToSet(session.records), record.id = Last(session.closed).record,
           record.document.path = Untitled \/ disk[record.document.path] # Missing
    PROVE  LET u == Reopened(record)
           IN  /\ Well(u, DOMAIN dropped, limit) /\ u.tabs # <<>>
               /\ Branches(session, disk) => Branches(u, disk)
<1> DEFINE s == session
           document == record.document
           c == Last(s.closed)
           d == FreshDocument(s)
           new == IF document.path = Untitled THEN [Blank EXCEPT !.text = document.text]
                  ELSE [ReadFrom(document.path) EXCEPT
                           !.text = document.text,
                           !.base = IF document.text = disk[document.path]
                                    THEN document.text ELSE document.base,
                           !.revived = document.text # disk[document.path]
                                       /\ document.base # disk[document.path]]
           w == WithDocument(s, d, new)
           tab == [c.tab EXCEPT !.document = d]
           k == Smaller(c.index, Len(w.tabs) + 1)
           R == Among(w.records, ToSet(w.records) \ {record})
           T == InsertAt(w.tabs, k, tab)
           u == [w EXCEPT !.records = R, !.closed = Front(w.closed), !.tabs = T,
                          !.active = c.tab.id]
<1>1. /\ s \in Sessions /\ Arranged(s, DOMAIN dropped) /\ History(s)
      /\ IsFiniteSet(DOMAIN s.documents) /\ Distinct(s.records)
      /\ s.closed \in Seq(ClosedTabs) /\ s.records \in Seq(Records)
      /\ s.tabs \in Seq(TabStates) /\ DistinctTabs(s.closed)
  BY SessionParts DEF Well, Sound, History
<1>2. /\ c \in ToSet(s.closed) /\ c \in ClosedTabs
      /\ \A x \in ToSet(Front(s.closed)) : c.tab.id # x.tab.id
      /\ Front(s.closed) \in Seq(ClosedTabs) /\ ToSet(Front(s.closed)) \subseteq ToSet(s.closed)
      /\ Len(Front(s.closed)) <= Len(s.closed) /\ DistinctTabs(Front(s.closed))
  BY <1>1, FrontOfClosed
<1>3. record \in DocumentRecords /\ document.path = c.tab.path
  BY <1>1, <1>2 DEF History
<1>4. document \in Documents
  BY <1>3, TabsAndRecords
<1>5. /\ new \in Documents /\ new.path = document.path /\ BranchesFrom(new, disk)
  <2>1. CASE document.path = Untitled
    <3>1. new = [Blank EXCEPT !.text = document.text]
      BY <2>1
    <3>2. Blank \in Documents /\ document.text \in Contents /\ Blank.path = Untitled
      BY <1>4, SessionAssumption DEF Blank, Document, Documents
    <3>3. /\ [Blank EXCEPT !.text = document.text] \in Documents
          /\ [Blank EXCEPT !.text = document.text].path = Untitled
      BY <3>2 DEF Documents
    <3> QED BY <2>1, <3>1, <3>3 DEF BranchesFrom
  <2>2. CASE document.path # Untitled
    <3> DEFINE p == document.path
               f == ReadFrom(p)
               b == IF document.text = disk[p] THEN document.text ELSE document.base
               v == document.text # disk[p] /\ document.base # disk[p]
    <3>1. p \in Paths /\ disk[p] # Missing
      BY <1>4, <2>2 DEF Documents
    <3>2. f \in Documents /\ f.path = p /\ f.saved = disk[p]
      BY <3>1, ReadIsDocument DEF ReadFrom, Document
    <3>3. document.text \in Contents /\ document.base \in Contents \cup {Missing}
      BY <1>4 DEF Documents
    <3>4. new = [f EXCEPT !.text = document.text, !.base = b, !.revived = v]
      BY <2>2
    <3>5. v \in BOOLEAN /\ b \in Contents \cup {Missing} /\ (~v => disk[p] = b)
      BY <3>3
    <3> HIDE DEF f, b, v, new
    <3>6. /\ new \in Documents /\ new.path = p /\ new.saved = disk[p] /\ new.base = b
          /\ new.revived = v
      BY <3>2, <3>3, <3>4, <3>5 DEF Documents
    <3> QED BY <3>5, <3>6 DEF BranchesFrom
  <2> QED BY <2>1, <2>2
<1>6. new.path = Untitled \/ OfPath(s, new.path) = {}
  <2> SUFFICES ASSUME document.path # Untitled, NEW e \in DOMAIN s.documents,
                      s.documents[e].path = document.path
               PROVE  FALSE
    BY <1>5 DEF OfPath
  <2>1. PICK t \in Tabs(s) : t.document = e \/ t.path = s.documents[e].path
    BY DEF Well, HasTab
  <2>2. t.path = document.path
    BY <1>1, <2>1 DEF Arranged, Backed, Closable
  <2> QED BY <1>3, <2>2 DEF OnFile
<1>7. d \in Ids \ (DOMAIN s.documents \cup DOMAIN dropped)
  BY <1>1, FreshDocumentIsNew
<1> HIDE DEF d, new
<1>8. Sound(w, DOMAIN dropped, limit) /\ Showable(w, d) /\ \A t \in Tabs(s) : t.document # d
  BY <1>5, <1>6, <1>7, DocumentJoins
<1>9. /\ w \in Sessions /\ w.tabs = s.tabs /\ w.active = s.active
      /\ w.closed = s.closed /\ w.records = s.records
      /\ DOMAIN w.documents = DOMAIN s.documents \cup {d}
      /\ w.documents[d] = new
      /\ \A e \in DOMAIN s.documents \ {d} : w.documents[e] = s.documents[e]
  BY <1>1, <1>5, <1>7, DocumentSet
<1>10. Reopened(record) = u
  BY DEF Reopened, d, new
<1> HIDE DEF w, c
<1>11. /\ tab \in TabStates /\ tab.id = c.tab.id /\ tab.document = d
       /\ tab.path = new.path /\ c.tab.id \in Ids
  <2> DEFINE x == c.tab
  <2>1. x \in TabStates /\ d \in Ids /\ x.id \in Ids
    BY <1>2, <1>7, TabsAndRecords
  <2> HIDE DEF x
  <2>2. /\ [x EXCEPT !.document = d] \in TabStates /\ [x EXCEPT !.document = d].id = x.id
        /\ [x EXCEPT !.document = d].document = d /\ [x EXCEPT !.document = d].path = x.path
    BY <2>1 DEF TabStates
  <2> QED BY <1>3, <1>5, <2>1, <2>2 DEF x
<1> HIDE DEF tab
<1>12. k \in 1..Len(w.tabs) + 1
  <2>1. c.index \in Nat \ {0} /\ Len(w.tabs) \in Nat
    BY <1>1, <1>2, <1>9, TabsAndRecords, LenProperties DEF Ids
  <2> QED BY <2>1 DEF Smaller
<1> HIDE DEF k
<1>13. \A t \in Tabs(s) : t.id # tab.id
  BY <1>1, <1>2, <1>11 DEF History
<1>14. T \in Seq(TabStates) /\ ToSet(T) = Tabs(s) \cup {tab} /\ Distinct(T)
  <2>1. /\ T \in Seq(TabStates) /\ ToSet(T) = ToSet(w.tabs) \cup {tab}
        /\ Distinct(w.tabs) /\ (\A t \in ToSet(w.tabs) : t.id # tab.id) => Distinct(T)
    BY <1>1, <1>9, <1>11, <1>12, OnePut
  <2> QED BY <1>1, <1>9, <1>13, <2>1 DEF Arranged, Tabs
<1>15. /\ R \in Seq(Records) /\ ToSet(R) \subseteq ToSet(s.records) /\ Distinct(R)
       /\ Len(R) <= Len(s.records)
  <2>1. /\ R \in Seq(Records) /\ Picked(R, w.records) /\ Len(R) <= Len(w.records)
    BY <1>1, <1>9, AmongThem
  <2> HIDE DEF R
  <2> QED BY <1>1, <1>9, <2>1, FewerElements
<1> HIDE DEF R, T
<1>16. /\ u \in Sessions
       /\ u.documents = w.documents /\ u.tabs = T /\ u.active = c.tab.id
       /\ u.closed = Front(s.closed) /\ u.records = R
  <2>1. c.tab.id \in Nat /\ Front(w.closed) \in Seq(ClosedTabs)
    BY <1>2, <1>9, <1>11 DEF Ids
  <2> QED BY <1>9, <1>14, <1>15, <2>1 DEF Sessions
<1> HIDE DEF u
<1>17. Tabs(u) = Tabs(s) \cup {tab} /\ \A x : Closable(u, x) <=> Closable(w, x)
  BY <1>14, <1>16 DEF Tabs, Closable
<1>18. Tabs(w) = Tabs(s) /\ u.tabs # <<>>
  <2>1. u.tabs # <<>>
    <3>1. ToSet(T) # {}
      BY <1>14
    <3> QED BY <1>14, <1>16, <3>1, Elements
  <2> QED BY <1>9, <2>1 DEF Tabs
<1>19. Arranged(w, DOMAIN dropped)
  BY <1>8 DEF Sound
<1>20. OwnTab(u) /\ OneDocument(u) /\ Selected(u)
  BY <1>8, <1>11, <1>16, <1>17, <1>18, <1>19
     DEF Arranged, OwnTab, OneDocument, Selected, ActiveTab
<1>21. Backed(u, DOMAIN dropped)
  <2>1. Backed(w, DOMAIN dropped)
    BY <1>19 DEF Arranged
  <2> QED BY <1>9, <1>11, <1>16, <1>17, <1>18, <2>1 DEF Backed, Closable
<1>22. History(u)
  <2>1. Len(u.closed) <= MaxClosed
    <3>1. Len(s.closed) \in Nat /\ Len(u.closed) \in Nat /\ MaxClosed \in Nat
      BY <1>1, <1>2, <1>16, LenProperties, SessionAssumption
    <3> QED BY <1>1, <1>2, <1>16, <3>1 DEF History
  <2>2. \A x \in ToSet(u.closed), t \in Tabs(u) : x.tab.id # t.id
    BY <1>1, <1>2, <1>11, <1>16, <1>17 DEF History
  <2> QED BY <1>1, <1>2, <1>15, <1>16, <2>1, <2>2 DEF History
<1>23. \A e \in DOMAIN u.documents : HasTab(u, e)
  <2> TAKE e \in DOMAIN u.documents
  <2>1. CASE e = d
    BY <1>11, <1>17, <2>1 DEF HasTab
  <2>2. CASE e # d
    <3>1. HasTab(w, e)
      BY <1>8, <1>16, <2>2 DEF Showable
    <3> QED BY <1>16, <1>17, <1>18, <3>1 DEF HasTab
  <2> QED BY <2>1, <2>2
<1>24. Len(u.records) <= limit
  <2>1. Len(s.records) \in Nat /\ Len(u.records) \in Nat /\ Len(s.records) <= limit
    BY <1>1, <1>15, <1>16, LenProperties DEF Well, Sound
  <2> QED BY <1>15, <1>16, <2>1
<1>25. Well(u, DOMAIN dropped, limit)
  BY <1>8, <1>14, <1>15, <1>16, <1>20, <1>21, <1>22, <1>23, <1>24
     DEF Well, Sound, Arranged
<1>26. Branches(s, disk) => Branches(u, disk)
  BY <1>5, <1>7, <1>9, <1>16 DEF Branches
<1> QED BY <1>10, <1>18, <1>25, <1>26

\* A deleted file's document and tab go.
Deletes(u, s, d, gone, limit) ==
    /\ Well(u, gone, limit) /\ u.records # <<>>
    /\ DOMAIN u.documents = DOMAIN s.documents \ {d}
    /\ \A e \in DOMAIN u.documents : u.documents[e] = s.documents[e]

LEMMA DeletedKeeps ==
    ASSUME NEW gone, NEW limit \in Nat, MaxRecords <= limit,
           NEW s, Well(s, gone, limit), NEW i \in DOMAIN s.tabs, Closable(s, s.tabs[i])
    PROVE  Deletes(Journaled(WithoutTab(WithoutDocument(s, s.tabs[i].document), i),
                             FileRecord(s)),
                   s, s.tabs[i].document, gone, limit)
<1> DEFINE t == s.tabs[i]
           d == t.document
           w == WithoutDocument(s, d)
           v == WithoutTab(w, i)
           r == FileRecord(s)
           u == Journaled(v, r)
<1>1. s \in Sessions /\ Arranged(s, gone) /\ History(s) /\ s.tabs \in Seq(TabStates)
      /\ IsFiniteSet(DOMAIN s.documents)
  BY SessionParts DEF Well, Sound
<1>2. t \in Tabs(s) /\ d \in DOMAIN s.documents
  BY DEF Tabs, ToSet, Closable
<1>3. /\ w \in Sessions /\ w.tabs = s.tabs /\ w.active = s.active
      /\ w.closed = s.closed /\ w.records = s.records
      /\ DOMAIN w.documents = DOMAIN s.documents \ {d}
      /\ \A e \in DOMAIN w.documents : w.documents[e] = s.documents[e]
  BY <1>1, DocumentForgotten
<1> HIDE DEF w
<1>4. Distinct(w.tabs) /\ Selected(w) /\ Tabs(w) = Tabs(s)
  BY <1>1, <1>3 DEF Arranged, Selected, ActiveTab, Tabs
<1>5. /\ v \in Sessions /\ Distinct(v.tabs) /\ Selected(v)
      /\ v.documents = w.documents /\ v.closed = s.closed
      /\ v.records = s.records
      /\ Tabs(v) = Tabs(s) \ {t}
  BY <1>3, <1>4, TabRemoved
<1> HIDE DEF v
<1>6. \A x \in Tabs(v) : x.document # d
  BY <1>1, <1>2, <1>5 DEF Arranged, OwnTab
<1>7. OwnTab(v) /\ OneDocument(v) /\ Backed(v, gone)
  BY <1>1, <1>3, <1>5, <1>6 DEF Arranged, OwnTab, OneDocument, Backed, Closable
<1>8. History(v)
  BY <1>1, <1>5 DEF History
<1>9. IsFiniteSet(DOMAIN v.documents)
  <2>1. IsFiniteSet(DOMAIN s.documents \ {d})
    BY <1>1, FS_RemoveElement
  <2> QED BY <1>3, <1>5, <2>1
<1>10. Sound(v, gone, limit)
  BY <1>5, <1>7, <1>8, <1>9 DEF Well, Sound, Arranged
<1>11. \A e \in DOMAIN v.documents : HasTab(v, e)
  <2> TAKE e \in DOMAIN v.documents
  <2>1. e # d /\ e \in DOMAIN s.documents /\ v.documents[e] = s.documents[e]
    BY <1>3, <1>5
  <2>2. PICK x \in Tabs(s) :
           \/ x.document = e
           \/ /\ s.documents[e].path # Untitled
              /\ x.path = s.documents[e].path /\ ~Closable(s, x)
    BY <2>1 DEF Well, HasTab
  <2>3. x # t
    BY <1>2, <2>1, <2>2 DEF Closable
  <2>4. x \in Tabs(v) /\ (~Closable(s, x) => ~Closable(v, x))
    BY <1>3, <1>5, <2>2, <2>3 DEF Closable
  <2> QED BY <2>1, <2>2, <2>4 DEF HasTab
<1>12. r \in Records /\ r.id = FreshRecord(s)
  BY <1>1, FreshRecordIsNew DEF FileRecord, Records, FileRecords
<1>13. /\ \A x \in ToSet(v.records) : x.id # r.id
       /\ \A x \in ToSet(v.closed) : x.record # r.id
  BY <1>1, <1>5, <1>12, FreshRecordIsNew
<1> HIDE DEF r
<1>14. Sound(u, gone, limit)
  BY <1>10, <1>12, <1>13, JournaledKeeps
<1>15. /\ u.documents = v.documents /\ u.tabs = v.tabs /\ u.active = v.active
       /\ u.records # <<>>
  BY <1>5, <1>12, JournaledFields
<1> HIDE DEF u
<1>16. \A e \in DOMAIN u.documents : HasTab(u, e)
  BY <1>11, <1>15, ArrangedAgrees
<1>17. Well(u, gone, limit)
  BY <1>14, <1>16 DEF Well
<1>18. Deletes(u, s, d, gone, limit)
  BY <1>3, <1>5, <1>15, <1>17 DEF Deletes
<1> QED BY <1>18 DEF u, v, w, r

\* A directory is opened: every document is forgotten.
LEMMA ForgottenKeeps ==
    ASSUME NEW gone, NEW limit, NEW s, Well(s, gone, limit)
    PROVE  Well([s EXCEPT !.documents = <<>>], DOMAIN s.documents \cup gone, limit)
<1> DEFINE u == [s EXCEPT !.documents = <<>>]
<1>1. s \in Sessions
  BY DEF Well, Sound
<1>2. <<>> \in DocumentMaps /\ DOMAIN <<>> = {}
  <2>1. <<>> \in [{} -> Documents] /\ DOMAIN <<>> = {}
    OBVIOUS
  <2> QED BY <2>1, MapIsOne
<1>3. u \in Sessions
  BY <1>1, <1>2, PartsReplaced
<1>4. /\ u.documents = <<>> /\ u.tabs = s.tabs /\ u.active = s.active
      /\ u.closed = s.closed /\ u.records = s.records
  BY <1>1, PartsAreTheirs
<1> HIDE DEF u
<1>5. DOMAIN u.documents = {} /\ IsFiniteSet(DOMAIN u.documents)
  BY <1>2, <1>4, FS_EmptySet
<1>6. Tabs(u) = Tabs(s)
  BY <1>4 DEF Tabs
<1>7. Arranged(u, DOMAIN s.documents \cup gone)
  BY <1>4, <1>5, <1>6
     DEF Well, Sound, Arranged, OwnTab, Selected, ActiveTab, Backed, Closable, OneDocument
<1>8. History(u)
  BY <1>4, <1>6 DEF Well, Sound, History
<1>9. Well(u, DOMAIN s.documents \cup gone, limit)
  BY <1>3, <1>4, <1>5, <1>7, <1>8 DEF Well, Sound
<1> QED BY <1>9 DEF u

-----------------------------------------------------------------------------
(* The snapshot, and the start from it.                                    *)

LEMMA NothingIsWell == \A gone : \A limit \in Nat : Well(NoSession, gone, limit)
<1> SUFFICES ASSUME NEW gone, NEW limit \in Nat PROVE Well(NoSession, gone, limit)
  OBVIOUS
<1>1. /\ NoSession.documents = <<>> /\ NoSession.tabs = <<>> /\ NoSession.active = None
      /\ NoSession.closed = <<>> /\ NoSession.records = <<>>
  BY DEF NoSession
<1>2. DOMAIN <<>> = {} /\ \A S : <<>> \in Seq(S)
  OBVIOUS
<1>3. <<>> \in DocumentMaps
  <2>1. <<>> \in [{} -> Documents]
    OBVIOUS
  <2> QED BY <2>1, MapIsOne
<1>4. NoSession \in Sessions
  <2>1. None \in Nat
    BY DEF None
  <2> QED BY <1>2, <1>3, <2>1 DEF NoSession, Sessions
<1> DEFINE s == NoSession
<1>5. Tabs(s) = {} /\ ToSet(s.closed) = {} /\ DOMAIN s.documents = {}
  BY <1>1, <1>2 DEF Tabs, ToSet
<1> HIDE DEF s
<1>6. Len(s.closed) = 0 /\ Len(s.records) = 0 /\ 0 <= MaxClosed /\ 0 <= limit
  <2>1. Len(<<>>) = 0
    OBVIOUS
  <2> QED BY <1>1, <2>1, SessionAssumption DEF s
<1>7. Arranged(s, gone)
  BY <1>1, <1>2, <1>5 DEF Arranged, Distinct, OwnTab, Selected, Backed, OneDocument, s
<1>8. Distinct(s.records) /\ DistinctTabs(s.closed)
  BY <1>1, <1>2 DEF Distinct, DistinctTabs, s
<1>9. History(s)
  BY <1>5, <1>6, <1>8 DEF History
<1>10. IsFiniteSet(DOMAIN s.documents)
  BY <1>5, FS_EmptySet
<1>11. Sound(s, gone, limit)
  BY <1>4, <1>6, <1>7, <1>8, <1>9, <1>10 DEF Sound, s
<1> QED BY <1>5, <1>11 DEF Well, s

\* The snapshot of an exit has every file once.
LEMMA SnapshotRestorable ==
    ASSUME NEW gone, NEW limit, Well(session, gone, limit), Branches(session, disk)
    PROVE  Restorable(SessionSnapshot)
<1> DEFINE s == session
           S == {t \in Tabs(s) : Closable(s, t) /\ Unsaved(Doc(t.document))}
           p == Among(s.tabs, S)
           q == [i \in DOMAIN p |-> SavedTab(p[i])]
<1>1. s \in Sessions /\ Arranged(s, gone) /\ s.tabs \in Seq(TabStates)
  BY SessionParts DEF Well, Sound
<1>2. p \in Seq(TabStates) /\ Picked(p, s.tabs) /\ ToSet(p) = ToSet(s.tabs) \cap S
  BY <1>1, AmongThem
<1>3. Distinct(p)
  BY <1>1, <1>2, FewerElements DEF Arranged
<1>4. SessionSnapshot = q
  BY DEF SessionSnapshot
<1>5. \A i \in DOMAIN p : p[i] \in Tabs(s) /\ Closable(s, p[i])
  BY <1>2 DEF ToSet
<1> HIDE DEF p
<1>6. \A i \in DOMAIN p :
         /\ p[i].document \in DOMAIN s.documents
         /\ SavedTab(p[i]).document = s.documents[p[i].document]
         /\ SavedTab(p[i]).backing = Backing(s.documents[p[i].document])
         /\ SavedTab(p[i]).active \in BOOLEAN
         /\ SavedTab(p[i]) \in SavedTabs
  <2> TAKE i \in DOMAIN p
  <2> DEFINE x == s.documents[p[i].document]
             v == SavedTab(p[i])
  <2>1. p[i].document \in DOMAIN s.documents
    BY <1>5 DEF Closable
  <2>2. x \in Documents
    BY <1>1, <2>1, SessionParts
  <2>3. v = [backing |-> Backing(x), document |-> x, active |-> (s.active = p[i].id)]
    BY DEF SavedTab, Doc
  <2>4. (s.active = p[i].id) \in BOOLEAN
    OBVIOUS
  <2>5. Backing(x) \in {"Untitled", "PersistedPath", "NeverCreatedPath"}
    BY DEF Backing
  <2> HIDE DEF x, v
  <2>6. v.document = x /\ v.backing = Backing(x) /\ v.active \in BOOLEAN /\ v \in SavedTabs
    BY <2>2, <2>3, <2>4, <2>5 DEF SavedTabs
  <2> QED BY <2>1, <2>6 DEF x, v
<1>7. Len(p) \in Nat /\ DOMAIN p = 1..Len(p)
  BY <1>2, LenProperties
<1>8. q \in Seq(SavedTabs)
  <2>1. q \in [1..Len(p) -> SavedTabs]
    BY <1>6, <1>7
  <2> QED BY <1>7, <2>1, SeqDef
<1>9. DOMAIN q = DOMAIN p /\ \A i \in DOMAIN q : q[i] = SavedTab(p[i])
  OBVIOUS
<1> HIDE DEF q
<1>10. ASSUME NEW i \in DOMAIN q
       PROVE  LET d == q[i].document
              IN  /\ q[i].backing = Backing(d)
                  /\ d.path # Untitled /\ d.persisted /\ ~d.revived => d.base = d.saved
  BY <1>6, <1>9 DEF Branches, BranchesFrom
<1>11. ASSUME NEW i \in DOMAIN q, NEW j \in DOMAIN q,
              q[i].document.path = q[j].document.path, q[i].document.path # Untitled
       PROVE  i = j
  <2>1. p[i].document = p[j].document
    BY <1>1, <1>6, <1>9, <1>11 DEF Arranged, OneDocument
  <2>2. p[i] = p[j]
    BY <1>1, <1>5, <1>9, <2>1 DEF Arranged, OwnTab
  <2> QED BY <1>3, <1>9, <2>2 DEF Distinct
<1>12. Restorable(q)
  <2>1. \A i \in DOMAIN q :
           /\ q[i].backing = Backing(q[i].document)
           /\ q[i].document.path # Untitled /\ q[i].document.persisted
                 /\ ~q[i].document.revived => q[i].document.base = q[i].document.saved
    BY <1>10
  <2>2. \A i, j \in DOMAIN q :
           q[i].document.path = q[j].document.path /\ q[i].document.path # Untitled => i = j
    BY <1>11
  <2> QED BY <1>8, <2>1, <2>2, Zenon DEF Restorable
<1> QED BY <1>4, <1>12

\* Where a saved text goes: to its path, or to a buffer without one.
LEMMA RestoredDocument ==
    ASSUME disk \in [Paths -> Files], NEW saved \in SavedTabs,
           saved.backing = Backing(saved.document),
           saved.document.path # Untitled /\ saved.document.persisted
              /\ ~saved.document.revived => saved.document.base = saved.document.saved
    PROVE  /\ Restored(saved) \in Documents
           /\ Restored(saved).path = Untitled \/ Restored(saved).path = saved.document.path
           /\ BranchesFrom(Restored(saved), disk)
<1> DEFINE d == saved.document
           now == IF d.path = Untitled THEN Missing ELSE disk[d.path]
           x == Restored(saved)
           blank == [Blank EXCEPT !.text = d.text]
<1>1. d \in Documents
  BY DEF SavedTabs
<1>2. \/ x = blank
      \/ d.path # Untitled /\ now = Missing /\ x = Named(d.path, d.text)
      \/ d.path # Untitled /\ now = d.text /\ x = ReadFrom(d.path)
      \/ d.path # Untitled /\ now = d.saved /\ x = d
  <2> HIDE DEF blank, x
  <2>1. x = CASE saved.backing = "Untitled" -> blank
              [] saved.backing # "Untitled" /\ now = Missing -> Named(d.path, d.text)
              [] saved.backing = "PersistedPath" /\ now = d.text -> ReadFrom(d.path)
              [] saved.backing = "PersistedPath" /\ now = d.saved /\ now # d.text -> d
              [] OTHER -> blank
    BY DEF Restored, x, blank
  <2>2. saved.backing # "Untitled" => d.path # Untitled
    BY DEF Backing
  <2> HIDE DEF now, d
  <2> QED BY <2>1, <2>2
<1> HIDE DEF x
<1>3. CASE x = blank
  <2>1. Blank \in Documents /\ d.text \in Contents /\ Blank.path = Untitled
    BY <1>1, SessionAssumption DEF Blank, Document, Documents
  <2>2. blank \in Documents /\ blank.path = Untitled
    BY <2>1 DEF Documents
  <2> HIDE DEF blank
  <2> QED BY <1>3, <2>2 DEF BranchesFrom, x
<1>4. CASE d.path # Untitled /\ now = Missing /\ x = Named(d.path, d.text)
  <2>1. d.path \in Paths \cup {Untitled} /\ d.text \in Contents
    BY <1>1 DEF Documents
  <2>2. /\ Named(d.path, d.text) \in Documents /\ Named(d.path, d.text).path = d.path
        /\ ~Named(d.path, d.text).persisted
    BY <2>1 DEF Named, Document, Documents
  <2> QED BY <1>4, <2>2 DEF BranchesFrom, x
<1>5. CASE d.path # Untitled /\ now = d.text /\ x = ReadFrom(d.path)
  <2>1. d.path \in Paths /\ disk[d.path] = d.text /\ d.text \in Contents
    BY <1>1, <1>5 DEF Documents
  <2>2. disk[d.path] # Missing
    BY <2>1, SessionAssumption DEF Missing
  <2> QED BY <1>5, <2>1, <2>2, ReadIsDocument DEF x
<1>6. CASE d.path # Untitled /\ now = d.saved /\ x = d
  BY <1>1, <1>6 DEF BranchesFrom, x
<1> QED BY <1>2, <1>3, <1>4, <1>5, <1>6

\* After n texts of the snapshot only their files are open.
Restoring(r, n, limit) ==
    /\ Well(r.session, DOMAIN dropped, limit) /\ Branches(r.session, disk)
    /\ \A e \in DOMAIN r.session.documents :
          \/ r.session.documents[e].path = Untitled
          \/ \E m \in 1..n : r.session.documents[e].path = snapshot[m].document.path

LEMMA OneMoreRestored ==
    ASSUME NEW limit \in Nat, MaxRecords <= limit, IsFiniteSet(DOMAIN dropped),
           disk \in [Paths -> Files], Restorable(snapshot), NEW n \in DOMAIN snapshot,
           NEW r, Restoring(r, n - 1, limit)
    PROVE  Restoring(RestoreTab(r, snapshot[n]), n, limit)
<1> DEFINE saved == snapshot[n]
           x == Restored(saved)
           s == r.session
           u == OpenedNew(s, x, FALSE)
<1>1. /\ DOMAIN snapshot = 1..Len(snapshot) /\ Len(snapshot) \in Nat
      /\ saved \in SavedTabs /\ n \in Nat \ {0}
  BY Elements DEF Restorable
<1>2. /\ x \in Documents /\ (x.path = Untitled \/ x.path = saved.document.path)
      /\ BranchesFrom(x, disk)
  <2>1. /\ saved.backing = Backing(saved.document)
        /\ saved.document.path # Untitled /\ saved.document.persisted
              /\ ~saved.document.revived => saved.document.base = saved.document.saved
    BY DEF Restorable
  <2> HIDE DEF saved
  <2> QED BY <1>1, <2>1, RestoredDocument
<1> HIDE DEF x
<1>3. x.path = Untitled \/ OfPath(s, x.path) = {}
  <2> SUFFICES ASSUME x.path # Untitled, NEW e \in DOMAIN s.documents,
                      s.documents[e].path = x.path
               PROVE  FALSE
    BY DEF OfPath
  <2>1. PICK m \in 1..n - 1 : s.documents[e].path = snapshot[m].document.path
    BY DEF Restoring
  <2>2. m \in DOMAIN snapshot /\ m # n
    BY <1>1, <2>1
  <2>3. snapshot[m].document.path = snapshot[n].document.path
        /\ snapshot[m].document.path # Untitled
    BY <1>2, <2>1
  <2> QED BY <2>2, <2>3 DEF Restorable
<1>4. Well(s, DOMAIN dropped, limit)
  BY DEF Restoring
<1>5. Joins(u, s, x, DOMAIN dropped, limit)
  BY <1>2, <1>3, <1>4, NewKeeps
<1>6. RestoreTab(r, saved).session = u
  BY DEF RestoreTab, x
<1> HIDE DEF u
<1>7. Branches(u, disk)
  BY <1>2, <1>5 DEF Restoring, Joins, Branches
<1>8. \A e \in DOMAIN u.documents :
         \/ u.documents[e].path = Untitled
         \/ \E m \in 1..n : u.documents[e].path = snapshot[m].document.path
  <2> TAKE e \in DOMAIN u.documents
  <2>1. CASE u.documents[e] = x
    <3>1. n \in 1..n
      BY <1>1
    <3> QED BY <1>2, <2>1, <3>1
  <2>2. CASE e \in DOMAIN s.documents /\ u.documents[e] = s.documents[e]
    <3>1. \A m \in 1..n - 1 : m \in 1..n
      BY <1>1
    <3> QED BY <2>2, <3>1 DEF Restoring
  <2> QED BY <1>5, <2>1, <2>2 DEF Joins
<1> QED BY <1>5, <1>6, <1>7, <1>8 DEF Restoring, Joins

\* The sessions on the way to the restored one.
Restores(f, n) ==
    f = [k \in 0..n |->
           IF k = 0 THEN [session |-> NoSession, active |-> None]
           ELSE RestoreTab(f[k - 1], snapshot[k])]

LEMMA RestoresExist ==
    ASSUME NEW L \in Nat
    PROVE  \E f : Restores(f, L)
<1> DEFINE P == {n \in 0..L : \E f : Restores(f, n)}
           start == [session |-> NoSession, active |-> None]
<1>1. 0 \in P
  <2>1. Restores([k \in 0..0 |-> start], 0)
    BY DEF Restores
  <2> QED BY <2>1
<1> HIDE DEF start
<1>2. ASSUME NEW n \in 1..L, n - 1 \in P PROVE n \in P
  <2>1. n \in Nat /\ n # 0 /\ n - 1 \in Nat /\ n \in 0..L
    OBVIOUS
  <2>2. PICK f : Restores(f, n - 1)
    BY <1>2
  <2> DEFINE g == [k \in 0..n |-> IF k = n THEN RestoreTab(f[n - 1], snapshot[n]) ELSE f[k]]
  <2>3. \A k \in 0..n - 1 : f[k] = IF k = 0 THEN start ELSE RestoreTab(f[k - 1], snapshot[k])
    BY <2>2 DEF Restores, start
  <2>4. \A k \in 0..n : g[k] = IF k = 0 THEN start ELSE RestoreTab(g[k - 1], snapshot[k])
    <3> TAKE k \in 0..n
    <3>1. CASE k = n
      <4>1. k # 0 /\ k - 1 \in 0..n /\ k - 1 # n
        BY <2>1, <3>1
      <4>2. g[k - 1] = f[n - 1]
        BY <3>1, <4>1
      <4>3. g[k] = RestoreTab(f[n - 1], snapshot[n])
        BY <3>1
      <4> QED BY <3>1, <4>1, <4>2, <4>3
    <3>2. CASE k # n
      <4>1. k \in 0..n - 1 /\ (k # 0 => k - 1 \in 0..n /\ k - 1 # n)
        BY <2>1, <3>2
      <4>2. g[k] = f[k] /\ (k # 0 => g[k - 1] = f[k - 1])
        BY <3>2, <4>1
      <4> QED BY <2>3, <4>1, <4>2
    <3> QED BY <3>1, <3>2
  <2>5. g = [k \in 0..n |-> g[k]]
    OBVIOUS
  <2> HIDE DEF g
  <2>6. g = [k \in 0..n |-> IF k = 0 THEN start ELSE RestoreTab(g[k - 1], snapshot[k])]
    BY <2>4, <2>5
  <2>7. Restores(g, n)
    BY <2>6 DEF Restores, start
  <2> QED BY <2>1, <2>7
<1>3. \A n \in 0..L : n \in P
  <2> HIDE DEF P
  <2> QED BY <1>1, <1>2, UpTo
<1>4. L \in P
  BY <1>3
<1> QED BY <1>4

LEMMA AllRestored ==
    ASSUME NEW limit \in Nat, MaxRecords <= limit, IsFiniteSet(DOMAIN dropped),
           disk \in [Paths -> Files], Restorable(snapshot)
    PROVE  /\ Well(RestoredSession.session, DOMAIN dropped, limit)
           /\ Branches(RestoredSession.session, disk)
           /\ snapshot = <<>> => RestoredSession = [session |-> NoSession, active |-> None]
<1> DEFINE L == Len(snapshot)
           after == CHOOSE f : f = [n \in 0..L |->
                       IF n = 0 THEN [session |-> NoSession, active |-> None]
                       ELSE RestoreTab(f[n - 1], snapshot[n])]
<1>1. L \in Nat /\ DOMAIN snapshot = 1..L /\ (snapshot = <<>> <=> L = 0)
  BY LenProperties, EmptySeq DEF Restorable
<1>2. RestoredSession = after[L]
  BY DEF RestoredSession
<1>3. Restores(after, L)
  <2> HIDE DEF L
  <2>1. \E f : Restores(f, L)
    BY <1>1, RestoresExist
  <2> QED BY <2>1, Zenon DEF Restores
<1> HIDE DEF after, L
<1>4. \A n \in 0..L : after[n] =
         IF n = 0 THEN [session |-> NoSession, active |-> None]
         ELSE RestoreTab(after[n - 1], snapshot[n])
  BY <1>3 DEF Restores
<1> DEFINE P == {n \in 0..L : Restoring(after[n], n, limit)}
<1>5. 0 \in P
  <2>1. after[0] = [session |-> NoSession, active |-> None] /\ 0 \in 0..L
    BY <1>1, <1>4
  <2>2. after[0].session = NoSession
    BY <2>1
  <2>3. DOMAIN NoSession.documents = {}
    BY DEF NoSession
  <2>4. Restoring(after[0], 0, limit)
    BY <2>2, <2>3, NothingIsWell DEF Restoring, Branches
  <2> QED BY <2>1, <2>4
<1>6. ASSUME NEW n \in 1..L, n - 1 \in P PROVE n \in P
  <2>1. Restoring(after[n - 1], n - 1, limit) /\ n \in 0..L /\ n # 0 /\ n \in DOMAIN snapshot
    BY <1>1, <1>6
  <2>2. after[n] = RestoreTab(after[n - 1], snapshot[n])
    BY <1>4, <2>1
  <2>3. Restoring(RestoreTab(after[n - 1], snapshot[n]), n, limit)
    BY <2>1, OneMoreRestored
  <2> QED BY <2>1, <2>2, <2>3
<1>7. L \in P
  <2> HIDE DEF P
  <2>1. \A n \in 0..L : n \in P
    BY <1>1, <1>5, <1>6, UpTo
  <2> QED BY <1>1, <2>1
<1>8. Restoring(after[L], L, limit)
  BY <1>7
<1>9. snapshot = <<>> => after[L] = [session |-> NoSession, active |-> None]
  BY <1>1, <1>4
<1> QED BY <1>2, <1>8, <1>9 DEF Restoring

\* What was named, and a blank buffer when there is nothing else.
LEMMA StartedKeeps ==
    ASSUME NEW limit \in Nat, MaxRecords <= limit, IsFiniteSet(DOMAIN dropped),
           disk \in [Paths -> Files], NEW target,
           NEW s, Well(s, DOMAIN dropped, limit), Branches(s, disk)
    PROVE  LET u == Started(s, target)
           IN  /\ Well(u, DOMAIN dropped, limit) /\ Branches(u, disk)
               /\ u.tabs # <<>>
<1> DEFINE t == WithTarget(s, target)
<1>1. Well(t, DOMAIN dropped, limit) /\ Branches(t, disk)
  <2>1. CASE target \notin Paths
    BY <2>1 DEF WithTarget
  <2>2. CASE target \in Paths /\ (disk[target] # Missing \/ OfPath(s, target) # {})
    <3>1. t = OpenedFile(s, target, FALSE)
      BY <2>2 DEF WithTarget
    <3> HIDE DEF t
    <3> QED BY <2>2, <3>1, FileOpens
  <2>3. CASE target \in Paths /\ ~(disk[target] # Missing \/ OfPath(s, target) # {})
    <3> DEFINE x == Named(target, Empty)
    <3>1. t = OpenedNew(s, x, FALSE)
      BY <2>3 DEF WithTarget
    <3>2. x \in Documents /\ x.path = target /\ ~x.persisted
      BY <2>3, SessionAssumption DEF Named, Document, Documents
    <3> HIDE DEF t, x
    <3>3. Joins(OpenedNew(s, x, FALSE), s, x, DOMAIN dropped, limit)
      BY <2>3, <3>2, NewKeeps
    <3> QED BY <3>1, <3>2, <3>3 DEF Joins, Branches, BranchesFrom
  <2> QED BY <2>1, <2>2, <2>3
<1> HIDE DEF t
<1>2. CASE t.tabs # <<>>
  <2>1. Started(s, target) = t
    BY <1>2 DEF Started, t
  <2> QED BY <1>1, <1>2, <2>1
<1>3. CASE t.tabs = <<>>
  <2>1. Started(s, target) = OpenedNew(t, Blank, FALSE)
    BY <1>3 DEF Started, t
  <2>2. Blank \in Documents /\ Blank.path = Untitled
    BY SessionAssumption DEF Blank, Document, Documents
  <2>3. Joins(OpenedNew(t, Blank, FALSE), t, Blank, DOMAIN dropped, limit)
    BY <1>1, <2>2, NewKeeps
  <2> QED BY <1>1, <2>1, <2>2, <2>3 DEF Joins, Branches, BranchesFrom
<1> QED BY <1>2, <1>3

-----------------------------------------------------------------------------
(* Every step keeps the invariant.                                         *)

LEMMA Bounds ==
    ASSUME IInv
    PROVE  /\ failures \in Nat /\ MaxRecords \in Nat \ {0} /\ MaxClosed \in Nat \ {0}
           /\ MaxRecords + failures \in Nat /\ MaxRecords <= MaxRecords + failures
           /\ IsFiniteSet(DOMAIN dropped) /\ disk \in [Paths -> Files]
           /\ session \in Sessions
<1>1. failures \in Nat /\ IsFiniteSet(DOMAIN dropped) /\ disk \in [Paths -> Files]
  BY DEF IInv, Outside
<1>2. MaxRecords \in Nat \ {0} /\ MaxClosed \in Nat \ {0}
  BY SessionAssumption
<1>3. MaxRecords + failures \in Nat /\ MaxRecords <= MaxRecords + failures
  BY <1>1, <1>2
<1> QED BY <1>1, <1>2, <1>3 DEF IInv, Well, Sound

LEMMA InitKeeps == Init => IInv
<1> SUFFICES ASSUME Init PROVE IInv
  OBVIOUS
<1>1. DOMAIN <<>> = {} /\ \A S : <<>> \in Seq(S)
  OBVIOUS
<1>2. Outside
  BY <1>1, FS_EmptySet DEF Init, Outside, Files
<1>3. MaxRecords + failures \in Nat
  BY SessionAssumption DEF Init
<1>4. Well(session, DOMAIN dropped, MaxRecords + failures)
  <2>1. session = NoSession
    BY DEF Init
  <2> QED BY <1>3, <2>1, NothingIsWell
<1>5. Branches(session, disk)
  <2>1. session.documents = <<>>
    BY DEF Init, NoSession
  <2> QED BY <1>1, <2>1 DEF Branches
<1>6. Restorable(snapshot)
  BY <1>1 DEF Init, Restorable
<1> QED BY <1>2, <1>4, <1>5, <1>6 DEF IInv

\* What a command changes.
LEMMA CommandKeeps ==
    ASSUME IInv, NEW c, Command(c), dropped' = dropped, failures' \in Nat,
           disk' \in [Paths -> Files],
           Well(session', DOMAIN dropped, MaxRecords + failures'),
           Branches(session', disk'), Busy(session')
    PROVE  IInv'
<1>1. running' = TRUE /\ blocked' = blocked /\ snapshot' = snapshot
  BY DEF Command, IInv, Outside
<1>2. Outside'
  BY <1>1 DEF IInv, Outside
<1>3. Restorable(snapshot')
  BY <1>1 DEF IInv
<1>4. Well(session', DOMAIN dropped', MaxRecords + failures')
  OBVIOUS
<1> QED BY <1>2, <1>3, <1>4 DEF IInv

\* A failure or none.
LEMMA FailuresGrow ==
    ASSUME failures \in Nat, Fails \/ NoFailure
    PROVE  failures' \in Nat /\ failures <= failures'
BY DEF Fails, NoFailure

\* The active tab's document is the workspace's.
LEMMA ActiveDocumentIsTheirs ==
    ASSUME NEW d \in ActiveDocument
    PROVE  /\ d \in DOMAIN session.documents
           /\ \E t \in Tabs(session) : t.document = d
BY DEF ActiveDocument, ActiveTab, Closable

LEMMA TabsAreThere ==
    ASSUME NEW s \in Sessions, Tabs(s) # {}
    PROVE  s.tabs # <<>> /\ Busy(s)
<1>1. s.tabs \in Seq(TabStates)
  BY SessionParts
<1>2. s.tabs # <<>>
  BY <1>1, Elements DEF Tabs
<1> QED BY <1>2 DEF Busy

\* The document of the active tab changes.
LEMMA SetKeeps ==
    ASSUME IInv, NEW d \in ActiveDocument, NEW x \in Documents, x.path = Doc(d).path
    PROVE  LET u == SetDocument(d, x)
           IN  /\ Well(u, DOMAIN dropped, MaxRecords + failures) /\ Busy(u)
               /\ DOMAIN u.documents = DOMAIN session.documents
               /\ u.documents[d] = x
               /\ \A e \in DOMAIN session.documents \ {d} :
                     u.documents[e] = session.documents[e]
<1> DEFINE u == SetDocument(d, x)
<1>1. d \in DOMAIN session.documents /\ Tabs(session) # {}
  BY ActiveDocumentIsTheirs
<1>2. session \in Sessions /\ d \in Ids
  BY <1>1, Bounds, SessionParts
<1>3. u = WithDocument(session, d, x)
  BY DEF SetDocument
<1>4. /\ u \in Sessions /\ u.tabs = session.tabs
      /\ DOMAIN u.documents = DOMAIN session.documents \cup {d}
      /\ u.documents[d] = x
      /\ \A e \in DOMAIN session.documents \ {d} : u.documents[e] = session.documents[e]
  BY <1>2, <1>3, DocumentSet
<1>5. Well(u, DOMAIN dropped, MaxRecords + failures)
  BY <1>1, <1>3, TextMayChange DEF IInv, Doc
<1> HIDE DEF u
<1>6. Busy(u)
  BY <1>1, <1>4, TabsAreThere DEF Tabs
<1> QED BY <1>1, <1>4, <1>5, <1>6 DEF u

LEMMA EditKeeps == IInv /\ Edit => IInv'
<1> SUFFICES ASSUME IInv, Edit PROVE IInv'
  OBVIOUS
<1>1. PICK d \in ActiveDocument, text \in Contents :
         /\ Command("Edit")
         /\ session' = SetDocument(d, [Doc(d) EXCEPT !.text = text])
         /\ failures' = failures /\ dropped' = dropped /\ disk' = disk
  BY DEF Edit, Becomes, NoFailure, Keeps
<1> DEFINE x == [Doc(d) EXCEPT !.text = text]
<1>2. d \in DOMAIN session.documents /\ Doc(d) \in Documents
  BY ActiveDocumentIsTheirs, Bounds, SessionParts DEF Doc
<1>3. /\ x \in Documents /\ x.path = Doc(d).path /\ x.persisted = Doc(d).persisted
      /\ x.revived = Doc(d).revived /\ x.base = Doc(d).base /\ x.saved = Doc(d).saved
  BY <1>2 DEF Documents
<1>4. BranchesFrom(x, disk)
  BY <1>2, <1>3 DEF IInv, Branches, BranchesFrom, Doc
<1> HIDE DEF x
<1> DEFINE u == SetDocument(d, x)
<1>5. /\ Well(u, DOMAIN dropped, MaxRecords + failures) /\ Busy(u)
      /\ DOMAIN u.documents = DOMAIN session.documents /\ u.documents[d] = x
      /\ \A e \in DOMAIN session.documents \ {d} : u.documents[e] = session.documents[e]
  BY <1>3, SetKeeps
<1>6. session' = u
  BY <1>1 DEF x
<1> HIDE DEF u
<1>7. Branches(u, disk)
  BY <1>4, <1>5 DEF IInv, Branches
<1> QED BY <1>1, <1>5, <1>6, <1>7, Bounds, CommandKeeps

\* A command that shows a document, whatever becomes of the blank buffer.
LEMMA ShownKeeps ==
    ASSUME IInv, NEW kept \in BOOLEAN, Kept(kept, None), NEW opened,
           ShownWith(opened, kept), kept => DOMAIN session.documents \subseteq DOMAIN opened.documents,
           Well(opened, DOMAIN dropped, MaxRecords + failures), Busy(opened)
    PROVE  /\ failures' \in Nat
           /\ Well(session', DOMAIN dropped, MaxRecords + failures') /\ Busy(session')
           /\ session'.documents = opened.documents
<1> DEFINE limit == MaxRecords + failures
<1>1. /\ limit \in Nat /\ failures' \in Nat /\ MaxRecords + failures' \in Nat
      /\ limit <= MaxRecords + failures' /\ limit + 1 \in Nat
      /\ kept => limit + 1 <= MaxRecords + failures'
  BY Bounds DEF Kept, Fails, NoFailure
<1>2. CASE session' = opened
  BY <1>1, <1>2, MoreAllowed
<1>3. CASE kept /\ session' = Stored(opened, session.tabs[1])
  <2> DEFINE u == Stored(opened, session.tabs[1])
  <2>1. Closable(opened, session.tabs[1])
    BY <1>3 DEF Kept, Disposable, Closable
  <2>2. Well(u, DOMAIN dropped, limit + 1) /\ Busy(u) /\ u.documents = opened.documents
    <3> HIDE DEF limit
    <3> QED BY <1>1, <2>1, StoredKeeps DEF limit
  <2> HIDE DEF u
  <2>3. Well(u, DOMAIN dropped, MaxRecords + failures')
    <3> HIDE DEF limit
    <3> QED BY <1>1, <1>3, <2>2, MoreAllowed
  <2> QED BY <1>1, <1>3, <2>2, <2>3 DEF u
<1> QED BY <1>2, <1>3 DEF ShownWith, Becomes

\* The blank buffer that stays is there still.
LEMMA KeptStays ==
    ASSUME NEW s \in Sessions, NEW d, NEW kept, kept
    PROVE  Activated(s, d, kept).documents = s.documents
<1>1. Activated(s, d, kept) = WithTab(s, d)
  BY DEF Activated
<1>2. WithTab(s, d).documents = s.documents
  BY DEF WithTab, Sessions
<1> QED BY <1>1, <1>2

LEMMA BufferStays ==
    ASSUME NEW s \in Sessions, IsFiniteSet(DOMAIN s.documents), IsFiniteSet(DOMAIN dropped),
           NEW x \in Documents, NEW kept, kept, NEW u, u = OpenedNew(s, x, kept)
    PROVE  DOMAIN s.documents \subseteq DOMAIN u.documents
<1> DEFINE d == FreshDocument(s)
           w == WithDocument(s, d, x)
<1>1. d \in Ids
  BY FreshDocumentIsNew
<1>2. u = Activated(w, d, kept)
  BY DEF OpenedNew
<1> HIDE DEF d
<1>3. w \in Sessions /\ DOMAIN w.documents = DOMAIN s.documents \cup {d}
  BY <1>1, DocumentSet
<1> HIDE DEF w
<1>4. Activated(w, d, kept).documents = w.documents
  BY <1>3, KeptStays
<1> QED BY <1>2, <1>3, <1>4

LEMMA NewTabKeeps == IInv /\ New => IInv'
<1> SUFFICES ASSUME IInv, New PROVE IInv'
  OBVIOUS
<1> DEFINE opened(kept) == OpenedNew(session, Blank, kept)
<1>1. PICK kept \in BOOLEAN :
         /\ Command("New") /\ Kept(kept, None) /\ ShownWith(opened(kept), kept)
         /\ dropped' = dropped /\ disk' = disk
  BY DEF New, Keeps
<1>2. Blank \in Documents /\ Blank.path = Untitled
  BY SessionAssumption DEF Blank, Document, Documents
<1> DEFINE u == OpenedNew(session, Blank, kept)
<1>3. Joins(u, session, Blank, DOMAIN dropped, MaxRecords + failures)
  BY <1>2, Bounds, NewKeeps DEF IInv
<1>4. kept => DOMAIN session.documents \subseteq DOMAIN u.documents
  <2>1. /\ session \in Sessions /\ IsFiniteSet(DOMAIN session.documents)
        /\ IsFiniteSet(DOMAIN dropped)
    BY DEF IInv, Well, Sound, Outside
  <2> QED BY <1>2, <2>1, BufferStays
<1>5. ShownWith(u, kept)
  BY <1>1
<1> HIDE DEF u
<1>6. /\ Well(u, DOMAIN dropped, MaxRecords + failures) /\ Busy(u)
      /\ Branches(u, disk)
  BY <1>2, <1>3 DEF Joins, Busy, IInv, Branches, BranchesFrom
<1>7. /\ failures' \in Nat
      /\ Well(session', DOMAIN dropped, MaxRecords + failures') /\ Busy(session')
      /\ session'.documents = u.documents
  BY <1>1, <1>4, <1>5, <1>6, ShownKeeps
<1>8. Branches(session', disk)
  BY <1>6, <1>7 DEF Branches
<1> QED BY <1>1, <1>7, <1>8, Bounds, CommandKeeps

LEMMA OpenKeeps == IInv /\ Open => IInv'
<1> SUFFICES ASSUME IInv, Open PROVE IInv'
  OBVIOUS
<1>1. PICK path \in Paths, kept \in BOOLEAN :
         /\ Command("Open") /\ Kept(kept, None) /\ disk[path] # Missing
         /\ ShownWith(OpenedFile(session, path, kept), kept)
         /\ dropped' = dropped /\ disk' = disk
  BY DEF Open, Keeps
<1> DEFINE u == OpenedFile(session, path, kept)
<1>2. Well(u, DOMAIN dropped, MaxRecords + failures) /\ u.tabs # <<>> /\ Branches(u, disk)
  BY <1>1, Bounds, FileOpens DEF IInv
<1>3. kept => DOMAIN session.documents \subseteq DOMAIN u.documents
  <2>1. session \in Sessions /\ IsFiniteSet(DOMAIN session.documents)
        /\ IsFiniteSet(DOMAIN dropped) /\ disk \in [Paths -> Files]
    BY DEF IInv, Well, Sound, Outside
  <2>2. ReadFrom(path) \in Documents
    BY <1>1, <2>1, ReadIsDocument
  <2>3. CASE OfPath(session, path) = {}
    <3>1. u = OpenedNew(session, ReadFrom(path), kept)
      BY <2>3 DEF OpenedFile
    <3> QED BY <2>1, <2>2, <3>1, BufferStays
  <2>4. CASE OfPath(session, path) # {}
    <3> DEFINE d == CHOOSE d \in OfPath(session, path) : TRUE
    <3>1. u = Activated(session, d, kept)
      BY <2>4 DEF OpenedFile
    <3> HIDE DEF d, u
    <3> QED BY <2>1, <3>1, KeptStays
  <2> QED BY <2>3, <2>4
<1>4. ShownWith(u, kept)
  BY <1>1
<1> HIDE DEF u
<1>5. Busy(u)
  BY <1>2 DEF Busy
<1>6. /\ failures' \in Nat
      /\ Well(session', DOMAIN dropped, MaxRecords + failures') /\ Busy(session')
      /\ session'.documents = u.documents
  BY <1>1, <1>2, <1>3, <1>4, <1>5, ShownKeeps
<1>7. Branches(session', disk)
  BY <1>2, <1>6 DEF Branches
<1> QED BY <1>1, <1>6, <1>7, Bounds, CommandKeeps

\* A file that no other document is at may be written.
LEMMA OthersBranchStill ==
    ASSUME NEW files, NEW after, NEW s, Branches(s, files), NEW path,
           \A p \in Paths \ {path} : after[p] = files[p],
           NEW e \in DOMAIN s.documents, s.documents[e] \in Documents,
           s.documents[e].path # path
    PROVE  BranchesFrom(s.documents[e], after)
<1>1. s.documents[e].path \in Paths \cup {Untitled}
  BY DEF Documents
<1> QED BY <1>1 DEF Branches, BranchesFrom

LEMMA WrittenIsDocument ==
    ASSUME NEW d \in Documents, NEW path \in Paths, NEW files, files[path] = d.text
    PROVE  /\ Written(d, path) \in Documents /\ Written(d, path).path = path
           /\ BranchesFrom(Written(d, path), files)
<1> DEFINE x == Written(d, path)
<1>1. /\ x \in Documents /\ x.path = path /\ x.base = d.text /\ x.saved = d.text
  BY DEF Written, Documents
<1> HIDE DEF x
<1> QED BY <1>1 DEF BranchesFrom, x

LEMMA SaveKeeps == IInv /\ Save => IInv'
<1> SUFFICES ASSUME IInv, Save PROVE IInv'
  OBVIOUS
<1>1. PICK d \in ActiveDocument :
         /\ Command("Save") /\ Doc(d).path # Untitled
         /\ disk' = [disk EXCEPT ![Doc(d).path] = Doc(d).text]
         /\ session' = SetDocument(d, Written(Doc(d), Doc(d).path))
         /\ failures' = failures /\ dropped' = dropped
  BY DEF Save, Becomes, NoFailure, Keeps
<1> DEFINE path == Doc(d).path
           x == Written(Doc(d), path)
           u == SetDocument(d, x)
<1>2. d \in DOMAIN session.documents /\ Doc(d) \in Documents
  BY ActiveDocumentIsTheirs, Bounds, SessionParts DEF Doc
<1>3. path \in Paths /\ Doc(d).text \in Contents
  BY <1>1, <1>2 DEF Documents
<1>4. /\ disk' \in [Paths -> Files] /\ disk'[path] = Doc(d).text
      /\ \A p \in Paths \ {path} : disk'[p] = disk[p]
  BY <1>1, <1>3, Bounds DEF Files
<1>5. x \in Documents /\ x.path = path /\ BranchesFrom(x, disk')
  BY <1>2, <1>3, <1>4, WrittenIsDocument
<1> HIDE DEF x
<1>6. /\ Well(u, DOMAIN dropped, MaxRecords + failures) /\ Busy(u)
      /\ DOMAIN u.documents = DOMAIN session.documents /\ u.documents[d] = x
      /\ \A e \in DOMAIN session.documents \ {d} : u.documents[e] = session.documents[e]
  BY <1>5, SetKeeps
<1>7. session' = u
  BY <1>1 DEF x
<1> HIDE DEF u
<1>8. Branches(u, disk')
  <2>1. ASSUME NEW e \in DOMAIN session.documents \ {d}
        PROVE  BranchesFrom(session.documents[e], disk')
    <3>1. session.documents[e] \in Documents
      BY Bounds, SessionParts
    <3>2. session.documents[e].path # path
      BY <1>1, <1>2, <2>1 DEF IInv, Well, Sound, Arranged, OneDocument, Doc
    <3> HIDE DEF path
    <3> QED BY <1>4, <2>1, <3>1, <3>2, OthersBranchStill DEF IInv
  <2> QED BY <1>5, <1>6, <2>1 DEF Branches
<1> QED BY <1>1, <1>4, <1>6, <1>7, <1>8, Bounds, CommandKeeps

\* Two documents are not of the same file, so that each file that save all
\* writes gets the text of its own.
LEMMA SaveAllKeeps == IInv /\ SaveAll => IInv'
<1> SUFFICES ASSUME IInv, SaveAll PROVE IInv'
  OBVIOUS
<1> DEFINE s == session
           on(p) == {d \in SavedByAll : Doc(d).path = p}
           docs == [d \in DOMAIN s.documents |->
                      IF d \in SavedByAll THEN Written(s.documents[d], s.documents[d].path)
                      ELSE s.documents[d]]
           u == [s EXCEPT !.documents = docs]
<1>1. /\ Command("SaveAll")
      /\ disk' = [p \in Paths |-> IF on(p) = {} THEN disk[p]
                                  ELSE Doc(CHOOSE d \in on(p) : TRUE).text]
      /\ session' = u /\ failures' = failures /\ dropped' = dropped
  BY DEF SaveAll, Becomes, NoFailure, Keeps
<1>2. /\ s \in Sessions /\ DOMAIN s.documents \subseteq Ids
      /\ \A d \in DOMAIN s.documents : s.documents[d] \in Documents
  BY Bounds, SessionParts
<1>3. OneDocument(s)
  BY DEF IInv, Well, Sound, Arranged
<1>4. \A d \in SavedByAll :
         /\ d \in DOMAIN s.documents /\ Doc(d) = s.documents[d]
         /\ s.documents[d].path \in Paths /\ s.documents[d].text \in Contents
  BY <1>2 DEF SavedByAll, Doc, Documents
<1>5. disk' \in [Paths -> Files]
  <2>1. ASSUME NEW p \in Paths, on(p) # {}
        PROVE  Doc(CHOOSE d \in on(p) : TRUE).text \in Files
    <3>1. (CHOOSE d \in on(p) : TRUE) \in SavedByAll
      BY <2>1
    <3> QED BY <1>4, <3>1 DEF Files
  <2> HIDE DEF on
  <2> QED BY <1>1, <2>1, Bounds
<1>6. ASSUME NEW d \in SavedByAll PROVE disk'[s.documents[d].path] = s.documents[d].text
  <2> DEFINE p == s.documents[d].path
  <2>1. d \in on(p)
    BY <1>4
  <2>2. (CHOOSE e \in on(p) : TRUE) \in on(p)
    BY <2>1
  <2>3. (CHOOSE e \in on(p) : TRUE) = d
    BY <1>3, <1>4, <2>1, <2>2 DEF OneDocument, SavedByAll
  <2> HIDE DEF on
  <2> QED BY <1>1, <1>4, <2>1, <2>3
<1>7. ASSUME NEW e \in DOMAIN s.documents \ SavedByAll, s.documents[e].path # Untitled
      PROVE  disk'[s.documents[e].path] = disk[s.documents[e].path]
  <2> DEFINE p == s.documents[e].path
  <2>1. p \in Paths
    BY <1>2, <1>7 DEF Documents
  <2>2. on(p) = {}
    BY <1>3, <1>4, <1>7 DEF OneDocument
  <2> HIDE DEF on
  <2> QED BY <1>1, <2>1, <2>2
<1> HIDE DEF on
<1>8. \A d \in DOMAIN docs :
         /\ docs[d] \in Documents /\ docs[d].path = s.documents[d].path
         /\ BranchesFrom(docs[d], disk')
  <2> TAKE d \in DOMAIN docs
  <2>1. CASE d \in SavedByAll
    <3>1. docs[d] = Written(s.documents[d], s.documents[d].path)
      BY <2>1
    <3> HIDE DEF docs
    <3> QED BY <1>2, <1>4, <1>6, <2>1, <3>1, WrittenIsDocument
  <2>2. CASE d \notin SavedByAll
    <3>1. docs[d] = s.documents[d] /\ d \in DOMAIN s.documents
      BY <2>2
    <3> HIDE DEF docs
    <3>2. BranchesFrom(s.documents[d], disk)
      BY <3>1 DEF IInv, Branches
    <3> QED BY <1>2, <1>7, <2>2, <3>1, <3>2 DEF BranchesFrom
  <2> QED BY <2>1, <2>2
<1>9. DOMAIN docs = DOMAIN s.documents
  OBVIOUS
<1>10. docs \in DocumentMaps
  <2>1. docs = [d \in DOMAIN docs |-> docs[d]]
    OBVIOUS
  <2> HIDE DEF docs
  <2>2. docs \in [DOMAIN s.documents -> Documents]
    BY <1>8, <1>9, <2>1
  <2> QED BY <1>2, <2>2, MapIsOne
<1> HIDE DEF docs
<1>11. /\ u \in Sessions /\ u.documents = docs /\ u.tabs = s.tabs /\ u.active = s.active
       /\ u.closed = s.closed /\ u.records = s.records
  <2> HIDE DEF s
  <2>1. u \in Sessions
    BY <1>2, <1>10, PartsReplaced
  <2> QED BY <1>2, <2>1, PartsAreTheirs
<1> HIDE DEF u
<1>12. Well(u, DOMAIN dropped, MaxRecords + failures)
  BY <1>8, <1>9, <1>11, ContentsMayChange DEF IInv
<1>13. Branches(u, disk')
  BY <1>8, <1>11 DEF Branches
<1>14. Busy(u)
  <2>1. Busy(s)
    BY <1>1 DEF IInv, Outside, Command
  <2> QED BY <1>11, <2>1 DEF Busy
<1> QED BY <1>1, <1>5, <1>12, <1>13, <1>14, Bounds, CommandKeeps

LEMMA SaveAsKeeps == IInv /\ SaveAs => IInv'
<1> SUFFICES ASSUME IInv, SaveAs PROVE IInv'
  OBVIOUS
<1>1. PICK d \in ActiveDocument, path \in Paths :
         /\ Command("SaveAs") /\ OfPath(session, path) \subseteq {d}
         /\ disk' = [disk EXCEPT ![path] = Doc(d).text]
         /\ session' = Synced(SetDocument(d, Written(Doc(d), path)), d)
         /\ failures' = failures /\ dropped' = dropped
  BY DEF SaveAs, Becomes, NoFailure, Keeps
<1> DEFINE x == Written(Doc(d), path)
           u == Synced(WithDocument(session, d, x), d)
<1>2. /\ d \in DOMAIN session.documents /\ Doc(d) \in Documents
      /\ \E t \in Tabs(session) : t.document = d
  BY ActiveDocumentIsTheirs, Bounds, SessionParts DEF Doc
<1>3. Doc(d).text \in Contents
  BY <1>2 DEF Documents
<1>4. /\ disk' \in [Paths -> Files] /\ disk'[path] = Doc(d).text
      /\ \A p \in Paths \ {path} : disk'[p] = disk[p]
  BY <1>1, <1>3, Bounds DEF Files
<1>5. x \in Documents /\ x.path = path /\ BranchesFrom(x, disk')
  BY <1>2, <1>4, WrittenIsDocument
<1>6. session' = u
  BY <1>1 DEF SetDocument
<1> HIDE DEF x
<1>7. /\ Well(u, DOMAIN dropped, MaxRecords + failures) /\ u.tabs # <<>>
      /\ DOMAIN u.documents = DOMAIN session.documents /\ u.documents[d] = x
      /\ \A e \in DOMAIN session.documents \ {d} : u.documents[e] = session.documents[e]
  BY <1>1, <1>2, <1>5, PathsAreSynced DEF IInv
<1> HIDE DEF u
<1>8. Branches(u, disk')
  <2>1. ASSUME NEW e \in DOMAIN session.documents \ {d}
        PROVE  BranchesFrom(session.documents[e], disk')
    <3>1. session.documents[e] \in Documents
      BY Bounds, SessionParts
    <3>2. session.documents[e].path # path
      BY <1>1, <2>1 DEF OfPath
    <3> QED BY <1>4, <2>1, <3>1, <3>2, OthersBranchStill DEF IInv
  <2> QED BY <1>5, <1>7, <2>1 DEF Branches
<1> QED BY <1>1, <1>4, <1>6, <1>7, <1>8, Bounds, CommandKeeps DEF Busy

LEMMA ReloadKeeps == IInv /\ Reload => IInv'
<1> SUFFICES ASSUME IInv, Reload PROVE IInv'
  OBVIOUS
<1>1. PICK d \in ActiveDocument :
         /\ Command("Reload") /\ Doc(d).path # Untitled /\ disk[Doc(d).path] # Missing
         /\ session' = SetDocument(d,
               [ReadFrom(Doc(d).path) EXCEPT !.persisted = Doc(d).persisted])
         /\ failures' = failures /\ dropped' = dropped /\ disk' = disk
  BY DEF Reload, Becomes, NoFailure, Keeps
<1> DEFINE path == Doc(d).path
           read == ReadFrom(path)
           x == [read EXCEPT !.persisted = Doc(d).persisted]
           u == SetDocument(d, x)
<1>2. d \in DOMAIN session.documents /\ Doc(d) \in Documents
  BY ActiveDocumentIsTheirs, Bounds, SessionParts DEF Doc
<1>3. path \in Paths /\ Doc(d).persisted \in BOOLEAN
  BY <1>1, <1>2 DEF Documents
<1>4. read \in Documents /\ read.path = path /\ BranchesFrom(read, disk) /\ read.persisted
  <2>1. ReadFrom(path).persisted
    BY DEF ReadFrom, Document
  <2> QED BY <1>1, <1>3, <2>1, Bounds, ReadIsDocument
<1> HIDE DEF read
<1>5. /\ x \in Documents /\ x.path = path /\ x.revived = read.revived
      /\ x.base = read.base /\ x.saved = read.saved
  BY <1>3, <1>4 DEF Documents
<1>6. BranchesFrom(x, disk)
  <2> HIDE DEF x
  <2> QED BY <1>4, <1>5 DEF BranchesFrom
<1>7. session' = u
  BY <1>1 DEF read
<1> HIDE DEF x
<1>8. /\ Well(u, DOMAIN dropped, MaxRecords + failures) /\ Busy(u)
      /\ DOMAIN u.documents = DOMAIN session.documents /\ u.documents[d] = x
      /\ \A e \in DOMAIN session.documents \ {d} : u.documents[e] = session.documents[e]
  BY <1>5, SetKeeps
<1> HIDE DEF u
<1>9. Branches(u, disk)
  BY <1>6, <1>8 DEF IInv, Branches
<1> QED BY <1>1, <1>7, <1>8, <1>9, Bounds, CommandKeeps

\* A rename or a deletion journals the file first.
LEMMA FileRecordIsNew ==
    ASSUME NEW s \in Sessions
    PROVE  /\ FileRecord(s) \in Records
           /\ \A r \in ToSet(s.records) : r.id # FileRecord(s).id
           /\ \A c \in ToSet(s.closed) : c.record # FileRecord(s).id
<1>1. FreshRecord(s) \in Ids /\ FileRecord(s).id = FreshRecord(s)
  BY FreshRecordIsNew DEF FileRecord
<1>2. FileRecord(s) \in Records
  BY <1>1 DEF FileRecord, Records, FileRecords
<1> QED BY <1>1, <1>2, FreshRecordIsNew

LEMMA RenameKeeps == IInv /\ Rename => IInv'
<1> SUFFICES ASSUME IInv, Rename PROVE IInv'
  OBVIOUS
<1> DEFINE s == session
           limit == MaxRecords + failures
<1>1. PICK d \in ActiveDocument, path \in Paths :
         /\ Command("Rename") /\ Doc(d).path \in Paths \ {path}
         /\ disk[Doc(d).path] # Missing /\ OfPath(s, path) = {}
         /\ disk' = [disk EXCEPT ![path] = disk[Doc(d).path], ![Doc(d).path] = Missing]
         /\ session' = Journaled(Synced(SetDocument(d, [Doc(d) EXCEPT !.path = path]), d),
                                 FileRecord(s))
         /\ failures' = failures /\ dropped' = dropped
  BY DEF Rename, Becomes, NoFailure, Keeps
<1> DEFINE from == Doc(d).path
           x == [Doc(d) EXCEPT !.path = path]
           v == Synced(WithDocument(s, d, x), d)
           r == FileRecord(s)
           u == Journaled(v, r)
<1>2. /\ d \in DOMAIN s.documents /\ Doc(d) \in Documents /\ Doc(d) = s.documents[d]
      /\ \E t \in Tabs(s) : t.document = d
  BY ActiveDocumentIsTheirs, Bounds, SessionParts DEF Doc
<1>3. /\ disk' \in [Paths -> Files] /\ disk'[path] = disk[from]
      /\ \A p \in Paths \ {path, from} : disk'[p] = disk[p]
  BY <1>1, Bounds DEF Files
<1>4. /\ x \in Documents /\ x.path = path /\ x.persisted = Doc(d).persisted
      /\ x.revived = Doc(d).revived /\ x.base = Doc(d).base /\ x.saved = Doc(d).saved
  BY <1>2 DEF Documents
<1>5. session' = u
  BY <1>1 DEF SetDocument
<1> HIDE DEF x
<1>6. from \in Paths /\ from # Untitled
  BY <1>1, SessionAssumption DEF Untitled
<1>7. BranchesFrom(x, disk')
  <2>1. BranchesFrom(Doc(d), disk)
    BY <1>2 DEF IInv, Branches
  <2> QED BY <1>3, <1>4, <1>6, <2>1 DEF BranchesFrom
<1>8. /\ Well(v, DOMAIN dropped, limit)
      /\ DOMAIN v.documents = DOMAIN s.documents /\ v.documents[d] = x
      /\ \A e \in DOMAIN s.documents \ {d} : v.documents[e] = s.documents[e]
      /\ v.closed = s.closed /\ v.records = s.records
  <2>1. OfPath(s, x.path) \subseteq {d}
    BY <1>1, <1>4
  <2> QED BY <1>2, <1>4, <2>1, PathsAreSynced DEF IInv
<1> HIDE DEF v
<1>9. /\ r \in Records /\ \A y \in ToSet(v.records) : y.id # r.id
      /\ \A c \in ToSet(v.closed) : c.record # r.id
  BY <1>8, Bounds, FileRecordIsNew
<1> HIDE DEF r
<1>10. v \in Sessions /\ Sound(v, DOMAIN dropped, limit)
  BY <1>8 DEF Well, Sound
<1>11. Sound(u, DOMAIN dropped, limit)
  BY <1>9, <1>10, Bounds, JournaledKeeps
<1>12. u.documents = v.documents /\ u.tabs = v.tabs /\ u.active = v.active /\ u.records # <<>>
  BY <1>9, <1>10, JournaledFields
<1> HIDE DEF u
<1>13. Well(u, DOMAIN dropped, limit)
  <2>1. \A e : HasTab(v, e) => HasTab(u, e)
    BY <1>12, ArrangedAgrees
  <2> QED BY <1>8, <1>11, <1>12, <2>1 DEF Well
<1>14. Branches(u, disk')
  <2>1. ASSUME NEW e \in DOMAIN s.documents \ {d}
        PROVE  BranchesFrom(s.documents[e], disk')
    <3>1. s.documents[e] \in Documents
      BY Bounds, SessionParts
    <3>2. s.documents[e].path # path
      BY <1>1, <2>1 DEF OfPath
    <3>3. s.documents[e].path # from
      BY <1>2, <1>6, <2>1 DEF IInv, Well, Sound, Arranged, OneDocument
    <3>4. BranchesFrom(s.documents[e], disk)
      BY <2>1 DEF IInv, Branches
    <3>5. s.documents[e].path \in Paths \cup {Untitled}
      BY <3>1 DEF Documents
    <3> HIDE DEF from, s
    <3> QED BY <1>3, <3>2, <3>3, <3>4, <3>5 DEF BranchesFrom
  <2> QED BY <1>7, <1>8, <1>12, <2>1 DEF Branches
<1> QED BY <1>1, <1>3, <1>5, <1>12, <1>13, <1>14, Bounds, CommandKeeps DEF Busy

LEMMA DeleteKeeps == IInv /\ Delete => IInv'
<1> SUFFICES ASSUME IInv, Delete PROVE IInv'
  OBVIOUS
<1> DEFINE s == session
           limit == MaxRecords + failures
<1>1. PICK i \in DOMAIN s.tabs :
         /\ Command("Delete") /\ Closable(s, s.tabs[i]) /\ s.tabs[i].path # Untitled
         /\ disk' = [disk EXCEPT ![s.tabs[i].path] = Missing]
         /\ session' = Journaled(WithoutTab(WithoutDocument(s, s.tabs[i].document), i),
                                 FileRecord(s))
         /\ failures' = failures /\ dropped' = dropped
  BY DEF Delete, Becomes, NoFailure, Keeps
<1> DEFINE t == s.tabs[i]
           d == t.document
           u == Journaled(WithoutTab(WithoutDocument(s, d), i), FileRecord(s))
<1>2. t \in Tabs(s) /\ t \in TabStates /\ d \in DOMAIN s.documents
  <2>1. s.tabs \in Seq(TabStates)
    BY Bounds, SessionParts
  <2> QED BY <1>1, <2>1, Elements DEF Tabs, Closable
<1>3. t.path \in Paths /\ t.path = s.documents[d].path
  BY <1>1, <1>2 DEF TabStates, IInv, Well, Sound, Arranged, Backed
<1>4. /\ disk' \in [Paths -> Files]
      /\ \A p \in Paths \ {t.path} : disk'[p] = disk[p]
  BY <1>1, <1>3, Bounds DEF Files
<1>5. /\ Well(u, DOMAIN dropped, limit) /\ u.records # <<>>
      /\ DOMAIN u.documents = DOMAIN s.documents \ {d}
      /\ \A e \in DOMAIN u.documents : u.documents[e] = s.documents[e]
  <2>1. Well(s, DOMAIN dropped, limit) /\ limit \in Nat /\ MaxRecords <= limit
    BY Bounds DEF IInv
  <2> HIDE DEF s, limit
  <2>2. Closable(s, s.tabs[i])
    BY <1>1
  <2>3. Deletes(u, s, d, DOMAIN dropped, limit)
    BY <2>1, <2>2, DeletedKeeps
  <2> QED BY <2>3 DEF Deletes
<1>6. session' = u
  BY <1>1
<1> HIDE DEF u
<1>7. Branches(u, disk')
  <2>1. ASSUME NEW e \in DOMAIN s.documents \ {d}
        PROVE  BranchesFrom(s.documents[e], disk')
    <3>1. s.documents[e] \in Documents
      BY Bounds, SessionParts
    <3>2. s.documents[e].path # t.path
      BY <1>1, <1>2, <1>3, <2>1 DEF IInv, Well, Sound, Arranged, OneDocument
    <3> HIDE DEF t
    <3> QED BY <1>4, <2>1, <3>1, <3>2, OthersBranchStill DEF IInv
  <2> QED BY <1>5, <2>1 DEF Branches
<1> QED BY <1>1, <1>4, <1>5, <1>6, <1>7, Bounds, CommandKeeps DEF Busy

LEMMA ActivateKeeps == IInv /\ Activate => IInv'
<1> SUFFICES ASSUME IInv, Activate PROVE IInv'
  OBVIOUS
<1>1. PICK t \in Tabs(session) :
         /\ Command("Activate") /\ session' = [session EXCEPT !.active = t.id]
         /\ failures' = failures /\ dropped' = dropped /\ disk' = disk
  BY DEF Activate, Becomes, NoFailure, Keeps
<1> DEFINE u == [session EXCEPT !.active = t.id]
<1>2. Well(u, DOMAIN dropped, MaxRecords + failures)
  BY AnotherActive DEF IInv
<1>3. u.documents = session.documents /\ u.tabs = session.tabs /\ u \in Sessions
  <2>1. u \in Sessions
    BY <1>2 DEF Well, Sound
  <2> QED BY <2>1, Bounds, PartsAreTheirs
<1> HIDE DEF u
<1>4. Branches(u, disk) /\ Busy(u)
  BY <1>3, TabsAreThere DEF IInv, Branches, Tabs
<1>5. session' = u
  BY <1>1 DEF u
<1> QED BY <1>1, <1>2, <1>4, <1>5, Bounds, CommandKeeps

LEMMA MoveKeeps == IInv /\ Move => IInv'
<1> SUFFICES ASSUME IInv, Move PROVE IInv'
  OBVIOUS
<1>1. PICK i \in 1..Len(session.tabs) - 1 :
         /\ Command("Move")
         /\ session' = [session EXCEPT !.tabs[i] = session.tabs[i + 1],
                                       !.tabs[i + 1] = session.tabs[i]]
         /\ failures' = failures /\ dropped' = dropped /\ disk' = disk
  BY DEF Move, Becomes, NoFailure, Keeps
<1> DEFINE u == [session EXCEPT !.tabs[i] = session.tabs[i + 1],
                                !.tabs[i + 1] = session.tabs[i]]
<1>2. /\ Well(u, DOMAIN dropped, MaxRecords + failures)
      /\ u.documents = session.documents /\ u.tabs # <<>>
  <2>1. Well(session, DOMAIN dropped, MaxRecords + failures)
    BY DEF IInv
  <2>2. Opens(u, session, DOMAIN dropped, MaxRecords + failures)
    BY <2>1, NeighboursSwap
  <2> QED BY <2>2 DEF Opens
<1>3. session' = u
  BY <1>1
<1> HIDE DEF u
<1>4. Branches(u, disk) /\ Busy(u)
  BY <1>2 DEF IInv, Branches, Busy
<1> QED BY <1>1, <1>2, <1>3, <1>4, Bounds, CommandKeeps

LEMMA CloseKeepsAll == IInv /\ Close => IInv'
<1> SUFFICES ASSUME IInv, Close PROVE IInv'
  OBVIOUS
<1> DEFINE s == session
           limit == MaxRecords + failures
<1>1. PICK i \in DOMAIN s.tabs :
         /\ Command("Close") /\ Closable(s, s.tabs[i])
         /\ \/ session' = ClosedAt(s, i) /\ failures' = failures
            \/ RefusedClose(s.tabs[i])
         /\ dropped' = dropped /\ disk' = disk
  BY DEF Close, Becomes, NoFailure, Keeps
<1>2. /\ s \in Sessions /\ s.tabs \in Seq(TabStates) /\ s.records \in Seq(Records)
      /\ s.closed \in Seq(ClosedTabs) /\ Busy(s) /\ Well(s, DOMAIN dropped, limit)
      /\ Sound(s, DOMAIN dropped, limit) /\ limit \in Nat /\ MaxRecords <= limit
  BY <1>1, Bounds, SessionParts DEF IInv, Outside, Command, Well
<1>3. i \in Ids /\ s.tabs[i] \in Tabs(s) /\ s.tabs[i] \in TabStates
  BY <1>2, Elements DEF Ids, Tabs
<1>4. CASE session' = ClosedAt(s, i) /\ failures' = failures
  <2> DEFINE u == ClosedAs(s, i, i)
  <2>1. Closes(u, s, i, DOMAIN dropped, limit)
    <3> HIDE DEF s, limit
    <3> QED BY <1>1, <1>2, <1>3, CloseKeeps
  <2>2. session' = u
    BY <1>4 DEF ClosedAt
  <2> HIDE DEF u
  <2>3. Well(u, DOMAIN dropped, limit) /\ Branches(u, disk) /\ Busy(u)
    BY <1>2, <2>1 DEF Closes, Well, IInv, Branches, Busy
  <2> QED BY <1>1, <1>4, <2>2, <2>3, Bounds, CommandKeeps
<1>5. CASE RefusedClose(s.tabs[i])
  <2>1. failures' = failures + 1 /\ failures' \in Nat
    BY <1>5, Bounds DEF RefusedClose, Fails
  <2>2. /\ MaxRecords + failures' \in Nat /\ limit <= MaxRecords + failures'
        /\ limit + 1 <= MaxRecords + failures'
    BY <2>1, Bounds
  <2>3. CASE session' = session
    <3>1. Well(session, DOMAIN dropped, MaxRecords + failures')
      BY <1>2, <2>2, MoreAllowed
    <3> QED BY <1>1, <1>2, <2>1, <2>3, <3>1, Bounds, CommandKeeps DEF IInv
  <2>4. CASE session' = Stored(s, s.tabs[i])
    <3> DEFINE u == Stored(s, s.tabs[i])
    <3>1. /\ Well(u, DOMAIN dropped, limit + 1) /\ Busy(u)
          /\ u.documents = s.documents
      <4> HIDE DEF s, limit
      <4> QED BY <1>1, <1>2, StoredKeeps
    <3> HIDE DEF u
    <3>2. Well(u, DOMAIN dropped, MaxRecords + failures')
      <4>1. limit + 1 \in Nat /\ MaxRecords + failures' \in Nat
        BY <1>2, <2>2
      <4> QED BY <2>2, <3>1, <4>1, MoreAllowed
    <3>3. session' = u /\ Branches(u, disk)
      BY <2>4, <3>1 DEF u, IInv, Branches
    <3> QED BY <1>1, <2>1, <3>1, <3>2, <3>3, Bounds, CommandKeeps
  <2> QED BY <1>5, <2>3, <2>4 DEF RefusedClose, Becomes
<1> QED BY <1>1, <1>4, <1>5

\* Several at once, of which one may be refused.
LEMMA CloseSeveralKeeps ==
    ASSUME IInv, NEW command, NEW targets, targets \subseteq DOMAIN session.tabs,
           CloseSeveral(command, targets)
    PROVE  IInv'
<1> DEFINE s == session
           limit == MaxRecords + failures
           closable == {i \in targets : Closable(s, s.tabs[i])}
<1>1. /\ Command(command) /\ dropped' = dropped /\ disk' = disk
      /\ \/ session' = ClosedBatch(s, closable, {}) /\ NoFailure
         \/ Fails /\ \E i \in closable : \E stored \in SUBSET {i} :
                        session' = ClosedBatch(s, closable \ {i}, stored)
  BY DEF CloseSeveral, Becomes, Keeps
<1>2. PICK positions, stored :
         /\ session' = ClosedBatch(s, positions, stored)
         /\ Refusable(s, positions, stored)
         /\ (stored = {} /\ NoFailure) \/ Fails
  <2>1. CASE session' = ClosedBatch(s, closable, {}) /\ NoFailure
    <3>1. Refusable(s, closable, {})
      BY DEF Refusable
    <3> HIDE DEF s, closable
    <3> QED BY <2>1, <3>1
  <2>2. CASE Fails /\ \E i \in closable : \E stored \in SUBSET {i} :
                         session' = ClosedBatch(s, closable \ {i}, stored)
    <3>1. PICK i \in closable : \E stored \in SUBSET {i} :
             session' = ClosedBatch(s, closable \ {i}, stored)
      BY <2>2
    <3>2. PICK stored \in SUBSET {i} : session' = ClosedBatch(s, closable \ {i}, stored)
      BY <3>1
    <3>3. Refusable(s, closable \ {i}, stored)
      BY DEF Refusable
    <3> HIDE DEF s, closable
    <3> QED BY <2>2, <3>2, <3>3
  <2> QED BY <1>1, <2>1, <2>2
<1>3. Well(s, DOMAIN dropped, limit) /\ limit \in Nat /\ MaxRecords <= limit /\ Busy(s)
  BY <1>1, Bounds DEF IInv, Outside, Command
<1> DEFINE u == ClosedBatch(s, positions, stored)
           most == IF stored = {} THEN limit ELSE limit + 1
<1>4. BatchLeaves(u, s, DOMAIN dropped, most)
  <2> HIDE DEF s, limit
  <2> QED BY <1>2, <1>3, BatchCloses
<1>5. session' = u
  BY <1>2
<1> HIDE DEF u
<1>6. Well(u, DOMAIN dropped, most) /\ Branches(u, disk) /\ Busy(u)
  BY <1>3, <1>4 DEF BatchLeaves, IInv, Branches
<1>7. /\ failures' \in Nat /\ MaxRecords + failures' \in Nat
      /\ most \in Nat /\ most <= MaxRecords + failures'
  BY <1>2, Bounds DEF Fails, NoFailure
<1>8. Well(u, DOMAIN dropped, MaxRecords + failures')
  <2> HIDE DEF most
  <2> QED BY <1>6, <1>7, MoreAllowed
<1> QED BY <1>1, <1>5, <1>6, <1>7, <1>8, Bounds, CommandKeeps

LEMMA CloseAllKeeps == IInv /\ (CloseAll \/ CloseOthers) => IInv'
<1>1. ASSUME IInv, CloseAll PROVE IInv'
  BY <1>1, CloseSeveralKeeps DEF CloseAll
<1>2. ASSUME IInv, CloseOthers PROVE IInv'
  BY <1>2, CloseSeveralKeeps DEF CloseOthers
<1> QED BY <1>1, <1>2

\* Records that give no text any more, or none a second time.
LEMMA RecordsMayGo ==
    ASSUME IInv, NEW record \in ToSet(session.records)
    PROVE  /\ Well(Forgotten(record), DOMAIN dropped, MaxRecords + failures)
           /\ Forgotten(record).documents = session.documents
           /\ Forgotten(record).closed = session.closed
<1> DEFINE s == session
           limit == MaxRecords + failures
           q == Among(s.records, ToSet(s.records) \ {record})
           u == [s EXCEPT !.records = q]
<1>1. /\ s \in Sessions /\ s.records \in Seq(Records) /\ Well(s, DOMAIN dropped, limit)
      /\ Distinct(s.records) /\ Len(s.records) <= limit /\ History(s)
  BY Bounds, SessionParts DEF IInv, Well, Sound
<1>2. /\ q \in Seq(Records) /\ Picked(q, s.records) /\ Len(q) <= Len(s.records)
      /\ ToSet(q) = ToSet(s.records) \cap (ToSet(s.records) \ {record})
  BY <1>1, AmongThem
<1> HIDE DEF q
<1>3. Distinct(q) /\ Len(q) <= limit
  <2>1. Len(q) \in Nat /\ Len(s.records) \in Nat /\ limit \in Nat
    BY <1>1, <1>2, Bounds, LenProperties
  <2>2. Distinct(q)
    BY <1>1, <1>2, FewerElements
  <2>3. Len(q) <= limit
    <3> HIDE DEF limit, s
    <3> QED BY <1>1, <1>2, <2>1
  <2> QED BY <2>2, <2>3
<1>4. Forgotten(record) = u
  BY DEF Forgotten, q
<1>5. u \in Sessions
  <2> HIDE DEF s
  <2> QED BY <1>1, <1>2, PartsReplaced
<1>6. /\ u.documents = s.documents /\ u.tabs = s.tabs /\ u.active = s.active
      /\ u.closed = s.closed /\ u.records = q
  <2> HIDE DEF s
  <2> QED BY <1>1, PartsAreTheirs
<1> HIDE DEF u
<1>7. Well(u, DOMAIN dropped, limit)
  <2>1. \A x \in ToSet(u.records) :
           \/ \A c \in ToSet(s.closed) : c.record # x.id
           \/ \E y \in ToSet(s.records) :
                 /\ y.id = x.id
                 /\ y \in DocumentRecords =>
                       x \in DocumentRecords /\ x.document = y.document
    BY <1>2, <1>6
  <2>2. /\ ToSet(u.closed) \subseteq ToSet(s.closed) /\ DistinctTabs(u.closed)
        /\ Len(u.closed) <= MaxClosed
        /\ Distinct(u.records) /\ Len(u.records) <= limit
    BY <1>1, <1>3, <1>6 DEF History
  <2> HIDE DEF s, limit
  <2> QED BY <1>1, <1>5, <1>6, <2>1, <2>2, HistoriesMayChange
<1> QED BY <1>4, <1>6, <1>7

\* A record whose removal failed.
Taken(record) ==
    [session EXCEPT !.records = [i \in DOMAIN @ |->
        IF @[i] = record THEN [record EXCEPT !.taken = TRUE] ELSE @[i]]]

LEMMA RecordMayBeTaken ==
    ASSUME IInv, NEW record \in ToSet(session.records), record \in DocumentRecords
    PROVE  /\ Well(Taken(record), DOMAIN dropped, MaxRecords + failures)
           /\ Taken(record).documents = session.documents
           /\ Taken(record).closed = session.closed
<1> DEFINE s == session
           limit == MaxRecords + failures
           more == [record EXCEPT !.taken = TRUE]
           q == [i \in DOMAIN s.records |->
                   IF s.records[i] = record THEN more ELSE s.records[i]]
           u == [s EXCEPT !.records = q]
<1>1. /\ s \in Sessions /\ s.records \in Seq(Records) /\ Well(s, DOMAIN dropped, limit)
      /\ Distinct(s.records) /\ Len(s.records) <= limit /\ History(s)
  BY Bounds, SessionParts DEF IInv, Well, Sound
<1>2. /\ more \in DocumentRecords /\ more.id = record.id
      /\ more.document = record.document
  BY DEF DocumentRecords
<1>3. more \in Records
  BY <1>2 DEF Records
<1> HIDE DEF more
<1>4. DOMAIN s.records = 1..Len(s.records) /\ Len(s.records) \in Nat
      /\ \A i \in DOMAIN s.records : s.records[i] \in Records
  BY <1>1, Elements
<1>5. \A i \in DOMAIN q : /\ i \in DOMAIN s.records /\ q[i] \in Records
                          /\ q[i].id = s.records[i].id
                          /\ \/ q[i] = s.records[i]
                             \/ q[i] = more /\ s.records[i] = record
  BY <1>2, <1>3, <1>4
<1>6. q \in [1..Len(s.records) -> Records]
  BY <1>3, <1>4
<1>7. q \in Seq(Records)
  <2> HIDE DEF q, s
  <2> QED BY <1>4, <1>6, SeqDef
<1>8. Len(q) = Len(s.records) /\ DOMAIN q = DOMAIN s.records
  <2>1. DOMAIN q = 1..Len(s.records)
    BY <1>4
  <2> HIDE DEF q
  <2> QED BY <1>4, <1>7, <2>1, LenProperties
<1>9. Taken(record) = u
  BY DEF Taken, more
<1> HIDE DEF q
<1>10. Distinct(q)
  BY <1>1, <1>5 DEF Distinct
<1>11. u \in Sessions
  <2> HIDE DEF s
  <2> QED BY <1>1, <1>7, PartsReplaced
<1>12. /\ u.documents = s.documents /\ u.tabs = s.tabs /\ u.active = s.active
       /\ u.closed = s.closed /\ u.records = q
  <2> HIDE DEF s
  <2> QED BY <1>1, PartsAreTheirs
<1> HIDE DEF u
<1>13. Well(u, DOMAIN dropped, limit)
  <2>1. ASSUME NEW x \in ToSet(u.records)
        PROVE  \E y \in ToSet(s.records) :
                  /\ y.id = x.id
                  /\ y \in DocumentRecords =>
                        x \in DocumentRecords /\ x.document = y.document
    <3>1. PICK i \in DOMAIN q : q[i] = x
      BY <1>12, <2>1 DEF ToSet
    <3>2. s.records[i] \in ToSet(s.records) /\ s.records[i].id = x.id
      BY <1>5, <3>1 DEF ToSet
    <3> QED BY <1>2, <1>5, <3>1, <3>2
  <2>2. /\ ToSet(u.closed) \subseteq ToSet(s.closed) /\ DistinctTabs(u.closed)
        /\ Len(u.closed) <= MaxClosed
        /\ Distinct(u.records) /\ Len(u.records) <= limit
    BY <1>1, <1>8, <1>10, <1>12 DEF History
  <2> HIDE DEF s, limit
  <2> QED BY <1>1, <1>11, <1>12, <2>1, <2>2, HistoriesMayChange
<1> QED BY <1>9, <1>12, <1>13

LEMMA ReopenKeeps == IInv /\ Reopen => IInv'
<1> SUFFICES ASSUME IInv, Reopen PROVE IInv'
  OBVIOUS
<1> DEFINE s == session
           limit == MaxRecords + failures
           c == Last(s.closed)
<1>1. /\ Command("Reopen") /\ s.closed # <<>> /\ dropped' = dropped /\ disk' = disk
  BY DEF Reopen, Keeps
<1>2. /\ s \in Sessions /\ s.closed \in Seq(ClosedTabs) /\ Busy(s)
      /\ Well(s, DOMAIN dropped, limit) /\ History(s) /\ DistinctTabs(s.closed)
      /\ Distinct(s.records) /\ Len(s.records) <= limit
  BY <1>1, Bounds, SessionParts DEF IInv, Outside, Command, Well, Sound, History
<1>3. CASE \E t \in OnFile(s, c.tab.path) :
              /\ session' = [s EXCEPT !.active = t.id, !.closed = Front(@)]
              /\ failures' = failures
  <2>1. PICK t \in OnFile(s, c.tab.path) :
           session' = [s EXCEPT !.active = t.id, !.closed = Front(s.closed)]
    BY <1>3
  <2> DEFINE q == Front(s.closed)
             v == [s EXCEPT !.closed = q]
             u == [v EXCEPT !.active = t.id]
  <2>2. /\ q \in Seq(ClosedTabs) /\ ToSet(q) \subseteq ToSet(s.closed)
        /\ Len(q) <= Len(s.closed) /\ DistinctTabs(q)
    <3> HIDE DEF s
    <3> QED BY <1>1, <1>2, FrontOfClosed
  <2>3. [s EXCEPT !.active = t.id, !.closed = q] = u
    BY <1>2 DEF Sessions
  <2> HIDE DEF q
  <2>4. Len(q) <= MaxClosed
    <3>1. Len(q) \in Nat /\ Len(s.closed) \in Nat /\ Len(s.closed) <= MaxClosed
      BY <1>2, <2>2, LenProperties DEF History
    <3> QED BY <2>2, <3>1, Bounds
  <2>5. v \in Sessions
    <3> HIDE DEF s
    <3> QED BY <1>2, <2>2, PartsReplaced
  <2>6. /\ v.documents = s.documents /\ v.tabs = s.tabs /\ v.active = s.active
        /\ v.closed = q /\ v.records = s.records
    <3> HIDE DEF s
    <3> QED BY <1>2, PartsAreTheirs
  <2>7. session' = u
    BY <2>1, <2>3 DEF q
  <2> HIDE DEF v
  <2>8. Well(v, DOMAIN dropped, limit)
    <3>1. \A x \in ToSet(v.records) :
             \/ \A e \in ToSet(s.closed) : e.record # x.id
             \/ \E y \in ToSet(s.records) :
                   /\ y.id = x.id
                   /\ y \in DocumentRecords =>
                         x \in DocumentRecords /\ x.document = y.document
      BY <2>6
    <3>2. /\ ToSet(v.closed) \subseteq ToSet(s.closed) /\ DistinctTabs(v.closed)
          /\ Len(v.closed) <= MaxClosed
          /\ Distinct(v.records) /\ Len(v.records) <= limit
      BY <1>2, <2>2, <2>4, <2>6
    <3> HIDE DEF s, limit
    <3> QED BY <1>2, <2>5, <2>6, <3>1, <3>2, HistoriesMayChange
  <2>9. t \in Tabs(v) /\ t \in Tabs(s)
    BY <2>6 DEF OnFile, Tabs
  <2>10. Well(u, DOMAIN dropped, limit)
    BY <2>8, <2>9, AnotherActive
  <2>11. u.documents = s.documents /\ u.tabs = s.tabs
    <3> HIDE DEF s
    <3> QED BY <2>5, <2>6, PartsAreTheirs
  <2>12. u \in Sessions
    BY <2>10 DEF Well, Sound
  <2> HIDE DEF u
  <2>13. Branches(u, disk) /\ Busy(u)
    BY <2>9, <2>11, <2>12, TabsAreThere DEF IInv, Branches, Tabs
  <2> QED BY <1>1, <1>3, <2>7, <2>10, <2>13, Bounds, CommandKeeps
<1>4. CASE /\ OnFile(s, c.tab.path) = {}
           /\ \E r \in ToSet(s.records) : r.id = c.record /\ ReopenStored(r)
  <2>1. PICK r \in ToSet(s.records) : r.id = c.record /\ ReopenStored(r)
    BY <1>4
  <2>2. r \in DocumentRecords
    <3>1. c \in ToSet(s.closed)
      <4> HIDE DEF s
      <4> QED BY <1>1, <1>2, FrontOfClosed
    <3> QED BY <1>2, <2>1, <3>1 DEF History
  <2>3. CASE /\ session' = Reopened(r) /\ failures' = failures
             /\ r.document.path = Untitled \/ disk[r.document.path] # Missing
    <3> DEFINE u == Reopened(r)
    <3>1. Well(u, DOMAIN dropped, limit) /\ u.tabs # <<>> /\ Branches(u, disk)
      BY <1>1, <1>2, <1>4, <2>1, <2>3, Bounds, ReopenedKeeps DEF IInv
    <3> HIDE DEF u
    <3>2. session' = u /\ Busy(u)
      BY <2>3, <3>1 DEF u, Busy
    <3> QED BY <1>1, <2>3, <3>1, <3>2, Bounds, CommandKeeps
  <2>4. CASE session' = Forgotten(r) /\ failures' = failures
    <3> DEFINE u == Forgotten(r)
    <3>1. /\ Well(u, DOMAIN dropped, limit) /\ u.documents = s.documents
          /\ u.closed = s.closed
      BY RecordsMayGo
    <3> HIDE DEF u
    <3>2. session' = u /\ Busy(u) /\ Branches(u, disk)
      BY <1>1, <2>4, <3>1 DEF u, Busy, IInv, Branches
    <3> QED BY <1>1, <2>4, <3>1, <3>2, Bounds, CommandKeeps
  <2>5. CASE Fails /\ session' = Taken(r)
    <3> DEFINE u == Taken(r)
    <3>1. /\ Well(u, DOMAIN dropped, limit) /\ u.documents = s.documents
          /\ u.closed = s.closed
      BY <2>2, RecordMayBeTaken
    <3> HIDE DEF u
    <3>2. session' = u /\ Busy(u) /\ Branches(u, disk)
      BY <1>1, <2>5, <3>1 DEF u, Busy, IInv, Branches
    <3>3. failures' \in Nat /\ failures <= failures'
      BY <2>5, FailuresGrow, Bounds
    <3>4. Well(u, DOMAIN dropped, MaxRecords + failures')
      <4>1. /\ limit \in Nat /\ MaxRecords + failures' \in Nat
            /\ limit <= MaxRecords + failures'
        BY <3>3, Bounds
      <4> QED BY <3>1, <4>1, MoreAllowed
    <3> QED BY <1>1, <3>2, <3>3, <3>4, Bounds, CommandKeeps
  <2> QED BY <2>1, <2>3, <2>4, <2>5 DEF ReopenStored, Becomes, NoFailure, Taken
<1>5. \/ \E t \in OnFile(s, c.tab.path) :
            /\ session' = [s EXCEPT !.active = t.id, !.closed = Front(@)]
            /\ failures' = failures
      \/ /\ OnFile(s, c.tab.path) = {}
         /\ \E r \in ToSet(s.records) : r.id = c.record /\ ReopenStored(r)
  <2> DEFINE open == OnFile(s, c.tab.path)
             t == CHOOSE x \in open : TRUE
  <2>1. \/ /\ open # {} /\ failures' = failures
           /\ session' = [s EXCEPT !.active = t.id, !.closed = Front(@)]
        \/ /\ open = {}
           /\ \E r \in ToSet(s.records) : r.id = c.record /\ ReopenStored(r)
    BY DEF Reopen, Becomes, NoFailure
  <2>2. open # {} => t \in open
    OBVIOUS
  <2> HIDE DEF t
  <2> QED BY <2>1, <2>2
<1> QED BY <1>3, <1>4, <1>5

\* The forgotten documents' numbers stay taken.
LEMMA OpenDirectoryKeeps == IInv /\ OpenDirectory => IInv'
<1> SUFFICES ASSUME IInv, OpenDirectory PROVE IInv'
  OBVIOUS
<1> DEFINE s == session
           limit == MaxRecords + failures
           u == [s EXCEPT !.documents = <<>>]
<1>1. /\ Command("OpenDirectory") /\ session' = u /\ failures' = failures /\ disk' = disk
      /\ DOMAIN dropped' = DOMAIN s.documents \cup DOMAIN dropped
  BY DEF OpenDirectory, Becomes, NoFailure
<1>2. /\ s \in Sessions /\ Well(s, DOMAIN dropped, limit) /\ Busy(s)
      /\ DOMAIN s.documents \subseteq Ids /\ IsFiniteSet(DOMAIN s.documents)
  BY <1>1, Bounds, SessionParts DEF IInv, Outside, Command, Well, Sound
<1>3. Well(u, DOMAIN s.documents \cup DOMAIN dropped, limit)
  <2> HIDE DEF s, limit
  <2> QED BY <1>2, ForgottenKeeps
<1>4. /\ u.documents = <<>> /\ u.tabs = s.tabs /\ u.closed = s.closed
      /\ u.records = s.records
  <2> HIDE DEF s
  <2> QED BY <1>2, PartsAreTheirs
<1> HIDE DEF u
<1>5. DOMAIN u.documents = {}
  BY <1>4
<1>6. Branches(u, disk) /\ Busy(u)
  BY <1>2, <1>4, <1>5 DEF Branches, Busy
<1>7. running' = TRUE /\ blocked' = blocked /\ snapshot' = snapshot
  BY <1>1 DEF Command, IInv, Outside
<1>8. DOMAIN dropped' \subseteq Ids /\ IsFiniteSet(DOMAIN dropped')
  <2>1. IsFiniteSet(DOMAIN s.documents \cup DOMAIN dropped)
    BY <1>2, Bounds, FS_Union
  <2> QED BY <1>1, <1>2, <2>1 DEF IInv, Outside
<1>9. Outside'
  BY <1>1, <1>6, <1>7, <1>8 DEF IInv, Outside
<1>10. Well(session', DOMAIN dropped', MaxRecords + failures')
  BY <1>1, <1>3
<1>11. Branches(session', disk') /\ Restorable(snapshot')
  BY <1>1, <1>6, <1>7 DEF IInv
<1> QED BY <1>9, <1>10, <1>11 DEF IInv

LEMMA EndKeeps == IInv /\ (Quit \/ Crash) => IInv'
<1> SUFFICES ASSUME IInv, Quit \/ Crash PROVE IInv'
  OBVIOUS
<1>1. /\ running' = FALSE /\ session' = NoSession /\ dropped' = <<>>
      /\ disk' = disk /\ blocked' = blocked
      /\ snapshot' = SessionSnapshot \/ snapshot' = snapshot
      /\ Fails \/ NoFailure
  BY DEF Quit, Crash, Ends, NoFailure
<1>2. failures' \in Nat
  BY <1>1, FailuresGrow, Bounds
<1>3. DOMAIN <<>> = {}
  OBVIOUS
<1>4. Outside'
  BY <1>1, <1>2, <1>3, FS_EmptySet DEF IInv, Outside
<1>5. Well(session', DOMAIN dropped', MaxRecords + failures')
  <2>1. MaxRecords + failures' \in Nat
    BY <1>2, Bounds
  <2> QED BY <1>1, <2>1, NothingIsWell
<1>6. Branches(session', disk')
  BY <1>1, <1>3 DEF Branches, NoSession
<1>7. Restorable(snapshot')
  <2>1. Restorable(SessionSnapshot)
    BY SnapshotRestorable DEF IInv
  <2> QED BY <1>1, <2>1 DEF IInv
<1> QED BY <1>4, <1>5, <1>6, <1>7 DEF IInv

LEMMA StartKeeps == IInv /\ Start => IInv'
<1> SUFFICES ASSUME IInv, Start PROVE IInv'
  OBVIOUS
<1> DEFINE rs == RestoredSession
           s == rs.session
           limit == MaxRecords + failures
           chosen == [s EXCEPT !.active = IF rs.active = None THEN @ ELSE rs.active]
<1>1. PICK target \in Paths \cup {None} :
         /\ ~running
         /\ IF ActiveTab(chosen) = {} /\ snapshot # <<>>
            THEN blocked' = TRUE /\ UNCHANGED <<running, session>>
            ELSE /\ running' = TRUE /\ UNCHANGED blocked
                 /\ session' = Started(chosen, target)
         /\ UNCHANGED <<disk, snapshot, dropped, owed, counters>>
  BY DEF Start
<1>2. disk' = disk /\ snapshot' = snapshot /\ dropped' = dropped /\ failures' = failures
  BY <1>1 DEF counters
<1>3. CASE ActiveTab(chosen) = {} /\ snapshot # <<>>
  <2>1. blocked' = TRUE /\ running' = running /\ session' = session
    BY <1>1, <1>3
  <2> HIDE DEF chosen
  <2>2. Outside'
    BY <1>2, <2>1 DEF IInv, Outside
  <2>3. /\ Well(session', DOMAIN dropped', MaxRecords + failures')
        /\ Branches(session', disk') /\ Restorable(snapshot')
    BY <1>2, <2>1 DEF IInv
  <2> QED BY <2>2, <2>3 DEF IInv
<1>4. CASE ~(ActiveTab(chosen) = {} /\ snapshot # <<>>)
  <2>1. running' = TRUE /\ blocked' = blocked /\ session' = Started(chosen, target)
    BY <1>1, <1>4
  <2>2. limit \in Nat /\ MaxRecords <= limit /\ IsFiniteSet(DOMAIN dropped)
        /\ disk \in [Paths -> Files]
    BY Bounds
  <2>3. /\ Well(s, DOMAIN dropped, limit) /\ Branches(s, disk)
        /\ snapshot = <<>> => rs = [session |-> NoSession, active |-> None]
    <3> HIDE DEF limit
    <3> QED BY <2>2, AllRestored DEF IInv
  <2> HIDE DEF rs
  <2>4. s \in Sessions
    BY <2>3 DEF Well, Sound
  <2>5. Well(chosen, DOMAIN dropped, limit) /\ Branches(chosen, disk)
    <3>1. CASE snapshot = <<>>
      <4>1. s = NoSession /\ rs.active = None
        BY <2>3, <3>1
      <4>2. chosen = s
        BY <4>1 DEF NoSession
      <4> QED BY <2>3, <4>2
    <3>2. CASE snapshot # <<>>
      <4> DEFINE a == IF rs.active = None THEN s.active ELSE rs.active
      <4>1. chosen = [s EXCEPT !.active = a]
        OBVIOUS
      <4>2. chosen.active = a /\ chosen.tabs = s.tabs /\ chosen.documents = s.documents
        <5> HIDE DEF a
        <5>1. /\ [s EXCEPT !.active = a].active = a /\ [s EXCEPT !.active = a].tabs = s.tabs
              /\ [s EXCEPT !.active = a].documents = s.documents
          BY <2>4, PartsAreTheirs
        <5> QED BY <4>1, <5>1
      <4> HIDE DEF a, chosen
      <4>3. PICK t \in Tabs(s) : t.id = a
        BY <1>4, <3>2, <4>2 DEF ActiveTab, Tabs
      <4>4. Well(chosen, DOMAIN dropped, limit)
        <5>1. Well([s EXCEPT !.active = t.id], DOMAIN dropped, limit)
          BY <2>3, AnotherActive
        <5> QED BY <4>1, <4>3, <5>1
      <4> QED BY <2>3, <4>2, <4>4 DEF Branches
    <3> QED BY <3>1, <3>2
  <2> HIDE DEF chosen
  <2> DEFINE u == Started(chosen, target)
  <2>6. Well(u, DOMAIN dropped, limit) /\ Branches(u, disk) /\ u.tabs # <<>>
    <3> HIDE DEF limit
    <3> QED BY <2>2, <2>5, StartedKeeps
  <2>7. session' = u
    BY <2>1
  <2> HIDE DEF u
  <2>8. Outside'
    BY <1>2, <2>1, <2>6, <2>7 DEF IInv, Outside, Busy
  <2>9. /\ Well(session', DOMAIN dropped', MaxRecords + failures')
        /\ Branches(session', disk') /\ Restorable(snapshot')
    BY <1>2, <2>6, <2>7 DEF IInv
  <2> QED BY <2>8, <2>9 DEF IInv
<1> QED BY <1>3, <1>4

LEMMA ChangeKeeps == IInv /\ Change => IInv'
<1> SUFFICES ASSUME IInv, Change PROVE IInv'
  OBVIOUS
<1>1. PICK path \in Paths, content \in Contents \cup {Missing} :
         /\ OfPath(session, path) = {} /\ disk' = [disk EXCEPT ![path] = content]
         /\ blocked' = FALSE /\ running' = running /\ session' = session
         /\ snapshot' = snapshot /\ dropped' = dropped /\ failures' = failures
  BY DEF Change
<1>2. /\ disk' \in [Paths -> Files] /\ \A p \in Paths \ {path} : disk'[p] = disk[p]
  BY <1>1, Bounds DEF Files
<1>3. Branches(session', disk')
  <2>1. ASSUME NEW e \in DOMAIN session.documents
        PROVE  BranchesFrom(session.documents[e], disk')
    <3>1. session.documents[e] \in Documents
      BY Bounds, SessionParts
    <3>2. session.documents[e].path # path
      BY <1>1, <2>1 DEF OfPath
    <3> QED BY <1>2, <2>1, <3>1, <3>2, OthersBranchStill DEF IInv
  <2> QED BY <1>1, <2>1 DEF Branches
<1>4. Outside'
  BY <1>1, <1>2 DEF IInv, Outside
<1>5. Well(session', DOMAIN dropped', MaxRecords + failures') /\ Restorable(snapshot')
  BY <1>1 DEF IInv
<1> QED BY <1>3, <1>4, <1>5 DEF IInv

LEMMA StepKeeps == IInv /\ [Next]_vars => IInv'
<1> SUFFICES ASSUME IInv, [Next]_vars PROVE IInv'
  OBVIOUS
<1>1. CASE UNCHANGED vars
  <2>1. /\ disk' = disk /\ running' = running /\ session' = session
        /\ snapshot' = snapshot /\ dropped' = dropped /\ blocked' = blocked
        /\ failures' = failures
    BY <1>1 DEF vars, observers, counters
  <2>2. Outside'
    BY <2>1 DEF IInv, Outside
  <2>3. /\ Well(session', DOMAIN dropped', MaxRecords + failures')
        /\ Branches(session', disk') /\ Restorable(snapshot')
    BY <2>1 DEF IInv
  <2> QED BY <2>2, <2>3 DEF IInv
<1>2. CASE Next
  BY <1>2, EditKeeps, NewTabKeeps, OpenKeeps, SaveKeeps, SaveAllKeeps, SaveAsKeeps,
     ReloadKeeps, RenameKeeps, DeleteKeeps, ActivateKeeps, MoveKeeps, CloseKeepsAll,
     CloseAllKeeps, ReopenKeeps, OpenDirectoryKeeps, EndKeeps, StartKeeps, ChangeKeeps
     DEF Next
<1> QED BY <1>1, <1>2

-----------------------------------------------------------------------------
(* What the invariant says.                                                *)

LEMMA TypesHold == IInv => TypeOK
<1> SUFFICES ASSUME IInv PROVE TypeOK
  OBVIOUS
<1> DEFINE s == session
<1>1. /\ s \in Sessions /\ Distinct(s.tabs) /\ Selected(s) /\ Distinct(s.records)
      /\ Len(s.records) <= MaxRecords + failures /\ Len(s.closed) <= MaxClosed
  BY DEF IInv, Well, Sound, Arranged, History
<1>2. /\ s.documents \in [DOMAIN s.documents -> Documents]
      /\ s.tabs \in Seq(TabStates) /\ s.records \in Seq(Records)
      /\ s.closed \in Seq([tab : TabStates, index : Ids, record : Ids])
  <2> HIDE DEF s
  <2> QED BY <1>1, SessionParts DEF ClosedTabs
<1>3. ASSUME NEW S, NEW q \in Seq(S), Distinct(q)
      PROVE  Cardinality({e.id : e \in ToSet(q)}) = Len(q)
  <2> DEFINE T == {e.id : e \in ToSet(q)}
             f == [i \in 1..Len(q) |-> q[i].id]
  <2>1. Len(q) \in Nat /\ DOMAIN q = 1..Len(q)
    BY LenProperties
  <2>2. \A i \in 1..Len(q) : f[i] = q[i].id
    OBVIOUS
  <2>3. f = [i \in 1..Len(q) |-> f[i]]
    OBVIOUS
  <2>4. {f[i] : i \in 1..Len(q)} = T
    BY <2>1, <2>2 DEF ToSet
  <2> HIDE DEF f
  <2>5. \A i, j \in 1..Len(q) : f[i] = f[j] => i = j
    BY <1>3, <2>1, <2>2 DEF Distinct
  <2> HIDE DEF T
  <2>6. Cardinality({f[i] : i \in 1..Len(q)}) = Len(q)
    <3>1. Cardinality(Values(f, Len(q))) = Len(q)
      BY <2>1, <2>3, <2>5, FinitelyMany
    <3> QED BY <3>1 DEF Values
  <2> QED BY <2>4, <2>6 DEF T
<1>4. Cardinality({t.id : t \in Tabs(s)}) = Len(s.tabs)
  BY <1>1, <1>2, <1>3 DEF Tabs
<1>5. Cardinality({r.id : r \in ToSet(s.records)}) = Len(s.records)
  BY <1>1, <1>2, <1>3
<1>6. IF s.tabs = <<>> THEN s.active = None ELSE ActiveTab(s) # {}
  BY <1>1 DEF Selected
<1>7. running <=> s # NoSession
  BY DEF IInv, Outside, Busy, NoSession
<1>8. /\ disk \in [Paths -> Contents \cup {Missing}]
      /\ running \in BOOLEAN /\ blocked \in BOOLEAN
  BY DEF IInv, Outside, Files
<1> QED BY <1>1, <1>2, <1>4, <1>5, <1>6, <1>7, <1>8 DEF TypeOK

LEMMA TabsMirror == IInv => TabsMirrorWorkspace
<1> SUFFICES ASSUME IInv, dropped = <<>>
             PROVE  /\ {t.document : t \in Tabs(session)} = DOMAIN session.documents
                    /\ Cardinality(DOMAIN session.documents) = Len(session.tabs)
                    /\ \A t \in Tabs(session) : t.path = Doc(t.document).path
                    /\ \A p \in Paths : Cardinality(OfPath(session, p)) <= 1
  BY TypesHold DEF TabsMirrorWorkspace
<1> DEFINE s == session
           D == DOMAIN s.documents
<1>1. /\ s \in Sessions /\ Distinct(s.tabs) /\ OwnTab(s) /\ Backed(s, DOMAIN dropped)
      /\ OneDocument(s) /\ \A d \in D : HasTab(s, d)
  BY DEF IInv, Well, Sound, Arranged
<1>2. s.tabs \in Seq(TabStates) /\ Len(s.tabs) \in Nat /\ DOMAIN s.tabs = 1..Len(s.tabs)
  <2> HIDE DEF s
  <2>1. s.tabs \in Seq(TabStates)
    BY <1>1, SessionParts
  <2> QED BY <2>1, LenProperties
<1>3. DOMAIN dropped = {}
  OBVIOUS
<1>4. \A t \in Tabs(s) : Closable(s, t) /\ t.document \in D
                         /\ t.path = s.documents[t.document].path
  BY <1>1, <1>3 DEF Backed, Closable
<1>5. \A d \in D : \E t \in Tabs(s) : t.document = d
  BY <1>1, <1>4 DEF HasTab
<1>6. {t.document : t \in Tabs(s)} = D
  BY <1>4, <1>5
<1>7. Cardinality(D) = Len(s.tabs)
  <2> DEFINE f == [i \in 1..Len(s.tabs) |-> s.tabs[i].document]
  <2>1. \A i \in 1..Len(s.tabs) : f[i] = s.tabs[i].document /\ s.tabs[i] \in Tabs(s)
    BY <1>2 DEF Tabs, ToSet
  <2>2. f = [i \in 1..Len(s.tabs) |-> f[i]] /\ \A i \in 1..Len(s.tabs) : f[i] \in D
    BY <1>4, <2>1
  <2>3. \A t \in Tabs(s) : \E i \in 1..Len(s.tabs) : s.tabs[i] = t
    BY <1>2 DEF Tabs, ToSet
  <2> HIDE DEF f
  <2>4. {f[i] : i \in 1..Len(s.tabs)} = D
    <3>1. ASSUME NEW d \in D PROVE \E i \in 1..Len(s.tabs) : f[i] = d
      BY <1>5, <2>1, <2>3
    <3> QED BY <2>2, <3>1
  <2>5. \A i, j \in 1..Len(s.tabs) : f[i] = f[j] => i = j
    <3> TAKE i, j \in 1..Len(s.tabs)
    <3>1. f[i] = f[j] => s.tabs[i] = s.tabs[j]
      BY <1>1, <2>1 DEF OwnTab
    <3> QED BY <1>1, <1>2, <3>1 DEF Distinct
  <2> HIDE DEF D, s
  <2>6. Cardinality({f[i] : i \in 1..Len(s.tabs)}) = Len(s.tabs)
    <3>1. Cardinality(Values(f, Len(s.tabs))) = Len(s.tabs)
      BY <1>2, <2>2, <2>5, FinitelyMany
    <3> QED BY <3>1 DEF Values
  <2> QED BY <2>4, <2>6
<1>8. ASSUME NEW p \in Paths PROVE Cardinality(OfPath(s, p)) <= 1
  <2>1. p # Untitled
    BY SessionAssumption DEF Untitled
  <2>2. CASE OfPath(s, p) = {}
    BY <2>2, FS_EmptySet
  <2>3. CASE OfPath(s, p) # {}
    <3>1. PICK d \in OfPath(s, p) : TRUE
      BY <2>3
    <3>2. OfPath(s, p) = {d}
      BY <1>1, <2>1, <3>1 DEF OfPath, OneDocument
    <3>3. Cardinality({d}) = 1
      BY FS_Singleton
    <3> QED BY <3>2, <3>3
  <2> QED BY <2>2, <2>3
<1> QED BY <1>4, <1>6, <1>7, <1>8 DEF Doc

LEMMA EditsBranch == IInv => EditsBranchFromDisk
BY DEF IInv, Branches, BranchesFrom, EditsBranchFromDisk, Doc

\* The documents, the tabs, the closed tabs and the records stay consistent
\* through every sequence of commands, failures, exits and starts.
THEOREM SessionStaysWell == Spec => []IInv
<1>1. Init => IInv
  BY InitKeeps
<1>2. IInv /\ [Next]_vars => IInv'
  BY StepKeeps
<1> QED BY <1>1, <1>2, PTL DEF Spec

\* Every document has exactly one tab, which knows where it is, and no file is
\* open twice, until openDirectory forgets the documents.
THEOREM TabsAgreeWithWorkspace == Spec => []TabsMirrorWorkspace
<1>1. IInv => TabsMirrorWorkspace
  BY TabsMirror
<1> QED BY <1>1, SessionStaysWell, PTL

\* What a document would write over is what it was read from or last wrote,
\* but for a tab reopened after its file changed.
THEOREM EditsBranchFromFiles == Spec => []EditsBranchFromDisk
<1>1. IInv => EditsBranchFromDisk
  BY EditsBranch
<1> QED BY <1>1, SessionStaysWell, PTL
=============================================================================
