---------------------------- MODULE SequenceLemmas ----------------------------
(***************************************************************************)
(* What the proofs of several components need of sequences: their parts,   *)
(* and those with one element taken out or put in; and the least number of *)
(* a set, from which they reason over the length of a sequence.            *)
(***************************************************************************)
EXTENDS Naturals, Sequences, SequencesExt, SequenceTheorems, WellFoundedInduction, TLAPS

\* A sequence is one over any set that has its elements.
LEMMA SeqOver ==
    ASSUME NEW S, NEW T, NEW s \in Seq(S), \A i \in DOMAIN s : s[i] \in T
    PROVE  s \in Seq(T)
<1>1. Len(s) \in Nat /\ s \in [1..Len(s) -> S] /\ DOMAIN s = 1..Len(s)
  BY LenProperties
<1>2. s \in [1..Len(s) -> T]
  BY <1>1
<1> QED BY <1>1, <1>2, SeqDef

\* The part of a sequence from one place to another.
LEMMA PartOfSeq ==
    ASSUME NEW S, NEW s \in Seq(S), NEW m \in Nat \ {0}, NEW n \in Nat, n <= Len(s)
    PROVE  /\ SubSeq(s, m, n) \in Seq(S)
           /\ Len(SubSeq(s, m, n)) = IF m <= n THEN n - m + 1 ELSE 0
           /\ \A i \in 1..n - m + 1 : SubSeq(s, m, n)[i] = s[m + i - 1]
<1>1. \A i \in m..n : s[i] \in S
  BY ElementOfSeq, LenProperties
<1> QED BY <1>1, SubSeqProperties

\* A sequence without one of its elements.
LEMMA WithoutOne ==
    ASSUME NEW S, NEW s \in Seq(S), NEW i \in DOMAIN s
    PROVE  /\ RemoveAt(s, i) \in Seq(S)
           /\ Len(RemoveAt(s, i)) = Len(s) - 1
           /\ \A j \in DOMAIN RemoveAt(s, i) :
                 RemoveAt(s, i)[j] = s[IF j < i THEN j ELSE j + 1]
<1> DEFINE a == SubSeq(s, 1, i - 1)
           b == SubSeq(s, i + 1, Len(s))
<1>1. Len(s) \in Nat /\ DOMAIN s = 1..Len(s) /\ i \in 1..Len(s)
  BY LenProperties
<1>2. /\ a \in Seq(S) /\ Len(a) = i - 1
      /\ \A j \in 1..i - 1 : a[j] = s[j]
  <2>1. i - 1 \in Nat /\ 1 \in Nat \ {0} /\ i - 1 <= Len(s)
    BY <1>1
  <2>2. /\ a \in Seq(S) /\ Len(a) = IF 1 <= i - 1 THEN i - 1 - 1 + 1 ELSE 0
        /\ \A j \in 1..i - 1 - 1 + 1 : a[j] = s[1 + j - 1]
    BY <2>1, PartOfSeq
  <2> HIDE DEF a
  <2> QED BY <1>1, <2>2
<1>3. /\ b \in Seq(S) /\ Len(b) = Len(s) - i
      /\ \A j \in 1..Len(s) - i : b[j] = s[i + j]
  <2>1. i + 1 \in Nat \ {0}
    BY <1>1
  <2>2. /\ b \in Seq(S) /\ Len(b) = IF i + 1 <= Len(s) THEN Len(s) - (i + 1) + 1 ELSE 0
        /\ \A j \in 1..Len(s) - (i + 1) + 1 : b[j] = s[i + 1 + j - 1]
    BY <1>1, <2>1, PartOfSeq
  <2> HIDE DEF b
  <2>3. Len(s) - (i + 1) + 1 = Len(s) - i
    BY <1>1
  <2>4. Len(b) = Len(s) - i
    BY <1>1, <2>2
  <2>5. \A j \in 1..Len(s) - i : i + 1 + j - 1 = i + j
    BY <1>1
  <2>6. \A j \in 1..Len(s) - i : b[j] = s[i + j]
    BY <2>2, <2>3, <2>5
  <2> QED BY <2>2, <2>4, <2>6
<1>4. RemoveAt(s, i) = a \o b
  BY DEF RemoveAt
<1> HIDE DEF a, b
<1>5. /\ a \o b \in Seq(S) /\ Len(a \o b) = Len(a) + Len(b)
      /\ \A j \in 1..Len(a) + Len(b) :
            (a \o b)[j] = IF j <= Len(a) THEN a[j] ELSE b[j - Len(a)]
  BY <1>2, <1>3, ConcatProperties
<1>6. DOMAIN (a \o b) = 1..Len(s) - 1 /\ Len(a \o b) = Len(s) - 1
  <2>1. Len(a) + Len(b) = Len(s) - 1
    BY <1>1, <1>2, <1>3
  <2>2. DOMAIN (a \o b) = 1..Len(a \o b)
    BY <1>5, LenProperties
  <2> QED BY <1>5, <2>1, <2>2
<1>7. \A j \in 1..Len(s) - 1 : (a \o b)[j] = s[IF j < i THEN j ELSE j + 1]
  <2> TAKE j \in 1..Len(s) - 1
  <2>1. j \in 1..Len(a) + Len(b)
    BY <1>1, <1>2, <1>3
  <2>2. CASE j < i
    BY <1>1, <1>2, <1>5, <2>1, <2>2
  <2>3. CASE ~(j < i)
    <3>1. j - Len(a) \in 1..Len(s) - i /\ ~(j <= Len(a)) /\ i + (j - Len(a)) = j + 1
      BY <1>1, <1>2, <2>3
    <3>2. (a \o b)[j] = b[j - Len(a)]
      BY <1>5, <2>1, <3>1
    <3> QED BY <1>3, <2>3, <3>1, <3>2
  <2> QED BY <2>2, <2>3
<1> QED BY <1>4, <1>5, <1>6, <1>7

\* A set of numbers has a least one.
LEMMA LeastNumber ==
    ASSUME NEW S, S \subseteq Nat, S # {}
    PROVE  \E n \in S : \A m \in S : n <= m
<1> DEFINE R == OpToRel(<, Nat)
<1>1. IsWellFoundedOn(R, Nat)
  BY NatLessThanWellFounded
<1>2. \A m, n \in Nat : m < n => <<m, n>> \in R
  BY DEF OpToRel
<1> HIDE DEF R
<1>3. PICK n \in S : \A m \in S : ~ (<<m, n>> \in R)
  BY <1>1, WFMin
<1>4. ASSUME NEW m \in S PROVE n <= m
  <2>1. ~(m < n)
    BY <1>2, <1>3
  <2> QED BY <2>1
<1> QED BY <1>4

\* What holds of 0, and of n whenever it holds of n - 1, holds of all up to N.
LEMMA UpTo ==
    ASSUME NEW N \in Nat, NEW P, 0 \in P, \A n \in 1..N : n - 1 \in P => n \in P
    PROVE  \A n \in 0..N : n \in P
<1> DEFINE Bad == (0..N) \ P
<1>1. SUFFICES ASSUME Bad # {} PROVE FALSE
  OBVIOUS
<1>2. PICK n \in Bad : \A m \in Bad : n <= m
  <2>1. Bad \subseteq Nat
    OBVIOUS
  <2> HIDE DEF Bad
  <2> QED BY <1>1, <2>1, LeastNumber
<1>3. n # 0 /\ n \in 1..N /\ n - 1 \in 0..N /\ n - 1 \notin Bad
  BY <1>2
<1> QED BY <1>2, <1>3

\* A value carried from 0 to N: each one is made of the one before by the step of its number.
Iterates(f, N, base, step) == f[0] = base /\ \A n \in 1..N : f[n] = step[n][f[n - 1]]

LEMMA Recursion ==
    ASSUME NEW N \in Nat, NEW D, NEW base \in D, NEW step \in [1..N -> [D -> D]]
    PROVE  \E f \in [0..N -> D] : Iterates(f, N, base, step)
<1> DEFINE Run(f, n) == f \in [0..n -> D] /\ f[0] = base /\ \A k \in 1..n : f[k] = step[k][f[k - 1]]
           Runs == {n \in 0..N : \E f : Run(f, n)}
<1>1. 0 \in Runs
  <2>1. Run([k \in 0..0 |-> base], 0)
    OBVIOUS
  <2> HIDE DEF Run
  <2> QED BY <2>1
<1>2. ASSUME NEW n \in 1..N, n - 1 \in Runs PROVE n \in Runs
  <2>1. PICK f : Run(f, n - 1)
    BY <1>2
  <2> DEFINE g == [k \in 0..n |-> IF k = n THEN step[n][f[n - 1]] ELSE f[k]]
  <2>2. n \in Nat \ {0} /\ n \in 0..N /\ f[n - 1] \in D /\ step[n] \in [D -> D]
    BY <2>1
  <2>3. g \in [0..n -> D] /\ g[0] = base
    BY <2>1, <2>2
  <2>4. ASSUME NEW k \in 1..n PROVE g[k] = step[k][g[k - 1]]
    <3>1. k - 1 \in 0..n /\ k - 1 # n /\ k \in 0..n
      BY <2>2
    <3>2. g[k - 1] = f[k - 1]
      BY <3>1
    <3>3. CASE k = n
      BY <3>1, <3>2, <3>3
    <3>4. CASE k # n
      <4>1. k \in 1..n - 1
        BY <2>2, <3>4
      <4> QED BY <2>1, <3>1, <3>2, <3>4, <4>1
    <3> QED BY <3>3, <3>4
  <2> HIDE DEF g
  <2>5. Run(g, n)
    BY <2>3, <2>4
  <2> HIDE DEF Run
  <2> QED BY <2>2, <2>5
<1>3. N \in Runs
  <2> HIDE DEF Runs
  <2>1. \A n \in 0..N : n \in Runs
    BY <1>1, <1>2, UpTo
  <2> QED BY <2>1
<1>4. PICK f : Run(f, N)
  BY <1>3
<1> QED BY <1>4 DEF Iterates

\* Nothing else is lost with an element taken out.
LEMMA OthersStay ==
    ASSUME NEW S, NEW s \in Seq(S), NEW i \in DOMAIN s, NEW k \in DOMAIN s, k # i
    PROVE  \E j \in DOMAIN RemoveAt(s, i) : RemoveAt(s, i)[j] = s[k]
<1> DEFINE t == RemoveAt(s, i)
<1>1. /\ t \in Seq(S) /\ Len(t) = Len(s) - 1
      /\ \A j \in DOMAIN t : t[j] = s[IF j < i THEN j ELSE j + 1]
  BY WithoutOne
<1> HIDE DEF t
<1>2. DOMAIN s = 1..Len(s) /\ Len(s) \in Nat /\ DOMAIN t = 1..Len(s) - 1
  BY <1>1, LenProperties
<1>3. CASE k < i
  <2>1. k \in DOMAIN t
    BY <1>2, <1>3
  <2>2. t[k] = s[k]
    BY <1>1, <1>3, <2>1
  <2> QED BY <2>1, <2>2 DEF t
<1>4. CASE ~(k < i)
  <2>1. k - 1 \in DOMAIN t /\ ~(k - 1 < i) /\ k - 1 + 1 = k
    BY <1>2, <1>4
  <2>2. t[k - 1] = s[k]
    BY <1>1, <2>1
  <2> QED BY <2>1, <2>2 DEF t
<1> QED BY <1>3, <1>4

\* The elements of one sequence are those at different places of another.
Picked(t, s) == \E at \in [DOMAIN t -> DOMAIN s] :
    /\ \A i, j \in DOMAIN t : at[i] = at[j] => i = j
    /\ \A i \in DOMAIN t : t[i] = s[at[i]]

\* A sequence without an element is picked from it.
LEMMA WithoutOneIsPicked ==
    ASSUME NEW S, NEW s \in Seq(S), NEW i \in DOMAIN s
    PROVE  /\ Picked(RemoveAt(s, i), s)
           /\ \A e : e # s[i] /\ (\E k \in DOMAIN s : s[k] = e) =>
                 \E j \in DOMAIN RemoveAt(s, i) : RemoveAt(s, i)[j] = e
<1> DEFINE t == RemoveAt(s, i)
           at == [j \in DOMAIN t |-> IF j < i THEN j ELSE j + 1]
<1>1. /\ t \in Seq(S) /\ Len(t) = Len(s) - 1
      /\ \A j \in DOMAIN t : t[j] = s[IF j < i THEN j ELSE j + 1]
  BY WithoutOne
<1> HIDE DEF t
<1>2. DOMAIN s = 1..Len(s) /\ Len(s) \in Nat /\ DOMAIN t = 1..Len(s) - 1 /\ i \in Nat
  BY <1>1, LenProperties
<1>3. at \in [DOMAIN t -> DOMAIN s]
  BY <1>2
<1>4. \A j, k \in DOMAIN t : at[j] = at[k] => j = k
  BY <1>2
<1>5. \A j \in DOMAIN t : t[j] = s[at[j]]
  BY <1>1
<1>6. Picked(t, s)
  BY <1>3, <1>4, <1>5 DEF Picked
<1> QED BY <1>6, OthersStay DEF t

\* The last part of a sequence, and the first, are picked from it.
LEMMA PartIsPicked ==
    ASSUME NEW S, NEW s \in Seq(S), NEW m \in Nat \ {0}, NEW n \in Nat, n <= Len(s)
    PROVE  Picked(SubSeq(s, m, n), s)
<1> DEFINE t == SubSeq(s, m, n)
           at == [j \in DOMAIN t |-> m + j - 1]
<1>1. /\ t \in Seq(S) /\ Len(t) = IF m <= n THEN n - m + 1 ELSE 0
      /\ \A j \in 1..n - m + 1 : t[j] = s[m + j - 1]
  BY PartOfSeq
<1> HIDE DEF t
<1>2. DOMAIN s = 1..Len(s) /\ Len(s) \in Nat /\ DOMAIN t = 1..Len(t) /\ Len(t) \in Nat
  BY <1>1, LenProperties
<1>3. \A j \in DOMAIN t : j \in 1..n - m + 1 /\ m + j - 1 \in DOMAIN s
  BY <1>1, <1>2
<1>4. at \in [DOMAIN t -> DOMAIN s]
  BY <1>3
<1>5. \A j, k \in DOMAIN t : at[j] = at[k] => j = k
  BY <1>2
<1>6. \A j \in DOMAIN t : t[j] = s[at[j]]
  BY <1>1, <1>3
<1> QED BY <1>4, <1>5, <1>6 DEF Picked, t

\* A sequence with one element more.
LEMMA OneInserted ==
    ASSUME NEW S, NEW s \in Seq(S), NEW k \in 1..Len(s) + 1, NEW e \in S
    PROVE  /\ InsertAt(s, k, e) \in Seq(S)
           /\ Len(InsertAt(s, k, e)) = Len(s) + 1
           /\ \A i \in 1..Len(s) + 1 : InsertAt(s, k, e)[i] =
                 IF i < k THEN s[i] ELSE IF i = k THEN e ELSE s[i - 1]
<1> DEFINE a == SubSeq(s, 1, k - 1)
           b == SubSeq(s, k, Len(s))
           u == <<e>>
<1>1. Len(s) \in Nat /\ k \in Nat \ {0} /\ k - 1 \in Nat /\ k - 1 <= Len(s)
  BY LenProperties
<1>2. /\ a \in Seq(S) /\ Len(a) = k - 1 /\ \A i \in 1..k - 1 : a[i] = s[i]
  <2>1. /\ a \in Seq(S) /\ Len(a) = IF 1 <= k - 1 THEN k - 1 - 1 + 1 ELSE 0
        /\ \A i \in 1..k - 1 - 1 + 1 : a[i] = s[1 + i - 1]
    BY <1>1, PartOfSeq
  <2> HIDE DEF a
  <2>2. k - 1 - 1 + 1 = k - 1 /\ \A i \in 1..k - 1 : 1 + i - 1 = i
    BY <1>1
  <2> QED BY <1>1, <2>1, <2>2
<1>3. /\ b \in Seq(S) /\ Len(b) = Len(s) - k + 1
      /\ \A i \in 1..Len(s) - k + 1 : b[i] = s[k + i - 1]
  <2>1. /\ b \in Seq(S) /\ Len(b) = IF k <= Len(s) THEN Len(s) - k + 1 ELSE 0
        /\ \A i \in 1..Len(s) - k + 1 : b[i] = s[k + i - 1]
    BY <1>1, PartOfSeq
  <2> HIDE DEF b
  <2> QED BY <1>1, <2>1
<1>4. u \in Seq(S) /\ Len(u) = 1 /\ u[1] = e
  OBVIOUS
<1>5. InsertAt(s, k, e) = (a \o u) \o b
  BY DEF InsertAt
<1> HIDE DEF a, b, u
<1>6. /\ a \o u \in Seq(S) /\ Len(a \o u) = Len(a) + Len(u)
      /\ \A i \in 1..Len(a) + Len(u) :
            (a \o u)[i] = IF i <= Len(a) THEN a[i] ELSE u[i - Len(a)]
  BY <1>2, <1>4, ConcatProperties
<1>7. Len(a \o u) = k /\ \A i \in 1..k : (a \o u)[i] = IF i < k THEN s[i] ELSE e
  <2>1. Len(a) + Len(u) = k /\ k - Len(a) = 1
    BY <1>1, <1>2, <1>4
  <2>2. ASSUME NEW i \in 1..k, i < k PROVE (a \o u)[i] = s[i]
    <3>1. i <= Len(a) /\ i \in 1..k - 1
      BY <1>1, <1>2, <2>2
    <3> QED BY <1>2, <1>6, <2>1, <3>1
  <2>3. (a \o u)[k] = e
    <3>1. ~(k <= Len(a)) /\ k \in 1..k
      BY <1>1, <1>2
    <3> QED BY <1>4, <1>6, <2>1, <3>1
  <2>4. \A i \in 1..k : ~(i < k) => i = k
    BY <1>1
  <2> QED BY <1>6, <2>1, <2>2, <2>3, <2>4
<1>8. /\ (a \o u) \o b \in Seq(S) /\ Len((a \o u) \o b) = Len(a \o u) + Len(b)
      /\ \A i \in 1..Len(a \o u) + Len(b) :
            ((a \o u) \o b)[i] = IF i <= Len(a \o u) THEN (a \o u)[i] ELSE b[i - Len(a \o u)]
  <2>1. \A v \in Seq(S) : /\ v \o b \in Seq(S) /\ Len(v \o b) = Len(v) + Len(b)
                          /\ \A i \in 1..Len(v) + Len(b) :
                                (v \o b)[i] = IF i <= Len(v) THEN v[i] ELSE b[i - Len(v)]
    BY <1>3, ConcatProperties
  <2>2. a \o u \in Seq(S)
    BY <1>6
  <2> QED BY <2>1, <2>2, Zenon
<1> DEFINE t == (a \o u) \o b
<1>9. Len(a \o u) + Len(b) = Len(s) + 1
  BY <1>1, <1>3, <1>7
<1>10. \A i \in 1..Len(s) + 1 : t[i] = IF i <= k THEN (a \o u)[i] ELSE b[i - k]
  BY <1>7, <1>8, <1>9
<1> HIDE DEF t
<1>11. ASSUME NEW i \in 1..Len(s) + 1
       PROVE  t[i] = IF i < k THEN s[i] ELSE IF i = k THEN e ELSE s[i - 1]
  <2>1. CASE i <= k
    <3>1. i \in 1..k
      BY <1>1, <2>1
    <3> QED BY <1>1, <1>7, <1>10, <2>1, <3>1
  <2>2. CASE ~(i <= k)
    <3>1. i - k \in 1..Len(s) - k + 1 /\ k + (i - k) - 1 = i - 1 /\ ~(i < k) /\ i # k
      BY <1>1, <2>2
    <3>2. t[i] = b[i - k]
      BY <1>10, <2>2
    <3>3. b[i - k] = s[k + (i - k) - 1]
      BY <1>3, <3>1
    <3> QED BY <3>1, <3>2, <3>3
  <2> QED BY <2>1, <2>2
<1> QED BY <1>5, <1>8, <1>9, <1>11 DEF t
===============================================================================
