------------------------- MODULE VersionListProofs -------------------------
(***************************************************************************)
(* What apply(), its trimming and read() do to a well-formed chain, as     *)
(* lemmas on the operators of VersionList.                                 *)
(***************************************************************************)
EXTENDS VersionList, WellFoundedInduction, TLAPS

Descending(s) == \A i, j \in DOMAIN s : i < j => s[i] > s[j]

\* last_version, once set, points to the oldest version that has data: the
\* last of the chain, or the last before the empty version.
LastIsOldest(e) ==
    e.last_version # NullVersion =>
        \E p \in DOMAIN e.versions :
            /\ e.versions[p] = e.last_version
            /\ \/ p = Len(e.versions)
               \/ p = Len(e.versions) - 1 /\ e.versions[Len(e.versions)] = 0

WellFormed(e) ==
    /\ e \in Entry
    /\ Len(e.versions) = e.num_versions + 1
    /\ e.versions[1] = e.highest_version_written
    /\ Descending(e.versions)
    /\ LastIsOldest(e)

-----------------------------------------------------------------------------

\* A set of version numbers has a smallest one.
LEMMA SmallestExists ==
  ASSUME NEW S, S \subseteq Nat, S # {}
  PROVE  \E x \in S : \A y \in S : x <= y
<1>1. PICK x \in S : \A y \in S : ~(<<y, x>> \in OpToRel(<, Nat))
  BY NatLessThanWellFounded, WFMin
<1>2. \A y \in S : ~(y < x)
  BY <1>1 DEF OpToRel
<1> QED
  BY <1>2

\* A bounded set of version numbers has a largest one.
LEMMA LargestExists ==
  ASSUME NEW S, S \subseteq Nat, S # {}, NEW b \in Nat, \A y \in S : y <= b
  PROVE  \E x \in S : \A y \in S : y <= x
<1> DEFINE T == {b - y : y \in S}
<1>1. T \subseteq Nat
  OBVIOUS
<1>2. PICK d \in T : \A e \in T : d <= e
  <2>1. T # {}
    OBVIOUS
  <2> HIDE DEF T
  <2> QED
    BY <1>1, <2>1, SmallestExists
<1>3. PICK x \in S : d = b - x
  OBVIOUS
<1>4. \A y \in S : b - x <= b - y
  BY <1>2, <1>3
<1> QED
  BY <1>4

\* A new partition_entry is well formed.
LEMMA NewEntryWellFormed == WellFormed(NewEntry)
  BY DEF WellFormed, NewEntry, Entry, Descending, LastIsOldest, NullVersion

\* What is on a well-formed chain are numbers.
LEMMA LinkedAreNumbers ==
  ASSUME NEW e, WellFormed(e), NEW n \in Linked(e)
  PROVE  n \in Nat
  BY DEF WellFormed, Entry, Linked

\* The front of a well-formed chain is its largest number.
LEMMA FrontIsLargest ==
  ASSUME NEW e, WellFormed(e), NEW n \in Linked(e)
  PROVE  n <= e.highest_version_written
<1> DEFINE s == e.versions
           m == Len(s)
<1>1. /\ s \in Seq(Nat) /\ DOMAIN s = 1 .. m /\ m \in Nat
      /\ s[1] = e.highest_version_written /\ Linked(e) = {s[i] : i \in 1 .. m}
  BY DEF WellFormed, Entry, Linked
<1>2. \A i, j \in 1 .. m : i < j => s[i] > s[j]
  BY <1>1 DEF WellFormed, Descending
<1> HIDE DEF s, m
<1>3. \A i \in 1 .. m : s[i] \in Nat /\ s[i] <= s[1]
  BY <1>1, <1>2
<1> QED
  BY <1>1, <1>3

\* A write that apply() does not drop goes above everything written and, if it
\* carries a version, above everything read.
LEMMA PromotedIsAbove ==
  ASSUME NEW e \in Entry, NEW vtw \in Nat, ~Dropped(e, vtw)
  PROVE  /\ Promoted(e, vtw) \in Nat
         /\ Promoted(e, vtw) > e.highest_version_written
         /\ vtw # 0 => Promoted(e, vtw) > e.highest_version_read
  BY DEF Promoted, Dropped, Entry

\* The list operation of apply(): one element in front.
LEMMA PrependShape ==
  ASSUME NEW s \in Seq(Nat), NEW n \in Nat
  PROVE  /\ <<n>> \o s \in Seq(Nat)
         /\ Len(<<n>> \o s) = Len(s) + 1
         /\ (<<n>> \o s)[1] = n
         /\ \A i \in DOMAIN s : (<<n>> \o s)[i + 1] = s[i]
         /\ \A i \in DOMAIN (<<n>> \o s) : i # 1 =>
               i - 1 \in DOMAIN s /\ (<<n>> \o s)[i] = s[i - 1]
  OBVIOUS

\* Concatenation, element by element.
LEMMA ConcatShape ==
  ASSUME NEW a \in Seq(Nat), NEW b \in Seq(Nat)
  PROVE  /\ a \o b \in Seq(Nat)
         /\ Len(a \o b) = Len(a) + Len(b)
         /\ \A k \in 1 .. (Len(a) + Len(b)) :
               (a \o b)[k] = IF k <= Len(a) THEN a[k] ELSE b[k - Len(a)]
  OBVIOUS

\* The list operation of the trimming: one element out, the rest in order.
LEMMA UnlinkShape ==
  ASSUME NEW s \in Seq(Nat), NEW i \in DOMAIN s
  PROVE  /\ Unlink(s, i) \in Seq(Nat)
         /\ Len(Unlink(s, i)) = Len(s) - 1
         /\ \A k \in DOMAIN Unlink(s, i) :
               Unlink(s, i)[k] = IF k < i THEN s[k] ELSE s[k + 1]
<1> DEFINE a == SubSeq(s, 1, i - 1)
           b == SubSeq(s, i + 1, Len(s))
<1>1. /\ a \in Seq(Nat) /\ Len(a) = i - 1
      /\ \A k \in 1 .. (i - 1) : a[k] = s[k]
  OBVIOUS
<1>2. /\ b \in Seq(Nat) /\ Len(b) = Len(s) - i
      /\ \A k \in 1 .. (Len(s) - i) : b[k] = s[i + k]
  <2>1. i \in Nat /\ Len(s) \in Nat /\ i >= 1 /\ i <= Len(s)
    OBVIOUS
  <2>2. \A k \in (i + 1) .. Len(s) : s[k] \in Nat
    BY <2>1
  <2>3. b \in Seq(Nat)
    BY <2>1, <2>2, SMTT(30)
  <2>4. Len(b) = Len(s) - i
    BY <2>1, SMTT(30)
  <2>5. \A k \in 1 .. (Len(s) - i) : b[k] = s[i + k]
    BY <2>1, SMTT(30)
  <2> QED
    BY <2>3, <2>4, <2>5
<1> HIDE DEF a, b
<1>3. /\ a \o b \in Seq(Nat)
      /\ Len(a \o b) = Len(s) - 1
      /\ \A k \in 1 .. (Len(s) - 1) :
            (a \o b)[k] = IF k < i THEN a[k] ELSE b[k - (i - 1)]
  <2>1. Len(a) + Len(b) = Len(s) - 1
    BY <1>1, <1>2
  <2>2. \A k \in 1 .. (Len(s) - 1) : (k <= Len(a)) = (k < i)
    BY <1>1
  <2>3. a \in Seq(Nat) /\ b \in Seq(Nat)
    BY <1>1, <1>2
  <2>4. /\ a \o b \in Seq(Nat)
        /\ Len(a \o b) = Len(a) + Len(b)
        /\ \A k \in 1 .. (Len(a) + Len(b)) :
              (a \o b)[k] = IF k <= Len(a) THEN a[k] ELSE b[k - Len(a)]
    BY <2>3, ConcatShape, Zenon
  <2>5. Len(a) = i - 1
    BY <1>1
  <2> QED
    BY <2>1, <2>2, <2>4, <2>5, Zenon
<1>4. ASSUME NEW k \in 1 .. (Len(s) - 1)
      PROVE  (a \o b)[k] = IF k < i THEN s[k] ELSE s[k + 1]
  <2>1. CASE k < i
    BY <2>1, <1>1, <1>3
  <2>2. CASE ~(k < i)
    <3>1. k - (i - 1) \in 1 .. (Len(s) - i) /\ i + (k - (i - 1)) = k + 1
      BY <2>2
    <3> QED
      BY <2>2, <3>1, <1>2, <1>3
  <2> QED
    BY <2>1, <2>2
<1>5. Unlink(s, i) = a \o b
  BY DEF Unlink, a, b
<1>6. DOMAIN (a \o b) = 1 .. (Len(s) - 1)
  BY <1>3
<1> QED
  BY <1>3, <1>4, <1>5, <1>6

-----------------------------------------------------------------------------

\* In a well-formed chain last_version has exactly one position, and it is the
\* last but for the empty version.
LEMMA PositionOfLast ==
  ASSUME NEW e, WellFormed(e), e.last_version # NullVersion
  PROVE  /\ Position(e.versions, e.last_version) \in DOMAIN e.versions
         /\ e.versions[Position(e.versions, e.last_version)] = e.last_version
         /\ \/ Position(e.versions, e.last_version) = Len(e.versions)
            \/ /\ Position(e.versions, e.last_version) = Len(e.versions) - 1
               /\ e.versions[Len(e.versions)] = 0
<1>1. PICK p \in DOMAIN e.versions :
         /\ e.versions[p] = e.last_version
         /\ \/ p = Len(e.versions)
            \/ p = Len(e.versions) - 1 /\ e.versions[Len(e.versions)] = 0
  BY DEF WellFormed, LastIsOldest
<1>2. \A q \in DOMAIN e.versions : e.versions[q] = e.last_version => q = p
  <2>1. SUFFICES ASSUME NEW q \in DOMAIN e.versions,
                        e.versions[q] = e.last_version, q # p
                 PROVE  FALSE
    OBVIOUS
  <2>2. e.versions \in Seq(Nat) /\ Descending(e.versions)
    BY DEF WellFormed, Entry
  <2>3. p < q \/ q < p
    BY <2>1, <2>2
  <2>4. e.versions[p] \in Nat /\ e.versions[q] \in Nat
    BY <2>2
  <2> QED
    BY <1>1, <2>1, <2>2, <2>3, <2>4 DEF Descending
<1>3. Position(e.versions, e.last_version) = p
  BY <1>1, <1>2 DEF Position
<1> QED
  BY <1>1, <1>3

\* Inserting a version keeps the chain well formed.
LEMMA InsertedWellFormed ==
  ASSUME NEW e, WellFormed(e), NEW vtw \in Nat, ~Dropped(e, vtw)
  PROVE  /\ WellFormed(Inserted(e, vtw))
         /\ Linked(Inserted(e, vtw)) = Linked(e) \union {Promoted(e, vtw)}
         /\ Inserted(e, vtw).highest_version_read = e.highest_version_read
         /\ Inserted(e, vtw).highest_version_written = Promoted(e, vtw)
         /\ Inserted(e, vtw).num_versions = e.num_versions + 1
<1> DEFINE n == Promoted(e, vtw)
           s == e.versions
           f == Inserted(e, vtw)
           t == <<n>> \o s
<1>1. e \in Entry /\ s \in Seq(Nat) /\ Len(s) \in Nat /\ Len(s) >= 1
  BY DEF WellFormed, Entry
<1>2. n \in Nat /\ n > e.highest_version_written
  BY <1>1, PromotedIsAbove
<1>3. /\ t \in Seq(Nat)
      /\ Len(t) = Len(s) + 1
      /\ t[1] = n
      /\ \A i \in DOMAIN s : t[i + 1] = s[i]
      /\ \A i \in DOMAIN t : i # 1 => i - 1 \in DOMAIN s /\ t[i] = s[i - 1]
  BY <1>1, <1>2, PrependShape, Zenon
<1>4. /\ f.versions = t
      /\ f.highest_version_read = e.highest_version_read
      /\ f.highest_version_written = n
      /\ f.num_versions = e.num_versions + 1
      /\ f.last_version = IF n = 1 THEN n ELSE e.last_version
  BY <1>1 DEF Inserted, Entry
<1>5. f \in Entry
  <2> DEFINE l == IF n = 1 THEN n ELSE e.last_version
  <2>1. f = [e EXCEPT !.versions = t,
                      !.highest_version_written = n,
                      !.num_versions = e.num_versions + 1,
                      !.last_version = l]
    BY DEF Inserted
  <2>2. l \in Nat /\ e.num_versions + 1 \in Nat
    BY <1>1, <1>2 DEF Entry
  <2> HIDE DEF t, n, f, l
  <2> QED
    BY <1>1, <1>2, <1>3, <2>1, <2>2 DEF Entry
<1>0. s[1] = e.highest_version_written /\ Descending(s) /\ s = e.versions
  BY DEF WellFormed
<1> HIDE DEF t, f, n, s
<1>6. Descending(t)
  <2>1. SUFFICES ASSUME NEW i \in DOMAIN t, NEW j \in DOMAIN t, i < j
                 PROVE  t[i] > t[j]
    BY DEF Descending
  <2>2. j # 1 /\ j - 1 \in DOMAIN s /\ t[j] = s[j - 1]
    BY <2>1, <1>3
  <2>3. s[1] = e.highest_version_written /\ Descending(s)
    BY <1>0
  <2>4. s[1] >= s[j - 1]
    BY <1>1, <2>2, <2>3 DEF Descending
  <2>5. CASE i = 1
    <3>1. t[1] > s[1] /\ s[1] \in Nat /\ s[j - 1] \in Nat /\ t[1] \in Nat
      BY <1>1, <1>2, <1>3, <2>2, <2>3, SMTT(30) DEF Entry
    <3> QED
      BY <2>2, <2>4, <2>5, <3>1
  <2>6. CASE i # 1
    <3>1. i - 1 \in DOMAIN s /\ t[i] = s[i - 1] /\ i - 1 < j - 1
      BY <1>1, <1>3, <2>1, <2>6
    <3> QED
      BY <2>2, <2>3, <3>1 DEF Descending
  <2> QED
    BY <2>5, <2>6
<1>7. LastIsOldest(f)
  <2>1. CASE n = 1
    <3>1. s[1] = 0
      BY <1>0, <1>1, <1>2, <2>1 DEF Entry
    <3>2. Len(s) = 1
      <4>1. SUFFICES ASSUME Len(s) # 1 PROVE FALSE
        OBVIOUS
      <4>2. FALSE
        <5>0. Len(s) \in Nat /\ Len(s) >= 2
          <6> DEFINE m == Len(s)
          <6>1. m \in Nat /\ m >= 1 /\ m # 1
            BY <1>1, <4>1
          <6> HIDE DEF m
          <6>2. m >= 2
            BY <6>1
          <6> QED
            BY <6>1, <6>2 DEF m
        <5>1. 1 \in DOMAIN s /\ 2 \in DOMAIN s /\ s[2] \in Nat
          BY <1>1, <5>0
        <5>2. s[1] > s[2]
          BY <1>0, <5>1 DEF Descending
        <5> QED
          BY <3>1, <5>1, <5>2
      <4> QED
        BY <4>2
    <3>3. 1 \in DOMAIN t /\ Len(t) = 2 /\ t[2] = 0 /\ t[1] = 1
      BY <1>1, <1>3, <2>1, <3>1, <3>2
    <3> QED
      BY <1>4, <2>1, <3>3 DEF LastIsOldest
  <2>2. CASE n # 1
    <3>1. SUFFICES ASSUME e.last_version # NullVersion
                   PROVE  \E p \in DOMAIN t :
                            /\ t[p] = e.last_version
                            /\ \/ p = Len(t)
                               \/ p = Len(t) - 1 /\ t[Len(t)] = 0
      BY <1>4, <2>2 DEF LastIsOldest
    <3>2. PICK p \in DOMAIN s :
             /\ s[p] = e.last_version
             /\ \/ p = Len(s)
                \/ p = Len(s) - 1 /\ s[Len(s)] = 0
      BY <3>1, <1>0 DEF WellFormed, LastIsOldest
    <3>3. p + 1 \in DOMAIN t /\ t[p + 1] = s[p]
      BY <1>1, <1>3
    <3>4. t[Len(t)] = s[Len(s)]
      <4>1. Len(s) \in DOMAIN s
        BY <1>1
      <4> QED
        BY <1>3, <4>1
    <3>5. p + 1 = Len(t) \/ (p + 1 = Len(t) - 1 /\ t[Len(t)] = 0)
      <4>1. Len(t) = Len(s) + 1 /\ Len(s) \in Nat /\ p \in Nat
        BY <1>1, <1>3
      <4>2. CASE p = Len(s)
        BY <4>1, <4>2
      <4>3. CASE p = Len(s) - 1 /\ s[Len(s)] = 0
        BY <3>4, <4>1, <4>3
      <4> QED
        BY <3>2, <4>2, <4>3
    <3>6. t[p + 1] = e.last_version
      BY <3>2, <3>3
    <3> QED
      BY <3>3, <3>5, <3>6, Zenon
  <2> QED
    BY <2>1, <2>2
<1>8. Linked(f) = Linked(e) \union {n}
  <2>1. \A x \in Linked(f) : x \in Linked(e) \union {n}
    <3>1. \A i \in DOMAIN t : t[i] = n \/ \E j \in DOMAIN s : t[i] = s[j]
      BY <1>3, Zenon
    <3> QED
      BY <1>0, <1>4, <3>1 DEF Linked
  <2>2. n \in Linked(f)
    <3>1. 1 \in DOMAIN t
      BY <1>1, <1>3
    <3> QED
      BY <1>0, <1>3, <1>4, <3>1 DEF Linked
  <2>3. \A x \in Linked(e) : x \in Linked(f)
    <3>1. \A i \in DOMAIN s : i + 1 \in DOMAIN t
      BY <1>1, <1>3
    <3> QED
      BY <1>0, <1>3, <1>4, <3>1 DEF Linked
  <2> QED
    BY <2>1, <2>2, <2>3
<1>9. Len(t) = f.num_versions + 1 /\ t[1] = f.highest_version_written
  BY <1>0, <1>1, <1>3, <1>4 DEF WellFormed, Entry
<1>10. WellFormed(f)
  BY <1>4, <1>5, <1>6, <1>7, <1>9 DEF WellFormed
<1> QED
  BY <1>4, <1>8, <1>10 DEF f, n

\* Trimming a chain that does not fault keeps it well formed.  The one version
\* it unlinks is the empty one or the oldest with data, and then no snapshot is
\* open on it; the front stays.
LEMMA CollectedWellFormed ==
  ASSUME NEW e, WellFormed(e), NEW pinned, ~GCFaults(e, pinned)
  PROVE  LET f == Collected(e, pinned)
         IN  /\ WellFormed(f)
             /\ f.highest_version_read = e.highest_version_read
             /\ f.highest_version_written = e.highest_version_written
             /\ f.num_versions = e.num_versions - 1
             /\ \E x \in Linked(e) :
                   /\ Linked(f) = Linked(e) \ {x}
                   /\ x = 0 \/ x \notin pinned
                   /\ \A y \in Linked(f) : y = 0 \/ x < y
<1> DEFINE s == e.versions
           p == Position(e.versions, e.last_version)
           g == GCPosition(e, pinned)
           t == Unlink(s, g + 1)
           f == Collected(e, pinned)
           m == Len(s)
<1>1. /\ e \in Entry /\ s \in Seq(Nat) /\ m \in Nat /\ s = e.versions
      /\ s[1] = e.highest_version_written /\ Descending(s)
      /\ m = e.num_versions + 1 /\ DOMAIN s = 1 .. m
      /\ e.num_versions \in Nat
  BY DEF WellFormed, Entry
<1>2. e.last_version # NullVersion /\ g \in 1 .. (m - 1)
  BY DEF GCFaults
<1>3. /\ p \in 1 .. m
      /\ s[p] = e.last_version
      /\ \/ p = m
         \/ p = m - 1 /\ s[m] = 0
  BY <1>1, <1>2, PositionOfLast
<1>4. g = IF e.last_version \in pinned THEN p ELSE p - 1
  BY DEF GCPosition
<1> HIDE DEF p, g, m
<1>5. m \in Nat /\ g \in Nat /\ 1 <= g /\ g + 1 <= m /\ m >= 2 /\ g + 1 \in 1 .. m
  <2>1. m \in Nat
    BY <1>1
  <2> QED
    BY <1>2, <2>1
<1>6. /\ t \in Seq(Nat)
      /\ Len(t) = m - 1
      /\ \A k \in DOMAIN t : t[k] = IF k < g + 1 THEN s[k] ELSE s[k + 1]
  <2>1. g + 1 \in DOMAIN s
    BY <1>1, <1>5
  <2> QED
    BY <1>1, <2>1, UnlinkShape, Zenon DEF m
<1>7. /\ f.versions = t
      /\ f.highest_version_read = e.highest_version_read
      /\ f.highest_version_written = e.highest_version_written
      /\ f.num_versions = e.num_versions - 1
      /\ f.last_version = s[g]
  BY <1>1 DEF Collected, Entry, g
<1>8. \A i \in 1 .. m : s[i] \in Nat
  BY <1>1
<1>9. f \in Entry
  <2>1. f = [e EXCEPT !.versions = t,
                      !.last_version = s[g],
                      !.num_versions = e.num_versions - 1]
    BY DEF Collected, g
  <2>2. s[g] \in Nat
    BY <1>5, <1>8
  <2>3. e.num_versions - 1 \in Nat
    <3>1. e.num_versions \in Nat /\ m = e.num_versions + 1
      BY <1>1
    <3> QED
      BY <1>5, <3>1
  <2> HIDE DEF t, f, s
  <2> QED
    BY <1>1, <1>6, <2>1, <2>2, <2>3 DEF Entry
<1> HIDE DEF t, f, s
\* The same facts without sequences, for the arithmetic below.
<1>10. \A i, j \in 1 .. m : i < j => s[i] > s[j]
  BY <1>1 DEF Descending
<1>11. /\ DOMAIN t = 1 .. (m - 1)
       /\ \A k \in 1 .. (m - 1) : k <= g => t[k] = s[k]
       /\ \A k \in 1 .. (m - 1) : k > g => t[k] = s[k + 1]
  <2>1. DOMAIN t = 1 .. (m - 1)
    BY <1>6
  <2>2. \A k \in 1 .. (m - 1) : t[k] = IF k < g + 1 THEN s[k] ELSE s[k + 1]
    BY <1>6, <2>1
  <2> QED
    BY <1>5, <2>1, <2>2
<1>12. /\ DOMAIN s = 1 .. m
       /\ Linked(e) = {s[i] : i \in 1 .. m}
       /\ Linked(f) = {t[i] : i \in 1 .. (m - 1)}
  BY <1>1, <1>7, <1>11 DEF Linked
<1>13. /\ p \in Nat
       /\ \/ g = p /\ e.last_version \in pinned
          \/ g = p - 1 /\ e.last_version \notin pinned
       /\ p = m \/ (p = m - 1 /\ s[m] = 0)
       /\ s[p] = e.last_version
  BY <1>3, <1>4, <1>5
<1>14. Descending(t)
  <2>1. SUFFICES ASSUME NEW i \in 1 .. (m - 1), NEW j \in 1 .. (m - 1), i < j
                 PROVE  t[i] > t[j]
    BY <1>11 DEF Descending
  <2>2. CASE j <= g
    BY <1>5, <1>10, <1>11, <2>1, <2>2
  <2>3. CASE i <= g /\ j > g
    BY <1>5, <1>10, <1>11, <2>1, <2>3
  <2>4. CASE i > g
    BY <1>5, <1>10, <1>11, <2>1, <2>4
  <2> QED
    BY <1>5, <2>2, <2>3, <2>4
<1>15. t[1] = s[1] /\ t[g] = s[g]
  BY <1>5, <1>11
<1>16. LastIsOldest(f)
  <2>1. CASE g = m - 1
    <3>1. g \in DOMAIN t /\ g = Len(t)
      BY <1>5, <1>6, <1>11, <2>1
    <3> QED
      BY <1>7, <1>15, <3>1 DEF LastIsOldest
  <2>2. CASE g # m - 1
    <3>1. g = m - 2 /\ s[m] = 0
      BY <1>5, <1>13, <2>2
    <3>2. t[m - 1] = 0
      BY <1>5, <1>11, <3>1
    <3>3. g \in DOMAIN t /\ g = Len(t) - 1 /\ t[Len(t)] = 0
      <4>1. g \in 1 .. (m - 1) /\ g = (m - 1) - 1
        BY <1>5, <3>1
      <4> QED
        BY <1>6, <1>11, <3>2, <4>1
    <3> QED
      BY <1>7, <1>15, <3>3 DEF LastIsOldest
  <2> QED
    BY <2>1, <2>2
<1>17. WellFormed(f)
  <2>1. e.num_versions \in Nat /\ m = e.num_versions + 1
    BY <1>1 DEF m
  <2>2. Len(t) = f.num_versions + 1
    BY <1>6, <1>7, <2>1
  <2>3. t[1] = f.highest_version_written
    BY <1>1, <1>7, <1>15
  <2> QED
    BY <1>7, <1>9, <1>14, <1>16, <2>2, <2>3 DEF WellFormed
<1> DEFINE x == s[g + 1]
<1>18. x \in Linked(e) /\ Linked(f) = Linked(e) \ {x}
  <2>1. x \in Linked(e)
    BY <1>5, <1>12
  <2>2. ASSUME NEW y \in Linked(f) PROVE y \in Linked(e) /\ y # x
    <3>1. PICK i \in 1 .. (m - 1) : y = t[i]
      BY <1>12
    <3>2. CASE i <= g
      <4>1. i \in 1 .. m /\ y = s[i] /\ s[i] > s[g + 1]
        BY <1>5, <1>10, <1>11, <3>1, <3>2
      <4> QED
        BY <1>5, <1>8, <1>12, <4>1
    <3>3. CASE i > g
      <4>1. i + 1 \in 1 .. m /\ y = s[i + 1] /\ s[g + 1] > s[i + 1]
        BY <1>5, <1>10, <1>11, <3>1, <3>3
      <4> QED
        BY <1>5, <1>8, <1>12, <4>1
    <3> QED
      BY <1>5, <3>2, <3>3
  <2>3. ASSUME NEW y \in Linked(e), y # x PROVE y \in Linked(f)
    <3>1. PICK k \in 1 .. m : y = s[k]
      BY <1>12
    <3>2. k # g + 1
      BY <2>3, <3>1
    <3>3. CASE k < g + 1
      <4>1. k \in 1 .. (m - 1) /\ t[k] = y
        BY <1>5, <1>11, <3>1, <3>3
      <4> QED
        BY <1>12, <4>1
    <3>4. CASE k > g + 1
      <4>1. k - 1 \in 1 .. (m - 1) /\ t[k - 1] = y
        BY <1>5, <1>11, <3>1, <3>4
      <4> QED
        BY <1>12, <4>1
    <3> QED
      BY <1>5, <3>2, <3>3, <3>4
  <2> QED
    BY <2>1, <2>2, <2>3
<1>19. x = 0 \/ x \notin pinned
  BY <1>5, <1>13
<1>20. \A y \in Linked(f) : y = 0 \/ x < y
  <2>1. SUFFICES ASSUME NEW y \in Linked(f), y # 0 PROVE x < y
    OBVIOUS
  <2>2. PICK i \in 1 .. (m - 1) : y = t[i]
    BY <1>12
  <2>3. CASE i <= g
    BY <1>5, <1>8, <1>10, <1>11, <2>2, <2>3
  <2>4. CASE i > g
    BY <1>5, <1>11, <1>13, <2>1, <2>2, <2>4
  <2> QED
    BY <1>5, <2>3, <2>4
<1> HIDE DEF x
<1> QED
  BY <1>7, <1>17, <1>18, <1>19, <1>20 DEF f

\* The whole of apply(), when it does not fault: the chain stays well formed
\* and within the window, and what leaves it is older than all that stays and
\* has no snapshot open on it.
LEMMA AppliedWellFormed ==
  ASSUME NEW e, WellFormed(e), e.num_versions <= MaxVersions,
         NEW vtw \in Nat, NEW pinned,
         ~Dropped(e, vtw), ~ApplyFaults(e, vtw, pinned)
  PROVE  LET f == Applied(e, vtw, pinned)
             n == Promoted(e, vtw)
         IN  /\ WellFormed(f)
             /\ f.num_versions <= MaxVersions
             /\ f.highest_version_read = e.highest_version_read
             /\ f.highest_version_written = n
             /\ \A y \in Linked(f) : y \in Linked(e) \/ y = n
             /\ \A y \in Linked(e) \union {n} : y \notin Linked(f) =>
                   /\ y = 0 \/ y \notin pinned
                   /\ \A z \in Linked(f) : z = 0 \/ y < z
             /\ \A y, z \in Linked(e) \union {n} :
                   y \notin Linked(f) /\ z \notin Linked(f) => y = z
<1> DEFINE f == Applied(e, vtw, pinned)
           n == Promoted(e, vtw)
           i == Inserted(e, vtw)
           Goal == /\ WellFormed(f)
                   /\ f.num_versions <= MaxVersions
                   /\ f.highest_version_read = e.highest_version_read
                   /\ f.highest_version_written = n
                   /\ \A y \in Linked(f) : y \in Linked(e) \/ y = n
                   /\ \A y \in Linked(e) \union {n} : y \notin Linked(f) =>
                         /\ y = 0 \/ y \notin pinned
                         /\ \A z \in Linked(f) : z = 0 \/ y < z
                   /\ \A y, z \in Linked(e) \union {n} :
                         y \notin Linked(f) /\ z \notin Linked(f) => y = z
<1>1. SUFFICES Goal
  OBVIOUS
<1>2. /\ WellFormed(i)
      /\ Linked(i) = Linked(e) \union {n}
      /\ i.highest_version_read = e.highest_version_read
      /\ i.highest_version_written = n
      /\ i.num_versions = e.num_versions + 1
  BY InsertedWellFormed
<1>3. e.num_versions \in Nat /\ MaxVersions \in Nat
  BY MaxVersionsAssumption DEF WellFormed, Entry
<1>4. CASE ~NeedsGC(i)
  <2>1. f = i
    BY <1>4 DEF Applied
  <2>2. i.num_versions <= MaxVersions
    BY <1>2, <1>3, <1>4 DEF NeedsGC
  <2> HIDE DEF f, i, n
  <2> QED
    BY <1>2, <2>1, <2>2
<1>5. CASE NeedsGC(i)
  <2>1. f = Collected(i, pinned)
    BY <1>5 DEF Applied
  <2>2. ~GCFaults(i, pinned)
    BY <1>5 DEF ApplyFaults
  <2> HIDE DEF f, i, n
  <2>3. /\ WellFormed(f)
        /\ f.highest_version_read = i.highest_version_read
        /\ f.highest_version_written = i.highest_version_written
        /\ f.num_versions = i.num_versions - 1
        /\ \E x \in Linked(i) :
              /\ Linked(f) = Linked(i) \ {x}
              /\ x = 0 \/ x \notin pinned
              /\ \A y \in Linked(f) : y = 0 \/ x < y
    BY <1>2, <2>1, <2>2, CollectedWellFormed
  <2>4. f.num_versions <= MaxVersions
    BY <1>2, <1>3, <2>3
  <2> QED
    BY <1>2, <2>3, <2>4, Zenon
<1> QED
  BY <1>4, <1>5

-----------------------------------------------------------------------------

\* The scan of read() stops at most once.
LEMMA ScanStopsOnce ==
  ASSUME NEW s \in Seq(Nat), NEW vtr \in Nat,
         NEW i \in ScanStop(s, vtr), NEW j \in ScanStop(s, vtr)
  PROVE  i = j
<1>1. /\ i \in DOMAIN s /\ s[i] <= vtr /\ \A k \in 1 .. (i - 1) : s[k] > vtr
      /\ j \in DOMAIN s /\ s[j] <= vtr /\ \A k \in 1 .. (j - 1) : s[k] > vtr
  BY DEF ScanStop
<1>2. i \in Nat /\ j \in Nat /\ i >= 1 /\ j >= 1 /\ s[i] \in Nat /\ s[j] \in Nat
  BY <1>1
<1> QED
  BY <1>1, <1>2

\* read() opens a version of the chain; one at or below the version asked for
\* is the newest such, and has data.
LEMMA VersionReadIsNewestBelow ==
  ASSUME NEW e, WellFormed(e), e.highest_version_written > 0, NEW vtr \in Nat
  PROVE  LET n == VersionRead(e.versions, vtr)
         IN  /\ n \in Linked(e)
             /\ n # 0
             /\ vtr > 0 /\ n <= vtr => \A y \in Linked(e) : ~(n < y /\ y <= vtr)
<1> DEFINE s == e.versions
           n == VersionRead(s, vtr)
           m == Len(s)
<1>1. /\ s \in Seq(Nat) /\ DOMAIN s = 1 .. m /\ m \in Nat /\ m >= 1
      /\ s[1] = e.highest_version_written /\ Linked(e) = {s[i] : i \in 1 .. m}
  <2>1. e \in Entry /\ m = e.num_versions + 1 /\ s[1] = e.highest_version_written
    BY DEF WellFormed
  <2>2. s \in Seq(Nat) /\ e.num_versions \in Nat
    BY <2>1 DEF Entry
  <2>3. DOMAIN s = 1 .. m /\ m \in Nat /\ m >= 1
    BY <2>1, <2>2
  <2>4. Linked(e) = {s[i] : i \in 1 .. m}
    BY <2>3 DEF Linked
  <2> QED
    BY <2>1, <2>2, <2>3, <2>4
<1>2. \A i, j \in 1 .. m : i < j => s[i] > s[j]
  BY <1>1 DEF WellFormed, Descending
<1> DEFINE Goal == /\ n \in Linked(e)
                   /\ n # 0
                   /\ vtr > 0 /\ n <= vtr => \A y \in Linked(e) : ~(n < y /\ y <= vtr)
<1>0. SUFFICES Goal
  OBVIOUS
<1> HIDE DEF s, m
<1>3. m \in Nat /\ m >= 1 /\ \A i \in 1 .. m : s[i] \in Nat
  BY <1>1
<1>4. s[1] \in Linked(e) /\ s[1] # 0
  BY <1>1, <1>3
<1>5. CASE vtr = 0
  BY <1>4, <1>5 DEF VersionRead
<1>6. CASE vtr > 0 /\ FallsBack(s, vtr)
  <2>1. n = s[1]
    BY <1>6 DEF VersionRead
  <2>2. s[1] > vtr
    <3>1. SUFFICES ASSUME s[1] <= vtr PROVE FALSE
      BY <1>3
    <3>2. 1 \in ScanStop(s, vtr)
      BY <1>1, <1>3, <3>1 DEF ScanStop
    <3> QED
      BY <1>4, <1>6, <3>2 DEF FallsBack
  <2> QED
    BY <1>3, <1>4, <2>1, <2>2
<1>7. CASE vtr > 0 /\ ~FallsBack(s, vtr)
  <2>1. PICK i \in ScanStop(s, vtr) : s[i] # 0
    BY <1>7 DEF FallsBack
  <2>2. i \in DOMAIN s /\ i \in 1 .. m /\ s[i] <= vtr /\ \A j \in 1 .. (i - 1) : s[j] > vtr
    BY <1>1, <2>1 DEF ScanStop
  <2>3. n = s[i]
    <3>1. n = s[CHOOSE k \in DOMAIN s : k \in ScanStop(s, vtr)]
      BY <1>7 DEF VersionRead
    <3>2. \A k \in ScanStop(s, vtr) : k = i
      BY <1>1, <2>1, ScanStopsOnce
    <3>3. (CHOOSE k \in DOMAIN s : k \in ScanStop(s, vtr)) = i
      BY <2>1, <2>2, <3>2
    <3> QED
      BY <3>1, <3>3
  <2>4. \A k \in 1 .. m : ~(s[i] < s[k] /\ s[k] <= vtr)
    BY <1>2, <1>3, <2>2
  <2> QED
    BY <1>1, <2>1, <2>2, <2>3, <2>4
<1> QED
  BY <1>5, <1>6, <1>7

\* Conversely, the newest version with data at or below vtr is the one read.
LEMMA NewestBelowIsRead ==
  ASSUME NEW e, WellFormed(e), NEW vtr \in Nat, NEW n \in Linked(e),
         n # 0, n <= vtr,
         \A y \in Linked(e) : ~(n < y /\ y <= vtr)
  PROVE  VersionRead(e.versions, vtr) = n
<1> DEFINE s == e.versions
           m == Len(s)
<1>1. /\ s \in Seq(Nat) /\ DOMAIN s = 1 .. m /\ m \in Nat
      /\ Linked(e) = {s[i] : i \in 1 .. m}
  BY DEF WellFormed, Entry, Linked
<1>2. \A i, j \in 1 .. m : i < j => s[i] > s[j]
  BY <1>1 DEF WellFormed, Descending
<1> HIDE DEF s, m
<1>3. m \in Nat /\ \A i \in 1 .. m : s[i] \in Nat
  BY <1>1
<1>4. PICK i \in 1 .. m : n = s[i]
  BY <1>1
<1>5. \A j \in 1 .. (i - 1) : s[j] > vtr
  <2>1. SUFFICES ASSUME NEW j \in 1 .. (i - 1) PROVE s[j] > vtr
    OBVIOUS
  <2>2. j \in 1 .. m /\ s[j] > s[i] /\ s[j] \in Nat
    BY <1>2, <1>3, <1>4
  <2>3. s[j] \in Linked(e)
    BY <1>1, <2>2
  <2> QED
    BY <1>3, <1>4, <2>2, <2>3
<1>6. i \in ScanStop(s, vtr) /\ i \in DOMAIN s
  BY <1>1, <1>4, <1>5 DEF ScanStop
<1>7. \A k \in ScanStop(s, vtr) : k = i
  BY <1>1, <1>6, ScanStopsOnce
<1>8. vtr # 0 /\ ~FallsBack(s, vtr)
  BY <1>3, <1>4, <1>6 DEF FallsBack
<1>9. (CHOOSE k \in DOMAIN s : k \in ScanStop(s, vtr)) = i
  BY <1>6, <1>7
<1>10. VersionRead(s, vtr) = n
  BY <1>4, <1>8, <1>9 DEF VersionRead
<1> QED
  BY <1>10 DEF s
=============================================================================
