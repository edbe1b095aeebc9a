------------------------- MODULE VersionHeapProofs -------------------------
(***************************************************************************)
(* The objects behind a version chain: their pointers hold through every   *)
(* operation and disturbance, and up to the first disturbance they are the *)
(* version list.  Proved for any readers, versions and numbers of          *)
(* disturbances.                                                           *)
(***************************************************************************)
EXTENDS VersionHeap, VersionListProofs, FiniteSetTheorems

\* A leaf is for Zenon unless it names another prover.
USE Zenon

-----------------------------------------------------------------------------
(* The inductive invariant.                                                *)

Version == [ number : Nat, next : Nat, prev : Nat, backref : BOOLEAN,
             snapshot : Ids \union {Null} ]

\* Objects lie at finitely many addresses other than null.
Heap(h) ==
    /\ DOMAIN h \subseteq Nat \ {Null}
    /\ IsFiniteSet(DOMAIN h)
    /\ h \in [DOMAIN h -> Version]

EntryRef == [ version : Nat, highest_version_read : Nat, highest_version_written : Nat,
              num_versions : Nat, last_version : Nat ]

Snapshot == [ readers : SUBSET Readers, version : Nat, seen : Nat ]

Types ==
    /\ Heap(heap)
    /\ entry \in EntryRef
    /\ snaps \in [Ids -> Snapshot]
    /\ fault \in BOOLEAN
    /\ events \in Nat

\* HeapIsLinked, of any heap.
Links(h) ==
    \A a \in DOMAIN h :
        /\ h[a].next # Null => h[a].next \in DOMAIN h /\ h[h[a].next].prev = a
        /\ h[a].prev # Null => h[a].prev \in DOMAIN h /\ h[h[a].prev].next = a

\* No list runs into itself: there is a rank that falls along the links.
Ranked(h, rank) ==
    /\ rank \in [DOMAIN h -> Nat]
    /\ \A a \in DOMAIN h : h[a].next # Null => rank[h[a].next] < rank[a]

Acyclic(h) == \E rank : Ranked(h, rank)

Sound(h) == Heap(h) /\ Links(h) /\ Acyclic(h)

\* The entry's ref, unless it dangles, is at the front of a list.
AtFront == entry.version \in DOMAIN heap => heap[entry.version].prev = Null

\* A reader has one snapshot at most.
OneEach == \A i, j \in Ids : i # j => snaps[i].readers \intersect snaps[j].readers = {}

IndInv ==
    /\ Types
    /\ Links(heap)
    /\ Acyclic(heap)
    /\ BackPointersHold
    /\ AtFront
    /\ OneEach

-----------------------------------------------------------------------------
(* Up to the first disturbance.                                            *)

\* s is the list from a to its end.
IsList(h, a, s) ==
    /\ s \in Seq(DOMAIN h)
    /\ s # <<>>
    /\ s[1] = a
    /\ \A i \in 1 .. (Len(s) - 1) : h[s[i]].next = s[i + 1]
    /\ h[s[Len(s)]].next \notin DOMAIN h

\* The chain that the entry and its list are.
ChainOf(h, e, s) ==
    [ versions |-> [i \in DOMAIN s |-> h[s[i]].number],
      highest_version_read |-> e.highest_version_read,
      highest_version_written |-> e.highest_version_written,
      num_versions |-> e.num_versions,
      last_version |-> IF e.last_version = Null THEN NullVersion
                       ELSE h[e.last_version].number ]

\* The list is the version chain, no number is given twice, not even to a
\* version that was trimmed, and last_version is on the list and has data.
Shaped(h, e, s) ==
    /\ IsList(h, e.version, s)
    /\ WellFormed(ChainOf(h, e, s))
    /\ \A a \in DOMAIN h : h[a].number <= e.highest_version_written
    /\ \A a, b \in DOMAIN h : h[a].number = h[b].number => a = b
    /\ e.last_version # Null =>
         \E i \in DOMAIN s : s[i] = e.last_version /\ h[s[i]].number # 0

\* So between any two operations, when it has no more than MaxVersions.
Intact(h, e, s) == Shaped(h, e, s) /\ e.num_versions <= MaxVersions

\* A snapshot and its version point at each other.
Opened ==
    \A i \in Ids : snaps[i].readers # {} =>
        /\ snaps[i].version \in DOMAIN heap
        /\ heap[snaps[i].version].snapshot = i
        /\ heap[snaps[i].version].number = snaps[i].seen

\* Nobody reads the empty version that the entry is created with.
SeenData == \A i \in Ids : snaps[i].readers # {} => snaps[i].seen # 0

Undisturbed ==
    events = 0 =>
        /\ Opened
        /\ SeenData
        /\ \E s : Intact(heap, entry, s)

-----------------------------------------------------------------------------
(* Addresses and slots.                                                    *)

\* There are as many slots for snapshots as readers, and none of them is null.
LEMMA IdsAreNumbers ==
  /\ Cardinality(Readers) \in Nat
  /\ IsFiniteSet(Ids) /\ Cardinality(Ids) = Cardinality(Readers)
  /\ Ids \subseteq Nat /\ Null \notin Ids
<1>1. Cardinality(Readers) \in Nat
  BY FS_CardinalityType, VersionHeapAssumption
<1>2. IsFiniteSet(Ids) /\ Cardinality(Ids) = Cardinality(Readers)
  BY SMT, <1>1, FS_Interval DEF Ids
<1>3. Ids \subseteq Nat /\ Null \notin Ids
  BY SMT, <1>1 DEF Ids, Null
<1> QED
  BY <1>1, <1>2, <1>3

\* A finite set of addresses leaves one of the first free, and Min finds it.
LEMMA FreeExists ==
  ASSUME NEW S, IsFiniteSet(S)
  PROVE  LET m == Min(1 .. (Cardinality(S) + 1) \ S)
         IN  m \in Nat \ {0} /\ m \notin S
<1> DEFINE c == Cardinality(S)
           T == 1 .. (c + 1) \ S
<1>1. c \in Nat
  BY FS_CardinalityType
<1>2. IsFiniteSet(1 .. (c + 1)) /\ Cardinality(1 .. (c + 1)) = c + 1
  BY SMT, <1>1, FS_Interval
<1>3. T # {}
  <2> SUFFICES ASSUME T = {} PROVE FALSE
    OBVIOUS
  <2>1. 1 .. (c + 1) \in SUBSET S
    OBVIOUS
  <2>2. Cardinality(1 .. (c + 1)) <= c
    BY <2>1, FS_Subset
  <2> QED
    BY SMT, <1>1, <1>2, <2>2
<1>4. T \subseteq Nat \ {0}
  BY SMT, <1>1
<1> HIDE DEF T
<1>5. PICK x \in T : \A y \in T : x <= y
  BY <1>3, <1>4, SmallestExists
<1>6. Min(T) \in T
  BY <1>5 DEF Min
<1> QED
  BY <1>4, <1>6 DEF T

\* FreshAddress is free: no object lies there and no pointer points there.
LEMMA FreshIsFree ==
  ASSUME Types
  PROVE  /\ FreshAddress \in Nat \ {0} /\ FreshAddress \notin DOMAIN heap
         /\ FreshAddress # entry.version /\ FreshAddress # entry.last_version
         /\ \A i \in Ids : FreshAddress # snaps[i].version
<1> DEFINE A == DOMAIN heap
           B == {entry.version, entry.last_version, Null}
           C == {snaps[i].version : i \in Ids}
           held == A \union B \union C
<1>1. IsFiniteSet(A)
  BY DEF Types, Heap
<1>2. IsFiniteSet(B)
  <2>1. B = {entry.version} \union {entry.last_version} \union {Null}
    OBVIOUS
  <2>2. IsFiniteSet({entry.version} \union {entry.last_version})
    BY FS_Singleton, FS_AddElement
  <2> HIDE DEF B
  <2> QED
    BY <2>1, <2>2, FS_AddElement
<1>3. IsFiniteSet(C)
  <2> DEFINE f == [i \in Ids |-> snaps[i].version]
  <2>1. f \in [Ids -> C]
    OBVIOUS
  <2>2. \A t \in C : \E i \in Ids : f[i] = t
    OBVIOUS
  <2> HIDE DEF f, C
  <2> QED
    BY <2>1, <2>2, FS_Surjection, IdsAreNumbers DEF Surjection
<1>4. IsFiniteSet(held)
  <2> HIDE DEF A, B, C
  <2> QED
    BY <1>1, <1>2, <1>3, FS_Union
<1>5. FreshAddress = Min(1 .. (Cardinality(held) + 1) \ held)
  BY DEF FreshAddress
<1>6. FreshAddress \in Nat \ {0} /\ FreshAddress \notin held
  <2> HIDE DEF held
  <2> QED
    BY <1>4, <1>5, FreeExists
<1> QED
  BY <1>6

\* A reader without a snapshot finds a slot.
LEMMA SlotExists ==
  ASSUME Types, OneEach, NEW r \in Readers, \A j \in Ids : r \notin snaps[j].readers
  PROVE  LET m == Min({j \in Ids : snaps[j].readers = {}})
         IN  m \in Ids /\ snaps[m].readers = {}
<1> DEFINE T == {j \in Ids : snaps[j].readers = {}}
           R == Readers \ {r}
<1>1. T # {}
  <2> SUFFICES ASSUME \A j \in Ids : snaps[j].readers # {}
               PROVE  FALSE
    OBVIOUS
  <2> DEFINE f == [j \in Ids |-> CHOOSE x \in snaps[j].readers : TRUE]
  <2>1. ASSUME NEW j \in Ids
        PROVE  f[j] \in snaps[j].readers
    OBVIOUS
  <2>2. ASSUME NEW j \in Ids
        PROVE  snaps[j].readers \subseteq R
    BY DEF Types, Snapshot
  <2>3. f \in [Ids -> R]
    BY <2>1, <2>2
  <2>4. \A i, j \in Ids : i # j => f[i] # f[j]
    BY <2>1 DEF OneEach
  <2>5. IsFiniteSet(R) /\ Cardinality(R) = Cardinality(Readers) - 1
    BY FS_RemoveElement, VersionHeapAssumption
  <2>6. Cardinality(R) < Cardinality(Ids)
    BY SMT, <2>5, IdsAreNumbers
  <2> HIDE DEF f, R
  <2>7. \E i, j \in Ids : i # j /\ f[i] = f[j]
    BY <2>3, <2>5, <2>6, FS_PigeonHole, IdsAreNumbers
  <2> QED
    BY <2>4, <2>7
<1>2. T \subseteq Nat
  BY IdsAreNumbers
<1>3. \A j \in T : j \in Ids /\ snaps[j].readers = {}
  OBVIOUS
<1> HIDE DEF T
<1>4. PICK x \in T : \A y \in T : x <= y
  BY <1>1, <1>2, SmallestExists
<1>5. Min(T) \in T
  BY <1>4 DEF Min
<1> QED
  BY <1>3, <1>5 DEF T

-----------------------------------------------------------------------------
(* The list operations.                                                    *)

\* What relinking leaves alone.
Kept(v, w) == w.number = v.number /\ w.snapshot = v.snapshot

\* v with other links.
Linking(v, w, n, p) ==
    /\ w \in Version /\ Kept(v, w) /\ w.backref = v.backref
    /\ w.next = n /\ w.prev = p

\* Assigning to both links of a version.
LEMMA LinkFields ==
  ASSUME NEW v \in Version, NEW n \in Nat, NEW p \in Nat
  PROVE  Linking(v, [v EXCEPT !.next = n, !.prev = p], n, p)
  BY DEF Version, Kept, Linking

\* Assigning to prev.
LEMMA PrevField ==
  ASSUME NEW v \in Version, NEW p \in Nat
  PROVE  Linking(v, [v EXCEPT !.prev = p], v.next, p)
  BY DEF Version, Kept, Linking

\* v with another back reference.
Backing(v, w, b) ==
    /\ w \in Version /\ Kept(v, w) /\ w.backref = b
    /\ w.next = v.next /\ w.prev = v.prev

\* Assigning to backref.
LEMMA BackrefField ==
  ASSUME NEW v \in Version, NEW b \in BOOLEAN
  PROVE  Backing(v, [v EXCEPT !.backref = b], b)
  BY DEF Version, Kept, Backing

\* A new version, linked to nothing.
LEMMA NewVersionFields ==
  ASSUME NEW n \in Nat
  PROVE  LET v == NewVersion(n)
         IN  /\ v \in Version /\ v.number = n /\ v.next = Null /\ v.prev = Null
             /\ v.backref = FALSE /\ v.snapshot = Null
  BY DEF NewVersion, Version, Null

\* r is h with other links at the neighbours of a.
Bypassed(h, r, a, n, p) ==
    /\ DOMAIN r = DOMAIN h /\ Heap(r)
    /\ \A x \in DOMAIN h :
         /\ Kept(h[x], r[x]) /\ r[x].backref = h[x].backref
         /\ r[x].next = IF h[a].prev = x THEN n ELSE h[x].next
         /\ r[x].prev = IF h[a].next = x THEN p ELSE h[x].prev

\* The versions after Relinked(), one by one.
LEMMA RelinkedShape ==
  ASSUME NEW h, Heap(h), NEW a \in DOMAIN h, NEW n \in Nat, NEW p \in Nat
  PROVE  Bypassed(h, Relinked(h, a, n, p), a, n, p)
<1> DEFINE r == Relinked(h, a, n, p)
           new(x) == IF h[a].prev = x THEN n ELSE h[x].next
           old(x) == IF h[a].next = x THEN p ELSE h[x].prev
<1>1. r = [x \in DOMAIN h |-> [h[x] EXCEPT !.next = new(x), !.prev = old(x)]]
  BY DEF Relinked
<1>2. ASSUME NEW x \in DOMAIN h
      PROVE  h[x] \in Version /\ new(x) \in Nat /\ old(x) \in Nat
  <2>1. h[x] \in Version
    BY DEF Heap
  <2> QED
    BY <2>1 DEF Version
<1> HIDE DEF r, new, old
<1>3. ASSUME NEW x \in DOMAIN h
      PROVE  Linking(h[x], r[x], new(x), old(x))
  <2>1. r[x] = [h[x] EXCEPT !.next = new(x), !.prev = old(x)]
    BY <1>1
  <2>2. Linking(h[x], [h[x] EXCEPT !.next = new(x), !.prev = old(x)], new(x), old(x))
    BY <1>2, LinkFields
  <2> QED
    BY <2>1, <2>2
<1>4. DOMAIN r = DOMAIN h /\ Heap(r)
  <2>1. DOMAIN r = DOMAIN h /\ r \in [DOMAIN h -> Version]
    BY <1>1, <1>3 DEF Linking
  <2> QED
    BY <2>1 DEF Heap
<1> QED
  BY <1>3, <1>4 DEF r, new, old, Linking, Bypassed

\* r is h with v at a.
Added(h, r, a, v) ==
    /\ DOMAIN r = DOMAIN h \union {a} /\ Heap(r) /\ r[a] = v
    /\ \A x \in DOMAIN h : x # a => r[x] = h[x]

\* A version at a new address.
LEMMA PlacedShape ==
  ASSUME NEW h, Heap(h), NEW a \in Nat \ {0}, NEW v \in Version
  PROVE  Added(h, Placed(h, a, v), a, v)
<1> DEFINE r == Placed(h, a, v)
<1>1. DOMAIN r = DOMAIN h \union {a} /\ r[a] = v /\ \A x \in DOMAIN h : x # a => r[x] = h[x]
  BY DEF Placed
<1>2. IsFiniteSet(DOMAIN h \union {a})
  BY FS_AddElement DEF Heap
<1>3. r \in [DOMAIN h \union {a} -> Version]
  BY DEF Placed, Heap
<1>4. DOMAIN h \union {a} \subseteq Nat \ {Null}
  BY DEF Heap, Null
<1> HIDE DEF r
<1>5. Heap(r)
  BY <1>1, <1>2, <1>3, <1>4 DEF Heap
<1> QED
  BY <1>1, <1>5 DEF r, Added

\* r is h with the back reference moved from b to a.
Referred(h, r, b, a) ==
    /\ DOMAIN r = DOMAIN h /\ Heap(r)
    /\ \A x \in DOMAIN h :
         /\ Kept(h[x], r[x]) /\ r[x].next = h[x].next /\ r[x].prev = h[x].prev
         /\ x # a /\ x # b => r[x].backref = h[x].backref
    /\ r[a].backref = TRUE /\ r[b].backref = FALSE

\* The back reference goes from one version to another, the links stay.
LEMMA SetVersionShape ==
  ASSUME NEW h, Heap(h), NEW b \in DOMAIN h, NEW a \in DOMAIN h, a # b
  PROVE  Referred(h, SetVersion(h, b, a), b, a)
<1> DEFINE r == SetVersion(h, b, a)
           v == [h[b] EXCEPT !.backref = FALSE]
           w == [h[a] EXCEPT !.backref = TRUE]
<1>1. h[a] \in Version /\ h[b] \in Version
  BY DEF Heap
<1>2. r = [h EXCEPT ![b] = v, ![a] = w]
  BY DEF SetVersion, Heap
<1>3. Backing(h[b], v, FALSE)
  BY <1>1, BackrefField
<1>4. Backing(h[a], w, TRUE)
  BY <1>1, BackrefField
<1> HIDE DEF r, v, w
<1>5. DOMAIN r = DOMAIN h /\ r[a] = w /\ r[b] = v /\ \A x \in DOMAIN h : x # a /\ x # b => r[x] = h[x]
  BY <1>2 DEF Heap
<1>6. r \in [DOMAIN h -> Version]
  BY <1>2, <1>3, <1>4 DEF Heap, Backing
<1>7. Heap(r)
  BY <1>5, <1>6 DEF Heap
<1> QED
  BY <1>3, <1>4, <1>5, <1>7 DEF r, Kept, Backing, Referred

\* g is h with a new version, of number n, at a before b, which is the front.
Fronted(h, g, a, b, n) ==
    /\ DOMAIN g = DOMAIN h \union {a} /\ Heap(g)
    /\ g[a].number = n /\ g[a].next = b /\ g[a].prev = Null
    /\ g[a].backref = TRUE /\ g[a].snapshot = Null
    /\ \A x \in DOMAIN h :
         /\ Kept(h[x], g[x]) /\ g[x].next = h[x].next
         /\ g[x].prev = IF x = b THEN a ELSE h[x].prev
         /\ g[x].backref = IF x = b THEN FALSE ELSE h[x].backref

\* The new version of apply(), linked in before the newest.
LEMMA InsertedInFront ==
  ASSUME NEW h, Heap(h), Links(h), NEW b \in DOMAIN h, h[b].prev = Null,
         NEW a \in Nat \ {0}, a \notin DOMAIN h, NEW n \in Nat
  PROVE  Fronted(h, SetVersion(InsertBefore(Placed(h, a, NewVersion(n)), a, b), b, a), a, b, n)
<1> DEFINE p == Placed(h, a, NewVersion(n))
           r == Relinked(p, b, a, b)
           v == [r[a] EXCEPT !.prev = p[b].prev, !.next = b]
           w == [r[b] EXCEPT !.prev = a]
           i == InsertBefore(p, a, b)
           g == SetVersion(i, b, a)
<1>1. a # b /\ a \in Nat /\ b \in Nat /\ b # Null /\ a # Null
  BY DEF Heap, Null
<1>2. /\ DOMAIN p = DOMAIN h \union {a} /\ Heap(p) /\ p[a] = NewVersion(n)
      /\ \A x \in DOMAIN h : p[x] = h[x]
  <2>1. Added(h, p, a, NewVersion(n))
    BY PlacedShape, NewVersionFields
  <2> QED
    BY <2>1 DEF Added
<1>3. i = [r EXCEPT ![a] = v, ![b] = w]
  <2>1. DOMAIN r = DOMAIN p
    BY DEF Relinked
  <2>2. i = [r EXCEPT ![a] = [@ EXCEPT !.prev = p[b].prev, !.next = b], ![b] = [@ EXCEPT !.prev = a]]
    BY DEF InsertBefore
  <2> HIDE DEF r, i, p
  <2> QED
    BY <1>1, <1>2, <2>1, <2>2
<1> HIDE DEF p
<1>4. /\ DOMAIN r = DOMAIN p /\ Heap(r)
      /\ \A x \in DOMAIN p :
           /\ Kept(p[x], r[x]) /\ r[x].backref = p[x].backref
           /\ r[x].next = IF p[b].prev = x THEN a ELSE p[x].next
           /\ r[x].prev = IF p[b].next = x THEN b ELSE p[x].prev
  <2>1. Bypassed(p, r, b, a, b)
    BY <1>1, <1>2, RelinkedShape
  <2> QED
    BY <2>1 DEF Bypassed
<1>5. p[b].prev = Null /\ Null \notin DOMAIN p /\ p[b].next # a /\ p[b].next # b
  <2>1. h[b].next \in DOMAIN h => h[h[b].next].prev = b
    BY DEF Links, Heap, Null
  <2>2. h[b].next \notin DOMAIN h => h[b].next = Null
    BY DEF Links
  <2> QED
    BY <1>1, <1>2, <2>1, <2>2 DEF Heap
<1>6. \A x \in DOMAIN p :
        /\ Kept(p[x], r[x]) /\ r[x].backref = p[x].backref
        /\ r[x].next = p[x].next /\ r[x].prev = p[x].prev
  <2>1. ASSUME NEW x \in DOMAIN p, p[b].next = x
        PROVE  p[x].prev = b
    <3>1. x \in DOMAIN h
      BY <1>2, <1>5, <2>1
    <3>2. h[b].next = x /\ x # Null
      BY <1>2, <1>5, <2>1
    <3> QED
      BY <1>2, <3>1, <3>2 DEF Links
  <2> HIDE DEF r
  <2>2. ASSUME NEW x \in DOMAIN p
        PROVE  r[x].next = p[x].next /\ r[x].prev = p[x].prev
    <3>1. p[b].prev # x
      BY <1>5
    <3>2. r[x].next = p[x].next
      BY <1>4, <3>1
    <3>3. r[x].prev = p[x].prev
      BY <1>4, <2>1
    <3> QED
      BY <3>2, <3>3
  <2> QED
    BY <1>4, <2>2
<1> HIDE DEF r
<1>7. r[a] \in Version /\ r[b] \in Version /\ p[b].prev \in Nat
  BY SMT, <1>2, <1>4, <1>5 DEF Heap, Null
<1>8. /\ v \in Version /\ v.number = n /\ v.next = b /\ v.prev = Null /\ v.snapshot = Null
  <2>1. /\ p[a].number = n /\ p[a].snapshot = Null
    BY <1>2, NewVersionFields
  <2>2. /\ v \in Version /\ v.number = r[a].number /\ v.snapshot = r[a].snapshot
        /\ v.next = b /\ v.prev = p[b].prev
    BY <1>1, <1>7 DEF Version
  <2> QED
    BY <1>2, <1>5, <1>6, <2>1, <2>2 DEF Kept
<1>9. w \in Version /\ Kept(r[b], w) /\ w.next = r[b].next /\ w.prev = a
  BY <1>1, <1>7, PrevField DEF Linking
<1> HIDE DEF v, w, i
<1>10. /\ DOMAIN i = DOMAIN p /\ i \in [DOMAIN p -> Version] /\ i[a] = v /\ i[b] = w
       /\ \A x \in DOMAIN p : x # a /\ x # b => i[x] = r[x]
  <2>1. r \in [DOMAIN p -> Version] /\ a \in DOMAIN p /\ b \in DOMAIN p
    BY <1>2, <1>4 DEF Heap
  <2> QED
    BY <1>1, <1>3, <1>8, <1>9, <2>1
<1>11. Heap(i)
  BY <1>2, <1>10 DEF Heap
<1>12. /\ DOMAIN g = DOMAIN i /\ Heap(g)
       /\ \A x \in DOMAIN i :
            /\ Kept(i[x], g[x]) /\ g[x].next = i[x].next /\ g[x].prev = i[x].prev
            /\ x # a /\ x # b => g[x].backref = i[x].backref
       /\ g[a].backref = TRUE /\ g[b].backref = FALSE
  <2>1. Referred(i, g, b, a)
    BY <1>1, <1>2, <1>10, <1>11, SetVersionShape
  <2> QED
    BY <2>1 DEF Referred
<1> HIDE DEF g
<1>13. DOMAIN g = DOMAIN h \union {a} /\ Heap(g)
  BY <1>2, <1>10, <1>12
<1>14. /\ g[a].number = n /\ g[a].next = b /\ g[a].prev = Null
       /\ g[a].backref = TRUE /\ g[a].snapshot = Null
  BY <1>2, <1>8, <1>10, <1>12 DEF Kept
<1>15. ASSUME NEW x \in DOMAIN h
       PROVE  /\ Kept(h[x], g[x]) /\ g[x].next = h[x].next
              /\ g[x].prev = IF x = b THEN a ELSE h[x].prev
              /\ g[x].backref = IF x = b THEN FALSE ELSE h[x].backref
  <2>1. x # a /\ x \in DOMAIN p /\ p[x] = h[x]
    BY <1>2
  <2>2. CASE x = b
    <3>1. /\ Kept(i[b], g[b]) /\ g[b].next = i[b].next /\ g[b].prev = i[b].prev
          /\ g[b].backref = FALSE
      BY <1>10, <1>12, <2>1, <2>2
    <3>2. Kept(h[b], r[b]) /\ r[b].next = h[b].next
      BY <1>6, <2>1, <2>2
    <3> HIDE DEF r
    <3> QED
      BY <1>9, <1>10, <2>1, <2>2, <3>1, <3>2 DEF Kept
  <2>3. CASE x # b
    <3>1. /\ Kept(i[x], g[x]) /\ g[x].next = i[x].next /\ g[x].prev = i[x].prev
          /\ g[x].backref = i[x].backref
      BY <1>10, <1>12, <2>1, <2>3
    <3>2. /\ Kept(h[x], r[x]) /\ r[x].next = h[x].next /\ r[x].prev = h[x].prev
          /\ r[x].backref = h[x].backref
      BY <1>6, <2>1
    <3>3. i[x] = r[x]
      BY <1>10, <2>1, <2>3
    <3> HIDE DEF r
    <3> QED
      BY <2>3, <3>1, <3>2, <3>3 DEF Kept
  <2> QED
    BY <2>2, <2>3
<1> QED
  BY <1>13, <1>14, <1>15 DEF Fronted, g, i, p

\* The links stay sound.
LEMMA FrontedIsSound ==
  ASSUME NEW h, Sound(h), NEW b \in DOMAIN h, h[b].prev = Null,
         NEW a, a \notin DOMAIN h, NEW g, NEW n, Fronted(h, g, a, b, n)
  PROVE  Sound(g)
<1>1. a # b /\ Null \notin DOMAIN h
  BY DEF Sound, Heap
<1>2. DOMAIN g = DOMAIN h \union {a} /\ Heap(g) /\ g[a].next = b /\ g[a].prev = Null /\ g[b].prev = a
  BY DEF Fronted
<1>3. \A x \in DOMAIN h : g[x].next = h[x].next /\ (x # b => g[x].prev = h[x].prev)
  BY DEF Fronted
<1>4. Links(g)
  <2>1. ASSUME NEW x \in DOMAIN h, g[x].next # Null
        PROVE  g[x].next \in DOMAIN g /\ g[g[x].next].prev = x
    <3>1. h[x].next \in DOMAIN h /\ h[h[x].next].prev = x
      BY <1>3, <2>1 DEF Sound, Links
    <3>2. h[x].next # b
      BY <1>1, <3>1
    <3> QED
      BY <1>2, <1>3, <3>1, <3>2
  <2>2. ASSUME NEW x \in DOMAIN h, g[x].prev # Null
        PROVE  g[x].prev \in DOMAIN g /\ g[g[x].prev].next = x
    <3>1. CASE x = b
      BY <1>2, <3>1
    <3>2. CASE x # b
      <4>1. h[x].prev \in DOMAIN h /\ h[h[x].prev].next = x
        BY <1>3, <2>2, <3>2 DEF Sound, Links
      <4> QED
        BY <1>2, <1>3, <3>2, <4>1
    <3> QED
      BY <3>1, <3>2
  <2> QED
    BY <1>2, <2>1, <2>2 DEF Links
<1>5. Acyclic(g)
  <2>1. PICK rank : Ranked(h, rank)
    BY DEF Sound, Acyclic
  <2>2. rank \in [DOMAIN h -> Nat] /\ \A x \in DOMAIN h : h[x].next # Null => rank[h[x].next] < rank[x]
    BY <2>1 DEF Ranked
  <2> DEFINE new == [x \in DOMAIN g |-> IF x = a THEN rank[b] + 1 ELSE rank[x]]
  <2>3. new \in [DOMAIN g -> Nat]
    BY SMT, <1>2, <2>2
  <2>4. ASSUME NEW x \in DOMAIN g, g[x].next # Null
        PROVE  new[g[x].next] < new[x]
    <3>1. CASE x = a
      BY SMT, <1>1, <1>2, <2>2, <3>1
    <3>2. CASE x # a
      <4>1. x \in DOMAIN h /\ g[x].next = h[x].next
        BY <1>2, <1>3, <3>2
      <4>2. h[x].next \in DOMAIN h
        BY <2>4, <4>1 DEF Sound, Links
      <4>3. new[g[x].next] = rank[h[x].next] /\ new[x] = rank[x]
        BY <1>2, <3>2, <4>1, <4>2
      <4> QED
        BY <2>2, <2>4, <4>1, <4>3
    <3> QED
      BY <3>1, <3>2
  <2> HIDE DEF new
  <2>5. Ranked(g, new)
    BY <2>3, <2>4 DEF Ranked
  <2> QED
    BY <2>5 DEF Acyclic
<1> QED
  BY <1>2, <1>4, <1>5 DEF Sound

\* g is h with a taken out of its list.
Erased(h, g, a) ==
    /\ DOMAIN g = DOMAIN h /\ Heap(g)
    /\ g[a].next = Null /\ g[a].prev = Null
    /\ \A x \in DOMAIN h : Kept(h[x], g[x]) /\ g[x].backref = h[x].backref
    /\ \A x \in DOMAIN h : x # a =>
         /\ g[x].next = IF h[x].next = a THEN h[a].next ELSE h[x].next
         /\ g[x].prev = IF h[x].prev = a THEN h[a].prev ELSE h[x].prev

\* Of a sound heap: who is whose neighbour, and that nobody is its own.
LEMMA Neighbours ==
  ASSUME NEW h, Sound(h)
  PROVE  /\ Null \notin DOMAIN h
         /\ \A x, y \in DOMAIN h : h[x].next = y <=> h[y].prev = x
         /\ \A x \in DOMAIN h : h[x].next # x /\ h[x].prev # x
         /\ \A x \in DOMAIN h : /\ h[x] \in Version /\ x \in Nat
                                /\ h[x].next \in Nat /\ h[x].prev \in Nat
         /\ \A x \in DOMAIN h : h[x].next = Null \/ h[x].next \in DOMAIN h
         /\ \A x \in DOMAIN h : h[x].prev = Null \/ h[x].prev \in DOMAIN h
<1>1. Null \notin DOMAIN h
  BY DEF Sound, Heap
<1>2. \A x, y \in DOMAIN h : h[x].next = y <=> h[y].prev = x
  BY <1>1 DEF Sound, Links
<1>3. ASSUME NEW x \in DOMAIN h PROVE h[x].next # x
  <2>1. PICK rank : Ranked(h, rank)
    BY DEF Sound, Acyclic
  <2>2. rank[x] \in Nat /\ (h[x].next # Null => rank[h[x].next] < rank[x])
    BY <2>1 DEF Ranked
  <2> QED
    BY SMT, <1>1, <2>2
<1>4. ASSUME NEW x \in DOMAIN h PROVE h[x] \in Version /\ x \in Nat
  BY DEF Sound, Heap
<1>5. ASSUME NEW x \in DOMAIN h PROVE h[x].next \in Nat /\ h[x].prev \in Nat
  BY <1>4 DEF Version
<1>6. /\ \A x \in DOMAIN h : h[x].next = Null \/ h[x].next \in DOMAIN h
      /\ \A x \in DOMAIN h : h[x].prev = Null \/ h[x].prev \in DOMAIN h
  BY DEF Sound, Links
<1> QED
  BY <1>1, <1>2, <1>3, <1>4, <1>5, <1>6

\* erase(), version by version.
LEMMA EraseShape ==
  ASSUME NEW h, Sound(h), NEW a \in DOMAIN h
  PROVE  Erased(h, Erase(h, a), a)
<1> DEFINE r == Relinked(h, a, h[a].next, h[a].prev)
           v == [r[a] EXCEPT !.next = Null, !.prev = Null]
           g == Erase(h, a)
<1>1. Bypassed(h, r, a, h[a].next, h[a].prev)
  BY Neighbours, RelinkedShape DEF Sound
<1>2. DOMAIN r = DOMAIN h /\ Heap(r)
  BY <1>1 DEF Bypassed
<1>3. g = [r EXCEPT ![a] = v]
  <2>1. g = [r EXCEPT ![a] = [@ EXCEPT !.next = Null, !.prev = Null]]
    BY DEF Erase
  <2> HIDE DEF r, g
  <2> QED
    BY <1>2, <2>1
<1> HIDE DEF r
<1>4. Linking(r[a], v, Null, Null)
  <2>1. r[a] \in Version /\ Null \in Nat
    BY <1>2 DEF Heap, Null
  <2> QED
    BY <2>1, LinkFields
<1> HIDE DEF v, g
<1>5. DOMAIN g = DOMAIN h /\ g[a] = v /\ \A x \in DOMAIN h : x # a => g[x] = r[x]
  BY <1>2, <1>3
<1>6. Heap(g)
  <2>1. g \in [DOMAIN h -> Version]
    BY <1>2, <1>3, <1>4 DEF Heap, Linking
  <2> QED
    BY <1>2, <1>5, <2>1 DEF Heap
<1>7. ASSUME NEW x \in DOMAIN h
      PROVE  Kept(h[x], g[x]) /\ g[x].backref = h[x].backref
  <2>1. Kept(h[x], r[x]) /\ r[x].backref = h[x].backref
    BY <1>1 DEF Bypassed
  <2>2. Kept(r[x], g[x]) /\ g[x].backref = r[x].backref
    <3>1. CASE x = a
      BY <1>4, <1>5, <3>1 DEF Linking
    <3>2. CASE x # a
      BY <1>5, <3>2 DEF Kept
    <3> QED
      BY <3>1, <3>2
  <2> QED
    BY <2>1, <2>2 DEF Kept
<1>8. ASSUME NEW x \in DOMAIN h, x # a
      PROVE  /\ g[x].next = IF h[x].next = a THEN h[a].next ELSE h[x].next
             /\ g[x].prev = IF h[x].prev = a THEN h[a].prev ELSE h[x].prev
  <2>1. (h[x].next = a <=> h[a].prev = x) /\ (h[x].prev = a <=> h[a].next = x)
    BY SMT, Neighbours
  <2>2. /\ g[x].next = IF h[a].prev = x THEN h[a].next ELSE h[x].next
        /\ g[x].prev = IF h[a].next = x THEN h[a].prev ELSE h[x].prev
    BY <1>1, <1>5, <1>8 DEF Bypassed
  <2> QED
    BY <2>1, <2>2
<1> QED
  BY <1>4, <1>5, <1>6, <1>7, <1>8 DEF Erased, Linking, g

\* erase() leaves the heap sound: the neighbours of a are each other's.
LEMMA ErasedIsSound ==
  ASSUME NEW h, Sound(h), NEW a \in DOMAIN h, NEW g, Erased(h, g, a)
  PROVE  Sound(g)
<1>1. /\ DOMAIN g = DOMAIN h /\ Heap(g) /\ g[a].next = Null /\ g[a].prev = Null
      /\ \A x \in DOMAIN h : x # a =>
           /\ g[x].next = IF h[x].next = a THEN h[a].next ELSE h[x].next
           /\ g[x].prev = IF h[x].prev = a THEN h[a].prev ELSE h[x].prev
  BY DEF Erased
<1>2. Links(g)
  <2>1. ASSUME NEW x \in DOMAIN h, g[x].next # Null
        PROVE  g[x].next \in DOMAIN h /\ g[g[x].next].prev = x
    <3>1. x # a
      BY <1>1, <2>1
    <3>2. CASE h[x].next = a
      <4>1. g[x].next = h[a].next /\ h[a].next \in DOMAIN h /\ h[a].prev = x
        BY SMT, <1>1, <2>1, <3>1, <3>2, Neighbours
      <4>2. h[h[a].next].prev = a /\ h[a].next # a
        BY SMT, <4>1, Neighbours
      <4> QED
        BY <1>1, <4>1, <4>2
    <3>3. CASE h[x].next # a
      <4>1. g[x].next = h[x].next /\ h[x].next \in DOMAIN h
        BY <1>1, <2>1, <3>1, <3>3, Neighbours
      <4>2. h[h[x].next].prev = x
        BY SMT, <4>1, Neighbours
      <4> QED
        BY <1>1, <3>1, <3>3, <4>1, <4>2
    <3> QED
      BY <3>2, <3>3
  <2>2. ASSUME NEW x \in DOMAIN h, g[x].prev # Null
        PROVE  g[x].prev \in DOMAIN h /\ g[g[x].prev].next = x
    <3>1. x # a
      BY <1>1, <2>2
    <3>2. CASE h[x].prev = a
      <4>1. g[x].prev = h[a].prev /\ h[a].prev \in DOMAIN h /\ h[a].next = x
        BY SMT, <1>1, <2>2, <3>1, <3>2, Neighbours
      <4>2. h[h[a].prev].next = a /\ h[a].prev # a
        BY SMT, <4>1, Neighbours
      <4> QED
        BY <1>1, <4>1, <4>2
    <3>3. CASE h[x].prev # a
      <4>1. g[x].prev = h[x].prev /\ h[x].prev \in DOMAIN h
        BY <1>1, <2>2, <3>1, <3>3, Neighbours
      <4>2. h[h[x].prev].next = x
        BY SMT, <4>1, Neighbours
      <4> QED
        BY <1>1, <3>1, <3>3, <4>1, <4>2
    <3> QED
      BY <3>2, <3>3
  <2> QED
    BY <1>1, <2>1, <2>2 DEF Links
<1>3. Acyclic(g)
  <2>1. PICK rank : Ranked(h, rank)
    BY DEF Sound, Acyclic
  <2>2. rank \in [DOMAIN h -> Nat] /\ \A x \in DOMAIN h : h[x].next # Null => rank[h[x].next] < rank[x]
    BY <2>1 DEF Ranked
  <2>3. ASSUME NEW x \in DOMAIN h, g[x].next # Null
        PROVE  rank[g[x].next] < rank[x]
    <3>1. x # a
      BY <1>1, <2>3
    <3>2. CASE h[x].next = a
      <4>1. g[x].next = h[a].next /\ h[a].next \in DOMAIN h /\ a # Null
        BY <1>1, <2>3, <3>1, <3>2, Neighbours
      <4>2. rank[h[a].next] < rank[a] /\ rank[a] < rank[x]
        BY <2>2, <2>3, <3>2, <4>1
      <4>3. rank[h[a].next] \in Nat /\ rank[a] \in Nat /\ rank[x] \in Nat
        BY <2>2, <4>1
      <4> QED
        BY SMT, <4>1, <4>2, <4>3
    <3>3. CASE h[x].next # a
      BY <1>1, <2>2, <2>3, <3>1, <3>3
    <3> QED
      BY <3>2, <3>3
  <2> QED
    BY <1>1, <2>2, <2>3 DEF Acyclic, Ranked
<1> QED
  BY <1>1, <1>2, <1>3 DEF Sound

\* g is h without a, and sound.
Freed(h, g, a) ==
    /\ DOMAIN g = DOMAIN h \ {a} /\ Sound(g)
    /\ \A x \in DOMAIN g :
         /\ Kept(h[x], g[x]) /\ g[x].backref = h[x].backref
         /\ h[x].prev = Null => g[x].prev = Null

\* Destroying a version unlinks it first, so that nothing points at it.
LEMMA DestroyedShape ==
  ASSUME NEW h, Sound(h), NEW a \in DOMAIN h
  PROVE  Freed(h, Destroyed(h, a), a)
<1> DEFINE e == Erase(h, a)
           g == Destroyed(h, a)
           S == DOMAIN h \ {a}
<1>1. Erased(h, e, a)
  BY EraseShape
<1>2. Sound(e)
  BY <1>1, ErasedIsSound
<1>3. DOMAIN g = S /\ \A x \in S : g[x] = e[x]
  BY DEF Destroyed, Restrict
<1>4. g \in [S -> Version]
  BY <1>1 DEF Destroyed, Restrict, Erased, Heap
<1> HIDE DEF e, g
<1>5. DOMAIN e = DOMAIN h /\ e[a].next = Null /\ e[a].prev = Null
  BY <1>1 DEF Erased
<1>6. Heap(g)
  <2>1. IsFiniteSet(S) /\ S \subseteq Nat \ {Null}
    BY FS_Subset DEF Sound, Heap
  <2> QED
    BY <1>3, <1>4, <2>1 DEF Heap
<1>7. ASSUME NEW x \in S
      PROVE  e[x].next # a /\ e[x].prev # a
  <2>1. a # Null /\ x # Null
    BY DEF Sound, Heap
  <2> QED
    BY <1>2, <1>5, <2>1 DEF Sound, Links
<1>8. Links(g)
  <2>1. ASSUME NEW x \in S, e[x].next # Null
        PROVE  e[x].next \in S /\ e[e[x].next].prev = x
    BY <1>2, <1>5, <1>7, <2>1 DEF Sound, Links
  <2>2. ASSUME NEW x \in S, e[x].prev # Null
        PROVE  e[x].prev \in S /\ e[e[x].prev].next = x
    BY <1>2, <1>5, <1>7, <2>2 DEF Sound, Links
  <2> HIDE DEF S
  <2> QED
    BY SMT, <1>3, <2>1, <2>2 DEF Links
<1>9. Acyclic(g)
  <2>1. PICK rank : Ranked(e, rank)
    BY <1>2 DEF Sound, Acyclic
  <2> DEFINE new == [x \in S |-> rank[x]]
  <2>2. \A x \in S : e[x].next # Null => e[x].next \in S
    BY <1>2, <1>5, <1>7 DEF Sound, Links
  <2>3. new \in [S -> Nat]
    BY <1>5, <2>1 DEF Ranked
  <2>4. \A x \in S : e[x].next # Null => new[e[x].next] < new[x]
    BY <1>5, <2>1, <2>2 DEF Ranked
  <2> HIDE DEF new
  <2>5. Ranked(g, new)
    BY <1>3, <2>3, <2>4 DEF Ranked
  <2> QED
    BY <2>5 DEF Acyclic
<1>10. ASSUME NEW x \in S
       PROVE  /\ Kept(h[x], g[x]) /\ g[x].backref = h[x].backref
              /\ h[x].prev = Null => g[x].prev = Null
  <2>1. a # Null
    BY DEF Sound, Heap
  <2> QED
    BY <1>1, <1>3, <2>1 DEF Erased
<1> QED
  BY <1>3, <1>6, <1>8, <1>9, <1>10 DEF Freed, Sound, g

\* g is h with the version at a at b instead: in the same place in its list, but
\* without its number and its snapshot.
Relocated(h, g, a, b) ==
    /\ DOMAIN g = (DOMAIN h \union {b}) \ {a} /\ Heap(g)
    /\ g[b].next = h[a].next /\ g[b].prev = h[a].prev
    /\ g[b].backref = h[a].backref /\ g[b].snapshot = Null
    /\ \A x \in DOMAIN h : x # a =>
         /\ Kept(h[x], g[x]) /\ g[x].backref = h[x].backref
         /\ g[x].next = IF h[x].next = a THEN b ELSE h[x].next
         /\ g[x].prev = IF h[x].prev = a THEN b ELSE h[x].prev

\* The move constructor, version by version.
LEMMA MovedShape ==
  ASSUME NEW h, Sound(h), NEW a \in DOMAIN h, NEW b \in Nat \ {0}, b \notin DOMAIN h
  PROVE  Relocated(h, Moved(h, a, b), a, b)
<1> DEFINE r == Relinked(h, a, b, b)
           v == [h[a] EXCEPT !.number = 0, !.snapshot = Null]
           p == Placed(r, b, v)
           g == Moved(h, a, b)
           S == (DOMAIN h \union {b}) \ {a}
<1>1. Bypassed(h, r, a, b, b)
  BY RelinkedShape DEF Sound
<1>2. v \in Version /\ v.next = h[a].next /\ v.prev = h[a].prev /\ v.backref = h[a].backref /\ v.snapshot = Null
  <2>1. h[a] \in Version
    BY DEF Sound, Heap
  <2> QED
    BY <2>1 DEF Version
<1> HIDE DEF v
<1>3. Added(r, p, b, v)
  BY <1>1, <1>2, PlacedShape DEF Bypassed
<1>4. DOMAIN g = S /\ \A x \in S : g[x] = p[x]
  BY DEF Moved, Restrict, v
<1>5. g \in [S -> Version]
  <2>1. g = [x \in S |-> p[x]]
    BY DEF Moved, Restrict, v
  <2>2. \A x \in S : p[x] \in Version
    BY <1>1, <1>3 DEF Added, Bypassed, Heap
  <2> HIDE DEF p, g
  <2> QED
    BY <2>1, <2>2
<1> HIDE DEF r, p, g
<1>6. Heap(g)
  <2>1. IsFiniteSet(DOMAIN p) /\ S \subseteq DOMAIN p /\ DOMAIN p \subseteq Nat \ {Null}
    BY <1>1, <1>3 DEF Added, Bypassed, Heap
  <2>2. IsFiniteSet(S)
    BY <2>1, FS_Subset
  <2> QED
    BY <1>4, <1>5, <2>1, <2>2 DEF Heap
<1>7. g[b] = v
  BY <1>3, <1>4 DEF Added
<1>8. ASSUME NEW x \in DOMAIN h, x # a
      PROVE  /\ Kept(h[x], g[x]) /\ g[x].backref = h[x].backref
             /\ g[x].next = IF h[x].next = a THEN b ELSE h[x].next
             /\ g[x].prev = IF h[x].prev = a THEN b ELSE h[x].prev
  <2>1. g[x] = r[x]
    BY <1>1, <1>3, <1>4, <1>8 DEF Added, Bypassed
  <2>2. (h[x].next = a <=> h[a].prev = x) /\ (h[x].prev = a <=> h[a].next = x)
    BY SMT, Neighbours
  <2> QED
    BY <1>1, <2>1, <2>2 DEF Bypassed
<1> QED
  BY <1>2, <1>4, <1>6, <1>7, <1>8 DEF Relocated, g

\* A move leaves the heap sound.
LEMMA RelocatedIsSound ==
  ASSUME NEW h, Sound(h), NEW a \in DOMAIN h, NEW b \in Nat \ {0}, b \notin DOMAIN h,
         NEW g, Relocated(h, g, a, b)
  PROVE  Sound(g)
<1> DEFINE S == DOMAIN h \ {a}
<1>1. /\ DOMAIN g = S \union {b} /\ Heap(g) /\ b \notin S
      /\ g[b].next = h[a].next /\ g[b].prev = h[a].prev
      /\ \A x \in S :
           /\ g[x].next = IF h[x].next = a THEN b ELSE h[x].next
           /\ g[x].prev = IF h[x].prev = a THEN b ELSE h[x].prev
  BY DEF Relocated
<1>2. /\ \A x \in DOMAIN h : h[x].next = Null \/ h[x].next \in DOMAIN h
      /\ \A x \in DOMAIN h : h[x].prev = Null \/ h[x].prev \in DOMAIN h
      /\ \A x, y \in DOMAIN h : h[x].next = y <=> h[y].prev = x
      /\ Null \notin DOMAIN h
      /\ h[a].next # a /\ h[a].prev # a
  BY Neighbours
<1>3. Links(g)
  <2>1. ASSUME NEW x \in DOMAIN g, g[x].next # Null
        PROVE  g[x].next \in DOMAIN g /\ g[g[x].next].prev = x
    <3>1. CASE x = b
      <4>1. h[a].next \in S /\ h[h[a].next].prev = a
        BY <1>1, <1>2, <2>1, <3>1
      <4> QED
        BY <1>1, <3>1, <4>1
    <3>2. CASE x \in S /\ h[x].next = a
      <4>1. h[a].prev = x
        BY <1>2, <3>2
      <4> QED
        BY <1>1, <3>2, <4>1
    <3>3. CASE x \in S /\ h[x].next # a
      <4>1. g[x].next = h[x].next /\ h[x].next \in S
        BY <1>1, <1>2, <2>1, <3>3
      <4>2. h[h[x].next].prev = x /\ x # a
        BY <1>2, <3>3, <4>1
      <4> QED
        BY <1>1, <4>1, <4>2
    <3> QED
      BY <1>1, <3>1, <3>2, <3>3
  <2>2. ASSUME NEW x \in DOMAIN g, g[x].prev # Null
        PROVE  g[x].prev \in DOMAIN g /\ g[g[x].prev].next = x
    <3>1. CASE x = b
      <4>1. h[a].prev \in S /\ h[h[a].prev].next = a
        BY <1>1, <1>2, <2>2, <3>1
      <4> QED
        BY <1>1, <3>1, <4>1
    <3>2. CASE x \in S /\ h[x].prev = a
      <4>1. h[a].next = x
        BY SMT, <1>2, <3>2
      <4> QED
        BY <1>1, <3>2, <4>1
    <3>3. CASE x \in S /\ h[x].prev # a
      <4>1. g[x].prev = h[x].prev /\ h[x].prev \in S
        BY <1>1, <1>2, <2>2, <3>3
      <4>2. h[h[x].prev].next = x /\ x # a
        BY <1>2, <3>3, <4>1
      <4> QED
        BY <1>1, <4>1, <4>2
    <3> QED
      BY <1>1, <3>1, <3>2, <3>3
  <2> QED
    BY <2>1, <2>2 DEF Links
<1>4. Acyclic(g)
  <2>1. PICK rank : Ranked(h, rank)
    BY DEF Sound, Acyclic
  <2>2. rank \in [DOMAIN h -> Nat] /\ \A x \in DOMAIN h : h[x].next # Null => rank[h[x].next] < rank[x]
    BY <2>1 DEF Ranked
  <2> DEFINE new == [x \in DOMAIN g |-> IF x = b THEN rank[a] ELSE rank[x]]
  <2>3. new \in [DOMAIN g -> Nat] /\ new[b] = rank[a] /\ \A x \in S : new[x] = rank[x]
    BY <1>1, <2>2
  <2> HIDE DEF new
  <2>4. ASSUME NEW x \in DOMAIN g, g[x].next # Null
        PROVE  new[g[x].next] < new[x]
    <3>1. CASE x = b
      <4>1. h[a].next \in S
        BY <1>1, <1>2, <2>4, <3>1
      <4> QED
        BY <1>1, <2>2, <2>3, <2>4, <3>1, <4>1
    <3>2. CASE x \in S /\ h[x].next = a
      BY <1>1, <1>2, <2>2, <2>3, <3>2
    <3>3. CASE x \in S /\ h[x].next # a
      <4>1. g[x].next = h[x].next /\ h[x].next \in S
        BY <1>1, <1>2, <2>4, <3>3
      <4> QED
        BY <2>2, <2>3, <2>4, <3>3, <4>1
    <3> QED
      BY <1>1, <3>1, <3>2, <3>3
  <2>5. Ranked(g, new)
    BY <2>3, <2>4 DEF Ranked
  <2> QED
    BY <2>5 DEF Acyclic
<1> QED
  BY <1>1, <1>3, <1>4 DEF Sound

-----------------------------------------------------------------------------
(* The list from a version to its end.                                     *)

\* One element in front.
LEMMA ConsShape ==
  ASSUME NEW S, NEW x \in S, NEW s \in Seq(S)
  PROVE  /\ <<x>> \o s \in Seq(S)
         /\ Len(<<x>> \o s) = Len(s) + 1
         /\ (<<x>> \o s)[1] = x
         /\ \A i \in 1 .. Len(s) : (<<x>> \o s)[i + 1] = s[i]
  BY SMT

\* A list of one.
LEMMA ListEnds ==
  ASSUME NEW h, NEW x \in DOMAIN h, h[x].next \notin DOMAIN h
  PROVE  IsList(h, x, <<x>>)
  BY SMT DEF IsList

\* A version before a list.
LEMMA ListExtends ==
  ASSUME NEW h, NEW x \in DOMAIN h, NEW s, IsList(h, h[x].next, s)
  PROVE  IsList(h, x, <<x>> \o s)
<1> DEFINE t == <<x>> \o s
           m == Len(s)
<1>1. /\ s \in Seq(DOMAIN h) /\ m \in Nat /\ m # 0 /\ s[1] = h[x].next
      /\ \A i \in 1 .. (m - 1) : h[s[i]].next = s[i + 1]
      /\ h[s[m]].next \notin DOMAIN h
  BY SMT DEF IsList
<1>2. /\ t \in Seq(DOMAIN h) /\ Len(t) = m + 1 /\ t[1] = x
      /\ \A i \in 1 .. m : t[i + 1] = s[i]
  BY SMT, <1>1, ConsShape
<1> HIDE DEF t, m
<1>3. ASSUME NEW i \in 1 .. (Len(t) - 1)
      PROVE  h[t[i]].next = t[i + 1]
  <2>1. CASE i = 1
    BY SMT, <1>1, <1>2, <2>1
  <2>2. CASE i # 1
    <3>1. i - 1 \in 1 .. (m - 1) /\ i \in 1 .. m /\ (i - 1) + 1 = i /\ i - 1 \in 1 .. m
      BY SMT, <1>1, <1>2, <2>2
    <3>2. t[i] = s[i - 1] /\ t[i + 1] = s[i]
      BY <1>2, <3>1
    <3> QED
      BY <1>1, <3>1, <3>2
  <2> QED
    BY <2>1, <2>2
<1>4. h[t[Len(t)]].next \notin DOMAIN h
  BY SMT, <1>1, <1>2
<1>5. t # <<>>
  BY SMT, <1>1, <1>2
<1> QED
  BY <1>2, <1>3, <1>4, <1>5 DEF IsList, t

\* There is one list from a version at most.
LEMMA ListIsUnique ==
  ASSUME NEW h, NEW x, NEW s, NEW t, IsList(h, x, s), IsList(h, x, t)
  PROVE  s = t
<1>1. /\ s \in Seq(DOMAIN h) /\ Len(s) \in Nat \ {0} /\ s[1] = x
      /\ \A i \in 1 .. (Len(s) - 1) : h[s[i]].next = s[i + 1]
      /\ h[s[Len(s)]].next \notin DOMAIN h
  BY SMT DEF IsList
<1>2. /\ t \in Seq(DOMAIN h) /\ Len(t) \in Nat \ {0} /\ t[1] = x
      /\ \A i \in 1 .. (Len(t) - 1) : h[t[i]].next = t[i + 1]
      /\ h[t[Len(t)]].next \notin DOMAIN h
  BY SMT DEF IsList
<1> DEFINE D == {k \in 1 .. Len(s) : k <= Len(t) /\ s[k] # t[k]}
<1>3. D = {}
  <2> SUFFICES ASSUME D # {} PROVE FALSE
    OBVIOUS
  <2>1. D \subseteq Nat
    BY SMT, <1>1
  <2>2. PICK k \in D : \A j \in D : k <= j
    BY <2>1, SmallestExists
  <2>3. k \in 1 .. Len(s) /\ k \in 1 .. Len(t) /\ s[k] # t[k] /\ k # 1
    BY SMT, <1>1, <1>2
  <2>4. k - 1 \in 1 .. Len(s) /\ k - 1 \in 1 .. Len(t) /\ k - 1 < k
    BY SMT, <1>1, <1>2, <2>3
  <2>5. s[k - 1] = t[k - 1]
    BY SMT, <1>1, <1>2, <2>2, <2>4
  <2>6. h[s[k - 1]].next = s[k] /\ h[t[k - 1]].next = t[k]
    BY SMT, <1>1, <1>2, <2>3, <2>4
  <2> QED
    BY <2>3, <2>5, <2>6
<1>4. \A k \in 1 .. Len(s) : k <= Len(t) => s[k] = t[k]
  BY <1>3
<1> HIDE DEF D
<1>5. ~(Len(s) < Len(t))
  <2> SUFFICES ASSUME Len(s) < Len(t) PROVE FALSE
    OBVIOUS
  <2>1. s[Len(s)] = t[Len(s)]
    BY SMT, <1>1, <1>2, <1>4
  <2>2. h[t[Len(s)]].next = t[Len(s) + 1] /\ t[Len(s) + 1] \in DOMAIN h
    BY SMT, <1>1, <1>2
  <2> QED
    BY <1>1, <2>1, <2>2
<1>6. ~(Len(t) < Len(s))
  <2> SUFFICES ASSUME Len(t) < Len(s) PROVE FALSE
    OBVIOUS
  <2>1. s[Len(t)] = t[Len(t)]
    BY SMT, <1>1, <1>2, <1>4
  <2>2. h[s[Len(t)]].next = s[Len(t) + 1] /\ s[Len(t) + 1] \in DOMAIN h
    BY SMT, <1>1, <1>2
  <2> QED
    BY <1>2, <2>1, <2>2
<1>7. Len(s) = Len(t)
  BY SMT, <1>1, <1>2, <1>5, <1>6
<1> QED
  BY SMT, <1>1, <1>2, <1>4, <1>7

\* Any versions there are have a last one among them, whose next is not.
LEMMA SomeIsLast ==
  ASSUME NEW h, Sound(h), NEW S, S \subseteq DOMAIN h, S # {}
  PROVE  \E x \in S : h[x].next \notin S
<1>1. PICK rank : Ranked(h, rank)
  BY DEF Sound, Acyclic
<1> DEFINE R == {rank[x] : x \in S}
<1>2. R \subseteq Nat /\ R # {}
  BY <1>1 DEF Ranked
<1>3. PICK n \in R : \A m \in R : n <= m
  BY <1>2, SmallestExists
<1>4. PICK x \in S : rank[x] = n
  BY <1>3
<1>5. ASSUME h[x].next \in S
      PROVE  FALSE
  <2>1. rank[h[x].next] < rank[x]
    BY <1>1, <1>5 DEF Ranked, Sound, Heap
  <2>2. rank[h[x].next] \in R /\ rank[h[x].next] \in Nat /\ rank[x] \in Nat
    BY <1>2, <1>5
  <2> QED
    BY SMT, <1>3, <1>4, <2>1, <2>2
<1> QED
  BY <1>5

\* Every version is the first of a list.
LEMMA ListExists ==
  ASSUME NEW h, Sound(h)
  PROVE  \A x \in DOMAIN h : \E s : IsList(h, x, s)
<1> DEFINE Bad == {x \in DOMAIN h : ~\E s : IsList(h, x, s)}
<1> SUFFICES ASSUME Bad # {}
             PROVE  FALSE
  OBVIOUS
<1>1. PICK x \in Bad : h[x].next \notin Bad
  <2>1. Bad \subseteq DOMAIN h
    OBVIOUS
  <2> HIDE DEF Bad
  <2> QED
    BY <2>1, SomeIsLast
<1>2. CASE h[x].next \in DOMAIN h
  <2>1. PICK s : IsList(h, h[x].next, s)
    BY <1>1, <1>2
  <2> QED
    BY <2>1, ListExtends
<1>3. CASE h[x].next \notin DOMAIN h
  BY <1>3, ListEnds
<1> QED
  BY <1>2, <1>3

\* f gives every version what follows it.
Traces(f, h) ==
    f = [x \in DOMAIN h |-> IF h[x].next \in DOMAIN h THEN <<x>> \o f[h[x].next] ELSE <<x>>]

\* Elements() is well defined, and is the list from a.
LEMMA ElementsIsList ==
  ASSUME NEW h, Sound(h), NEW a \in DOMAIN h
  PROVE  IsList(h, a, Elements(h, a))
<1> DEFINE from == CHOOSE f : f = [x \in DOMAIN h |->
                     IF h[x].next \in DOMAIN h THEN <<x>> \o f[h[x].next] ELSE <<x>>]
<1>1. Elements(h, a) = from[a]
  BY DEF Elements
<1>2. \E f : Traces(f, h)
  <2> DEFINE F == [x \in DOMAIN h |-> CHOOSE s : IsList(h, x, s)]
             G == [x \in DOMAIN h |-> IF h[x].next \in DOMAIN h THEN <<x>> \o F[h[x].next] ELSE <<x>>]
  <2>1. ASSUME NEW x \in DOMAIN h
        PROVE  IsList(h, x, F[x])
    BY ListExists
  <2>2. ASSUME NEW x \in DOMAIN h
        PROVE  IsList(h, x, G[x])
    <3>1. CASE h[x].next \in DOMAIN h
      <4>1. G[x] = <<x>> \o F[h[x].next]
        BY <3>1
      <4> HIDE DEF F, G
      <4> QED
        BY <2>1, <3>1, <4>1, ListExtends
    <3>2. CASE h[x].next \notin DOMAIN h
      <4>1. G[x] = <<x>>
        BY <3>2
      <4> HIDE DEF F, G
      <4> QED
        BY <3>2, <4>1, ListEnds
    <3> QED
      BY <3>1, <3>2
  <2>3. ASSUME NEW x \in DOMAIN h
        PROVE  F[x] = G[x]
    <3>1. IsList(h, x, F[x]) /\ IsList(h, x, G[x])
      BY <2>1, <2>2
    <3> HIDE DEF F, G
    <3> QED
      BY <3>1, ListIsUnique
  <2>4. F = G
    BY <2>3
  <2> QED
    BY <2>4 DEF Traces
<1>3. Traces(from, h)
  <2>1. from = CHOOSE f : Traces(f, h)
    BY DEF Traces
  <2> HIDE DEF from
  <2> QED
    BY <1>2, <2>1
<1> HIDE DEF from
<1>4. \A x \in DOMAIN h : IsList(h, x, from[x])
  <2> DEFINE Bad == {x \in DOMAIN h : ~IsList(h, x, from[x])}
  <2> SUFFICES ASSUME Bad # {}
               PROVE  FALSE
    OBVIOUS
  <2>1. PICK x \in Bad : h[x].next \notin Bad
    <3>1. Bad \subseteq DOMAIN h
      OBVIOUS
    <3> HIDE DEF Bad
    <3> QED
      BY <3>1, SomeIsLast
  <2>2. CASE h[x].next \in DOMAIN h
    <3>1. from[x] = <<x>> \o from[h[x].next] /\ IsList(h, h[x].next, from[h[x].next])
      BY <1>3, <2>1, <2>2 DEF Traces
    <3> QED
      BY <3>1, ListExtends
  <2>3. CASE h[x].next \notin DOMAIN h
    <3>1. from[x] = <<x>>
      BY <1>3, <2>3 DEF Traces
    <3> QED
      BY <2>3, <3>1, ListEnds
  <2> QED
    BY <2>2, <2>3
<1> QED
  BY <1>1, <1>4

\* A list is as long as it has versions, each linked back to the one before.
LEMMA ListIsDistinct ==
  ASSUME NEW h, Sound(h), NEW a, NEW s, IsList(h, a, s)
  PROVE  /\ \A i, j \in 1 .. Len(s) : i < j => s[i] # s[j]
         /\ \A i \in 1 .. Len(s) : i # 1 => h[s[i]].prev = s[i - 1] /\ s[i - 1] # Null
<1>1. /\ s \in Seq(DOMAIN h) /\ Len(s) \in Nat \ {0} /\ \A i \in 1 .. Len(s) : s[i] \in DOMAIN h
      /\ \A i \in 1 .. (Len(s) - 1) : h[s[i]].next = s[i + 1]
  BY SMT DEF IsList
<1>2. Null \notin DOMAIN h
  BY DEF Sound, Heap
<1>3. PICK rank : Ranked(h, rank)
  BY DEF Sound, Acyclic
<1>4. ASSUME NEW i \in 1 .. (Len(s) - 1)
      PROVE  rank[s[i + 1]] < rank[s[i]]
  <2>1. s[i] \in DOMAIN h /\ s[i + 1] \in DOMAIN h /\ h[s[i]].next = s[i + 1]
    BY SMT, <1>1
  <2> QED
    BY <1>2, <1>3, <2>1 DEF Ranked
<1>5. \A i \in 1 .. Len(s) : rank[s[i]] \in Nat
  BY <1>1, <1>3 DEF Ranked
<1>6. ASSUME NEW i \in 1 .. Len(s), NEW j \in 1 .. Len(s), i < j
      PROVE  rank[s[j]] < rank[s[i]]
  <2> DEFINE D == {k \in 1 .. Len(s) : i < k /\ ~(rank[s[k]] < rank[s[i]])}
  <2> SUFFICES ASSUME D # {}
               PROVE  FALSE
    BY <1>6
  <2>1. D \subseteq Nat
    BY SMT, <1>1
  <2>2. PICK k \in D : \A m \in D : k <= m
    BY <2>1, SmallestExists
  <2>3. /\ k \in 1 .. Len(s) /\ i < k /\ ~(rank[s[k]] < rank[s[i]])
        /\ k - 1 \in 1 .. (Len(s) - 1) /\ k - 1 \in 1 .. Len(s) /\ (k - 1) + 1 = k
    BY SMT, <1>1, <2>2
  <2>4. rank[s[k]] < rank[s[k - 1]]
    BY <1>4, <2>3
  <2>5. k - 1 = i \/ rank[s[k - 1]] < rank[s[i]]
    BY SMT, <1>1, <2>2, <2>3
  <2>6. rank[s[k]] \in Nat /\ rank[s[k - 1]] \in Nat /\ rank[s[i]] \in Nat
    BY <1>5, <2>3
  <2> QED
    BY SMT, <2>3, <2>4, <2>5, <2>6
<1>7. ASSUME NEW i \in 1 .. Len(s), NEW j \in 1 .. Len(s), i < j
      PROVE  s[i] # s[j]
  BY SMT, <1>5, <1>6, <1>7
<1>8. ASSUME NEW i \in 1 .. Len(s), i # 1
      PROVE  h[s[i]].prev = s[i - 1] /\ s[i - 1] # Null
  <2>1. s[i] \in DOMAIN h /\ s[i - 1] \in DOMAIN h /\ h[s[i - 1]].next = s[i]
    BY SMT, <1>1, <1>8
  <2> QED
    BY <1>2, <2>1 DEF Sound, Links
<1> QED
  BY <1>7, <1>8

\* The heap as a loop destroys the first N versions of s, one after the other.
Sweeps(f, h, s, N) ==
    f = [k \in 0 .. N |-> IF k = 0 THEN h ELSE Destroyed(f[k - 1], s[k])]

\* The loop is well defined.
LEMMA SweepsExist ==
  ASSUME NEW h, NEW s, NEW N \in Nat
  PROVE  \E f : Sweeps(f, h, s, N)
<1> DEFINE Bad == {k \in Nat : ~\E f : Sweeps(f, h, s, k)}
<1>1. 0 \notin Bad
  <2> DEFINE f == [k \in 0 .. 0 |-> h]
  <2>1. Sweeps(f, h, s, 0)
    BY SMT DEF Sweeps
  <2> QED
    BY <2>1
<1>2. ASSUME NEW m \in Nat, m \notin Bad
      PROVE  m + 1 \notin Bad
  <2>1. PICK f : Sweeps(f, h, s, m)
    BY <1>2
  <2> DEFINE g == [k \in 0 .. (m + 1) |-> IF k = 0 THEN h ELSE Destroyed(f[k - 1], s[k])]
  <2>2. \A k \in 0 .. m : g[k] = f[k]
    BY SMT, <2>1 DEF Sweeps
  <2>3. \A k \in 0 .. (m + 1) : k # 0 => k - 1 \in 0 .. m
    BY SMT
  <2>4. Sweeps(g, h, s, m + 1)
    BY <2>2, <2>3 DEF Sweeps
  <2> QED
    BY <2>4
<1>3. Bad = {}
  <2> SUFFICES ASSUME Bad # {}
               PROVE  FALSE
    OBVIOUS
  <2>1. Bad \subseteq Nat
    OBVIOUS
  <2> HIDE DEF Bad
  <2>2. PICK m \in Bad : \A y \in Bad : m <= y
    BY <2>1, SmallestExists
  <2>3. m - 1 \in Nat /\ m - 1 \notin Bad /\ m = (m - 1) + 1
    BY SMT, <1>1, <2>1, <2>2
  <2> QED
    BY <1>2, <2>2, <2>3
<1> QED
  BY <1>3

\* g is h without some versions from a on, sound, and the same otherwise.
Removed(h, g, a) ==
    /\ Sound(g) /\ DOMAIN g \subseteq DOMAIN h
    /\ \A x \in DOMAIN g :
         /\ Kept(h[x], g[x]) /\ g[x].backref = h[x].backref
         /\ h[x].prev = Null => g[x].prev = Null
    /\ \A x \in DOMAIN h : x # a /\ h[x].prev = Null => x \in DOMAIN g

\* remove_or_mark_as_unique_owner() destroys versions of the list from a only.
LEMMA RemoveOrMarkShape ==
  ASSUME NEW h, Sound(h), NEW a \in DOMAIN h
  PROVE  Removed(h, RemoveOrMark(h, a), a)
<1> DEFINE s == Elements(h, a)
           J == {j \in DOMAIN s : \A k \in 1 .. j : ~h[s[k]].backref}
           n == Cardinality(J)
           after == CHOOSE f : f = [k \in 0 .. n |-> IF k = 0 THEN h ELSE Destroyed(f[k - 1], s[k])]
<1>1. RemoveOrMark(h, a) = after[n]
  BY DEF RemoveOrMark
<1>2. IsList(h, a, s)
  BY ElementsIsList
<1>3. /\ Len(s) \in Nat /\ DOMAIN s = 1 .. Len(s) /\ s[1] = a
      /\ \A i \in 1 .. Len(s) : s[i] \in DOMAIN h
  <2> HIDE DEF s
  <2> QED
    BY SMT, <1>2 DEF IsList
<1>4. n \in Nat /\ n <= Len(s)
  <2> HIDE DEF s
  <2>1. IsFiniteSet(1 .. Len(s)) /\ Cardinality(1 .. Len(s)) = Len(s)
    BY SMT, <1>3, FS_Interval
  <2>2. J \in SUBSET (1 .. Len(s))
    BY <1>3
  <2> HIDE DEF J
  <2>3. IsFiniteSet(J) /\ n <= Cardinality(1 .. Len(s))
    BY <2>1, <2>2, FS_Subset
  <2>4. n \in Nat
    BY <2>3, FS_CardinalityType
  <2> QED
    BY <2>1, <2>3, <2>4
<1> HIDE DEF n, s
<1>5. Sweeps(after, h, s, n)
  <2>1. \E f : Sweeps(f, h, s, n)
    BY <1>4, SweepsExist
  <2>2. after = CHOOSE f : Sweeps(f, h, s, n)
    BY DEF Sweeps
  <2> HIDE DEF after
  <2> QED
    BY <2>1, <2>2
<1> HIDE DEF after
<1> DEFINE Swept(k) ==
      /\ Sound(after[k]) /\ DOMAIN after[k] = DOMAIN h \ {s[j] : j \in 1 .. k}
      /\ \A x \in DOMAIN after[k] :
           /\ Kept(h[x], after[k][x]) /\ after[k][x].backref = h[x].backref
           /\ h[x].prev = Null => after[k][x].prev = Null
<1>6. Swept(0)
  <2>1. after[0] = h
    BY SMT, <1>4, <1>5 DEF Sweeps
  <2>2. {s[j] : j \in 1 .. 0} = {}
    BY SMT
  <2> QED
    BY <2>1, <2>2 DEF Kept
<1>7. ASSUME NEW k \in Nat, k < n, Swept(k)
      PROVE  Swept(k + 1)
  <2> DEFINE f == after[k]
             g == after[k + 1]
             c == s[k + 1]
  <2>1. g = Destroyed(f, c)
    BY SMT, <1>4, <1>5, <1>7 DEF Sweeps
  <2>2. c \in DOMAIN f
    <3>1. k + 1 \in 1 .. Len(s) /\ \A j \in 1 .. k : j \in 1 .. Len(s) /\ j < k + 1
      BY SMT, <1>3, <1>4, <1>7
    <3>2. c \in DOMAIN h /\ \A j \in 1 .. k : s[j] # c
      BY <1>2, <1>3, <3>1, ListIsDistinct
    <3> HIDE DEF c
    <3> QED
      BY <1>7, <3>2
  <2>3. {s[j] : j \in 1 .. (k + 1)} = {s[j] : j \in 1 .. k} \union {c}
    <3>1. \A j : j \in 1 .. (k + 1) <=> j \in 1 .. k \/ j = k + 1
      BY SMT, <1>7
    <3> QED
      BY <3>1
  <2> HIDE DEF f, g, c
  <2>4. Freed(f, g, c)
    BY <1>7, <2>1, <2>2, DestroyedShape DEF f
  <2>5. Sound(g) /\ DOMAIN g = DOMAIN f \ {c}
    BY <2>4 DEF Freed
  <2>6. DOMAIN g = DOMAIN h \ {s[j] : j \in 1 .. (k + 1)}
    BY <1>7, <2>3, <2>5 DEF f
  <2>7. ASSUME NEW x \in DOMAIN g
        PROVE  /\ Kept(h[x], g[x]) /\ g[x].backref = h[x].backref
               /\ h[x].prev = Null => g[x].prev = Null
    <3>1. x \in DOMAIN f
      BY <2>5
    <3>2. /\ Kept(f[x], g[x]) /\ g[x].backref = f[x].backref
          /\ f[x].prev = Null => g[x].prev = Null
      BY <2>4 DEF Freed
    <3>3. /\ Kept(h[x], f[x]) /\ f[x].backref = h[x].backref
          /\ h[x].prev = Null => f[x].prev = Null
      BY <1>7, <3>1 DEF f
    <3> QED
      BY <3>2, <3>3 DEF Kept
  <2> QED
    BY <2>5, <2>6, <2>7 DEF g
<1>8. Swept(n)
  <2> HIDE DEF Swept
  <2> DEFINE Bad == {k \in Nat : k <= n /\ ~Swept(k)}
  <2> SUFFICES ASSUME Bad # {}
               PROVE  FALSE
    BY SMT, <1>4
  <2>1. PICK k \in Bad : \A j \in Bad : k <= j
    BY SmallestExists
  <2>2. k \in Nat /\ k <= n /\ ~Swept(k) /\ k # 0
    BY <1>6, <2>1
  <2>3. k - 1 \in Nat /\ k - 1 < n /\ k - 1 < k /\ (k - 1) + 1 = k /\ k - 1 <= n
    BY SMT, <1>4, <2>2
  <2>4. Swept(k - 1)
    BY SMT, <2>1, <2>2, <2>3
  <2>5. Swept((k - 1) + 1)
    BY <1>7, <2>3, <2>4
  <2> QED
    BY <2>2, <2>3, <2>5
<1>9. ASSUME NEW x \in DOMAIN h, x # a, h[x].prev = Null
      PROVE  x \notin {s[j] : j \in 1 .. n}
  <2> SUFFICES ASSUME NEW j \in 1 .. n, x = s[j]
               PROVE  FALSE
    OBVIOUS
  <2>1. j \in 1 .. Len(s) /\ j # 1
    BY SMT, <1>3, <1>4, <1>9
  <2>2. h[s[j]].prev = s[j - 1] /\ s[j - 1] # Null
    BY <1>2, <2>1, ListIsDistinct
  <2> QED
    BY <1>9, <2>2
<1> QED
  BY <1>1, <1>8, <1>9 DEF Removed

-----------------------------------------------------------------------------
(* The pointers, through every operation.                                  *)

\* BackPointersHold and AtFront, of any heap h, entry at v and snapshots t.
Consistent(h, v, t) ==
    /\ Sound(h)
    /\ \A x \in DOMAIN h :
         /\ h[x].backref => v = x
         /\ h[x].snapshot # Null => t[h[x].snapshot].readers # {} /\ t[h[x].snapshot].version = x
    /\ v \in DOMAIN h => h[v].prev = Null

\* In a state of the system.
LEMMA InvIsConsistent ==
  IndInv <=> /\ Types /\ OneEach /\ Consistent(heap, entry.version, snaps)
  BY DEF IndInv, Types, Sound, Consistent, BackPointersHold, AtFront

\* The same after a step.
LEMMA ConsistentIsInv ==
  ASSUME Consistent(heap', entry.version', snaps'), entry' \in EntryRef,
         snaps' \in [Ids -> Snapshot], OneEach', fault' \in BOOLEAN, events' \in Nat
  PROVE  IndInv'
  BY DEF IndInv, Types, Sound, Consistent, BackPointersHold, AtFront

\* A heap with the same links is sound.
LEMMA SameLinks ==
  ASSUME NEW h, Sound(h), NEW g, DOMAIN g = DOMAIN h, Heap(g),
         \A x \in DOMAIN h : g[x].next = h[x].next /\ g[x].prev = h[x].prev
  PROVE  Sound(g)
<1>1. Links(g)
  BY SMT DEF Sound, Links
<1>2. Acyclic(g)
  BY DEF Sound, Acyclic, Ranked
<1> QED
  BY <1>1, <1>2 DEF Sound

\* A version that is linked to nothing changes no list.
LEMMA AddedIsSound ==
  ASSUME NEW h, Sound(h), NEW a, a \notin DOMAIN h, NEW v, v.next = Null, v.prev = Null,
         NEW g, Added(h, g, a, v)
  PROVE  Sound(g)
<1>1. DOMAIN g = DOMAIN h \union {a} /\ Heap(g) /\ g[a] = v /\ \A x \in DOMAIN h : g[x] = h[x]
  BY DEF Added
<1>2. Links(g)
  BY SMT, <1>1 DEF Sound, Links
<1>3. Acyclic(g)
  <2>1. PICK rank : Ranked(h, rank)
    BY DEF Sound, Acyclic
  <2> DEFINE new == [x \in DOMAIN g |-> IF x = a THEN 0 ELSE rank[x]]
  <2>2. new \in [DOMAIN g -> Nat]
    BY <1>1, <2>1 DEF Ranked
  <2>3. ASSUME NEW x \in DOMAIN g, g[x].next # Null
        PROVE  new[g[x].next] < new[x]
    <3>1. x \in DOMAIN h /\ g[x] = h[x] /\ h[x].next \in DOMAIN h
      BY <1>1, <2>3 DEF Sound, Links
    <3>2. new[g[x].next] = rank[h[x].next] /\ new[x] = rank[x]
      BY <1>1, <3>1
    <3> QED
      BY <2>1, <2>3, <3>1, <3>2 DEF Ranked
  <2> HIDE DEF new
  <2> QED
    BY <2>2, <2>3 DEF Acyclic, Ranked
<1> QED
  BY <1>1, <1>2, <1>3 DEF Sound

\* The new version of apply() takes the back reference.
LEMMA FrontedIsConsistent ==
  ASSUME NEW h, NEW b \in DOMAIN h, NEW t, Consistent(h, b, t),
         NEW a, a \notin DOMAIN h, NEW g, NEW n, Fronted(h, g, a, b, n)
  PROVE  Consistent(g, a, t)
<1>1. Sound(g)
  BY FrontedIsSound DEF Consistent
<1>2. ASSUME NEW x \in DOMAIN g
      PROVE  /\ g[x].backref => a = x
             /\ g[x].snapshot # Null => t[g[x].snapshot].readers # {} /\ t[g[x].snapshot].version = x
  <2>1. CASE x = a
    BY <2>1 DEF Fronted
  <2>2. CASE x \in DOMAIN h
    <3>1. g[x].snapshot = h[x].snapshot /\ (g[x].backref => h[x].backref /\ x # b)
      BY <2>2 DEF Fronted, Kept
    <3>2. h[x].backref => b = x
      BY <2>2 DEF Consistent
    <3>3. h[x].snapshot # Null => t[h[x].snapshot].readers # {} /\ t[h[x].snapshot].version = x
      BY <2>2 DEF Consistent
    <3> QED
      BY <3>1, <3>2, <3>3
  <2> QED
    BY <2>1, <2>2 DEF Fronted
<1> QED
  BY <1>1, <1>2 DEF Consistent, Fronted

\* The trimming touches no back reference.
LEMMA ErasedIsConsistent ==
  ASSUME NEW h, NEW v, NEW t, Consistent(h, v, t), NEW a \in DOMAIN h, NEW g, Erased(h, g, a)
  PROVE  Consistent(g, v, t)
<1>1. Sound(g)
  BY ErasedIsSound DEF Consistent
<1>2. ASSUME NEW x \in DOMAIN g
      PROVE  /\ g[x].backref => v = x
             /\ g[x].snapshot # Null => t[g[x].snapshot].readers # {} /\ t[g[x].snapshot].version = x
  <2>1. x \in DOMAIN h /\ g[x].snapshot = h[x].snapshot /\ g[x].backref = h[x].backref
    BY DEF Erased, Kept
  <2> QED
    BY <2>1 DEF Consistent
<1>3. a # Null
  BY DEF Consistent, Sound, Heap
<1>4. v \in DOMAIN g => g[v].prev = Null
  <2>1. SUFFICES ASSUME v \in DOMAIN g
                 PROVE  g[v].prev = Null
    OBVIOUS
  <2>2. v \in DOMAIN h
    BY <2>1 DEF Erased
  <2>3. h[v].prev = Null
    BY <2>2 DEF Consistent
  <2>4. CASE v = a
    BY <2>4 DEF Erased
  <2>5. CASE v # a
    BY <1>3, <2>2, <2>3, <2>5 DEF Erased
  <2> QED
    BY <2>4, <2>5
<1> QED
  BY <1>1, <1>2, <1>4 DEF Consistent

\* An entry is created with one empty version.
LEMMA InitInv == Init => IndInv
<1> SUFFICES ASSUME Init PROVE IndInv
  OBVIOUS
<1> DEFINE v == [NewVersion(0) EXCEPT !.backref = TRUE]
<1>1. v \in Version /\ v.next = Null /\ v.prev = Null /\ v.snapshot = Null
  <2>1. NewVersion(0) \in Version
    BY NewVersionFields
  <2> QED
    BY <2>1 DEF NewVersion, Version, Null
<1>2. DOMAIN heap = {1} /\ heap[1] = v /\ heap \in [{1} -> Version]
  BY <1>1 DEF Init
<1> HIDE DEF v
<1>3. Heap(heap)
  <2>1. {1} \subseteq Nat \ {Null}
    BY SMT DEF Null
  <2>2. IsFiniteSet({1})
    BY FS_Singleton
  <2> QED
    BY <1>2, <2>1, <2>2 DEF Heap
<1>4. entry \in EntryRef /\ entry.version = 1
  BY DEF Init, EntryRef, Null
<1>5. snaps \in [Ids -> Snapshot] /\ \A i \in Ids : snaps[i].readers = {}
  BY DEF Init, NoSnapshot, Snapshot, Null
<1>6. fault \in BOOLEAN /\ events \in Nat
  BY DEF Init
<1>7. Types /\ OneEach
  BY <1>3, <1>4, <1>5, <1>6 DEF Types, OneEach
<1>8. Links(heap)
  BY <1>1, <1>2 DEF Links
<1>9. Acyclic(heap)
  <2> DEFINE rank == [x \in {1} |-> 0]
  <2>1. rank \in [DOMAIN heap -> Nat]
    BY <1>2
  <2>2. Ranked(heap, rank)
    BY <1>1, <1>2, <2>1 DEF Ranked
  <2> QED
    BY <2>2 DEF Acyclic
<1>10. BackPointersHold /\ AtFront
  BY <1>1, <1>2, <1>4 DEF BackPointersHold, AtFront
<1> QED
  BY <1>7, <1>8, <1>9, <1>10 DEF IndInv

\* Where the trimming ends up there is a version, and another one after it.
LEMMA TrimmedHasNext ==
  ASSUME NEW h, Sound(h), NEW e, Trimmed(h, e) # Null
  PROVE  Trimmed(h, e) \in DOMAIN h /\ h[Trimmed(h, e)].next \in DOMAIN h
<1> DEFINE m == e.last_version
           l == IF h[m].snapshot = Null THEN h[m].prev ELSE m
<1>1. m \in DOMAIN h /\ Trimmed(h, e) = l /\ l # Null /\ h[l].next # Null
  BY DEF Trimmed
<1>2. l \in DOMAIN h
  BY <1>1 DEF Sound, Links
<1> HIDE DEF l
<1> QED
  BY <1>1, <1>2 DEF Sound, Links

\* What apply() does before it trims: a version in front and the entry's counters.
LEMMA ApplyInserts ==
  ASSUME IndInv, NEW vtw \in WriteVersions, Usable
  PROVE  LET n == Promoted(entry, vtw)
             a == FreshAddress
             h == SetVersion(InsertBefore(Placed(heap, a, NewVersion(n)), a, entry.version),
                             entry.version, a)
         IN  /\ n \in Nat /\ Fronted(heap, h, a, entry.version, n)
             /\ Consistent(h, a, snaps)
<1> DEFINE n == Promoted(entry, vtw)
           a == FreshAddress
           b == entry.version
           h == SetVersion(InsertBefore(Placed(heap, a, NewVersion(n)), a, b), b, a)
<1>1. Types /\ Consistent(heap, b, snaps)
  BY InvIsConsistent
<1>2. vtw \in Nat
  BY VersionHeapAssumption
<1>3. n \in Nat
  BY SMT, <1>1, <1>2 DEF Types, EntryRef, Promoted
<1>4. b \in DOMAIN heap
  BY DEF Usable
<1>5. a \in Nat \ {0} /\ a \notin DOMAIN heap
  BY <1>1, FreshIsFree
<1>6. Heap(heap) /\ Links(heap) /\ heap[b].prev = Null
  BY <1>1, <1>4 DEF Consistent, Sound
<1> HIDE DEF n, a, b
<1>7. Fronted(heap, h, a, b, n)
  BY <1>3, <1>4, <1>5, <1>6, InsertedInFront
<1> HIDE DEF h
<1>8. Consistent(h, a, snaps)
  BY <1>1, <1>4, <1>5, <1>7, FrontedIsConsistent
<1> QED
  BY <1>3, <1>7, <1>8 DEF n, a, b, h

\* f is e with other fields.
Counting(e, f, v, w, c, l) ==
    /\ f \in EntryRef /\ f.version = v /\ f.highest_version_read = e.highest_version_read
    /\ f.highest_version_written = w /\ f.num_versions = c /\ f.last_version = l

\* Assigning to the fields of an entry.
LEMMA EntryFields ==
  ASSUME NEW e \in EntryRef, NEW v \in Nat, NEW w \in Nat, NEW c \in Nat, NEW l \in Nat
  PROVE  /\ Counting(e, [e EXCEPT !.version = v, !.last_version = l,
                                  !.highest_version_written = w, !.num_versions = c], v, w, c, l)
         /\ Counting(e, [e EXCEPT !.last_version = l, !.num_versions = c],
                     e.version, e.highest_version_written, c, l)
  BY DEF EntryRef, Counting

\* The entry's counters, with a new version of number n at a.
LEMMA CountersAfter ==
  ASSUME NEW e \in EntryRef, NEW n \in Nat, NEW a \in Nat
  PROVE  Counting(e, [ e EXCEPT !.version = a,
                                !.last_version = IF n = 1 THEN a ELSE @,
                                !.highest_version_written = n,
                                !.num_versions = @ + 1 ],
                  a, n, e.num_versions + 1, IF n = 1 THEN a ELSE e.last_version)
<1> DEFINE l == IF n = 1 THEN a ELSE e.last_version
           c == e.num_versions + 1
<1>1. l \in Nat /\ c \in Nat
  BY SMT DEF EntryRef
<1> HIDE DEF l, c
<1>2. Counting(e, [e EXCEPT !.version = a, !.last_version = l,
                            !.highest_version_written = n, !.num_versions = c], a, n, c, l)
  BY <1>1, EntryFields
<1> QED
  BY <1>2 DEF l, c

\* The entry's counters, with one version less and l the new last_version.
LEMMA CountersTrimmed ==
  ASSUME NEW e \in EntryRef, NEW l \in Nat, NeedsGC(e)
  PROVE  Counting(e, [e EXCEPT !.last_version = l, !.num_versions = @ - 1],
                  e.version, e.highest_version_written, e.num_versions - 1, l)
<1> DEFINE c == e.num_versions - 1
<1>1. c \in Nat
  BY SMT, MaxVersionsAssumption DEF EntryRef, NeedsGC
<1> HIDE DEF c
<1>2. Counting(e, [e EXCEPT !.last_version = l, !.num_versions = c],
               e.version, e.highest_version_written, c, l)
  BY <1>1, EntryFields
<1> QED
  BY <1>2 DEF c

\* apply() keeps the invariant, whether it trims or faults.
LEMMA ApplyKeepsInv ==
  ASSUME IndInv, NEW vtw \in WriteVersions, Apply(vtw)
  PROVE  IndInv'
<1> DEFINE n == Promoted(entry, vtw)
           a == FreshAddress
           h == SetVersion(InsertBefore(Placed(heap, a, NewVersion(n)), a, entry.version),
                           entry.version, a)
           e == [ entry EXCEPT !.version = a,
                               !.last_version = IF n = 1 THEN a ELSE @,
                               !.highest_version_written = n,
                               !.num_versions = @ + 1 ]
           l == Trimmed(h, e)
<1>1. /\ Usable /\ UNCHANGED <<snaps, events>>
      /\ \/ ~NeedsGC(e) /\ heap' = h /\ entry' = e /\ UNCHANGED fault
         \/ /\ NeedsGC(e) /\ l # Null
            /\ heap' = Erase(h, h[l].next)
            /\ entry' = [e EXCEPT !.last_version = l, !.num_versions = @ - 1]
            /\ UNCHANGED fault
         \/ NeedsGC(e) /\ l = Null /\ fault' = TRUE /\ UNCHANGED <<heap, entry>>
  BY DEF Apply
<1>2. n \in Nat /\ Consistent(h, a, snaps)
  BY <1>1, ApplyInserts
<1>3. Types /\ OneEach /\ Consistent(heap, entry.version, snaps)
  BY InvIsConsistent
<1>4. a \in Nat
  BY <1>3, FreshIsFree
<1> HIDE DEF n, a, h
<1>5. e \in EntryRef /\ e.version = a
  <2>1. Counting(entry, e, a, n, entry.num_versions + 1, IF n = 1 THEN a ELSE entry.last_version)
    BY <1>2, <1>3, <1>4, CountersAfter DEF Types
  <2> QED
    BY <2>1 DEF Counting
<1> HIDE DEF e
<1>6. snaps' \in [Ids -> Snapshot] /\ events' \in Nat /\ OneEach'
  BY <1>1, <1>3 DEF Types, OneEach
<1>7. CASE ~NeedsGC(e) /\ heap' = h /\ entry' = e /\ UNCHANGED fault
  BY <1>1, <1>2, <1>3, <1>5, <1>6, <1>7, ConsistentIsInv DEF Types
<1>8. CASE /\ NeedsGC(e) /\ l # Null
           /\ heap' = Erase(h, h[l].next)
           /\ entry' = [e EXCEPT !.last_version = l, !.num_versions = @ - 1]
           /\ UNCHANGED fault
  <2>1. l \in DOMAIN h /\ h[l].next \in DOMAIN h
    BY <1>2, <1>8, TrimmedHasNext DEF Consistent
  <2>2. Consistent(heap', a, snaps)
    <3>1. Erased(h, heap', h[l].next)
      BY <1>2, <1>8, <2>1, EraseShape DEF Consistent
    <3> QED
      BY <1>2, <2>1, <3>1, ErasedIsConsistent
  <2>3. l \in Nat
    BY <1>2, <2>1 DEF Consistent, Sound, Heap
  <2> HIDE DEF l
  <2>4. entry' \in EntryRef /\ entry.version' = a
    BY <1>5, <1>8, <2>3, CountersTrimmed DEF Counting
  <2> QED
    BY <1>1, <1>3, <1>6, <1>8, <2>2, <2>4, ConsistentIsInv DEF Types
<1>9. CASE NeedsGC(e) /\ l = Null /\ fault' = TRUE /\ UNCHANGED <<heap, entry>>
  BY <1>1, <1>3, <1>6, <1>9, ConsistentIsInv DEF Types
<1> QED
  BY <1>1, <1>7, <1>8, <1>9

\* n are numbers, as many as s has elements.
AsLong(n, s) ==
    n \in Seq(Nat) /\ n # <<>> /\ DOMAIN n = 1 .. Len(s) /\ Len(n) = Len(s)

\* The numbers on a list are a list of numbers.
LEMMA NumbersAreNumbers ==
  ASSUME NEW h, Heap(h), NEW a, NEW s, IsList(h, a, s)
  PROVE  AsLong([i \in DOMAIN s |-> h[s[i]].number], s)
<1>1. s \in Seq(DOMAIN h) /\ Len(s) \in Nat \ {0} /\ DOMAIN s = 1 .. Len(s)
  BY SMT DEF IsList
<1>2. ASSUME NEW i \in DOMAIN s PROVE h[s[i]].number \in Nat
  <2>1. s[i] \in DOMAIN h
    BY SMT, <1>1
  <2> QED
    BY <2>1 DEF Heap, Version
<1> QED
  BY SMT, <1>1, <1>2 DEF AsLong

\* Where the scan of read() stops, and that it is where VersionRead is.
LEMMA ScanFinds ==
  ASSUME NEW n \in Seq(Nat), n # <<>>, NEW vtr \in Nat
  PROVE  LET i == IF vtr = 0 \/ FallsBack(n, vtr) THEN 1 ELSE CHOOSE j \in ScanStop(n, vtr) : TRUE
         IN  i \in DOMAIN n /\ n[i] = VersionRead(n, vtr)
<1>1. CASE vtr = 0 \/ FallsBack(n, vtr)
  BY SMT, <1>1 DEF VersionRead
<1>2. CASE ~(vtr = 0 \/ FallsBack(n, vtr))
  <2>1. PICK k \in ScanStop(n, vtr) : TRUE
    BY SMT, <1>2 DEF FallsBack
  <2>2. ScanStop(n, vtr) \subseteq DOMAIN n
    BY DEF ScanStop
  <2>3. \A j \in ScanStop(n, vtr) : j = k
    BY <2>1, ScanStopsOnce
  <2>4. (CHOOSE j \in ScanStop(n, vtr) : TRUE) = k
    BY <2>1, <2>3
  <2>5. (CHOOSE j \in DOMAIN n : j \in ScanStop(n, vtr)) = k
    BY <2>1, <2>2, <2>3
  <2>6. VersionRead(n, vtr) = n[CHOOSE j \in DOMAIN n : j \in ScanStop(n, vtr)]
    BY <1>2 DEF VersionRead
  <2>7. VersionRead(n, vtr) = n[k]
    BY <2>5, <2>6
  <2> QED
    BY <1>2, <2>1, <2>2, <2>4, <2>7
<1> QED
  BY <1>1, <1>2

\* g is h with another snapshot and back reference at a.
Marked(h, g, a, i, b) ==
    /\ DOMAIN g = DOMAIN h /\ Heap(g)
    /\ g[a].snapshot = i /\ g[a].backref = b
    /\ \A x \in DOMAIN h :
         /\ g[x].number = h[x].number /\ g[x].next = h[x].next /\ g[x].prev = h[x].prev
         /\ x # a => g[x].snapshot = h[x].snapshot /\ g[x].backref = h[x].backref

\* Assigning to a version's snapshot and back reference.
LEMMA MarkedShape ==
  ASSUME NEW h, Heap(h), NEW a \in DOMAIN h, NEW i \in Ids \union {Null}, NEW b \in BOOLEAN
  PROVE  /\ Marked(h, [h EXCEPT ![a].snapshot = i], a, i, h[a].backref)
         /\ Marked(h, [h EXCEPT ![a].backref = b], a, h[a].snapshot, b)
         /\ Marked(h, [h EXCEPT ![a] = [@ EXCEPT !.snapshot = i, !.backref = b]], a, i, b)
<1>1. ASSUME NEW w, w \in Version, w.number = h[a].number, w.next = h[a].next, w.prev = h[a].prev
      PROVE  Marked(h, [h EXCEPT ![a] = w], a, w.snapshot, w.backref)
  <2> DEFINE g == [h EXCEPT ![a] = w]
  <2>1. DOMAIN g = DOMAIN h /\ g[a] = w /\ \A x \in DOMAIN h : x # a => g[x] = h[x]
    BY DEF Heap
  <2>2. g \in [DOMAIN h -> Version]
    BY <1>1 DEF Heap
  <2> HIDE DEF g
  <2>3. Heap(g)
    BY <2>1, <2>2 DEF Heap
  <2> QED
    BY <1>1, <2>1, <2>3 DEF Marked, g
<1>2. h[a] \in Version
  BY DEF Heap
<1>3. Marked(h, [h EXCEPT ![a].snapshot = i], a, i, h[a].backref)
  <2> DEFINE w == [h[a] EXCEPT !.snapshot = i]
  <2>1. /\ w \in Version /\ w.number = h[a].number /\ w.next = h[a].next /\ w.prev = h[a].prev
        /\ w.snapshot = i /\ w.backref = h[a].backref
    BY <1>2 DEF Version
  <2>2. [h EXCEPT ![a].snapshot = i] = [h EXCEPT ![a] = w]
    OBVIOUS
  <2> HIDE DEF w
  <2> QED
    BY <1>1, <2>1, <2>2
<1>4. Marked(h, [h EXCEPT ![a].backref = b], a, h[a].snapshot, b)
  <2> DEFINE w == [h[a] EXCEPT !.backref = b]
  <2>1. /\ w \in Version /\ w.number = h[a].number /\ w.next = h[a].next /\ w.prev = h[a].prev
        /\ w.snapshot = h[a].snapshot /\ w.backref = b
    BY <1>2 DEF Version
  <2>2. [h EXCEPT ![a].backref = b] = [h EXCEPT ![a] = w]
    OBVIOUS
  <2> HIDE DEF w
  <2> QED
    BY <1>1, <2>1, <2>2
<1>5. Marked(h, [h EXCEPT ![a] = [@ EXCEPT !.snapshot = i, !.backref = b]], a, i, b)
  <2> DEFINE w == [h[a] EXCEPT !.snapshot = i, !.backref = b]
  <2>1. /\ w \in Version /\ w.number = h[a].number /\ w.next = h[a].next /\ w.prev = h[a].prev
        /\ w.snapshot = i /\ w.backref = b
    BY <1>2 DEF Version
  <2>2. [h EXCEPT ![a] = [@ EXCEPT !.snapshot = i, !.backref = b]] = [h EXCEPT ![a] = w]
    OBVIOUS
  <2> HIDE DEF w
  <2> QED
    BY <1>1, <2>1, <2>2
<1> QED
  BY <1>3, <1>4, <1>5

\* The links are the same.
LEMMA MarkedIsSound ==
  ASSUME NEW h, Sound(h), NEW a, NEW i, NEW b, NEW g, Marked(h, g, a, i, b)
  PROVE  Sound(g)
  BY SameLinks DEF Marked

\* The version that read() finds is on the entry's list.
Found(vtr) ==
    LET s == Elements(heap, entry.version)
        n == Numbers(s)
    IN  IF vtr = 0 \/ FallsBack(n, vtr) THEN 1 ELSE CHOOSE j \in ScanStop(n, vtr) : TRUE

\* It is where VersionRead says.
LEMMA FoundIsRead ==
  ASSUME IndInv, entry.version \in DOMAIN heap, NEW vtr \in Nat
  PROVE  LET s == Elements(heap, entry.version)
             i == Found(vtr)
         IN  /\ IsList(heap, entry.version, s) /\ i \in 1 .. Len(s) /\ s[i] \in DOMAIN heap
             /\ heap[s[i]].number = VersionRead(Numbers(s), vtr)
<1> DEFINE s == Elements(heap, entry.version)
           n == Numbers(s)
           i == Found(vtr)
<1>1. Sound(heap) /\ Heap(heap)
  BY InvIsConsistent DEF Consistent, Sound
<1>2. IsList(heap, entry.version, s)
  BY <1>1, ElementsIsList
<1>3. i = IF vtr = 0 \/ FallsBack(n, vtr) THEN 1 ELSE CHOOSE j \in ScanStop(n, vtr) : TRUE
  BY DEF Found
<1> HIDE DEF s
<1>4. n \in Seq(Nat) /\ n # <<>> /\ DOMAIN n = 1 .. Len(s)
  <2>1. AsLong(n, s)
    BY <1>1, <1>2, NumbersAreNumbers DEF Numbers
  <2> QED
    BY <2>1 DEF AsLong
<1>5. s \in Seq(DOMAIN heap) /\ DOMAIN s = 1 .. Len(s)
  BY SMT, <1>2 DEF IsList
<1>6. \A k \in 1 .. Len(s) : s[k] \in DOMAIN heap /\ n[k] = heap[s[k]].number
  BY SMT, <1>5 DEF Numbers
<1> HIDE DEF n, i
<1>7. i \in DOMAIN n /\ n[i] = VersionRead(n, vtr)
  BY <1>3, <1>4, ScanFinds
<1>8. i \in 1 .. Len(s) /\ s[i] \in DOMAIN heap /\ heap[s[i]].number = VersionRead(n, vtr)
  BY <1>4, <1>6, <1>7
<1> QED
  BY <1>2, <1>8 DEF n, i, s

\* What read() does to the snapshots, at a version a whose slot is id.
Entered(t, u, a, id, r, n) ==
    /\ u \in [Ids -> Snapshot]
    /\ \A j \in Ids : j # id => u[j] = t[j]
    /\ u[id].version = a
    /\ u[id].readers = t[id].readers \union {r}
    /\ t[id].readers # {} => u[id].seen = t[id].seen
    /\ t[id].readers = {} => u[id].seen = n

\* t with other readers.
Joined(t, w, R) ==
    w \in Snapshot /\ w.readers = R /\ w.version = t.version /\ w.seen = t.seen

\* Assigning to a snapshot's readers.
LEMMA ReadersField ==
  ASSUME NEW t \in Snapshot, NEW R \in SUBSET Readers
  PROVE  Joined(t, [t EXCEPT !.readers = R], R)
  BY DEF Snapshot, Joined

\* The slot of read() is the version's snapshot, or a free one.
LEMMA ReadShape ==
  ASSUME IndInv, NEW r \in Readers, NEW vtr \in ReadVersions, Read(r, vtr)
  PROVE  LET s == Elements(heap, entry.version)
             a == s[Found(vtr)]
         IN  \E id \in Ids :
               /\ IF heap[a].snapshot = Null THEN snaps[id].readers = {} ELSE id = heap[a].snapshot
               /\ Marked(heap, heap', a, id, heap[a].backref)
               /\ Entered(snaps, snaps', a, id, r, heap[a].number)
<1> DEFINE s == Elements(heap, entry.version)
           a == s[Found(vtr)]
           v == heap[a]
           id == IF v.snapshot # Null THEN v.snapshot
                 ELSE Min({j \in Ids : snaps[j].readers = {}})
<1>1. /\ Usable /\ \A j \in Ids : r \notin snaps[j].readers
      /\ heap' = [heap EXCEPT ![a].snapshot = id]
      /\ snaps' = [snaps EXCEPT ![id] =
                     IF v.snapshot # Null THEN [snaps[id] EXCEPT !.readers = @ \union {r}]
                     ELSE [readers |-> {r}, version |-> a, seen |-> v.number]]
  BY DEF Read, Found
<1>2. Types /\ OneEach /\ Consistent(heap, entry.version, snaps)
  BY InvIsConsistent
<1>3. a \in DOMAIN heap
  BY <1>1, FoundIsRead, VersionHeapAssumption DEF Usable
<1>4. Heap(heap) /\ v \in Version /\ a \in Nat
  BY <1>2, <1>3 DEF Types, Heap
<1> HIDE DEF a
<1>5. CASE v.snapshot # Null
  <2>1. id = v.snapshot /\ id \in Ids
    BY <1>4, <1>5 DEF Version
  <2>2. snaps[id].readers # {} /\ snaps[id].version = a
    BY <1>2, <1>3, <1>5, <2>1 DEF Consistent
  <2>3. Marked(heap, heap', a, id, heap[a].backref)
    BY <1>1, <1>3, <1>4, <2>1, MarkedShape
  <2>4. Entered(snaps, snaps', a, id, r, heap[a].number)
    <3>1. snaps' = [snaps EXCEPT ![id] = [snaps[id] EXCEPT !.readers = snaps[id].readers \union {r}]]
      <4> HIDE DEF id, v
      <4> QED
        BY <1>1, <1>5
    <3>2. snaps \in [Ids -> Snapshot]
      BY <1>2 DEF Types
    <3> DEFINE w == [snaps[id] EXCEPT !.readers = snaps[id].readers \union {r}]
    <3> HIDE DEF id, v
    <3>3. snaps[id] \in Snapshot
      BY <2>1, <3>2
    <3>4. snaps[id].readers \union {r} \in SUBSET Readers
      BY <3>3 DEF Snapshot
    <3>5. Joined(snaps[id], w, snaps[id].readers \union {r})
      BY <3>3, <3>4, ReadersField
    <3>6. snaps' = [snaps EXCEPT ![id] = w]
      BY <3>1
    <3> HIDE DEF w
    <3>7. w \in Snapshot
      BY <3>5 DEF Joined
    <3>8. snaps' \in [Ids -> Snapshot] /\ snaps'[id] = w /\ \A j \in Ids : j # id => snaps'[j] = snaps[j]
      BY <2>1, <3>2, <3>6, <3>7
    <3> QED
      BY <2>2, <3>5, <3>8 DEF Entered, Joined
  <2> HIDE DEF id
  <2> QED
    BY <1>5, <2>1, <2>3, <2>4 DEF a
<1>6. CASE v.snapshot = Null
  <2>1. id \in Ids /\ snaps[id].readers = {}
    BY <1>1, <1>2, <1>6, SlotExists
  <2>2. Marked(heap, heap', a, id, heap[a].backref)
    BY <1>1, <1>3, <1>4, <2>1, MarkedShape
  <2>3. Entered(snaps, snaps', a, id, r, heap[a].number)
    <3>1. snaps' = [snaps EXCEPT ![id] = [readers |-> {r}, version |-> a, seen |-> v.number]]
      BY <1>1, <1>6
    <3>2. snaps \in [Ids -> Snapshot] /\ v.number \in Nat
      BY <1>2, <1>4 DEF Types, Version
    <3> HIDE DEF id
    <3> QED
      BY <1>4, <2>1, <3>1, <3>2 DEF Entered, Snapshot
  <2> HIDE DEF id
  <2> QED
    BY <1>6, <2>1, <2>2, <2>3 DEF a
<1> QED
  BY <1>5, <1>6

\* read() keeps the invariant.
LEMMA ReadKeepsInv ==
  ASSUME IndInv, NEW r \in Readers, NEW vtr \in ReadVersions, Read(r, vtr)
  PROVE  IndInv'
<1> DEFINE a == Elements(heap, entry.version)[Found(vtr)]
<1>1. /\ Usable /\ \A j \in Ids : r \notin snaps[j].readers
      /\ entry' = AfterRead(entry, vtr) /\ UNCHANGED <<fault, events>>
  BY DEF Read
<1>2. Types /\ OneEach /\ Consistent(heap, entry.version, snaps)
  BY InvIsConsistent
<1>3. PICK id \in Ids :
        /\ IF heap[a].snapshot = Null THEN snaps[id].readers = {} ELSE id = heap[a].snapshot
        /\ Marked(heap, heap', a, id, heap[a].backref)
        /\ Entered(snaps, snaps', a, id, r, heap[a].number)
  BY ReadShape
<1>4. a \in DOMAIN heap /\ vtr \in Nat
  BY <1>1, FoundIsRead, VersionHeapAssumption DEF Usable
<1> HIDE DEF a
<1>5. entry' \in EntryRef /\ entry.version' = entry.version
  <2>1. entry \in EntryRef
    BY <1>2 DEF Types
  <2> QED
    BY <1>1, <1>4, <2>1 DEF EntryRef, AfterRead
<1>6. \A x \in DOMAIN heap :
        /\ heap[x].backref => entry.version = x
        /\ heap[x].snapshot # Null =>
             snaps[heap[x].snapshot].readers # {} /\ snaps[heap[x].snapshot].version = x
  BY <1>2 DEF Consistent
<1>7. ASSUME NEW x \in DOMAIN heap'
      PROVE  /\ heap'[x].backref => entry.version = x
             /\ heap'[x].snapshot # Null =>
                  snaps'[heap'[x].snapshot].readers # {} /\ snaps'[heap'[x].snapshot].version = x
  <2>1. x \in DOMAIN heap
    BY <1>3 DEF Marked
  <2>2. CASE x = a
    BY <1>3, <1>4, <1>6, <2>2 DEF Marked, Entered
  <2>3. CASE x # a
    <3>1. heap'[x].snapshot = heap[x].snapshot /\ heap'[x].backref = heap[x].backref
      BY <1>3, <2>1, <2>3 DEF Marked
    <3>2. heap[x].snapshot # Null => heap[x].snapshot # id
      <4>1. CASE heap[a].snapshot = Null
        BY <1>3, <1>6, <2>1, <4>1
      <4>2. CASE heap[a].snapshot # Null
        <5>1. id = heap[a].snapshot
          BY <1>3, <4>2
        <5>2. snaps[id].version = a
          BY <1>4, <1>6, <4>2, <5>1
        <5> QED
          BY <1>6, <2>1, <2>3, <5>2
      <4> QED
        BY <4>1, <4>2
    <3>3. heap[x].snapshot # Null => heap[x].snapshot \in Ids
      BY <1>2, <2>1 DEF Types, Heap, Version
    <3>4. heap[x].snapshot # Null => snaps'[heap[x].snapshot] = snaps[heap[x].snapshot]
      <4>1. \A j \in Ids : j # id => snaps'[j] = snaps[j]
        BY <1>3 DEF Entered
      <4> QED
        BY <3>2, <3>3, <4>1
    <3>5. /\ heap[x].backref => entry.version = x
          /\ heap[x].snapshot # Null =>
               snaps'[heap[x].snapshot].readers # {} /\ snaps'[heap[x].snapshot].version = x
      BY <1>6, <2>1, <3>4
    <3> QED
      BY <3>1, <3>5
  <2> QED
    BY <2>2, <2>3
<1>8. Sound(heap')
  BY <1>2, <1>3, MarkedIsSound DEF Consistent
<1>9. entry.version \in DOMAIN heap' => heap'[entry.version].prev = Null
  BY <1>2, <1>3 DEF Consistent, Marked
<1>10. OneEach'
  <2>1. ASSUME NEW i \in Ids, NEW j \in Ids, i # j, NEW x, x \in snaps'[i].readers, x \in snaps'[j].readers
        PROVE  FALSE
    <3>1. \A k \in Ids : snaps'[k].readers = IF k = id THEN snaps[k].readers \union {r} ELSE snaps[k].readers
      BY <1>3 DEF Entered
    <3>2. x # r
      BY <1>1, <2>1, <3>1
    <3> QED
      BY <1>2, <2>1, <3>1, <3>2 DEF OneEach
  <2> QED
    BY <2>1 DEF OneEach
<1>11. Consistent(heap', entry.version', snaps')
  BY <1>5, <1>7, <1>8, <1>9 DEF Consistent
<1> QED
  BY <1>1, <1>2, <1>3, <1>5, <1>10, <1>11, ConsistentIsInv DEF Types, Entered

\* Fewer readers, but some, change nothing for the versions.
LEMMA LeavingKeepsInv ==
  ASSUME IndInv, NEW r \in Readers, NEW i \in Ids, r \in snaps[i].readers, snaps[i].readers # {r},
         snaps' = [snaps EXCEPT ![i].readers = @ \ {r}], UNCHANGED <<heap, entry, fault, events>>
  PROVE  IndInv'
<1> DEFINE w == [snaps[i] EXCEPT !.readers = snaps[i].readers \ {r}]
<1>1. Types /\ OneEach /\ Consistent(heap, entry.version, snaps)
  BY InvIsConsistent
<1>2. snaps \in [Ids -> Snapshot] /\ snaps[i] \in Snapshot
  BY <1>1 DEF Types
<1>3. snaps[i].readers \ {r} \in SUBSET Readers /\ snaps[i].readers \ {r} # {}
  BY <1>2 DEF Snapshot
<1>4. Joined(snaps[i], w, snaps[i].readers \ {r})
  BY <1>2, <1>3, ReadersField
<1>5. snaps' = [snaps EXCEPT ![i] = w]
  OBVIOUS
<1> HIDE DEF w
<1>6. w \in Snapshot
  BY <1>4 DEF Joined
<1>7. snaps' \in [Ids -> Snapshot] /\ snaps'[i] = w /\ \A j \in Ids : j # i => snaps'[j] = snaps[j]
  BY <1>2, <1>5, <1>6
<1>8. \A j \in Ids : /\ snaps'[j].version = snaps[j].version /\ snaps'[j].readers \subseteq snaps[j].readers
                     /\ snaps[j].readers # {} => snaps'[j].readers # {}
  BY <1>3, <1>4, <1>7 DEF Joined
<1>9. OneEach'
  BY <1>1, <1>8 DEF OneEach
<1>10. Consistent(heap, entry.version, snaps')
  <2>1. ASSUME NEW x \in DOMAIN heap, heap[x].snapshot # Null
        PROVE  snaps'[heap[x].snapshot].readers # {} /\ snaps'[heap[x].snapshot].version = x
    <3>1. heap[x].snapshot \in Ids
      BY <1>1, <2>1 DEF Types, Heap, Version
    <3>2. snaps[heap[x].snapshot].readers # {} /\ snaps[heap[x].snapshot].version = x
      BY <1>1, <2>1 DEF Consistent
    <3> QED
      BY <1>8, <3>1, <3>2
  <2> QED
    BY <1>1, <2>1 DEF Consistent
<1> QED
  BY <1>1, <1>7, <1>9, <1>10, ConsistentIsInv DEF Types

\* Destroying a snapshot clears the pointers back to it.
LEMMA DestroyingKeepsInv ==
  ASSUME IndInv, NEW i \in Ids, snaps[i].version \in DOMAIN heap,
         heap' = [heap EXCEPT ![snaps[i].version] = [@ EXCEPT !.snapshot = Null, !.backref = FALSE]],
         snaps' = [snaps EXCEPT ![i] = NoSnapshot], UNCHANGED <<entry, fault, events>>
  PROVE  IndInv'
<1> DEFINE a == snaps[i].version
<1>1. Types /\ OneEach /\ Consistent(heap, entry.version, snaps)
  BY InvIsConsistent
<1>2. NoSnapshot \in Snapshot /\ NoSnapshot.readers = {}
  BY DEF NoSnapshot, Snapshot, Null
<1>3. snaps' \in [Ids -> Snapshot] /\ snaps'[i].readers = {} /\ \A j \in Ids : j # i => snaps'[j] = snaps[j]
  BY <1>1, <1>2 DEF Types
<1>4. Marked(heap, heap', a, Null, FALSE)
  BY <1>1, MarkedShape DEF Types
<1> HIDE DEF a
<1>5. OneEach'
  BY <1>1, <1>3 DEF OneEach
<1>6. ASSUME NEW x \in DOMAIN heap'
      PROVE  /\ heap'[x].backref => entry.version = x
             /\ heap'[x].snapshot # Null =>
                  snaps'[heap'[x].snapshot].readers # {} /\ snaps'[heap'[x].snapshot].version = x
  <2>1. x \in DOMAIN heap
    BY <1>4 DEF Marked
  <2>2. CASE x = a
    BY <1>4, <2>2 DEF Marked
  <2>3. CASE x # a
    <3>1. heap'[x].snapshot = heap[x].snapshot /\ heap'[x].backref = heap[x].backref
      BY <1>4, <2>1, <2>3 DEF Marked
    <3>2. /\ heap[x].backref => entry.version = x
          /\ heap[x].snapshot # Null =>
               snaps[heap[x].snapshot].readers # {} /\ snaps[heap[x].snapshot].version = x
      BY <1>1, <2>1 DEF Consistent
    <3>3. heap[x].snapshot # Null => heap[x].snapshot \in Ids /\ heap[x].snapshot # i
      <4>1. heap[x] \in Version
        BY <1>1, <2>1 DEF Types, Heap
      <4>2. heap[x].snapshot # Null => heap[x].snapshot \in Ids
        BY <4>1 DEF Version
      <4> QED
        BY <2>3, <3>2, <4>2 DEF a
    <3>4. heap[x].snapshot # Null => snaps'[heap[x].snapshot] = snaps[heap[x].snapshot]
      BY <1>3, <3>3
    <3> QED
      BY <3>1, <3>2, <3>4
  <2> QED
    BY <2>2, <2>3
<1>7. Sound(heap')
  BY <1>1, <1>4, MarkedIsSound DEF Consistent
<1>8. entry.version \in DOMAIN heap' => heap'[entry.version].prev = Null
  BY <1>1, <1>4 DEF Consistent, Marked
<1>9. Consistent(heap', entry.version', snaps')
  BY <1>6, <1>7, <1>8 DEF Consistent
<1> QED
  BY <1>1, <1>3, <1>5, <1>9, ConsistentIsInv DEF Types

\* A fault ends the behaviour and changes nothing.
LEMMA FaultKeepsInv ==
  ASSUME IndInv, fault' = TRUE, UNCHANGED <<heap, entry, snaps, events>>
  PROVE  IndInv'
  BY DEF IndInv, Types, BackPointersHold, AtFront, OneEach

\* Closing a snapshot keeps the invariant.
LEMMA CloseKeepsInv ==
  ASSUME IndInv, NEW r \in Readers, CloseSnapshot(r)
  PROVE  IndInv'
<1>1. PICK i \in Ids :
        /\ r \in snaps[i].readers
        /\ IF snaps[i].readers # {r}
           THEN /\ snaps' = [snaps EXCEPT ![i].readers = @ \ {r}]
                /\ UNCHANGED <<heap, fault>>
           ELSE \/ /\ snaps[i].version \in DOMAIN heap
                   /\ heap' = [heap EXCEPT ![snaps[i].version] =
                                 [@ EXCEPT !.snapshot = Null, !.backref = FALSE]]
                   /\ snaps' = [snaps EXCEPT ![i] = NoSnapshot]
                   /\ UNCHANGED fault
                \/ /\ snaps[i].version \notin DOMAIN heap
                   /\ fault' = TRUE
                   /\ UNCHANGED <<heap, snaps>>
        /\ UNCHANGED <<entry, events>>
  BY DEF CloseSnapshot
<1>2. CASE snaps[i].readers # {r}
  BY <1>1, <1>2, LeavingKeepsInv
<1>3. CASE snaps[i].readers = {r} /\ snaps[i].version \in DOMAIN heap
  BY <1>1, <1>3, DestroyingKeepsInv
<1>4. CASE snaps[i].readers = {r} /\ snaps[i].version \notin DOMAIN heap
  BY <1>1, <1>4, FaultKeepsInv
<1> QED
  BY <1>2, <1>3, <1>4

\* What is left of the versions still points back at what it did.
LEMMA RemovedIsConsistent ==
  ASSUME NEW h, NEW v, NEW t, Consistent(h, v, t), NEW g, NEW a, Removed(h, g, a)
  PROVE  Consistent(g, v, t)
<1>1. ASSUME NEW x \in DOMAIN g
      PROVE  /\ g[x].backref => v = x
             /\ g[x].snapshot # Null => t[g[x].snapshot].readers # {} /\ t[g[x].snapshot].version = x
  <2>1. x \in DOMAIN h /\ g[x].snapshot = h[x].snapshot /\ g[x].backref = h[x].backref
    BY DEF Removed, Kept
  <2> QED
    BY <2>1 DEF Consistent
<1>2. v \in DOMAIN g => g[v].prev = Null
  BY DEF Consistent, Removed
<1> QED
  BY <1>1, <1>2 DEF Consistent, Removed

\* One step of a disturbance, from the heap and the entry it leaves behind.
LEMMA DisturbedIsInv ==
  ASSUME IndInv, Disturb, UNCHANGED <<snaps, fault>>, entry' \in EntryRef,
         Consistent(heap', entry.version', snaps)
  PROVE  IndInv'
<1>1. Types /\ OneEach
  BY InvIsConsistent
<1>2. events' \in Nat
  BY SMT, <1>1 DEF Disturb, Types
<1>3. OneEach'
  BY <1>1 DEF OneEach
<1> QED
  BY <1>1, <1>2, <1>3, ConsistentIsInv DEF Types

\* A schema upgrade keeps the invariant.
LEMMA UpgradeKeepsInv ==
  ASSUME IndInv, Upgrade
  PROVE  IndInv'
<1> DEFINE a == FreshAddress
           b == entry.version
           p == Placed(heap, a, NewVersion(0))
           h == SetVersion(p, b, a)
<1>1. /\ Usable /\ Disturb /\ UNCHANGED <<snaps, fault>>
      /\ heap' = RemoveOrMark(h, b) /\ entry' = [entry EXCEPT !.version = a]
  BY DEF Upgrade
<1>2. Types /\ Consistent(heap, b, snaps) /\ b \in DOMAIN heap
  BY <1>1, InvIsConsistent DEF Usable
<1>3. a \in Nat \ {0} /\ a \notin DOMAIN heap
  BY <1>2, FreshIsFree
<1>4. entry' \in EntryRef /\ entry.version' = a
  <2>1. entry \in EntryRef
    BY <1>2 DEF Types
  <2> HIDE DEF a
  <2> QED
    BY <1>1, <1>3, <2>1 DEF EntryRef
<1> HIDE DEF a, b
<1>5. Added(heap, p, a, NewVersion(0))
  <2>1. NewVersion(0) \in Version
    BY NewVersionFields
  <2> QED
    BY <1>2, <1>3, <2>1, PlacedShape DEF Types
<1>6. Sound(p)
  BY <1>2, <1>3, <1>5, NewVersionFields, AddedIsSound DEF Consistent
<1>7. /\ DOMAIN p = DOMAIN heap \union {a} /\ p[a] = NewVersion(0) /\ a # b
      /\ \A x \in DOMAIN heap : p[x] = heap[x]
  BY <1>2, <1>3, <1>5 DEF Added
<1> HIDE DEF p
<1>8. Referred(p, h, b, a)
  BY <1>2, <1>6, <1>7, SetVersionShape DEF Sound
<1> HIDE DEF h
<1>9. Sound(h)
  BY <1>6, <1>8, SameLinks DEF Referred
<1>10. ASSUME NEW x \in DOMAIN h
       PROVE  /\ h[x].backref => a = x
              /\ h[x].snapshot # Null => snaps[h[x].snapshot].readers # {} /\ snaps[h[x].snapshot].version = x
  <2>1. x \in DOMAIN p /\ h[x].snapshot = p[x].snapshot
    BY <1>8 DEF Referred, Kept
  <2>2. CASE x = a
    <3>1. p[a].snapshot = Null
      BY <1>7, NewVersionFields
    <3> QED
      BY <2>1, <2>2, <3>1
  <2>3. CASE x # a
    <3>1. x \in DOMAIN heap /\ h[x].snapshot = heap[x].snapshot
      BY <1>7, <2>1, <2>3
    <3>2. /\ heap[x].backref => b = x
          /\ heap[x].snapshot # Null => snaps[heap[x].snapshot].readers # {} /\ snaps[heap[x].snapshot].version = x
      BY <1>2, <3>1 DEF Consistent
    <3>3. ~h[x].backref
      <4>1. CASE x = b
        BY <1>8, <4>1 DEF Referred
      <4>2. CASE x # b
        <5>1. h[x].backref = heap[x].backref
          BY <1>7, <1>8, <2>1, <2>3, <3>1, <4>2 DEF Referred
        <5>2. ~heap[x].backref
          BY <3>2, <4>2
        <5> QED
          BY <5>1, <5>2
      <4> QED
        BY <4>1, <4>2
    <3> QED
      BY <3>1, <3>2, <3>3
  <2> QED
    BY <2>2, <2>3
<1>11. h[a].prev = Null
  <2>1. p[a].prev = Null
    BY <1>7, NewVersionFields
  <2> QED
    BY <1>7, <1>8, <2>1 DEF Referred
<1>12. Consistent(h, a, snaps)
  BY <1>9, <1>10, <1>11 DEF Consistent
<1>13. Removed(h, heap', b)
  BY <1>1, <1>2, <1>7, <1>8, <1>9, RemoveOrMarkShape DEF Referred, b, a, h, p
<1>14. Consistent(heap', a, snaps)
  BY <1>12, <1>13, RemovedIsConsistent
<1> QED
  BY <1>1, <1>4, <1>14, DisturbedIsInv

\* The destruction of the entry keeps the invariant.
LEMMA DestroyEntryKeepsInv ==
  ASSUME IndInv, DestroyEntry
  PROVE  IndInv'
<1> DEFINE b == entry.version
           h == [heap EXCEPT ![b].backref = FALSE]
<1>1. /\ Usable /\ Disturb /\ UNCHANGED <<snaps, fault>>
      /\ heap' = RemoveOrMark(h, b) /\ entry' = [entry EXCEPT !.version = Null]
  BY DEF DestroyEntry
<1>2. Types /\ Consistent(heap, b, snaps) /\ b \in DOMAIN heap
  BY <1>1, InvIsConsistent DEF Usable
<1>3. entry' \in EntryRef /\ entry.version' = Null
  <2>1. entry \in EntryRef
    BY <1>2 DEF Types
  <2> QED
    BY <1>1, <2>1 DEF EntryRef, Null
<1> HIDE DEF b
<1>4. Marked(heap, h, b, heap[b].snapshot, FALSE)
  <2>1. Null \in Ids \union {Null} /\ FALSE \in BOOLEAN
    OBVIOUS
  <2> QED
    BY <1>2, <2>1, MarkedShape DEF Types
<1>5. heap' = RemoveOrMark(h, b)
  BY <1>1
<1> HIDE DEF h
<1>6. Sound(h) /\ b \in DOMAIN h /\ Null \notin DOMAIN h
  <2>1. Sound(h)
    BY <1>2, <1>4, MarkedIsSound DEF Consistent
  <2> QED
    BY <1>2, <1>4, <2>1 DEF Marked, Sound, Heap
<1>7. ASSUME NEW x \in DOMAIN h
      PROVE  /\ ~h[x].backref
             /\ h[x].snapshot # Null => snaps[h[x].snapshot].readers # {} /\ snaps[h[x].snapshot].version = x
  <2>1. x \in DOMAIN heap /\ h[x].snapshot = heap[x].snapshot
    BY <1>4 DEF Marked
  <2>2. x # b => h[x].backref = heap[x].backref
    BY <1>4, <2>1 DEF Marked
  <2>3. heap[x].backref => b = x
    BY <1>2, <2>1 DEF Consistent
  <2>4. ~h[b].backref
    BY <1>4 DEF Marked
  <2>5. ~h[x].backref
    <3>1. CASE x = b
      BY <2>4, <3>1
    <3>2. CASE x # b
      <4>1. ~heap[x].backref
        BY <2>3, <3>2
      <4> QED
        BY <2>2, <3>2, <4>1
    <3> QED
      BY <3>1, <3>2
  <2>6. heap[x].snapshot # Null => snaps[heap[x].snapshot].readers # {} /\ snaps[heap[x].snapshot].version = x
    BY <1>2, <2>1 DEF Consistent
  <2> QED
    BY <2>1, <2>5, <2>6
<1>8. Consistent(h, Null, snaps)
  BY <1>6, <1>7 DEF Consistent
<1>9. Removed(h, heap', b)
  BY <1>5, <1>6, RemoveOrMarkShape
<1>10. Consistent(heap', Null, snaps)
  BY <1>8, <1>9, RemovedIsConsistent
<1> QED
  BY <1>1, <1>3, <1>10, DisturbedIsInv

\* The allocator moves a version: its neighbours and the entry follow.
LEMMA MoveVersionKeepsInv ==
  ASSUME IndInv, NEW a \in DOMAIN heap, MoveVersion(a)
  PROVE  IndInv'
<1> DEFINE f == FreshAddress
           b == entry.version
           c == IF heap[a].backref THEN f ELSE b
<1>1. /\ Disturb /\ UNCHANGED <<snaps, fault>>
      /\ heap' = Moved(heap, a, f) /\ entry' = [entry EXCEPT !.version = c]
  BY DEF MoveVersion
<1>2. Types /\ Consistent(heap, b, snaps)
  BY InvIsConsistent
<1>3. f \in Nat \ {0} /\ f \notin DOMAIN heap /\ f # b
  BY <1>2, FreshIsFree
<1> HIDE DEF f
<1>4. entry' \in EntryRef /\ entry.version' = c
  <2>1. entry \in EntryRef
    BY <1>2 DEF Types
  <2>2. c \in Nat
    BY <1>3, <2>1 DEF EntryRef
  <2> HIDE DEF c
  <2> QED
    BY <1>1, <2>1, <2>2 DEF EntryRef
<1> HIDE DEF b
<1>5. Relocated(heap, heap', a, f)
  BY <1>1, <1>2, <1>3, MovedShape DEF Consistent
<1>6. Sound(heap')
  BY <1>2, <1>3, <1>5, RelocatedIsSound DEF Consistent
<1>7. heap[a].backref => b = a
  BY <1>2 DEF Consistent
<1>8. ASSUME NEW x \in DOMAIN heap'
      PROVE  /\ heap'[x].backref => c = x
             /\ heap'[x].snapshot # Null =>
                  snaps[heap'[x].snapshot].readers # {} /\ snaps[heap'[x].snapshot].version = x
  <2>1. CASE x = f
    BY <1>5, <2>1 DEF Relocated
  <2>2. CASE x # f
    <3>1. x \in DOMAIN heap /\ x # a
      BY <1>5, <2>2 DEF Relocated
    <3>2. heap'[x].snapshot = heap[x].snapshot /\ heap'[x].backref = heap[x].backref
      BY <1>5, <3>1 DEF Relocated, Kept
    <3>3. /\ heap[x].backref => b = x
          /\ heap[x].snapshot # Null => snaps[heap[x].snapshot].readers # {} /\ snaps[heap[x].snapshot].version = x
      BY <1>2, <3>1 DEF Consistent
    <3>4. heap[x].backref => c = x
      BY <1>7, <3>1, <3>3
    <3> HIDE DEF c
    <3> QED
      BY <3>2, <3>3, <3>4
  <2> QED
    BY <2>1, <2>2
<1>9. c \in DOMAIN heap' => heap'[c].prev = Null
  <2>1. CASE heap[a].backref
    <3>1. c = f /\ heap[a].prev = Null
      BY <1>2, <1>7, <2>1 DEF Consistent
    <3> QED
      BY <1>5, <3>1 DEF Relocated
  <2>2. CASE ~heap[a].backref
    <3>1. c = b /\ a # Null
      BY <1>2, <2>2 DEF Consistent, Sound, Heap
    <3>2. ASSUME b \in DOMAIN heap'
          PROVE  heap'[b].prev = Null
      <4>1. b \in DOMAIN heap /\ b # a
        BY <1>3, <1>5, <3>2 DEF Relocated
      <4>2. heap[b].prev = Null
        BY <1>2, <4>1 DEF Consistent
      <4> QED
        BY <1>5, <3>1, <4>1, <4>2 DEF Relocated
    <3> HIDE DEF c
    <3> QED
      BY <3>1, <3>2
  <2> QED
    BY <2>1, <2>2
<1> HIDE DEF c
<1>10. Consistent(heap', c, snaps)
  BY <1>6, <1>8, <1>9 DEF Consistent
<1> QED
  BY <1>1, <1>4, <1>10, DisturbedIsInv

\* The allocator moves the entry: its version follows.
LEMMA MoveEntryKeepsInv ==
  ASSUME IndInv, MoveEntry
  PROVE  IndInv'
<1> DEFINE b == entry.version
<1>1. /\ Usable /\ Disturb /\ UNCHANGED <<snaps, fault>>
      /\ heap' = [heap EXCEPT ![b].backref = TRUE]
      /\ entry' = [ version |-> b, highest_version_read |-> 0,
                    highest_version_written |-> 0, num_versions |-> 0, last_version |-> Null ]
  BY DEF MoveEntry
<1>2. Types /\ Consistent(heap, b, snaps) /\ b \in DOMAIN heap
  BY <1>1, InvIsConsistent DEF Usable
<1>3. b \in Nat
  BY <1>2 DEF Types, Heap
<1> HIDE DEF b
<1>4. entry' \in EntryRef /\ entry.version' = b
  BY <1>1, <1>3 DEF EntryRef, Null
<1>5. Marked(heap, heap', b, heap[b].snapshot, TRUE)
  <2>1. Null \in Ids \union {Null} /\ TRUE \in BOOLEAN
    OBVIOUS
  <2> QED
    BY <1>1, <1>2, <2>1, MarkedShape DEF Types
<1>6. Sound(heap')
  BY <1>2, <1>5, MarkedIsSound DEF Consistent
<1>7. ASSUME NEW x \in DOMAIN heap'
      PROVE  /\ heap'[x].backref => b = x
             /\ heap'[x].snapshot # Null =>
                  snaps[heap'[x].snapshot].readers # {} /\ snaps[heap'[x].snapshot].version = x
  <2>1. x \in DOMAIN heap /\ heap'[x].snapshot = heap[x].snapshot
    BY <1>5 DEF Marked
  <2>2. x # b => heap'[x].backref = heap[x].backref
    BY <1>5, <2>1 DEF Marked
  <2>3. /\ heap[x].backref => b = x
        /\ heap[x].snapshot # Null => snaps[heap[x].snapshot].readers # {} /\ snaps[heap[x].snapshot].version = x
    BY <1>2, <2>1 DEF Consistent
  <2>4. heap'[x].backref => b = x
    BY <2>2, <2>3
  <2> QED
    BY <2>1, <2>3, <2>4
<1>8. b \in DOMAIN heap' => heap'[b].prev = Null
  BY <1>2, <1>5 DEF Consistent, Marked
<1>9. Consistent(heap', b, snaps)
  BY <1>6, <1>7, <1>8 DEF Consistent
<1> QED
  BY <1>1, <1>4, <1>9, DisturbedIsInv

\* A step that changes nothing.
LEMMA StutterKeepsInv ==
  ASSUME IndInv, UNCHANGED vars
  PROVE  IndInv'
  BY DEF IndInv, Types, BackPointersHold, AtFront, OneEach, vars

\* Every step keeps the invariant.
LEMMA NextKeepsInv ==
  ASSUME IndInv, [Next]_vars
  PROVE  IndInv'
<1>1. CASE \E vtw \in WriteVersions : Apply(vtw)
  BY <1>1, ApplyKeepsInv
<1>2. CASE \E r \in Readers, vtr \in ReadVersions : Read(r, vtr)
  BY <1>2, ReadKeepsInv
<1>3. CASE \E r \in Readers : CloseSnapshot(r)
  BY <1>3, CloseKeepsInv
<1>4. CASE EntryFault
  BY <1>4, FaultKeepsInv DEF EntryFault
<1>5. CASE Upgrade
  BY <1>5, UpgradeKeepsInv
<1>6. CASE DestroyEntry
  BY <1>6, DestroyEntryKeepsInv
<1>7. CASE \E a \in DOMAIN heap : MoveVersion(a)
  BY <1>7, MoveVersionKeepsInv
<1>8. CASE MoveEntry
  BY <1>8, MoveEntryKeepsInv
<1>9. CASE UNCHANGED vars
  BY <1>9, StutterKeepsInv
<1> QED
  BY <1>1, <1>2, <1>3, <1>4, <1>5, <1>6, <1>7, <1>8, <1>9 DEF Next

\* The inductive invariant.
THEOREM IndInvHolds == Spec => []IndInv
  BY InitInv, NextKeepsInv, PTL DEF Spec

\* The anchorless list stays linked both ways, to allocated versions only, for
\* any number of versions, readers and disturbances: erase(), the moves of the
\* allocator, upgrade() and ~partition_entry() leave no pointer to freed memory.
THEOREM PointersStayLinked == Spec => []HeapIsLinked
<1>1. IndInv => HeapIsLinked
  BY DEF IndInv, Links, HeapIsLinked
<1> QED
  BY <1>1, IndInvHolds, PTL

\* _backref and _snapshot are never stale, so that what is written through
\* them is written to a live entry and a live snapshot.
THEOREM BackPointersAreLive == Spec => []BackPointersHold
<1>1. IndInv => BackPointersHold
  BY DEF IndInv
<1> QED
  BY <1>1, IndInvHolds, PTL

-----------------------------------------------------------------------------
(* Up to the first disturbance the pointers are the version list.          *)

\* Chain and Open, of any heap, entry and snapshots.
ChainAt(h, e) == ChainOf(h, e, Elements(h, e.version))

OpenAt(h, t) ==
    [r \in Readers |->
       LET mine == {i \in Ids : r \in t[i].readers}
       IN  IF mine = {} THEN NullVersion ELSE h[t[CHOOSE i \in mine : TRUE].version].number]

\* Opened, of any heap and snapshots.
OpenedAt(h, t) ==
    \A i \in Ids : t[i].readers # {} =>
        /\ t[i].version \in DOMAIN h
        /\ h[t[i].version].snapshot = i
        /\ h[t[i].version].number = t[i].seen

\* The state of the system as it is seen through the pointers.
LEMMA Seen ==
  /\ Chain = ChainAt(heap, entry) /\ Chain' = ChainAt(heap', entry')
  /\ Open = OpenAt(heap, snaps) /\ Open' = OpenAt(heap', snaps')
  /\ (Opened <=> OpenedAt(heap, snaps)) /\ (Opened' <=> OpenedAt(heap', snaps'))
<1>1. Chain = ChainAt(heap, entry)
  BY DEF Chain, ChainAt, ChainOf, Numbers
<1>2. Chain' = ChainAt(heap', entry')
  BY DEF Chain, ChainAt, ChainOf, Numbers
<1>3. Open = OpenAt(heap, snaps) /\ Open' = OpenAt(heap', snaps')
  BY DEF Open, OpenAt
<1>4. (Opened <=> OpenedAt(heap, snaps)) /\ (Opened' <=> OpenedAt(heap', snaps'))
  BY DEF Opened, OpenedAt
<1> QED
  BY <1>1, <1>2, <1>3, <1>4

\* The list of an intact chain is the one that Elements() finds.
LEMMA ChainIsList ==
  ASSUME NEW h, Sound(h), NEW e, NEW s, IsList(h, e.version, s)
  PROVE  /\ e.version \in DOMAIN h
         /\ Elements(h, e.version) = s /\ ChainAt(h, e) = ChainOf(h, e, s)
<1>1. e.version \in DOMAIN h
  BY SMT DEF IsList
<1>2. Elements(h, e.version) = s
  BY <1>1, ElementsIsList, ListIsUnique
<1> QED
  BY <1>1, <1>2 DEF ChainAt

\* What a step may do to the versions that a chain does not notice.
SameChain(h, g) ==
    /\ DOMAIN g = DOMAIN h
    /\ \A x \in DOMAIN h : g[x].number = h[x].number /\ g[x].next = h[x].next

\* The chain is intact in g, and the one it is in h.
StaysIntact(h, g, e, s) == Intact(g, e, s) /\ ChainOf(g, e, s) = ChainOf(h, e, s)

\* An intact chain stays intact, and the same.
LEMMA SameChainIntact ==
  ASSUME NEW h, NEW g, SameChain(h, g), NEW e, NEW s, Intact(h, e, s)
  PROVE  StaysIntact(h, g, e, s)
<1>1. /\ s \in Seq(DOMAIN h) /\ s # <<>> /\ Len(s) \in Nat /\ DOMAIN s = 1 .. Len(s)
      /\ s[1] = e.version /\ \A i \in 1 .. (Len(s) - 1) : h[s[i]].next = s[i + 1]
      /\ h[s[Len(s)]].next \notin DOMAIN h
  BY SMT DEF Intact, Shaped, IsList
<1>2. \A i \in DOMAIN s : s[i] \in DOMAIN h
  BY SMT, <1>1
<1>3. e.last_version # Null => e.last_version \in DOMAIN h
  BY <1>2 DEF Intact, Shaped
<1>4. ChainOf(g, e, s) = ChainOf(h, e, s)
  BY <1>2, <1>3 DEF ChainOf, SameChain
<1>5. IsList(g, e.version, s)
  <2>1. \A i \in 1 .. (Len(s) - 1) : i \in DOMAIN s
    BY SMT, <1>1
  <2>2. Len(s) \in DOMAIN s
    BY SMT, <1>1
  <2>3. \A i \in 1 .. (Len(s) - 1) : g[s[i]].next = s[i + 1]
    BY <1>1, <1>2, <2>1 DEF SameChain
  <2>4. g[s[Len(s)]].next \notin DOMAIN g
    BY <1>1, <1>2, <2>2 DEF SameChain
  <2> QED
    BY <1>1, <2>3, <2>4 DEF IsList, SameChain
<1>6. \A x \in DOMAIN g : g[x].number <= e.highest_version_written
  BY DEF Intact, Shaped, SameChain
<1>7. \A x, y \in DOMAIN g : g[x].number = g[y].number => x = y
  BY DEF Intact, Shaped, SameChain
<1>8. e.last_version # Null => \E i \in DOMAIN s : s[i] = e.last_version /\ g[s[i]].number # 0
  BY <1>2 DEF Intact, Shaped, SameChain
<1>9. Intact(g, e, s)
  BY <1>4, <1>5, <1>6, <1>7, <1>8 DEF Intact, Shaped
<1> QED
  BY <1>4, <1>9 DEF StaysIntact

\* Readers see the same where the versions keep their numbers.
LEMMA SameOpen ==
  ASSUME NEW h, NEW t, OpenedAt(h, t), NEW g,
         \A x \in DOMAIN h : g[x].number = h[x].number
  PROVE  OpenAt(g, t) = OpenAt(h, t)
<1>1. ASSUME NEW r \in Readers
      PROVE  OpenAt(g, t)[r] = OpenAt(h, t)[r]
  <2> DEFINE mine == {i \in Ids : r \in t[i].readers}
             k == CHOOSE i \in mine : TRUE
  <2>1. CASE mine = {}
    BY <2>1 DEF OpenAt
  <2>2. CASE mine # {}
    <3>1. k \in mine
      BY <2>2
    <3>2. t[k].version \in DOMAIN h
      BY <3>1 DEF OpenedAt
    <3>3. g[t[k].version].number = h[t[k].version].number
      BY <3>2
    <3> QED
      BY <2>2, <3>3 DEF OpenAt
  <2> QED
    BY <2>1, <2>2
<1> QED
  BY <1>1 DEF OpenAt

\* Readers other than r are where they were.
OthersStay(h, t, g, u, r) ==
    \A x \in Readers \ {r} : \A j \in Ids :
        /\ x \in u[j].readers <=> x \in t[j].readers
        /\ x \in t[j].readers => g[u[j].version].number = h[t[j].version].number

\* What r sees is the only change.
Moves(o, p, r) == p = [o EXCEPT ![r] = p[r]]

\* A step of one reader changes what that reader sees and nothing else.
LEMMA OneOpenChanges ==
  ASSUME NEW h, NEW t, NEW g, NEW u, NEW r \in Readers, OthersStay(h, t, g, u, r)
  PROVE  Moves(OpenAt(h, t), OpenAt(g, u), r)
<1> DEFINE n == OpenAt(g, u)[r]
           see(x) == LET mine == {i \in Ids : x \in u[i].readers}
                     IN  IF mine = {} THEN NullVersion ELSE g[u[CHOOSE i \in mine : TRUE].version].number
<1>1. ASSUME NEW x \in Readers, x # r
      PROVE  OpenAt(g, u)[x] = OpenAt(h, t)[x]
  <2> DEFINE mine == {i \in Ids : x \in t[i].readers}
             k == CHOOSE i \in mine : TRUE
  <2>1. {i \in Ids : x \in u[i].readers} = mine
    BY <1>1 DEF OthersStay
  <2>2. CASE mine = {}
    BY <2>1, <2>2 DEF OpenAt
  <2>3. CASE mine # {}
    <3>1. k \in mine
      BY <2>3
    <3>2. g[u[k].version].number = h[t[k].version].number
      BY <1>1, <3>1 DEF OthersStay
    <3>3. OpenAt(g, u)[x] = g[u[k].version].number
      <4>1. OpenAt(g, u)[x] = LET M == {i \in Ids : x \in u[i].readers}
                              IN  IF M = {} THEN NullVersion ELSE g[u[CHOOSE i \in M : TRUE].version].number
        BY DEF OpenAt
      <4> HIDE DEF mine
      <4> QED
        BY <2>1, <2>3, <4>1
    <3>4. OpenAt(h, t)[x] = h[t[k].version].number
      BY <2>3 DEF OpenAt
    <3> QED
      BY <3>2, <3>3, <3>4
  <2> QED
    BY <2>2, <2>3
<1>2. DOMAIN OpenAt(g, u) = Readers /\ DOMAIN OpenAt(h, t) = Readers
  BY DEF OpenAt
<1>3. OpenAt(g, u) = [x \in Readers |-> OpenAt(g, u)[x]]
  <2>1. OpenAt(g, u) = [x \in Readers |-> see(x)]
    BY DEF OpenAt
  <2> HIDE DEF see
  <2> QED
    BY <2>1
<1>4. [OpenAt(h, t) EXCEPT ![r] = n] = [x \in Readers |-> IF x = r THEN n ELSE OpenAt(h, t)[x]]
  BY <1>2
<1>5. \A x \in Readers : OpenAt(g, u)[x] = IF x = r THEN n ELSE OpenAt(h, t)[x]
  BY <1>1
<1>6. [x \in Readers |-> OpenAt(g, u)[x]] = [x \in Readers |-> IF x = r THEN n ELSE OpenAt(h, t)[x]]
  BY <1>5
<1>7. OpenAt(g, u) = [OpenAt(h, t) EXCEPT ![r] = n]
  BY <1>3, <1>4, <1>6
<1> QED
  BY <1>7 DEF Moves

\* A chain that is marked is the same chain.
LEMMA MarkedSameChain ==
  ASSUME NEW h, NEW g, NEW a, NEW i, NEW b, Marked(h, g, a, i, b)
  PROVE  SameChain(h, g)
  BY DEF Marked, SameChain

\* What a snapshot saw stays what it saw; a snapshot that is new saw one of N.
Sees(t, u, N) ==
    \A j \in Ids : u[j].readers # {} =>
        (t[j].readers # {} /\ u[j].seen = t[j].seen) \/ u[j].seen \in N

\* Closing a snapshot takes a reader off its version, and does no more.
LEMMA CloseImplements ==
  ASSUME IndInv, Opened, NEW s, Intact(heap, entry, s), NEW r \in Readers, CloseSnapshot(r)
  PROVE  /\ fault' = FALSE /\ Chain' = Chain /\ Open' = [Open EXCEPT ![r] = NullVersion]
         /\ Opened' /\ Intact(heap', entry', s) /\ Sees(snaps, snaps', {})
<1>1. PICK i \in Ids :
        /\ ~fault
        /\ r \in snaps[i].readers
        /\ IF snaps[i].readers # {r}
           THEN /\ snaps' = [snaps EXCEPT ![i].readers = @ \ {r}]
                /\ UNCHANGED <<heap, fault>>
           ELSE \/ /\ snaps[i].version \in DOMAIN heap
                   /\ heap' = [heap EXCEPT ![snaps[i].version] =
                                 [@ EXCEPT !.snapshot = Null, !.backref = FALSE]]
                   /\ snaps' = [snaps EXCEPT ![i] = NoSnapshot]
                   /\ UNCHANGED fault
                \/ /\ snaps[i].version \notin DOMAIN heap
                   /\ fault' = TRUE
                   /\ UNCHANGED <<heap, snaps>>
        /\ UNCHANGED <<entry, events>>
  BY DEF CloseSnapshot
<1>2. Types /\ OneEach /\ Sound(heap) /\ OpenedAt(heap, snaps)
  BY InvIsConsistent, Seen DEF Consistent
<1>3. snaps \in [Ids -> Snapshot] /\ fault \in BOOLEAN /\ Heap(heap)
  BY <1>2 DEF Types
<1> DEFINE a == snaps[i].version
<1>4. a \in DOMAIN heap /\ heap[a].snapshot = i
  BY <1>1, <1>2 DEF OpenedAt
<1>5. UNCHANGED <<fault, entry>> /\ ~fault
  BY <1>1, <1>4
<1>6. /\ \A j \in Ids : j # i => snaps'[j] = snaps[j]
      /\ snaps'[i].readers = snaps[i].readers \ {r}
      /\ snaps'[i].readers # {} => snaps'[i].version = a /\ snaps'[i].seen = snaps[i].seen /\ heap' = heap
      /\ SameChain(heap, heap')
      /\ \A x \in DOMAIN heap : x # a => heap'[x].snapshot = heap[x].snapshot
  <2>1. CASE snaps[i].readers # {r}
    <3> DEFINE w == [snaps[i] EXCEPT !.readers = snaps[i].readers \ {r}]
    <3>1. snaps[i] \in Snapshot
      BY <1>3
    <3>2. snaps[i].readers \ {r} \in SUBSET Readers
      BY <3>1 DEF Snapshot
    <3>3. Joined(snaps[i], w, snaps[i].readers \ {r})
      BY <3>1, <3>2, ReadersField
    <3>4. snaps' = [snaps EXCEPT ![i] = w] /\ heap' = heap
      BY <1>1, <2>1
    <3> HIDE DEF w
    <3>5. snaps'[i] = w /\ \A j \in Ids : j # i => snaps'[j] = snaps[j]
      BY <1>3, <3>4
    <3>6. SameChain(heap, heap')
      BY <3>4 DEF SameChain
    <3> QED
      BY <3>3, <3>4, <3>5, <3>6 DEF Joined
  <2>2. CASE snaps[i].readers = {r}
    <3>1. /\ heap' = [heap EXCEPT ![a] = [@ EXCEPT !.snapshot = Null, !.backref = FALSE]]
          /\ snaps' = [snaps EXCEPT ![i] = NoSnapshot]
      BY <1>1, <1>4, <2>2
    <3> HIDE DEF a
    <3>2. Marked(heap, heap', a, Null, FALSE)
      <4>1. Null \in Ids \union {Null} /\ FALSE \in BOOLEAN
        OBVIOUS
      <4> QED
        BY <1>3, <1>4, <3>1, <4>1, MarkedShape
    <3>3. NoSnapshot.readers = {}
      BY DEF NoSnapshot
    <3>4. snaps'[i].readers = {} /\ \A j \in Ids : j # i => snaps'[j] = snaps[j]
      BY <1>3, <3>1, <3>3
    <3>5. snaps[i].readers \ {r} = {}
      BY <2>2
    <3>6. SameChain(heap, heap')
      BY <3>2, MarkedSameChain
    <3> QED
      BY <3>2, <3>4, <3>5, <3>6 DEF Marked
  <2> QED
    BY <2>1, <2>2
<1> HIDE DEF a
<1>7. Intact(heap', entry', s) /\ Chain' = Chain
  <2>1. Intact(heap', entry, s) /\ ChainOf(heap', entry, s) = ChainOf(heap, entry, s)
    <3>1. StaysIntact(heap, heap', entry, s)
      BY <1>6, SameChainIntact
    <3> QED
      BY <3>1 DEF StaysIntact
  <2>2. Sound(heap')
    BY CloseKeepsInv, InvIsConsistent DEF IndInv, Types, Sound
  <2>3. ChainAt(heap', entry) = ChainOf(heap', entry, s) /\ ChainAt(heap, entry) = ChainOf(heap, entry, s)
    BY <1>2, <2>1, <2>2, ChainIsList DEF Intact, Shaped
  <2> QED
    BY <1>5, <2>1, <2>3, Seen
<1>8. OpenedAt(heap', snaps')
  <2>1. ASSUME NEW j \in Ids, snaps'[j].readers # {}
        PROVE  /\ snaps'[j].version \in DOMAIN heap'
               /\ heap'[snaps'[j].version].snapshot = j
               /\ heap'[snaps'[j].version].number = snaps'[j].seen
    <3>1. CASE j = i
      <4>1. snaps'[j].version = a /\ snaps'[j].seen = snaps[i].seen /\ heap' = heap
        BY <1>6, <2>1, <3>1
      <4>2. heap[a].number = snaps[i].seen
        BY <1>1, <1>2 DEF OpenedAt, a
      <4> QED
        BY <1>4, <3>1, <4>1, <4>2
    <3>2. CASE j # i
      <4>1. snaps'[j] = snaps[j]
        BY <1>6, <3>2
      <4>2. /\ snaps[j].version \in DOMAIN heap /\ heap[snaps[j].version].snapshot = j
            /\ heap[snaps[j].version].number = snaps[j].seen
        BY <1>2, <2>1, <4>1 DEF OpenedAt
      <4>3. snaps[j].version # a
        BY <1>4, <3>2, <4>2
      <4> QED
        BY <1>6, <4>1, <4>2, <4>3 DEF SameChain
    <3> QED
      BY <3>1, <3>2
  <2> QED
    BY <2>1 DEF OpenedAt
<1>9. Open' = [Open EXCEPT ![r] = NullVersion]
  <2>1. \A j \in Ids : r \notin snaps'[j].readers
    <3>1. \A j \in Ids : j # i => r \notin snaps[j].readers
      BY <1>1, <1>2 DEF OneEach
    <3> QED
      BY <1>6, <3>1
  <2>2. OpenAt(heap', snaps')[r] = NullVersion
    <3>1. {j \in Ids : r \in snaps'[j].readers} = {}
      BY <2>1
    <3> QED
      BY <3>1 DEF OpenAt
  <2>3. ASSUME NEW x \in Readers \ {r}, NEW j \in Ids
        PROVE  /\ x \in snaps'[j].readers <=> x \in snaps[j].readers
               /\ x \in snaps[j].readers =>
                    heap'[snaps'[j].version].number = heap[snaps[j].version].number
    <3>1. x \in snaps'[j].readers <=> x \in snaps[j].readers
      BY <1>6
    <3>2. ASSUME x \in snaps[j].readers
          PROVE  snaps'[j].version = snaps[j].version /\ snaps[j].version \in DOMAIN heap
      <4>1. snaps[j].version \in DOMAIN heap
        BY <1>2, <3>2 DEF OpenedAt
      <4>2. snaps'[j].readers # {}
        BY <3>1, <3>2
      <4>3. j = i => snaps'[j].version = snaps[j].version
        BY <1>6, <4>2 DEF a
      <4> QED
        BY <1>6, <4>1, <4>3
    <3> QED
      BY <1>6, <3>1, <3>2 DEF SameChain
  <2>4. OpenAt(heap', snaps') = [OpenAt(heap, snaps) EXCEPT ![r] = NullVersion]
    <3>1. OthersStay(heap, snaps, heap', snaps', r)
      BY <2>3 DEF OthersStay
    <3>2. Moves(OpenAt(heap, snaps), OpenAt(heap', snaps'), r)
      BY <3>1, OneOpenChanges
    <3> QED
      BY <2>2, <3>2 DEF Moves
  <2> QED
    BY <2>4, Seen
<1>10. fault' = FALSE
  BY <1>3, <1>5
<1>11. Sees(snaps, snaps', {})
  BY <1>1, <1>6 DEF Sees
<1> QED
  BY <1>7, <1>8, <1>9, <1>10, <1>11, Seen

\* A chain by its fields.
ChainWith(s, r, w, n, l) ==
    [ versions |-> s, highest_version_read |-> r, highest_version_written |-> w,
      num_versions |-> n, last_version |-> l ]

\* c has these fields and no others.
HasFields(c, s, r, w, n, l) ==
    /\ c = ChainWith(s, r, w, n, l)
    /\ c.versions = s /\ c.highest_version_read = r /\ c.highest_version_written = w
    /\ c.num_versions = n /\ c.last_version = l

\* A chain has the fields it is made of.
LEMMA ChainFields ==
  ASSUME NEW s, NEW r, NEW w, NEW n, NEW l
  PROVE  HasFields(ChainWith(s, r, w, n, l), s, r, w, n, l)
  BY DEF HasFields, ChainWith

\* A read of VersionList on a chain given by its fields.
LEMMA ChainRead ==
  ASSUME NEW c, NEW s, NEW r, NEW w, NEW n, NEW l, HasFields(c, s, r, w, n, l), NEW v
  PROVE  AfterRead(c, v) = ChainWith(s, IF v > r THEN v ELSE r, w, n, l)
<1> DEFINE m == IF v > r THEN v ELSE r
<1>1. AfterRead(c, v) = [c EXCEPT !.highest_version_read = m]
  BY DEF AfterRead, HasFields
<1>2. c = ChainWith(s, r, w, n, l)
  BY DEF HasFields
<1> HIDE DEF m
<1>3. [c EXCEPT !.highest_version_read = m] = ChainWith(s, m, w, n, l)
  BY SMT, <1>2 DEF ChainWith
<1> QED
  BY <1>1, <1>3 DEF m

\* What ChainOf() takes from the heap.
NumbersOf(h, s) == [i \in DOMAIN s |-> h[s[i]].number]
LastOf(h, e) == IF e.last_version = Null THEN NullVersion ELSE h[e.last_version].number

\* ChainOf() by its fields.
LEMMA ChainOfFields ==
  ASSUME NEW h, NEW e, NEW s
  PROVE  HasFields(ChainOf(h, e, s), NumbersOf(h, s), e.highest_version_read,
                   e.highest_version_written, e.num_versions, LastOf(h, e))
<1>1. ChainOf(h, e, s) = ChainWith(NumbersOf(h, s), e.highest_version_read, e.highest_version_written,
                                   e.num_versions, LastOf(h, e))
  BY DEF ChainOf, ChainWith, NumbersOf, LastOf
<1> QED
  BY <1>1, ChainFields

\* f is e with a read at v recorded.
Recorded(h, e, f, s, v) ==
    f.version = e.version /\ Intact(h, f, s) /\ ChainOf(h, f, s) = AfterRead(ChainOf(h, e, s), v)

\* A read leaves the chain intact, and is recorded.
LEMMA AfterReadIntact ==
  ASSUME NEW h, NEW e \in EntryRef, NEW s, Intact(h, e, s), NEW vtr \in Nat
  PROVE  Recorded(h, e, AfterRead(e, vtr), s, vtr)
<1> DEFINE f == AfterRead(e, vtr)
           c == ChainOf(h, e, s)
           d == ChainOf(h, f, s)
           m == IF vtr > e.highest_version_read THEN vtr ELSE e.highest_version_read
<1>1. /\ f.version = e.version /\ f.highest_version_read = m
      /\ f.highest_version_written = e.highest_version_written
      /\ f.num_versions = e.num_versions /\ f.last_version = e.last_version
  BY DEF AfterRead, EntryRef
<1> HIDE DEF f
<1>2. LastOf(h, f) = LastOf(h, e)
  BY <1>1 DEF LastOf
<1> DEFINE S == NumbersOf(h, s)
           w == e.highest_version_written
           n == e.num_versions
           l == LastOf(h, e)
<1>3. HasFields(c, S, e.highest_version_read, w, n, l)
  BY ChainOfFields
<1>4. HasFields(d, S, m, w, n, l)
  <2>1. HasFields(d, S, f.highest_version_read, f.highest_version_written, f.num_versions, LastOf(h, f))
    BY ChainOfFields
  <2> HIDE DEF c, d, S, m
  <2> QED
    BY <1>1, <1>2, <2>1
<1> HIDE DEF S, w, n, l
<1>5. d = AfterRead(c, vtr)
  <2> HIDE DEF c, d
  <2>1. AfterRead(c, vtr) = ChainWith(S, m, w, n, l)
    BY SMT, <1>3, ChainRead
  <2> QED
    BY <1>4, <2>1 DEF HasFields
<1>6. WellFormed(c)
  BY DEF Intact, Shaped
<1>7. m \in Nat
  BY DEF EntryRef
<1> HIDE DEF c, d, m
<1>8. d \in Entry
  <2>1. S \in Seq(Nat) /\ w \in Nat /\ n \in Nat /\ l \in Nat
    BY <1>3, <1>6 DEF HasFields, WellFormed, Entry
  <2> QED
    BY <1>4, <1>7, <2>1 DEF HasFields, Entry, ChainWith
<1>9. WellFormed(d)
  BY <1>3, <1>4, <1>6, <1>8 DEF WellFormed, LastIsOldest, HasFields
<1>10. Intact(h, f, s)
  BY <1>1, <1>9 DEF Intact, Shaped, d
<1> QED
  BY <1>1, <1>5, <1>10 DEF Recorded, f, c, d

\* read() opens what VersionRead says, and records the version it reads at.
LEMMA ReadImplements ==
  ASSUME IndInv, Opened, NEW s, Intact(heap, entry, s),
         NEW r \in Readers, NEW vtr \in ReadVersions, Read(r, vtr)
  PROVE  /\ fault' = FALSE /\ Chain' = AfterRead(Chain, vtr)
         /\ Open' = [Open EXCEPT ![r] = VersionRead(Chain.versions, vtr)]
         /\ Opened' /\ Intact(heap', entry', s)
         /\ Sees(snaps, snaps', {VersionRead(Chain.versions, vtr)})
<1> DEFINE a == Elements(heap, entry.version)[Found(vtr)]
<1>1. /\ Usable /\ \A j \in Ids : r \notin snaps[j].readers
      /\ entry' = AfterRead(entry, vtr) /\ UNCHANGED fault
  BY DEF Read
<1>2. Types /\ Consistent(heap, entry.version, snaps) /\ Sound(heap) /\ OpenedAt(heap, snaps)
  BY InvIsConsistent, Seen DEF Consistent
<1>3. PICK id \in Ids :
        /\ IF heap[a].snapshot = Null THEN snaps[id].readers = {} ELSE id = heap[a].snapshot
        /\ Marked(heap, heap', a, id, heap[a].backref)
        /\ Entered(snaps, snaps', a, id, r, heap[a].number)
  BY ReadShape
<1>4. vtr \in Nat
  BY VersionHeapAssumption
<1>5. a \in DOMAIN heap /\ heap[a].number = VersionRead(Numbers(Elements(heap, entry.version)), vtr)
  BY <1>1, <1>4, FoundIsRead DEF Usable
<1> HIDE DEF a
<1>6. SameChain(heap, heap')
  BY <1>3, MarkedSameChain
<1>7. Intact(heap', entry', s) /\ Chain' = AfterRead(Chain, vtr)
  <2>1. Intact(heap', entry, s) /\ ChainOf(heap', entry, s) = ChainOf(heap, entry, s)
    <3>1. StaysIntact(heap, heap', entry, s)
      BY <1>6, SameChainIntact
    <3> QED
      BY <3>1 DEF StaysIntact
  <2>2. entry \in EntryRef
    BY <1>2 DEF Types
  <2>3. entry'.version = entry.version /\ Intact(heap', entry', s) /\ ChainOf(heap', entry', s) = AfterRead(ChainOf(heap', entry, s), vtr)
    <3>1. Recorded(heap', entry, entry', s, vtr)
      BY <1>1, <1>4, <2>1, <2>2, AfterReadIntact
    <3> QED
      BY <3>1 DEF Recorded
  <2>4. Sound(heap')
    BY <1>2, <1>3, MarkedIsSound
  <2>5. ChainAt(heap', entry') = ChainOf(heap', entry', s)
    <3>1. IsList(heap', entry'.version, s)
      BY <2>3 DEF Intact, Shaped
    <3> QED
      BY <2>4, <3>1, ChainIsList
  <2>6. ChainAt(heap, entry) = ChainOf(heap, entry, s)
    BY <1>2, ChainIsList DEF Intact, Shaped
  <2> QED
    BY <2>1, <2>3, <2>5, <2>6, Seen
<1>8. snaps[id].readers # {} => heap[a].snapshot = id /\ snaps[id].version = a
  <2>1. snaps[id].readers # {} => heap[a].snapshot = id /\ heap[a].snapshot # Null
    BY <1>3
  <2> QED
    BY <1>2, <1>5, <2>1 DEF Consistent
<1>9. OpenedAt(heap', snaps')
  <2>1. ASSUME NEW j \in Ids, snaps'[j].readers # {}
        PROVE  /\ snaps'[j].version \in DOMAIN heap'
               /\ heap'[snaps'[j].version].snapshot = j
               /\ heap'[snaps'[j].version].number = snaps'[j].seen
    <3>1. CASE j = id
      <4>1. snaps'[id].version = a /\ a \in DOMAIN heap' /\ heap'[a].snapshot = id /\ heap'[a].number = heap[a].number
        BY <1>3, <1>5 DEF Marked, Entered
      <4>2. snaps'[id].seen = heap[a].number
        <5>1. CASE snaps[id].readers = {}
          BY <1>3, <5>1 DEF Entered
        <5>2. CASE snaps[id].readers # {}
          <6>1. heap[a].number = snaps[id].seen
            BY <1>2, <1>8, <5>2 DEF OpenedAt
          <6> QED
            BY <1>3, <5>2, <6>1 DEF Entered
        <5> QED
          BY <5>1, <5>2
      <4> QED
        BY <3>1, <4>1, <4>2
    <3>2. CASE j # id
      <4>1. snaps'[j] = snaps[j]
        BY <1>3, <3>2 DEF Entered
      <4>2. /\ snaps[j].version \in DOMAIN heap /\ heap[snaps[j].version].snapshot = j
            /\ heap[snaps[j].version].number = snaps[j].seen
        BY <1>2, <2>1, <4>1 DEF OpenedAt
      <4>3. snaps[j].version # a
        BY <1>3, <3>2, <4>2, IdsAreNumbers
      <4> QED
        BY <1>3, <4>1, <4>2, <4>3 DEF Marked
    <3> QED
      BY <3>1, <3>2
  <2> QED
    BY <2>1 DEF OpenedAt
<1>10. OpenAt(heap', snaps')[r] = heap[a].number
  <2> DEFINE mine == {j \in Ids : r \in snaps'[j].readers}
  <2>1. mine = {id}
    BY <1>1, <1>3 DEF Entered
  <2>2. OpenAt(heap', snaps')[r] = heap'[snaps'[CHOOSE j \in {id} : TRUE].version].number
    <3>1. OpenAt(heap', snaps')[r] = IF mine = {} THEN NullVersion
                                     ELSE heap'[snaps'[CHOOSE j \in mine : TRUE].version].number
      BY DEF OpenAt
    <3> HIDE DEF mine
    <3> QED
      BY <2>1, <3>1
  <2>3. (CHOOSE j \in {id} : TRUE) = id
    OBVIOUS
  <2> QED
    BY <1>3, <1>5, <2>2, <2>3 DEF Marked, Entered
<1>11. OthersStay(heap, snaps, heap', snaps', r)
  <2>1. ASSUME NEW x \in Readers \ {r}, NEW j \in Ids
        PROVE  /\ x \in snaps'[j].readers <=> x \in snaps[j].readers
               /\ x \in snaps[j].readers =>
                    heap'[snaps'[j].version].number = heap[snaps[j].version].number
    <3>1. x \in snaps'[j].readers <=> x \in snaps[j].readers
      BY <1>3 DEF Entered
    <3>2. ASSUME x \in snaps[j].readers
          PROVE  snaps'[j].version = snaps[j].version /\ snaps[j].version \in DOMAIN heap
      <4>1. snaps[j].version \in DOMAIN heap
        BY <1>2, <3>2 DEF OpenedAt
      <4>2. j = id => snaps'[j].version = snaps[j].version
        BY <1>3, <1>8, <3>2 DEF Entered
      <4>3. j # id => snaps'[j].version = snaps[j].version
        BY <1>3 DEF Entered
      <4> QED
        BY <4>1, <4>2, <4>3
    <3> QED
      BY <1>6, <3>1, <3>2 DEF SameChain
  <2> QED
    BY <2>1 DEF OthersStay
<1>12. Open' = [Open EXCEPT ![r] = VersionRead(Chain.versions, vtr)]
  <2>1. Moves(OpenAt(heap, snaps), OpenAt(heap', snaps'), r)
    BY <1>11, OneOpenChanges
  <2>2. Chain.versions = Numbers(Elements(heap, entry.version))
    BY DEF Chain
  <2> QED
    BY <1>5, <1>10, <2>1, <2>2, Seen DEF Moves
<1>13. fault' = FALSE
  BY <1>1, <1>2 DEF Usable, Types
<1>14. Sees(snaps, snaps', {VersionRead(Chain.versions, vtr)})
  <2>1. Chain.versions = Numbers(Elements(heap, entry.version))
    BY DEF Chain
  <2>2. Sees(snaps, snaps', {heap[a].number})
    BY <1>3 DEF Sees, Entered
  <2> QED
    BY <1>5, <2>1, <2>2
<1> QED
  BY <1>7, <1>9, <1>12, <1>13, <1>14, Seen

\* The insertion of VersionList on a chain given by its fields.
LEMMA ChainInserted ==
  ASSUME NEW c, NEW s, NEW r, NEW w, NEW m, NEW l, HasFields(c, s, r, w, m, l), NEW v,
         NEW n, n = Promoted(c, v)
  PROVE  Inserted(c, v) = ChainWith(<<n>> \o s, r, n, m + 1, IF n = 1 THEN n ELSE l)
<1> DEFINE S == <<n>> \o s
           M == m + 1
           L == IF n = 1 THEN n ELSE l
<1>1. Inserted(c, v) = [c EXCEPT !.versions = S, !.highest_version_written = n,
                                 !.num_versions = M, !.last_version = L]
  BY DEF Inserted, HasFields
<1>2. c = ChainWith(s, r, w, m, l)
  BY DEF HasFields
<1> HIDE DEF S, M, L
<1>3. [c EXCEPT !.versions = S, !.highest_version_written = n,
                !.num_versions = M, !.last_version = L] = ChainWith(S, r, n, M, L)
  <2> DEFINE c1 == ChainWith(S, r, w, m, l)
             c2 == ChainWith(S, r, n, m, l)
             c3 == ChainWith(S, r, n, M, l)
  <2>1. [c EXCEPT !.versions = S] = c1
    BY SMT, <1>2 DEF ChainWith
  <2>2. [c1 EXCEPT !.highest_version_written = n] = c2
    BY SMT DEF ChainWith
  <2>3. [c2 EXCEPT !.num_versions = M] = c3
    BY SMT DEF ChainWith
  <2>4. [c3 EXCEPT !.last_version = L] = ChainWith(S, r, n, M, L)
    BY SMT DEF ChainWith
  <2> HIDE DEF c1, c2, c3
  <2> QED
    BY <2>1, <2>2, <2>3, <2>4
<1> QED
  BY <1>1, <1>3 DEF S, M, L

\* The new version is the first of the list.
LEMMA FrontedList ==
  ASSUME NEW h, Sound(h), NEW a \in Nat \ {0}, a \notin DOMAIN h, NEW b, NEW s, IsList(h, b, s),
         NEW g, NEW n, Fronted(h, g, a, b, n)
  PROVE  IsList(g, a, <<a>> \o s)
<1>1. /\ s \in Seq(DOMAIN h) /\ s # <<>> /\ Len(s) \in Nat /\ DOMAIN s = 1 .. Len(s)
      /\ s[1] = b /\ \A i \in 1 .. (Len(s) - 1) : h[s[i]].next = s[i + 1]
      /\ h[s[Len(s)]].next \notin DOMAIN h
      /\ \A i \in 1 .. Len(s) : s[i] \in DOMAIN h
  BY SMT DEF IsList
<1>2. DOMAIN g = DOMAIN h \union {a} /\ g[a].next = b /\ \A x \in DOMAIN h : g[x].next = h[x].next
  BY DEF Fronted
<1>3. s \in Seq(DOMAIN g)
  BY SMT, <1>1, <1>2
<1>4. \A i \in 1 .. (Len(s) - 1) : g[s[i]].next = s[i + 1]
  <2>1. \A i \in 1 .. (Len(s) - 1) : i \in 1 .. Len(s)
    BY SMT, <1>1
  <2> QED
    BY <1>1, <1>2, <2>1
<1>5. g[s[Len(s)]].next \notin DOMAIN g
  <2>1. Len(s) \in 1 .. Len(s)
    BY SMT, <1>1
  <2>2. s[Len(s)] \in DOMAIN h
    BY <1>1, <2>1
  <2>3. h[s[Len(s)]].next = Null
    BY <1>1, <2>2 DEF Sound, Links
  <2>4. Null # a /\ Null \notin DOMAIN h
    BY DEF Sound, Heap, Null
  <2> QED
    BY <1>2, <2>2, <2>3, <2>4
<1>6. IsList(g, g[a].next, s)
  BY <1>1, <1>2, <1>3, <1>4, <1>5 DEF IsList
<1> QED
  BY <1>2, <1>6, ListExtends

\* The chain with the new version is the one of VersionList.
Extended(h, e, s, g, f, t, v) ==
    Shaped(g, f, t) /\ ChainOf(g, f, t) = Inserted(ChainOf(h, e, s), v)

LEMMA InsertedChain ==
  ASSUME NEW h, Sound(h), NEW e \in EntryRef, NEW s, Intact(h, e, s),
         NEW v \in Nat, ~Dropped(e, v), NEW n, n = Promoted(e, v),
         NEW a \in Nat \ {0}, a \notin DOMAIN h,
         NEW g, Fronted(h, g, a, e.version, n),
         NEW f, Counting(e, f, a, n, e.num_versions + 1, IF n = 1 THEN a ELSE e.last_version)
  PROVE  Extended(h, e, s, g, f, <<a>> \o s, v)
<1> DEFINE t == <<a>> \o s
           c == ChainOf(h, e, s)
           S == NumbersOf(h, s)
           N == NumbersOf(g, t)
<1>1. /\ s \in Seq(DOMAIN h) /\ Len(s) \in Nat /\ DOMAIN s = 1 .. Len(s)
      /\ \A i \in 1 .. Len(s) : s[i] \in DOMAIN h
  BY SMT DEF Intact, Shaped, IsList
<1>2. IsList(g, a, t)
  BY FrontedList DEF Intact, Shaped
<1>3. /\ f.version = a /\ f.highest_version_read = e.highest_version_read
      /\ f.highest_version_written = n /\ f.num_versions = e.num_versions + 1
      /\ f.last_version = IF n = 1 THEN a ELSE e.last_version
  BY DEF Counting
<1>4. HasFields(c, S, e.highest_version_read, e.highest_version_written, e.num_versions, LastOf(h, e))
  BY ChainOfFields
<1>5. WellFormed(c)
  BY DEF Intact, Shaped
<1> HIDE DEF c
<1>6. n = Promoted(c, v) /\ ~Dropped(c, v)
  BY <1>4 DEF HasFields, Promoted, Dropped
<1>7. n \in Nat /\ e.highest_version_written < n /\ e.highest_version_written \in Nat
  <2>1. c \in Entry
    BY <1>5 DEF WellFormed
  <2>2. Promoted(c, v) \in Nat /\ Promoted(c, v) > c.highest_version_written
    BY <1>6, <2>1, PromotedIsAbove
  <2>3. c.highest_version_written = e.highest_version_written
    BY <1>4 DEF HasFields
  <2> QED
    BY <1>6, <2>2, <2>3 DEF EntryRef
<1>8. /\ DOMAIN g = DOMAIN h \union {a} /\ g[a].number = n
      /\ \A x \in DOMAIN h : g[x].number = h[x].number
  BY DEF Fronted, Kept
<1>9. \A x \in DOMAIN h : h[x].number \in Nat /\ h[x].number <= e.highest_version_written
  <2>1. \A x \in DOMAIN h : h[x].number \in Nat
    BY DEF Sound, Heap, Version
  <2> QED
    BY <2>1 DEF Intact, Shaped
<1>10. /\ t \in Seq(DOMAIN g) /\ Len(t) = Len(s) + 1 /\ DOMAIN t = 1 .. (Len(s) + 1) /\ t[1] = a
       /\ \A i \in 1 .. Len(s) : t[i + 1] = s[i]
  <2>1. s \in Seq(DOMAIN g) /\ a \in DOMAIN g
    BY SMT, <1>1, <1>8
  <2> QED
    BY SMT, <1>1, <2>1, ConsShape
<1>11. N = <<n>> \o S
  <2>1. S \in Seq(Nat) /\ Len(S) = Len(s) /\ \A i \in 1 .. Len(s) : S[i] = h[s[i]].number
    BY SMT, <1>1, <1>9 DEF NumbersOf
  <2> HIDE DEF S
  <2>2. /\ <<n>> \o S \in Seq(Nat) /\ Len(<<n>> \o S) = Len(s) + 1 /\ (<<n>> \o S)[1] = n
        /\ \A i \in 1 .. Len(s) : (<<n>> \o S)[i + 1] = S[i]
    BY SMT, <1>7, <2>1, ConsShape
  <2>3. \A i \in 1 .. (Len(s) + 1) : g[t[i]].number = (<<n>> \o S)[i]
    <3>1. g[t[1]].number = (<<n>> \o S)[1]
      BY <1>8, <1>10, <2>2
    <3>2. ASSUME NEW i \in 1 .. Len(s)
          PROVE  g[t[i + 1]].number = (<<n>> \o S)[i + 1]
      <4>1. g[s[i]].number = h[s[i]].number
        BY <1>1, <1>8
      <4> QED
        BY <1>10, <2>1, <2>2, <4>1
    <3>3. \A i \in 1 .. (Len(s) + 1) : i = 1 \/ (i - 1 \in 1 .. Len(s) /\ (i - 1) + 1 = i)
      BY SMT, <1>1
    <3> QED
      BY <3>1, <3>2, <3>3
  <2>4. N = [i \in 1 .. (Len(s) + 1) |-> g[t[i]].number]
    BY <1>10 DEF NumbersOf
  <2> HIDE DEF N, t
  <2>5. N = [i \in 1 .. (Len(s) + 1) |-> (<<n>> \o S)[i]]
    BY <2>3, <2>4
  <2> QED
    BY SMT, <2>2, <2>5
<1>12. LastOf(g, f) = IF n = 1 THEN n ELSE LastOf(h, e)
  <2>1. a # Null
    BY DEF Null
  <2>2. CASE n = 1
    BY <1>3, <1>8, <2>1, <2>2 DEF LastOf
  <2>3. CASE n # 1
    <3>1. e.last_version # Null => e.last_version \in DOMAIN h
      BY <1>1 DEF Intact, Shaped
    <3> QED
      BY <1>3, <1>8, <2>3, <3>1 DEF LastOf
  <2> QED
    BY <2>2, <2>3
<1>13. ChainOf(g, f, t) = Inserted(c, v)
  <2>1. HasFields(ChainOf(g, f, t), N, f.highest_version_read, f.highest_version_written,
                  f.num_versions, LastOf(g, f))
    BY ChainOfFields
  <2> HIDE DEF N, t
  <2>2. ChainOf(g, f, t) = ChainWith(<<n>> \o S, e.highest_version_read, n, e.num_versions + 1,
                                     IF n = 1 THEN n ELSE LastOf(h, e))
    BY <1>3, <1>11, <1>12, <2>1 DEF HasFields
  <2> HIDE DEF S
  <2>3. Inserted(c, v) = ChainWith(<<n>> \o S, e.highest_version_read, n, e.num_versions + 1,
                                   IF n = 1 THEN n ELSE LastOf(h, e))
    BY SMT, <1>4, <1>6, ChainInserted
  <2> QED
    BY <2>2, <2>3
<1>14. WellFormed(ChainOf(g, f, t))
  <2>1. WellFormed(Inserted(c, v))
    BY <1>5, <1>6, InsertedWellFormed
  <2> QED
    BY <1>13, <2>1
<1> HIDE DEF t
<1>15. \A x \in DOMAIN g : g[x].number <= f.highest_version_written
  BY SMT, <1>3, <1>7, <1>8, <1>9
<1>16. ASSUME NEW x \in DOMAIN g, NEW y \in DOMAIN g, g[x].number = g[y].number
       PROVE  x = y
  <2>1. CASE x \in DOMAIN h /\ y \in DOMAIN h
    BY <1>8, <1>16, <2>1 DEF Intact, Shaped
  <2>2. ASSUME NEW z \in DOMAIN h
        PROVE  g[z].number # n
    BY SMT, <1>7, <1>8, <1>9
  <2> QED
    BY <1>8, <1>16, <2>1, <2>2
<1>17. ASSUME f.last_version # Null
       PROVE  \E i \in DOMAIN t : t[i] = f.last_version /\ g[t[i]].number # 0
  <2>1. CASE n = 1
    <3>1. 1 \in DOMAIN t /\ n # 0
      BY SMT, <1>1, <1>10, <2>1
    <3> QED
      BY <1>3, <1>8, <1>10, <2>1, <3>1
  <2>2. CASE n # 1
    <3>1. f.last_version = e.last_version
      BY <1>3, <2>2
    <3>2. PICK i \in DOMAIN s : s[i] = e.last_version /\ h[s[i]].number # 0
      BY <1>17, <3>1 DEF Intact, Shaped
    <3>3. i + 1 \in DOMAIN t /\ t[i + 1] = s[i] /\ s[i] \in DOMAIN h
      BY SMT, <1>1, <1>10
    <3>4. g[t[i + 1]].number = h[s[i]].number
      BY <1>8, <3>3
    <3> QED
      BY <3>1, <3>2, <3>3, <3>4
  <2> QED
    BY <2>1, <2>2
<1> QED
  BY <1>2, <1>3, <1>13, <1>14, <1>15, <1>16, <1>17 DEF Extended, Shaped, c, t

\* P are the numbers of the versions with a snapshot.
PinnedAs(g, P) ==
    \A x \in DOMAIN g : g[x].number # 0 => (g[x].number \in P <=> g[x].snapshot # Null)

\* The trimming arrives where VersionList says, or follows a null pointer where it says.
Trims(g, f, t, d, P) ==
    /\ GCFaults(d, P) <=> Trimmed(g, f) = Null
    /\ ~GCFaults(d, P) => /\ GCPosition(d, P) \in 1 .. (Len(t) - 1)
                          /\ Trimmed(g, f) = t[GCPosition(d, P)]

LEMMA TrimmedIsGC ==
  ASSUME NEW g, Sound(g), NEW f, NEW t, Shaped(g, f, t), g[t[1]].prev = Null,
         NEW P, PinnedAs(g, P), NEW d, d = ChainOf(g, f, t)
  PROVE  Trims(g, f, t, d, P)
<1> DEFINE m == Len(t)
           l == f.last_version
           N == NumbersOf(g, t)
<1>1. /\ m \in Nat \ {0} /\ DOMAIN t = 1 .. m /\ \A i \in 1 .. m : t[i] \in DOMAIN g
      /\ \A i \in 1 .. (m - 1) : g[t[i]].next = t[i + 1]
      /\ g[t[m]].next \notin DOMAIN g
  BY SMT DEF Shaped, IsList
<1>2. Null \notin DOMAIN g /\ \A x \in DOMAIN g : g[x].next = Null \/ g[x].next \in DOMAIN g
  BY DEF Sound, Heap, Links
<1>3. d.versions = N /\ d.last_version = LastOf(g, f)
  <2>1. HasFields(d, N, f.highest_version_read, f.highest_version_written, f.num_versions,
                  LastOf(g, f))
    BY ChainOfFields
  <2> QED
    BY <2>1 DEF HasFields
<1>4. DOMAIN N = 1 .. m /\ Len(N) = m /\ \A i \in 1 .. m : N[i] = g[t[i]].number
  <2>1. AsLong(N, t)
    BY NumbersAreNumbers DEF NumbersOf, Shaped, Sound
  <2>2. DOMAIN N = 1 .. m /\ Len(N) = m
    BY <2>1 DEF AsLong
  <2> QED
    BY <1>1, <2>2 DEF NumbersOf
<1>5. CASE l = Null
  <2>1. LastOf(g, f) = NullVersion
    BY <1>5 DEF LastOf
  <2>2. GCFaults(d, P)
    BY <1>3, <2>1 DEF GCFaults
  <2>3. Trimmed(g, f) = Null
    BY <1>2, <1>5 DEF Trimmed
  <2> QED
    BY <2>2, <2>3 DEF Trims
<1>6. CASE l # Null
  <2>1. PICK i \in 1 .. m : t[i] = l /\ g[t[i]].number # 0
    BY <1>1, <1>6 DEF Shaped
  <2>2. d.last_version = g[l].number /\ d.last_version = N[i] /\ d.last_version # NullVersion
    BY <1>3, <1>4, <1>6, <2>1 DEF LastOf, NullVersion
  <2> DEFINE p == Position(d.versions, d.last_version)
             k == GCPosition(d, P)
             at == IF g[l].snapshot = Null THEN g[l].prev ELSE l
  <2>3. p = i
    <3>1. p \in DOMAIN d.versions /\ d.versions[p] = d.last_version
      BY <2>2, PositionOfLast DEF Shaped
    <3> HIDE DEF p
    <3> HIDE DEF N
    <3>2. p \in 1 .. m /\ N[p] = N[i]
      BY <1>3, <1>4, <2>2, <3>1
    <3>3. t[p] = t[i]
      <4>1. g[t[p]].number = g[t[i]].number /\ t[p] \in DOMAIN g /\ t[i] \in DOMAIN g
        BY <1>1, <1>4, <3>2
      <4> QED
        BY <4>1 DEF Shaped
    <3>4. \A x, y \in 1 .. m : x < y => t[x] # t[y]
      BY ListIsDistinct DEF Shaped
    <3> QED
      BY SMT, <1>1, <3>2, <3>3, <3>4
  <2>4. k = IF g[l].snapshot # Null THEN i ELSE i - 1
    <3>1. d.last_version \in P <=> g[l].snapshot # Null
      BY <1>1, <2>1, <2>2 DEF PinnedAs
    <3>2. k = IF d.last_version \in P THEN p ELSE p - 1
      BY DEF GCPosition
    <3> HIDE DEF k, p
    <3> QED
      BY <2>3, <3>1, <3>2
  <2>5. GCFaults(d, P) <=> k \notin 1 .. (m - 1)
    <3>1. GCFaults(d, P) <=> d.last_version = NullVersion \/ k \notin 1 .. (Len(d.versions) - 1)
      BY DEF GCFaults
    <3> HIDE DEF k
    <3> QED
      BY <1>3, <1>4, <2>2, <3>1
  <2>6. Trimmed(g, f) = IF at # Null /\ g[at].next # Null THEN at ELSE Null
    BY <1>1, <2>1 DEF Trimmed
  <2>9. GCPosition(d, P) = k
    OBVIOUS
  <2> HIDE DEF k, p
  <2>7. CASE g[l].snapshot # Null
    <3>1. at = t[i] /\ k = i /\ at # Null
      BY <1>1, <1>2, <2>1, <2>4, <2>7
    <3> HIDE DEF at
    <3>2. CASE i = m
      <4>1. g[at].next = Null
        BY <1>1, <1>2, <2>1, <3>1, <3>2
      <4>2. k \notin 1 .. (m - 1)
        BY SMT, <1>1, <3>1, <3>2
      <4> QED
        BY <2>5, <2>6, <4>1, <4>2 DEF Trims
    <3>3. CASE i # m
      <4>1. k \in 1 .. (m - 1) /\ i + 1 \in 1 .. m
        <5> HIDE DEF m
        <5> QED
          BY SMT, <1>1, <3>1, <3>3
      <4>2. g[at].next # Null
        BY <1>1, <1>2, <3>1, <4>1
      <4>3. Trimmed(g, f) = t[k] /\ Trimmed(g, f) # Null
        BY <2>6, <3>1, <4>2
      <4> QED
        BY <2>5, <2>9, <4>1, <4>3 DEF Trims
    <3> QED
      BY <3>2, <3>3
  <2>8. CASE g[l].snapshot = Null
    <3>1. at = g[t[i]].prev /\ k = i - 1
      BY <2>1, <2>4, <2>8
    <3> HIDE DEF at
    <3>2. CASE i = 1
      <4>1. at = Null
        BY <3>1, <3>2
      <4>2. k \notin 1 .. (m - 1)
        BY SMT, <1>1, <3>1, <3>2
      <4> QED
        BY <2>5, <2>6, <4>1, <4>2 DEF Trims
    <3>3. CASE i # 1
      <4>1. k \in 1 .. (m - 1) /\ k + 1 = i
        BY SMT, <1>1, <3>1, <3>3
      <4>2. at = t[k] /\ at # Null
        <5>1. \A j \in 1 .. m : j # 1 => g[t[j]].prev = t[j - 1] /\ t[j - 1] # Null
          BY ListIsDistinct DEF Shaped
        <5> HIDE DEF m
        <5> QED
          BY <3>1, <3>3, <5>1
      <4>3. g[at].next = t[i] /\ t[i] # Null
        BY <1>1, <1>2, <4>1, <4>2
      <4>4. Trimmed(g, f) = t[k] /\ Trimmed(g, f) # Null
        BY <2>6, <4>2, <4>3
      <4> QED
        BY <2>5, <2>9, <4>1, <4>4 DEF Trims
    <3> QED
      BY <3>2, <3>3
  <2> QED
    BY <2>7, <2>8
<1> QED
  BY <1>5, <1>6

\* A sequence is one over what its elements are in.
LEMMA SeqOfElements ==
  ASSUME NEW R, NEW S, NEW s \in Seq(R), \A i \in DOMAIN s : s[i] \in S
  PROVE  s \in Seq(S) /\ (1 \in DOMAIN s => s # <<>>)
  BY SMT

\* The list without the version that erase() unlinks.
LEMMA ErasedList ==
  ASSUME NEW g, Sound(g), NEW a, NEW t, IsList(g, a, t), NEW k \in 1 .. (Len(t) - 1),
         NEW q, Erased(g, q, t[k + 1])
  PROVE  IsList(q, a, Unlink(t, k + 1))
<1> DEFINE m == Len(t)
           x == t[k + 1]
           u == Unlink(t, k + 1)
<1>1. /\ t \in Seq(DOMAIN g) /\ m \in Nat /\ DOMAIN t = 1 .. m /\ t[1] = a
      /\ \A i \in 1 .. m : t[i] \in DOMAIN g
      /\ \A i \in 1 .. (m - 1) : g[t[i]].next = t[i + 1]
      /\ g[t[m]].next \notin DOMAIN g
  BY SMT DEF IsList
<1>2. \A i, j \in 1 .. m : i < j => t[i] # t[j]
  BY ListIsDistinct
<1>3. k \in Nat /\ 1 <= k /\ k + 1 <= m /\ k \in 1 .. m /\ k + 1 \in 1 .. m
  BY SMT, <1>1
<1>4. /\ DOMAIN q = DOMAIN g
      /\ \A y \in DOMAIN g : y # x => q[y].next = IF g[y].next = x THEN g[x].next ELSE g[y].next
  BY DEF Erased
<1>5. /\ u \in Seq(Nat) /\ Len(u) = m - 1 /\ DOMAIN u = 1 .. (m - 1)
      /\ \A i \in 1 .. (m - 1) : u[i] = IF i < k + 1 THEN t[i] ELSE t[i + 1]
  <2>1. t \in Seq(Nat)
    BY SMT, <1>1 DEF Sound, Heap
  <2>2. /\ u \in Seq(Nat) /\ Len(u) = Len(t) - 1
        /\ \A i \in DOMAIN u : u[i] = IF i < k + 1 THEN t[i] ELSE t[i + 1]
    BY <1>1, <1>3, <2>1, UnlinkShape
  <2> HIDE DEF u
  <2>3. DOMAIN u = 1 .. (m - 1)
    BY SMT, <2>2
  <2> QED
    BY <2>2, <2>3
<1> HIDE DEF u, m
<1>6. \A i \in 1 .. (m - 1) : /\ i < k + 1 => u[i] = t[i]
                              /\ ~(i < k + 1) => u[i] = t[i + 1]
                              /\ i \in 1 .. m /\ i + 1 \in 1 .. m
  <2>1. \A i \in 1 .. (m - 1) : i \in 1 .. m /\ i + 1 \in 1 .. m
    BY SMT, <1>1
  <2>2. ASSUME NEW i \in 1 .. (m - 1)
        PROVE  (i < k + 1 => u[i] = t[i]) /\ (~(i < k + 1) => u[i] = t[i + 1])
    <3>1. u[i] = IF i < k + 1 THEN t[i] ELSE t[i + 1]
      BY <1>5
    <3> QED
      BY <3>1
  <2> QED
    BY <2>1, <2>2
<1>7. \A i \in 1 .. (m - 1) : u[i] \in DOMAIN q
  <2>1. ASSUME NEW i \in 1 .. (m - 1)
        PROVE  u[i] \in DOMAIN g
    <3>1. CASE i < k + 1
      BY <1>1, <1>6, <3>1
    <3>2. CASE ~(i < k + 1)
      BY <1>1, <1>6, <3>2
    <3> QED
      BY <3>1, <3>2
  <2> QED
    BY <1>4, <2>1
<1>8. u \in Seq(DOMAIN q) /\ u # <<>>
  <2>1. 1 \in DOMAIN u /\ \A i \in DOMAIN u : u[i] \in DOMAIN q
    BY SMT, <1>1, <1>3, <1>5, <1>7
  <2> QED
    BY <1>5, <2>1, SeqOfElements
<1>9. u[1] = a
  BY SMT, <1>1, <1>3, <1>6
<1>10. ASSUME NEW i \in 1 .. (m - 2)
       PROVE  q[u[i]].next = u[i + 1]
  <2>1. i \in 1 .. (m - 1) /\ i + 1 \in 1 .. (m - 1) /\ i \in 1 .. m /\ i + 1 \in 1 .. m
    BY SMT, <1>1
  <2>2. CASE i < k
    <3>1. i < k + 1 /\ i + 1 < k + 1
      BY SMT, <1>3, <2>2
    <3>2. u[i] = t[i] /\ u[i + 1] = t[i + 1] /\ g[t[i]].next = t[i + 1]
      BY <1>1, <1>6, <2>1, <3>1
    <3>3. t[i] # x /\ t[i + 1] # x
      BY <1>2, <1>3, <2>1, <3>1
    <3> QED
      BY <1>1, <1>4, <2>1, <3>2, <3>3
  <2>3. CASE i = k
    <3>1. i < k + 1 /\ ~(i + 1 < k + 1)
      BY SMT, <1>3, <2>3
    <3>2. u[i] = t[i] /\ u[i + 1] = t[(i + 1) + 1] /\ g[t[i]].next = x /\ g[x].next = t[(i + 1) + 1]
      BY <1>1, <1>6, <2>1, <2>3, <3>1
    <3>3. t[i] # x
      BY <1>2, <1>3, <2>1, <3>1
    <3> QED
      BY <1>1, <1>4, <2>1, <3>2, <3>3
  <2>4. CASE k < i
    <3>1. ~(i < k + 1) /\ ~(i + 1 < k + 1) /\ k + 1 < i + 1 /\ k + 1 < (i + 1) + 1
          /\ (i + 1) + 1 \in 1 .. m
      BY SMT, <1>1, <1>3, <2>4
    <3>2. u[i] = t[i + 1] /\ u[i + 1] = t[(i + 1) + 1] /\ g[t[i + 1]].next = t[(i + 1) + 1]
      BY <1>1, <1>6, <2>1, <3>1
    <3>3. t[i + 1] # x /\ t[(i + 1) + 1] # x
      BY <1>2, <1>3, <2>1, <3>1
    <3> QED
      BY <1>1, <1>4, <2>1, <3>2, <3>3
  <2> QED
    BY SMT, <1>3, <2>2, <2>3, <2>4
<1>11. q[u[m - 1]].next \notin DOMAIN q
  <2>1. m - 1 \in 1 .. (m - 1) /\ (m - 1) + 1 = m /\ m \in 1 .. m
    BY SMT, <1>1, <1>3
  <2>2. CASE k = m - 1
    <3>1. k < k + 1
      BY SMT, <1>3
    <3>2. u[m - 1] = t[k] /\ x = t[m] /\ g[t[k]].next = x
      BY <1>1, <1>6, <2>1, <2>2, <3>1
    <3>3. t[k] # x
      BY <1>2, <1>3, <3>1
    <3> QED
      BY <1>1, <1>3, <1>4, <3>2, <3>3
  <2>3. CASE k # m - 1
    <3>1. ~(m - 1 < k + 1) /\ k + 1 < m
      BY SMT, <1>1, <1>3, <2>3
    <3>2. u[m - 1] = t[m]
      BY <1>6, <2>1, <3>1
    <3>3. t[m] # x
      BY <1>2, <1>3, <2>1, <3>1
    <3>4. g[t[m]].next # x
      BY <1>1, <1>3
    <3> QED
      BY <1>1, <1>4, <2>1, <3>2, <3>3, <3>4
  <2> QED
    BY <2>2, <2>3
<1>12. (m - 1) - 1 = m - 2
  BY SMT, <1>1
<1> QED
  BY <1>5, <1>8, <1>9, <1>10, <1>11, <1>12 DEF IsList, u

\* The trimming of VersionList on a chain given by its fields.
LEMMA ChainCollected ==
  ASSUME NEW c, NEW s, NEW r, NEW w, NEW m, NEW l, HasFields(c, s, r, w, m, l), NEW P,
         NEW k, k = GCPosition(c, P)
  PROVE  Collected(c, P) = ChainWith(Unlink(s, k + 1), r, w, m - 1, s[k])
<1> DEFINE S == Unlink(s, k + 1)
           M == m - 1
           L == s[k]
<1>1. Collected(c, P) = [c EXCEPT !.versions = S, !.last_version = L, !.num_versions = M]
  BY DEF Collected, HasFields
<1>2. c = ChainWith(s, r, w, m, l)
  BY DEF HasFields
<1> HIDE DEF S, M, L
<1>3. [c EXCEPT !.versions = S, !.last_version = L, !.num_versions = M] = ChainWith(S, r, w, M, L)
  <2> DEFINE c1 == ChainWith(S, r, w, m, l)
             c2 == ChainWith(S, r, w, m, L)
  <2>1. [c EXCEPT !.versions = S] = c1
    BY SMT, <1>2 DEF ChainWith
  <2>2. [c1 EXCEPT !.last_version = L] = c2
    BY SMT DEF ChainWith
  <2>3. [c2 EXCEPT !.num_versions = M] = ChainWith(S, r, w, M, L)
    BY SMT DEF ChainWith
  <2> HIDE DEF c1, c2
  <2> QED
    BY <2>1, <2>2, <2>3
<1> QED
  BY <1>1, <1>3 DEF S, M, L

\* The chain after the trimming is the one of VersionList.
Shortened(q, f, u, d, P) == Shaped(q, f, u) /\ ChainOf(q, f, u) = Collected(d, P)

LEMMA CollectedChain ==
  ASSUME NEW g, Sound(g), NEW e, NEW t, Shaped(g, e, t), NEW d, d = ChainOf(g, e, t),
         NEW P, ~GCFaults(d, P), NEW k \in 1 .. (Len(t) - 1), k = GCPosition(d, P),
         NEW q, Erased(g, q, t[k + 1]),
         NEW f, Counting(e, f, e.version, e.highest_version_written, e.num_versions - 1, t[k])
  PROVE  Shortened(q, f, Unlink(t, k + 1), d, P)
<1> DEFINE m == Len(t)
           u == Unlink(t, k + 1)
           N == NumbersOf(g, t)
           U == NumbersOf(q, u)
<1>1. /\ t \in Seq(DOMAIN g) /\ m \in Nat /\ DOMAIN t = 1 .. m
      /\ \A i \in 1 .. m : t[i] \in DOMAIN g
  BY SMT DEF Shaped, IsList
<1>2. k \in Nat /\ 1 <= k /\ k \in 1 .. m /\ k + 1 \in 1 .. m /\ k < k + 1 /\ k \in 1 .. (m - 1)
  BY SMT, <1>1
<1>3. /\ f.version = e.version /\ f.highest_version_read = e.highest_version_read
      /\ f.highest_version_written = e.highest_version_written
      /\ f.num_versions = e.num_versions - 1 /\ f.last_version = t[k]
  BY DEF Counting
<1>4. DOMAIN q = DOMAIN g /\ \A x \in DOMAIN g : q[x].number = g[x].number
  BY DEF Erased, Kept
<1>5. IsList(q, f.version, u)
  BY <1>3, ErasedList DEF Shaped
<1>6. /\ u \in Seq(Nat) /\ Len(u) = m - 1
      /\ \A i \in DOMAIN u : u[i] = IF i < k + 1 THEN t[i] ELSE t[i + 1]
  <2>1. t \in Seq(Nat)
    BY SMT, <1>1 DEF Sound, Heap
  <2> QED
    BY <1>1, <1>2, <2>1, UnlinkShape
<1>7. N \in Seq(Nat) /\ Len(N) = m /\ DOMAIN N = 1 .. m /\ \A i \in 1 .. m : N[i] = g[t[i]].number
  <2>1. AsLong(N, t)
    BY NumbersAreNumbers DEF NumbersOf, Shaped, Sound
  <2>2. N \in Seq(Nat) /\ DOMAIN N = 1 .. m /\ Len(N) = m
    BY <2>1 DEF AsLong
  <2> QED
    BY <1>1, <2>2 DEF NumbersOf
<1>8. /\ Unlink(N, k + 1) \in Seq(Nat) /\ Len(Unlink(N, k + 1)) = m - 1
      /\ \A i \in DOMAIN Unlink(N, k + 1) :
           Unlink(N, k + 1)[i] = IF i < k + 1 THEN N[i] ELSE N[i + 1]
  <2> HIDE DEF N
  <2> QED
    BY <1>2, <1>7, UnlinkShape
<1>9. U = [i \in DOMAIN u |-> q[u[i]].number]
  BY DEF NumbersOf
<1> HIDE DEF u, N, U, m
<1>10. DOMAIN u = 1 .. (m - 1) /\ DOMAIN Unlink(N, k + 1) = 1 .. (m - 1)
  BY SMT, <1>6, <1>8
<1>11. U = Unlink(N, k + 1)
  <2>1. ASSUME NEW i \in 1 .. (m - 1)
        PROVE  q[u[i]].number = Unlink(N, k + 1)[i]
    <3>1. i \in 1 .. m /\ i + 1 \in 1 .. m
      BY SMT, <1>1
    <3>2. CASE i < k + 1
      <4>1. u[i] = t[i] /\ Unlink(N, k + 1)[i] = N[i]
        BY <1>6, <1>8, <1>10, <3>2
      <4> QED
        BY <1>1, <1>4, <1>7, <3>1, <4>1
    <3>3. CASE ~(i < k + 1)
      <4>1. u[i] = t[i + 1] /\ Unlink(N, k + 1)[i] = N[i + 1]
        BY <1>6, <1>8, <1>10, <3>3
      <4> QED
        BY <1>1, <1>4, <1>7, <3>1, <4>1
    <3> QED
      BY <3>2, <3>3
  <2>2. U = [i \in 1 .. (m - 1) |-> Unlink(N, k + 1)[i]]
    BY <1>9, <1>10, <2>1
  <2> DEFINE V == Unlink(N, k + 1)
  <2> HIDE DEF V
  <2>3. V \in Seq(Nat) /\ DOMAIN V = 1 .. (m - 1) /\ U = [i \in 1 .. (m - 1) |-> V[i]]
    BY <1>8, <1>10, <2>2 DEF V
  <2>4. U = V
    BY SMT, <2>3
  <2> QED
    BY <2>4 DEF V
<1>12. t[k] \in DOMAIN g /\ t[k] # Null /\ q[t[k]].number = N[k]
  BY <1>1, <1>2, <1>4, <1>7 DEF Sound, Heap
<1>13. LastOf(q, f) = N[k]
  BY <1>3, <1>12 DEF LastOf
<1>14. HasFields(d, N, e.highest_version_read, e.highest_version_written, e.num_versions, LastOf(g, e))
  BY ChainOfFields DEF N
<1>15. ChainOf(q, f, u) = Collected(d, P)
  <2>1. HasFields(ChainOf(q, f, u), U, f.highest_version_read, f.highest_version_written,
                  f.num_versions, LastOf(q, f))
    BY ChainOfFields DEF U
  <2>2. ChainOf(q, f, u) = ChainWith(Unlink(N, k + 1), e.highest_version_read,
                                     e.highest_version_written, e.num_versions - 1, N[k])
    BY <1>3, <1>11, <1>13, <2>1 DEF HasFields
  <2>3. Collected(d, P) = ChainWith(Unlink(N, k + 1), e.highest_version_read,
                                    e.highest_version_written, e.num_versions - 1, N[k])
    BY SMT, <1>14, ChainCollected
  <2> QED
    BY <2>2, <2>3
<1>16. WellFormed(d)
  BY DEF Shaped
<1>17. WellFormed(ChainOf(q, f, u))
  <2>1. WellFormed(Collected(d, P))
    BY <1>16, CollectedWellFormed
  <2> QED
    BY <1>15, <2>1
<1>18. \A x \in DOMAIN q : q[x].number <= f.highest_version_written
  BY <1>3, <1>4 DEF Shaped
<1>19. \A x, y \in DOMAIN q : q[x].number = q[y].number => x = y
  BY <1>4 DEF Shaped
<1>20. k \in DOMAIN u /\ u[k] = f.last_version /\ q[u[k]].number # 0
  <2>1. k \in DOMAIN u /\ u[k] = t[k]
    BY <1>2, <1>6, <1>10
  <2>2. N[k] > N[k + 1]
    BY <1>2, <1>7, <1>14, <1>16 DEF WellFormed, Descending, HasFields
  <2>3. N[k] \in Nat /\ N[k + 1] \in Nat
    BY SMT, <1>2, <1>7
  <2>4. N[k] # 0
    BY SMT, <2>2, <2>3
  <2> QED
    BY <1>3, <1>12, <2>1, <2>4
<1> QED
  BY <1>5, <1>15, <1>17, <1>18, <1>19, <1>20 DEF Shortened, Shaped, u

\* The version a reader has a snapshot of.
LEMMA OpenIsSeen ==
  ASSUME OneEach, Opened, NEW i \in Ids, NEW r \in snaps[i].readers, r \in Readers
  PROVE  Open[r] = snaps[i].seen /\ Open[r] = heap[snaps[i].version].number
<1> DEFINE mine == {j \in Ids : r \in snaps[j].readers}
<1>1. mine = {i}
  BY DEF OneEach
<1>2. Open[r] = IF mine = {} THEN NullVersion
                ELSE heap[snaps[CHOOSE j \in mine : TRUE].version].number
  BY DEF Open
<1>3. (CHOOSE j \in {i} : TRUE) = i
  OBVIOUS
<1> HIDE DEF mine
<1>4. Open[r] = heap[snaps[i].version].number
  BY <1>1, <1>2, <1>3
<1> QED
  BY <1>4 DEF Opened

\* A reader without a snapshot has none open.
LEMMA NothingOpen ==
  ASSUME NEW r \in Readers, \A i \in Ids : r \notin snaps[i].readers
  PROVE  Open[r] = NullVersion
<1> DEFINE mine == {j \in Ids : r \in snaps[j].readers}
<1>1. mine = {}
  OBVIOUS
<1>2. Open[r] = IF mine = {} THEN NullVersion
                ELSE heap[snaps[CHOOSE j \in mine : TRUE].version].number
  BY DEF Open
<1> HIDE DEF mine
<1> QED
  BY <1>1, <1>2

\* The versions with a snapshot are those that a reader has open.
LEMMA PinnedIsMarked ==
  ASSUME IndInv, Opened, NEW s, Intact(heap, entry, s),
         NEW x \in DOMAIN heap, heap[x].number # 0
  PROVE  heap[x].number \in Pinned <=> heap[x].snapshot # Null
<1>1. Types /\ OneEach /\ BackPointersHold
  BY DEF IndInv
<1>2. \A i \in Ids : snaps[i].readers \subseteq Readers
  BY <1>1 DEF Types, Snapshot
<1>3. heap[x].number \in Pinned <=> \E r \in Readers : Open[r] = heap[x].number
  BY DEF Pinned, NullVersion
<1>4. ASSUME NEW r \in Readers, Open[r] = heap[x].number
      PROVE  heap[x].snapshot # Null
  <2>1. PICK i \in Ids : r \in snaps[i].readers
    BY <1>4, NothingOpen DEF NullVersion
  <2>2. Open[r] = heap[snaps[i].version].number
    BY <1>1, <2>1, OpenIsSeen
  <2>3. snaps[i].version \in DOMAIN heap /\ heap[snaps[i].version].snapshot = i
    BY <2>1 DEF Opened
  <2>4. snaps[i].version = x
    BY <1>4, <2>2, <2>3 DEF Intact, Shaped
  <2> QED
    BY <2>3, <2>4, IdsAreNumbers
<1>5. ASSUME heap[x].snapshot # Null
      PROVE  \E r \in Readers : Open[r] = heap[x].number
  <2> DEFINE i == heap[x].snapshot
  <2>1. i \in Ids
    BY <1>1, <1>5 DEF Types, Heap, Version
  <2>2. snaps[i].readers # {} /\ snaps[i].version = x
    BY <1>1, <1>5 DEF BackPointersHold
  <2>3. PICK r \in snaps[i].readers : TRUE
    BY <2>2
  <2> HIDE DEF i
  <2>4. r \in Readers
    BY <1>2, <2>1, <2>3
  <2>5. Open[r] = heap[snaps[i].version].number
    BY <1>1, <2>1, <2>3, <2>4, OpenIsSeen
  <2> QED
    BY <2>2, <2>4, <2>5
<1> QED
  BY <1>3, <1>4, <1>5

\* The new version has no snapshot, and shares its number with none that has.
LEMMA PinnedAfter ==
  ASSUME IndInv, Opened, NEW s, Intact(heap, entry, s), NEW n \in Nat,
         entry.highest_version_written < n, NEW a, a \notin DOMAIN heap, NEW b, NEW h,
         Fronted(heap, h, a, b, n)
  PROVE  PinnedAs(h, Pinned)
<1>1. DOMAIN h = DOMAIN heap \union {a} /\ h[a].number = n /\ h[a].snapshot = Null
  BY DEF Fronted
<1>2. \A x \in DOMAIN heap : h[x].number = heap[x].number /\ h[x].snapshot = heap[x].snapshot
  BY DEF Fronted, Kept
<1>3. Heap(heap) /\ entry \in EntryRef
  BY DEF IndInv, Types
<1>4. n \notin Pinned
  <2>1. ASSUME NEW x \in DOMAIN heap
        PROVE  heap[x].number # n
    <3>1. heap[x].number <= entry.highest_version_written
      BY DEF Intact, Shaped
    <3>2. heap[x].number \in Nat /\ entry.highest_version_written \in Nat
      BY <1>3 DEF Heap, Version, EntryRef
    <3> QED
      BY SMT, <3>1, <3>2
  <2>2. ASSUME NEW r \in Readers
        PROVE  Open[r] = NullVersion \/ \E x \in DOMAIN heap : Open[r] = heap[x].number
    <3>1. CASE \A i \in Ids : r \notin snaps[i].readers
      BY <3>1, NothingOpen
    <3>2. ASSUME NEW i \in Ids, r \in snaps[i].readers
          PROVE  \E x \in DOMAIN heap : Open[r] = heap[x].number
      <4>1. Open[r] = heap[snaps[i].version].number
        BY <3>2, OpenIsSeen DEF IndInv
      <4>2. snaps[i].version \in DOMAIN heap
        BY <3>2 DEF Opened
      <4> QED
        BY <4>1, <4>2
    <3> QED
      BY <3>1, <3>2
  <2> QED
    BY <2>1, <2>2 DEF Pinned
<1>5. \A x \in DOMAIN heap :
        heap[x].number # 0 => (heap[x].number \in Pinned <=> heap[x].snapshot # Null)
  BY PinnedIsMarked
<1> QED
  BY <1>1, <1>2, <1>4, <1>5 DEF PinnedAs

\* apply() is the apply() of VersionList, and follows a null pointer where that does.
AppliedAs(vtw) ==
    \/ /\ fault' = FALSE /\ Chain' = Applied(Chain, vtw, Pinned)
       /\ ~ApplyFaults(Chain, vtw, Pinned)
    \/ fault' = TRUE /\ Chain' = Chain /\ ApplyFaults(Chain, vtw, Pinned)

LEMMA ApplyImplements ==
  ASSUME IndInv, Opened, NEW s, Intact(heap, entry, s), NEW vtw \in WriteVersions, Apply(vtw)
  PROVE  AppliedAs(vtw) /\ Open' = Open /\ Opened' /\ \E t : Intact(heap', entry', t)
<1> DEFINE n == Promoted(entry, vtw)
           a == FreshAddress
           h == SetVersion(InsertBefore(Placed(heap, a, NewVersion(n)), a, entry.version),
                           entry.version, a)
           e == [ entry EXCEPT !.version = a,
                               !.last_version = IF n = 1 THEN a ELSE @,
                               !.highest_version_written = n,
                               !.num_versions = @ + 1 ]
           l == Trimmed(h, e)
           t == <<a>> \o s
           c == ChainOf(heap, entry, s)
           d == ChainOf(h, e, t)
<1>1. /\ Usable /\ ~Dropped(entry, vtw) /\ UNCHANGED <<snaps, events>>
      /\ \/ ~NeedsGC(e) /\ heap' = h /\ entry' = e /\ UNCHANGED fault
         \/ /\ NeedsGC(e) /\ l # Null
            /\ heap' = Erase(h, h[l].next)
            /\ entry' = [e EXCEPT !.last_version = l, !.num_versions = @ - 1]
            /\ UNCHANGED fault
         \/ NeedsGC(e) /\ l = Null /\ fault' = TRUE /\ UNCHANGED <<heap, entry>>
  BY DEF Apply
<1>2. n \in Nat /\ Fronted(heap, h, a, entry.version, n) /\ Consistent(h, a, snaps)
  BY <1>1, ApplyInserts
<1>3. Types /\ Consistent(heap, entry.version, snaps) /\ Sound(heap)
  BY InvIsConsistent DEF Consistent
<1>4. a \in Nat \ {0} /\ a \notin DOMAIN heap
  BY <1>3, FreshIsFree
<1>5. vtw \in Nat /\ n = Promoted(entry, vtw)
  BY VersionHeapAssumption
<1> HIDE DEF n, a, h
<1>6. Counting(entry, e, a, n, entry.num_versions + 1, IF n = 1 THEN a ELSE entry.last_version)
  BY <1>2, <1>3, <1>4, CountersAfter DEF Types
<1> HIDE DEF e
<1>7. Extended(heap, entry, s, h, e, t, vtw)
  BY <1>1, <1>2, <1>3, <1>4, <1>5, <1>6, InsertedChain DEF Types
<1>8. Shaped(h, e, t) /\ d = Inserted(c, vtw)
  BY <1>7 DEF Extended
<1>9. e \in EntryRef /\ e.version = a
  BY <1>6 DEF Counting
<1>10. Chain = c /\ Open = OpenAt(heap, snaps) /\ OpenedAt(heap, snaps)
  <2>1. ChainAt(heap, entry) = c
    BY <1>3, ChainIsList DEF Intact, Shaped
  <2> QED
    BY <2>1, Seen
<1>11. /\ WellFormed(c) /\ c.highest_version_read = entry.highest_version_read
       /\ c.highest_version_written = entry.highest_version_written
       /\ c.num_versions = entry.num_versions
  <2>1. HasFields(c, NumbersOf(heap, s), entry.highest_version_read,
                  entry.highest_version_written, entry.num_versions, LastOf(heap, entry))
    BY ChainOfFields
  <2> QED
    BY <2>1 DEF HasFields, Intact, Shaped
<1>12. d.num_versions = e.num_versions
  <2>1. HasFields(d, NumbersOf(h, t), e.highest_version_read, e.highest_version_written,
                  e.num_versions, LastOf(h, e))
    BY ChainOfFields
  <2> HIDE DEF d
  <2> QED
    BY <2>1 DEF HasFields
<1> HIDE DEF c, d, t
<1>13. ~Dropped(c, vtw) /\ n > entry.highest_version_written
  <2>1. ~Dropped(c, vtw) /\ Promoted(c, vtw) = n
    BY <1>1, <1>5, <1>11 DEF Dropped, Promoted
  <2>2. c \in Entry
    BY <1>11 DEF WellFormed
  <2> QED
    BY <1>5, <1>11, <2>1, <2>2, PromotedIsAbove
<1>14. PinnedAs(h, Pinned)
  <2>1. entry.highest_version_written < n
    BY <1>2, <1>3, <1>13 DEF Types, EntryRef
  <2> QED
    BY <1>2, <1>4, <2>1, PinnedAfter
<1>15. Trims(h, e, t, d, Pinned)
  <2>1. h[t[1]].prev = Null
    <3>1. t[1] = a
      BY <1>8, <1>9 DEF Shaped, IsList
    <3> QED
      BY <1>2, <3>1 DEF Fronted
  <2> QED
    BY <1>2, <1>8, <1>14, <2>1, TrimmedIsGC DEF Consistent, d
<1>16. NeedsGC(d) <=> NeedsGC(e)
  BY <1>12 DEF NeedsGC
<1>17. /\ ApplyFaults(c, vtw, Pinned) <=> NeedsGC(e) /\ l = Null
       /\ Applied(c, vtw, Pinned) = IF NeedsGC(e) THEN Collected(d, Pinned) ELSE d
  BY <1>8, <1>13, <1>15, <1>16 DEF ApplyFaults, Applied, Trims
<1>18. fault = FALSE
  BY <1>1, <1>3 DEF Usable, Types
<1>19. ASSUME NEW g, DOMAIN heap \subseteq DOMAIN g,
              \A x \in DOMAIN heap : g[x].number = heap[x].number /\ g[x].snapshot = heap[x].snapshot
       PROVE  OpenAt(g, snaps) = OpenAt(heap, snaps) /\ OpenedAt(g, snaps)
  <2>1. OpenAt(g, snaps) = OpenAt(heap, snaps)
    BY <1>10, <1>19, SameOpen
  <2>2. OpenedAt(g, snaps)
    BY <1>10, <1>19 DEF OpenedAt
  <2> QED
    BY <2>1, <2>2
<1>20. /\ DOMAIN heap \subseteq DOMAIN h
       /\ \A x \in DOMAIN heap : h[x].number = heap[x].number /\ h[x].snapshot = heap[x].snapshot
  BY <1>2 DEF Fronted, Kept
<1>21. CASE ~NeedsGC(e) /\ heap' = h /\ entry' = e /\ UNCHANGED fault
  <2>1. Intact(heap', entry', t)
    <3>1. e.num_versions <= MaxVersions
      BY SMT, <1>9, <1>21, MaxVersionsAssumption DEF NeedsGC, EntryRef
    <3> QED
      BY <1>8, <1>21, <3>1 DEF Intact
  <2>2. Chain' = d
    <3>1. ChainAt(heap', entry') = d
      BY <1>2, <1>8, <1>21, ChainIsList DEF Consistent, Shaped, d
    <3> QED
      BY <3>1, Seen
  <2>3. Open' = Open /\ Opened'
    BY <1>1, <1>10, <1>19, <1>20, <1>21, Seen
  <2>4. AppliedAs(vtw)
    BY <1>10, <1>17, <1>18, <1>21, <2>2 DEF AppliedAs
  <2> QED
    BY <2>1, <2>3, <2>4
<1>22. CASE /\ NeedsGC(e) /\ l # Null
            /\ heap' = Erase(h, h[l].next)
            /\ entry' = [e EXCEPT !.last_version = l, !.num_versions = @ - 1]
            /\ UNCHANGED fault
  <2> DEFINE k == GCPosition(d, Pinned)
             u == Unlink(t, k + 1)
  <2>1. ~GCFaults(d, Pinned) /\ k \in 1 .. (Len(t) - 1) /\ l = t[k] /\ k = GCPosition(d, Pinned)
    BY <1>15, <1>22 DEF Trims
  <2>2. l \in DOMAIN h /\ h[l].next \in DOMAIN h
    BY <1>2, <1>22, TrimmedHasNext DEF Consistent
  <2>3. l \in Nat
    BY <1>2, <2>2 DEF Consistent, Sound, Heap
  <2> HIDE DEF l, k
  <2>4. h[l].next = t[k + 1]
    BY <1>8, <2>1 DEF Shaped, IsList
  <2>5. Sound(h) /\ Erased(h, heap', t[k + 1]) /\ t[k + 1] \in DOMAIN h
    BY <1>2, <1>22, <2>2, <2>4, EraseShape DEF Consistent
  <2>6. Counting(e, entry', e.version, e.highest_version_written, e.num_versions - 1, t[k])
    BY <1>9, <1>22, <2>1, <2>3, CountersTrimmed
  <2>7. Shortened(heap', entry', u, d, Pinned)
    BY <1>8, <2>1, <2>5, <2>6, CollectedChain DEF d
  <2> HIDE DEF u
  <2>8. Shaped(heap', entry', u) /\ ChainOf(heap', entry', u) = Collected(d, Pinned)
    BY <2>7 DEF Shortened
  <2>9. Intact(heap', entry', u)
    <3>1. entry'.num_versions = e.num_versions - 1 /\ e.num_versions = entry.num_versions + 1
      BY <1>6, <2>6 DEF Counting
    <3>2. entry.num_versions <= MaxVersions /\ entry.num_versions \in Nat
      BY <1>3 DEF Intact, Types, EntryRef
    <3>3. entry'.num_versions <= MaxVersions
      BY SMT, <3>1, <3>2
    <3> QED
      BY <2>8, <3>3 DEF Intact
  <2>10. Chain' = Collected(d, Pinned)
    <3>1. Sound(heap')
      BY <2>5, ErasedIsSound
    <3>2. ChainAt(heap', entry') = ChainOf(heap', entry', u)
      BY <2>8, <3>1, ChainIsList DEF Shaped
    <3> QED
      BY <2>8, <3>2, Seen
  <2>11. Open' = Open /\ Opened'
    <3>1. /\ DOMAIN heap' = DOMAIN h
          /\ \A x \in DOMAIN h : heap'[x].number = h[x].number /\ heap'[x].snapshot = h[x].snapshot
      BY <2>5 DEF Erased, Kept
    <3>2. /\ DOMAIN heap \subseteq DOMAIN heap'
          /\ \A x \in DOMAIN heap : /\ heap'[x].number = heap[x].number
                                    /\ heap'[x].snapshot = heap[x].snapshot
      BY <1>20, <3>1
    <3>3. OpenAt(heap', snaps) = OpenAt(heap, snaps) /\ OpenedAt(heap', snaps)
      BY <1>19, <3>2
    <3> QED
      BY <1>1, <1>10, <3>3, Seen
  <2>12. AppliedAs(vtw)
    BY <1>10, <1>17, <1>18, <1>22, <2>10 DEF AppliedAs
  <2> QED
    BY <2>9, <2>11, <2>12
<1>23. CASE NeedsGC(e) /\ l = Null /\ fault' = TRUE /\ UNCHANGED <<heap, entry>>
  <2>1. AppliedAs(vtw)
    BY <1>10, <1>17, <1>23, Seen DEF AppliedAs
  <2>2. Open' = Open /\ Opened'
    BY <1>1, <1>10, <1>23, Seen
  <2> QED
    BY <1>23, <2>1, <2>2
<1> QED
  BY <1>1, <1>21, <1>22, <1>23

\* Once the entry has a version besides the empty one, it has been written.
LEMMA CreatedIsWritten ==
  ASSUME IndInv, events = 0, NEW s, Intact(heap, entry, s), Created
  PROVE  Chain.highest_version_written > 0
<1>1. Heap(heap) /\ entry \in EntryRef
  BY DEF IndInv, Types
<1>2. IsFiniteSet(DOMAIN heap) /\ entry.highest_version_written \in Nat
  BY <1>1 DEF Heap, EntryRef
<1>3. Cardinality(DOMAIN heap) > 1
  BY SMT DEF Created
<1>4. entry.version \in DOMAIN heap
  BY SMT DEF Intact, Shaped, IsList
<1>5. PICK x \in DOMAIN heap : x # entry.version
  <2>1. Cardinality({entry.version}) = 1
    BY FS_Singleton
  <2>2. DOMAIN heap # {entry.version}
    BY SMT, <1>3, <2>1
  <2> QED
    BY <1>4, <2>2
<1>6. /\ heap[x].number <= entry.highest_version_written
      /\ heap[entry.version].number <= entry.highest_version_written
      /\ heap[x].number # heap[entry.version].number
  BY <1>4, <1>5 DEF Intact, Shaped
<1>7. heap[x].number \in Nat /\ heap[entry.version].number \in Nat
  BY <1>1, <1>4 DEF Heap, Version
<1>8. entry.highest_version_written > 0
  BY SMT, <1>2, <1>6, <1>7
<1> QED
  BY <1>8 DEF Chain

\* A new entry has the empty version and no reader.
LEMMA InitUndisturbed == Init => Undisturbed
<1> SUFFICES ASSUME Init PROVE Undisturbed
  OBVIOUS
<1> DEFINE s == <<1>>
           v == [NewVersion(0) EXCEPT !.backref = TRUE]
<1>1. DOMAIN heap = {1} /\ heap[1] = v /\ v.number = 0 /\ v.next = Null
  <2>1. DOMAIN heap = {1} /\ heap[1] = v
    BY DEF Init
  <2>2. v.number = 0 /\ v.next = Null
    BY DEF NewVersion
  <2> QED
    BY <2>1, <2>2
<1> HIDE DEF v
<1>2. entry = [ version |-> 1, highest_version_read |-> 0, highest_version_written |-> 0,
                num_versions |-> 0, last_version |-> Null ]
  BY DEF Init
<1>3. entry.version = 1 /\ entry.highest_version_written = 0 /\ entry.num_versions = 0
      /\ entry.last_version = Null /\ entry.highest_version_read = 0
  BY <1>2
<1>4. IsList(heap, entry.version, s)
  <2>1. heap[1].next \notin DOMAIN heap
    BY SMT, <1>1 DEF Null
  <2> QED
    BY <1>1, <1>3, <2>1, ListEnds
<1>5. ChainOf(heap, entry, s) = NewEntry
  <2>1. NumbersOf(heap, s) = <<0>>
    BY SMT, <1>1 DEF NumbersOf
  <2>2. LastOf(heap, entry) = NullVersion
    BY <1>3 DEF LastOf
  <2>3. HasFields(ChainOf(heap, entry, s), NumbersOf(heap, s), entry.highest_version_read,
                  entry.highest_version_written, entry.num_versions, LastOf(heap, entry))
    BY ChainOfFields
  <2>4. ChainOf(heap, entry, s) = ChainWith(<<0>>, 0, 0, 0, NullVersion)
    BY <1>3, <2>1, <2>2, <2>3 DEF HasFields
  <2> QED
    BY <2>4 DEF ChainWith, NewEntry
<1>6. WellFormed(ChainOf(heap, entry, s))
  BY <1>5, NewEntryWellFormed
<1> HIDE DEF s
<1>7. \A x \in DOMAIN heap : heap[x].number <= entry.highest_version_written
  BY SMT, <1>1, <1>3
<1>8. Intact(heap, entry, s)
  <2>1. entry.num_versions <= MaxVersions
    BY SMT, <1>3, MaxVersionsAssumption
  <2>2. \A x, y \in DOMAIN heap : heap[x].number = heap[y].number => x = y
    BY <1>1
  <2> QED
    BY <1>3, <1>4, <1>6, <1>7, <2>1, <2>2 DEF Intact, Shaped
<1>9. \A i \in Ids : snaps[i].readers = {}
  BY DEF Init, NoSnapshot
<1> QED
  BY <1>8, <1>9 DEF Undisturbed, Opened, SeenData

\* A step that is no disturbance keeps the list, and is one of the version list.
KeepsList == Undisturbed' /\ (events' = 0 => ListStep)

\* apply() as a step of the version list.
LEMMA ApplyIsListStep ==
  ASSUME IndInv, Undisturbed, NEW vtw \in WriteVersions, Apply(vtw)
  PROVE  KeepsList
<1>1. UNCHANGED <<snaps, events>>
  BY DEF Apply
<1> SUFFICES ASSUME events' = 0
             PROVE  Opened' /\ SeenData' /\ (\E t : Intact(heap', entry', t)) /\ ListStep
  BY DEF KeepsList, Undisturbed
<1>2. Opened /\ SeenData /\ \E s : Intact(heap, entry, s)
  BY <1>1 DEF Undisturbed
<1>3. AppliedAs(vtw) /\ Open' = Open /\ Opened' /\ \E t : Intact(heap', entry', t)
  BY <1>2, ApplyImplements
<1>4. SeenData'
  BY <1>1, <1>2 DEF SeenData
<1>5. ListStep
  BY <1>3 DEF ListStep, AppliedAs
<1> QED
  BY <1>3, <1>4, <1>5

\* What a snapshot that is kept or new has seen is not the empty version.
LEMMA SeesData ==
  ASSUME SeenData, NEW N, Sees(snaps, snaps', N), 0 \notin N
  PROVE  SeenData'
  BY DEF SeenData, Sees

\* read() as a step of the version list.
LEMMA ReadIsListStep ==
  ASSUME IndInv, Undisturbed, NEW r \in Readers, NEW vtr \in ReadVersions, Read(r, vtr)
  PROVE  KeepsList
<1>1. UNCHANGED events /\ Created /\ \A j \in Ids : r \notin snaps[j].readers
  BY DEF Read
<1> SUFFICES ASSUME events' = 0
             PROVE  Opened' /\ SeenData' /\ (\E t : Intact(heap', entry', t)) /\ ListStep
  BY DEF KeepsList, Undisturbed
<1>2. Opened /\ SeenData /\ events = 0
  BY <1>1 DEF Undisturbed
<1>3. PICK s : Intact(heap, entry, s)
  BY <1>1 DEF Undisturbed
<1> DEFINE n == VersionRead(Chain.versions, vtr)
<1>4. /\ fault' = FALSE /\ Chain' = AfterRead(Chain, vtr) /\ Open' = [Open EXCEPT ![r] = n]
      /\ Opened' /\ Intact(heap', entry', s) /\ Sees(snaps, snaps', {n})
  BY <1>2, <1>3, ReadImplements
<1>5. Chain.highest_version_written > 0
  BY <1>1, <1>2, <1>3, CreatedIsWritten
<1>6. Open[r] = NullVersion
  BY <1>1, NothingOpen
<1>7. SeenData'
  <2>1. WellFormed(Chain)
    <3>1. Sound(heap)
      BY DEF IndInv, Types, Sound
    <3>2. ChainAt(heap, entry) = ChainOf(heap, entry, s)
      BY <1>3, <3>1, ChainIsList DEF Intact, Shaped
    <3> QED
      BY <1>3, <3>2, Seen DEF Intact, Shaped
  <2>2. vtr \in Nat
    BY VersionHeapAssumption
  <2>3. n # 0
    BY <1>5, <2>1, <2>2, VersionReadIsNewestBelow
  <2> HIDE DEF n
  <2>4. 0 \notin {n}
    BY <2>3
  <2> QED
    BY <1>2, <1>4, <2>4, SeesData
<1>8. ListStep
  BY <1>4, <1>5, <1>6 DEF ListStep
<1> QED
  BY <1>4, <1>7, <1>8

\* The destruction or the leaving of a snapshot as a step of the version list.
LEMMA CloseIsListStep ==
  ASSUME IndInv, Undisturbed, NEW r \in Readers, CloseSnapshot(r)
  PROVE  KeepsList
<1>1. UNCHANGED events /\ \E i \in Ids : r \in snaps[i].readers
  BY DEF CloseSnapshot
<1> SUFFICES ASSUME events' = 0
             PROVE  Opened' /\ SeenData' /\ (\E t : Intact(heap', entry', t)) /\ ListStep
  BY DEF KeepsList, Undisturbed
<1>2. Opened /\ SeenData
  BY <1>1 DEF Undisturbed
<1>3. PICK s : Intact(heap, entry, s)
  BY <1>1 DEF Undisturbed
<1>4. /\ fault' = FALSE /\ Chain' = Chain /\ Open' = [Open EXCEPT ![r] = NullVersion]
      /\ Opened' /\ Intact(heap', entry', s) /\ Sees(snaps, snaps', {})
  BY <1>2, <1>3, CloseImplements
<1>5. Open[r] # NullVersion
  <2>1. PICK i \in Ids : r \in snaps[i].readers
    BY <1>1
  <2>2. Open[r] = snaps[i].seen
    BY <1>2, <2>1, OpenIsSeen DEF IndInv
  <2>3. snaps[i].seen # 0
    BY <1>2, <2>1 DEF SeenData
  <2> QED
    BY <2>2, <2>3 DEF NullVersion
<1>6. SeenData'
  BY <1>2, <1>4, SeesData
<1>7. ListStep
  BY <1>4, <1>5 DEF ListStep
<1> QED
  BY <1>4, <1>6, <1>7

\* A disturbance counts itself.
LEMMA DisturbedIsNoListStep ==
  ASSUME IndInv, Disturb
  PROVE  KeepsList
<1>1. events \in Nat
  BY DEF IndInv, Types
<1>2. events' # 0
  BY SMT, <1>1 DEF Disturb
<1> QED
  BY <1>2 DEF KeepsList, Undisturbed

\* The entry's ref does not dangle before the first disturbance.
LEMMA EntryDoesNotFault ==
  ASSUME IndInv, Undisturbed, EntryFault
  PROVE  KeepsList
<1>1. UNCHANGED events /\ entry.version \notin DOMAIN heap
  BY DEF EntryFault
<1>2. \A s : ~Intact(heap, entry, s)
  <2>1. \A s : IsList(heap, entry.version, s) => entry.version \in DOMAIN heap
    BY SMT DEF IsList
  <2> QED
    BY <1>1, <2>1 DEF Intact, Shaped
<1> QED
  BY <1>1, <1>2 DEF KeepsList, Undisturbed

\* What steps do to the list.
LEMMA NextIsListStep ==
  ASSUME IndInv, Undisturbed, [Next]_vars
  PROVE  Undisturbed' /\ [events' = 0 => ListStep]_vars
<1>1. CASE \E vtw \in WriteVersions : Apply(vtw)
  BY <1>1, ApplyIsListStep DEF KeepsList
<1>2. CASE \E r \in Readers, vtr \in ReadVersions : Read(r, vtr)
  BY <1>2, ReadIsListStep DEF KeepsList
<1>3. CASE \E r \in Readers : CloseSnapshot(r)
  BY <1>3, CloseIsListStep DEF KeepsList
<1>4. CASE EntryFault
  BY <1>4, EntryDoesNotFault DEF KeepsList
<1>5. CASE Upgrade
  BY <1>5, DisturbedIsNoListStep DEF Upgrade, KeepsList
<1>6. CASE DestroyEntry
  BY <1>6, DisturbedIsNoListStep DEF DestroyEntry, KeepsList
<1>7. CASE \E a \in DOMAIN heap : MoveVersion(a)
  BY <1>7, DisturbedIsNoListStep DEF MoveVersion, KeepsList
<1>8. CASE MoveEntry
  BY <1>8, DisturbedIsNoListStep DEF MoveEntry, KeepsList
<1>9. CASE UNCHANGED vars
  BY <1>9 DEF vars, Undisturbed, Opened, SeenData
<1> QED
  BY <1>1, <1>2, <1>3, <1>4, <1>5, <1>6, <1>7, <1>8, <1>9 DEF Next

\* Up to the first disturbance the list that starts at the entry's ref is the
\* version chain: newest first, as long as num_versions says, no number given
\* twice, last_version on it; and every snapshot and its version, which is not
\* the empty one, point at each other.
THEOREM ListIsTheChain == Spec => []Undisturbed
<1>1. Init => Undisturbed
  BY InitUndisturbed
<1>2. IndInv /\ Undisturbed /\ [Next]_vars => Undisturbed'
  BY NextIsListStep
<1> QED
  BY <1>1, <1>2, IndInvHolds, PTL DEF Spec

\* The pointers implement the version list: up to the first disturbance every
\* apply(), with the erase() of its trimming, every read() and every closing of a
\* snapshot does to the chain and to its readers what PartitionEntry says, and
\* apply() follows a null pointer exactly where PartitionEntry says so.
THEOREM PointersImplementTheList == Spec => ImplementsVersionList
<1>1. IndInv /\ Undisturbed /\ [Next]_vars => [events' = 0 => ListStep]_vars
  BY NextIsListStep
<1> QED
  BY <1>1, IndInvHolds, ListIsTheChain, PTL DEF Spec, ImplementsVersionList

\* What a comment in the code says of snapshots does hold up to the first
\* disturbance: the version stays allocated, and stays the version that was read.
THEOREM SnapshotsHoldUntilDisturbed == Spec => [](events = 0 => SnapshotsKeepTheirVersion)
<1>1. Undisturbed => (events = 0 => SnapshotsKeepTheirVersion)
  BY DEF Undisturbed, Opened, SnapshotsKeepTheirVersion
<1> QED
  BY <1>1, ListIsTheChain, PTL
=============================================================================
