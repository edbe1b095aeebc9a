--------------------------- MODULE TwoRoundsProofs ---------------------------
(***************************************************************************)
(* The reads of the two-round client are recent, for every set of keys,    *)
(* readers and writers, every number of tries and every window.            *)
(***************************************************************************)
EXTENDS TwoRounds, VersionListProofs, FiniteSetTheorems

Answers == UNION {[D -> Nat] : D \in SUBSET Keys}

Mutation == [writer : Writers, try : Nat, key : Keys]
Stray == [key : Keys, at : Nat]
Batch == [try : Nat, got : Answers, done : BOOLEAN]
Transaction == [phase : {"idle", "first", "second"}, try : Nat, at : Nat,
                first : Answers, got : Answers, reads : Nat]

Types ==
    /\ entry = [k \in Keys |-> entry[k]]
    /\ sent \subseteq Mutation
    /\ strays \subseteq Stray
    /\ writer \in [Writers -> Batch]
    /\ reader \in [Readers -> Transaction]
    /\ acked \in [Keys -> Nat]
    /\ base \in [Readers -> [Keys -> Nat]]

Kept(e) == WellFormed(e) /\ e.num_versions <= MaxVersions /\ e.highest_version_written > 0

\* Version v of a key has been committed: it is on the chain, or it has been
\* trimmed and all versions with data that are left are newer.
Seen(e, v) ==
    /\ v <= e.highest_version_written
    /\ v \in Linked(e) \/ \A m \in Linked(e) : m = 0 \/ v < m

\* Transaction rd, which began when the versions b were known, on entries en.
\* The version of its second round is at or above all its first round found.
Sound(rd, b, en) ==
    /\ \A k \in DOMAIN rd.got : Seen(en[k], rd.got[k]) /\ rd.got[k] >= b[k]
    /\ rd.phase = "first" => rd.at = 0
    /\ rd.phase = "second" =>
         /\ DOMAIN rd.first = Keys
         /\ rd.at > 0
         /\ \A k \in Keys :
              /\ Seen(en[k], rd.first[k])
              /\ b[k] <= rd.first[k] /\ rd.first[k] <= rd.at
              /\ k \in DOMAIN rd.got => rd.got[k] >= rd.first[k]

\* What batches were acknowledged at, and clients have seen, was written.
Bounded(f, en) == \A k \in DOMAIN f : f[k] <= en[k].highest_version_written

IndInv ==
    /\ Types
    /\ \A k \in Keys : Kept(entry[k])
    /\ \A w \in Writers : Bounded(writer[w].got, entry)
    /\ Bounded(acked, entry)
    /\ \A r \in Readers : Bounded(base[r], entry)
    /\ \A r \in Readers : Sound(reader[r], base[r], entry)

\* A step of a replica: nothing that was seen is lost.
Grows(e, f) ==
    /\ Kept(f)
    /\ f.highest_version_written >= e.highest_version_written
    /\ \A v \in Nat : Seen(e, v) => Seen(f, v)

-----------------------------------------------------------------------------
(* The operators of the model.                                             *)

\* What is known of the keys grows by one key at a time.
LEMMA ExtendedShape ==
  ASSUME NEW g \in Answers, NEW k \in Keys, NEW v \in Nat
  PROVE  /\ Extended(g, k, v) \in Answers
         /\ DOMAIN Extended(g, k, v) = DOMAIN g \union {k}
         /\ Extended(g, k, v)[k] = v
         /\ \A q \in DOMAIN g : q # k => Extended(g, k, v)[q] = g[q]
<1>1. PICK D \in SUBSET Keys : g \in [D -> Nat]
  BY DEF Answers
<1>2. Extended(g, k, v) \in [D \union {k} -> Nat] /\ D \union {k} \in SUBSET Keys
  BY <1>1 DEF Extended
<1>3. Extended(g, k, v) \in Answers
  BY <1>2 DEF Answers
<1> QED
  BY <1>1, <1>3 DEF Extended

\* Answers are version numbers for some of the keys, none at first.
LEMMA AnswersShape ==
  /\ <<>> \in Answers /\ DOMAIN <<>> = {}
  /\ \A g \in Answers : g \in [DOMAIN g -> Nat] /\ DOMAIN g \subseteq Keys
<1>1. <<>> \in [{} -> Nat] /\ DOMAIN <<>> = {}
  OBVIOUS
<1>2. {} \in SUBSET Keys
  OBVIOUS
<1> QED
  BY <1>1, <1>2 DEF Answers

\* The larger of two versions, key by key.
LEMMA LargerShape ==
  ASSUME NEW f \in [Keys -> Nat], NEW g \in [Keys -> Nat]
  PROVE  /\ Larger(f, g) \in [Keys -> Nat]
         /\ \A k \in Keys : Larger(f, g)[k] = f[k] \/ Larger(f, g)[k] = g[k]
<1>1. ASSUME NEW k \in Keys
      PROVE  Max({f[k], g[k]}) = f[k] \/ Max({f[k], g[k]}) = g[k]
  <2>1. \E x \in {f[k], g[k]} : \A y \in {f[k], g[k]} : x >= y
    <3>1. CASE f[k] >= g[k]
      BY <3>1
    <3>2. CASE g[k] >= f[k]
      BY <3>2
    <3> QED
      BY <3>1, <3>2
  <2>2. Max({f[k], g[k]}) \in {f[k], g[k]}
    BY <2>1 DEF Max
  <2> QED
    BY <2>2
<1> QED
  BY <1>1 DEF Larger

\* Of finitely many keys one is at the largest version: the smallest set of
\* keys that had none could spare a key.
LEMMA LargestKeyExists ==
  ASSUME NEW K, IsFiniteSet(K), K # {}, NEW g, \A k \in K : g[k] \in Nat
  PROVE  \E z \in K : \A k \in K : g[k] <= g[z]
<1> DEFINE Bad(T) == T # {} /\ ~\E z \in T : \A k \in T : g[k] <= g[z]
           Sizes == {Cardinality(T) : T \in {T \in SUBSET K : Bad(T)}}
<1>1. SUFFICES ASSUME Bad(K) PROVE FALSE
  OBVIOUS
<1>2. \A T \in SUBSET K : IsFiniteSet(T) /\ Cardinality(T) \in Nat
  BY FS_Subset, FS_CardinalityType
<1>3. Sizes \subseteq Nat /\ Sizes # {}
  BY <1>1, <1>2
<1>4. PICK n \in Sizes : \A m \in Sizes : n <= m
  <2> HIDE DEF Sizes
  <2> QED
    BY <1>3, SmallestExists
<1>5. PICK T \in SUBSET K : Bad(T) /\ Cardinality(T) = n
  OBVIOUS
<1>6. PICK x \in T : TRUE
  BY <1>5
<1> DEFINE U == T \ {x}
<1>7. U \in SUBSET K /\ Cardinality(U) = n - 1 /\ n \in Nat
  BY <1>2, <1>5, <1>6, FS_RemoveElement
<1>8. ~Bad(U)
  <2>1. SUFFICES ASSUME Bad(U) PROVE FALSE
    OBVIOUS
  <2>2. Cardinality(U) \in Sizes
    BY <1>7, <2>1
  <2> HIDE DEF U, Sizes
  <2> QED
    BY <1>4, <1>7, <2>2
<1>9. CASE U = {}
  <2>1. \A k \in T : k = x
    BY <1>9
  <2>2. g[x] <= g[x]
    BY <1>6
  <2> QED
    BY <1>5, <1>6, <2>1, <2>2
<1>10. CASE \E z \in U : \A k \in U : g[k] <= g[z]
  <2>1. PICK z \in U : \A k \in U : g[k] <= g[z]
    BY <1>10
  <2>2. g[x] \in Nat /\ g[z] \in Nat /\ \A k \in T : g[k] \in Nat /\ (k \in U \/ k = x)
    BY <1>6
  <2>3. CASE g[x] <= g[z]
    BY <1>5, <2>1, <2>2, <2>3
  <2>4. CASE g[z] <= g[x]
    <3>1. \A k \in T : g[k] <= g[x]
      BY <2>1, <2>2, <2>4
    <3> QED
      BY <1>5, <1>6, <3>1
  <2> QED
    BY <2>2, <2>3, <2>4
<1> QED
  BY <1>8, <1>9, <1>10

\* The version of the second round is that of a key, and at or above the rest.
LEMMA ReadTSIsLargest ==
  ASSUME NEW g \in [Keys -> Nat]
  PROVE  /\ ReadTS(g) \in Nat
         /\ \A k \in Keys : g[k] <= ReadTS(g)
<1> DEFINE S == {g[k] : k \in Keys}
<1>1. PICK z \in Keys : \A k \in Keys : g[k] <= g[z]
  BY LargestKeyExists, TwoRoundsAssumption
<1>2. g[z] \in S /\ \A y \in S : g[z] >= y
  BY <1>1
<1>3. ReadTS(g) = CHOOSE x \in S : \A y \in S : x >= y
  BY DEF ReadTS, Max
<1>4. ReadTS(g) \in S /\ \A y \in S : ReadTS(g) >= y
  BY <1>2, <1>3
<1> QED
  BY <1>4

\* An entry grows into itself.
LEMMA GrowsIsReflexive ==
  ASSUME NEW e, Kept(e)
  PROVE  Grows(e, e)
  BY DEF Grows, Kept, WellFormed, Entry

\* A write without a version commits above everything written before.
LEMMA ApplyGrows ==
  ASSUME NEW e, Kept(e), ~ApplyFaults(e, 0, {})
  PROVE  /\ Grows(e, Applied(e, 0, {}))
         /\ CommitVersion(e, 0) \in Nat
         /\ CommitVersion(e, 0) <= Applied(e, 0, {}).highest_version_written
<1> DEFINE f == Applied(e, 0, {})
           n == Promoted(e, 0)
<1>1. ~Dropped(e, 0) /\ WellFormed(e) /\ e \in Entry /\ e.num_versions <= MaxVersions
      /\ e.highest_version_written \in Nat
  BY DEF Dropped, Kept, WellFormed, Entry
<1>2. n \in Nat /\ n > e.highest_version_written /\ CommitVersion(e, 0) = n
  BY <1>1, PromotedIsAbove DEF CommitVersion
<1>3. /\ WellFormed(f)
      /\ f.num_versions <= MaxVersions
      /\ f.highest_version_written = n
      /\ \A y \in Linked(f) : y \in Linked(e) \/ y = n
      /\ \A y \in Linked(e) \union {n} : y \notin Linked(f) =>
            \A z \in Linked(f) : z = 0 \/ y < z
  BY <1>1, AppliedWellFormed
<1> HIDE DEF f, n
<1>4. ASSUME NEW v \in Nat, Seen(e, v) PROVE Seen(f, v)
  <2>1. v <= e.highest_version_written /\ v < n
    BY <1>1, <1>2, <1>4 DEF Seen
  <2>2. v \in Linked(f) \/ \A m \in Linked(f) : m = 0 \/ v < m
    BY <1>3, <1>4, <2>1 DEF Seen
  <2> QED
    BY <1>2, <1>3, <2>1, <2>2 DEF Seen
<1>5. Kept(f)
  BY <1>1, <1>2, <1>3 DEF Kept
<1>6. f.highest_version_written >= e.highest_version_written
  BY <1>1, <1>2, <1>3
<1>7. Grows(e, f) /\ n <= f.highest_version_written
  BY <1>2, <1>3, <1>4, <1>5, <1>6 DEF Grows
<1> QED
  BY <1>2, <1>7 DEF f

\* A read leaves the chain alone.  What it finds has been committed; the newest
\* version at or below "at" is no older than any version seen up to there.
LEMMA ReadGrows ==
  ASSUME NEW e, Kept(e), NEW at \in Nat
  PROVE  LET f == AfterRead(e, at)
             n == VersionRead(e.versions, at)
         IN  /\ Grows(e, f)
             /\ n \in Nat
             /\ Seen(f, n)
             /\ at = 0 => n = e.highest_version_written
             /\ \A v \in Nat : at > 0 /\ v <= at /\ Seen(e, v) => n >= v
<1> DEFINE f == AfterRead(e, at)
           n == VersionRead(e.versions, at)
<1>1. WellFormed(e) /\ e \in Entry /\ e.num_versions <= MaxVersions
      /\ e.highest_version_written > 0
  BY DEF Kept, WellFormed
<1>2. /\ f \in Entry
      /\ f.versions = e.versions
      /\ f.highest_version_written = e.highest_version_written
      /\ f.num_versions = e.num_versions
      /\ f.last_version = e.last_version
  BY <1>1 DEF AfterRead, Entry
<1>3. Linked(f) = Linked(e) /\ Kept(f)
  BY <1>1, <1>2 DEF Linked, Kept, WellFormed, LastIsOldest
<1>4. /\ n \in Linked(e)
      /\ n # 0
      /\ at > 0 /\ n <= at => \A y \in Linked(e) : ~(n < y /\ y <= at)
  BY <1>1, VersionReadIsNewestBelow
<1>5. \A y \in Linked(e) : y \in Nat
  BY <1>1, LinkedAreNumbers
<1>6. at = 0 => n = e.highest_version_written
  BY <1>1 DEF VersionRead, WellFormed
<1>7. \A y \in Linked(e) : y <= e.highest_version_written
  BY <1>1, FrontIsLargest
<1> HIDE DEF f, n
<1>8. Grows(e, f)
  BY <1>1, <1>2, <1>3 DEF Grows, Seen, Entry
<1>9. Seen(f, n)
  BY <1>2, <1>3, <1>4, <1>7 DEF Seen
<1>10. ASSUME NEW v \in Nat, at > 0, v <= at, Seen(e, v) PROVE n >= v
  <2>1. CASE v \in Linked(e)
    BY <1>4, <1>5, <1>10, <2>1
  <2>2. CASE \A m \in Linked(e) : m = 0 \/ v < m
    BY <1>4, <1>5, <2>2
  <2> QED
    BY <1>10, <2>1, <2>2 DEF Seen
<1> QED
  BY <1>4, <1>5, <1>6, <1>8, <1>9, <1>10 DEF f, n

-----------------------------------------------------------------------------
(* The steps.                                                              *)

\* The loaded keys are at version 1, which everybody knows of.
LEMMA InitIndInv == Init => IndInv
<1>1. SUFFICES ASSUME Init PROVE IndInv
  OBVIOUS
<1> DEFINE e == Inserted(NewEntry, 1)
<1>2. Kept(e) /\ e.highest_version_written = 1
  <2>1. ~Dropped(NewEntry, 1) /\ Promoted(NewEntry, 1) = 1 /\ NewEntry.num_versions = 0
    BY DEF Dropped, Promoted, NewEntry
  <2>2. /\ WellFormed(e) /\ e.highest_version_written = Promoted(NewEntry, 1)
        /\ e.num_versions = NewEntry.num_versions + 1
    BY <2>1, NewEntryWellFormed, InsertedWellFormed
  <2> QED
    BY <2>1, <2>2, MaxVersionsAssumption DEF Kept
<1>3. \A k \in Keys : entry[k] = e
  BY <1>1 DEF Init
<1>4. acked = [k \in Keys |-> 1] /\ \A r \in Readers : base[r] = acked
  BY <1>1 DEF Init
<1> HIDE DEF e
<1>5. Types
  <2>1. Unstarted \in Batch /\ Idle \in Transaction
    BY AnswersShape DEF Unstarted, Idle, Batch, Transaction
  <2>2. entry = [k \in Keys |-> entry[k]] /\ sent = {} /\ strays = {}
    BY <1>1 DEF Init
  <2>3. writer \in [Writers -> Batch] /\ reader \in [Readers -> Transaction]
    BY <1>1, <2>1 DEF Init
  <2>4. acked \in [Keys -> Nat] /\ base \in [Readers -> [Keys -> Nat]]
    BY <1>1, <1>4 DEF Init
  <2> QED
    BY <2>2, <2>3, <2>4 DEF Types
<1>6. (\A k \in Keys : Kept(entry[k])) /\ Bounded(acked, entry)
      /\ \A r \in Readers : Bounded(base[r], entry)
  BY <1>2, <1>3, <1>4 DEF Bounded
<1>7. \A w \in Writers : Bounded(writer[w].got, entry)
  BY <1>1, AnswersShape DEF Init, Bounded, Unstarted
<1>8. \A r \in Readers : Sound(reader[r], base[r], entry)
  BY <1>1, AnswersShape DEF Init, Sound, Idle
<1> QED
  BY <1>5, <1>6, <1>7, <1>8 DEF IndInv

\* What is bounded and sound stays so when the entries grow.
LEMMA SoundStays ==
  ASSUME NEW en, NEW fn, \A k \in Keys : Kept(en[k]) /\ Grows(en[k], fn[k])
  PROVE  /\ \A f \in Answers : Bounded(f, en) => Bounded(f, fn)
         /\ \A rd \in Transaction, b \in [Keys -> Nat] : Sound(rd, b, en) => Sound(rd, b, fn)
<1>1. \A f \in Answers : Bounded(f, en) => Bounded(f, fn)
  <2>1. SUFFICES ASSUME NEW f \in Answers, Bounded(f, en), NEW k \in DOMAIN f
                 PROVE  f[k] <= fn[k].highest_version_written
    BY DEF Bounded
  <2>2. k \in Keys /\ f[k] \in Nat /\ f[k] <= en[k].highest_version_written
    BY <2>1, AnswersShape DEF Bounded
  <2>3. /\ en[k].highest_version_written \in Nat /\ fn[k].highest_version_written \in Nat
        /\ en[k].highest_version_written <= fn[k].highest_version_written
    BY <2>2 DEF Grows, Kept, WellFormed, Entry
  <2> QED
    BY <2>2, <2>3
<1>2. ASSUME NEW rd \in Transaction, NEW b \in [Keys -> Nat], Sound(rd, b, en)
      PROVE  Sound(rd, b, fn)
  <2>1. rd.got \in Answers /\ rd.first \in Answers
    BY <1>2 DEF Transaction
  <2>2. \A g \in Answers : \A k \in DOMAIN g : k \in Keys /\ g[k] \in Nat
    BY AnswersShape
  <2>3. \A k \in DOMAIN rd.got : Seen(fn[k], rd.got[k])
    BY <1>2, <2>1, <2>2 DEF Sound, Grows
  <2>4. rd.phase = "second" => \A k \in Keys : Seen(fn[k], rd.first[k])
    BY <1>2, <2>1, <2>2 DEF Sound, Grows
  <2> QED
    BY <1>2, <2>3, <2>4 DEF Sound
<1> QED
  BY <1>1, <1>2

\* A step of one reader, and of the replica it reads from.
LEMMA ReaderMoves ==
  ASSUME IndInv, NEW r \in Readers, NEW rd \in Transaction, NEW b \in [Keys -> Nat],
         reader' = [reader EXCEPT ![r] = rd],
         base' = [base EXCEPT ![r] = b],
         entry' = [k \in Keys |-> entry'[k]],
         \A k \in Keys : Grows(entry[k], entry'[k]),
         strays' \subseteq Stray,
         UNCHANGED <<sent, writer, acked>>,
         Bounded(b, entry'), Sound(rd, b, entry')
  PROVE  IndInv'
<1>1. Types'
  BY DEF IndInv, Types
<1>2. \A k \in Keys : Kept(entry[k]) /\ Kept(entry'[k])
  BY DEF IndInv, Grows
<1>3. /\ \A f \in Answers : Bounded(f, entry) => Bounded(f, entry')
      /\ \A o \in Transaction, c \in [Keys -> Nat] : Sound(o, c, entry) => Sound(o, c, entry')
  BY <1>2, SoundStays
<1>4. [Keys -> Nat] \subseteq Answers
  <2>1. Keys \in SUBSET Keys
    OBVIOUS
  <2> QED
    BY <2>1 DEF Answers
<1>5. Bounded(acked', entry')
  BY <1>3, <1>4 DEF IndInv, Types
<1>6. \A w \in Writers : Bounded(writer'[w].got, entry')
  BY <1>3 DEF IndInv, Types, Batch
<1>7. ASSUME NEW q \in Readers
      PROVE  Bounded(base'[q], entry') /\ Sound(reader'[q], base'[q], entry')
  <2>1. CASE q = r
    BY <2>1 DEF IndInv, Types
  <2>2. CASE q # r
    <3>1. base'[q] = base[q] /\ reader'[q] = reader[q]
          /\ base[q] \in [Keys -> Nat] /\ reader[q] \in Transaction
      BY <2>2 DEF IndInv, Types
    <3>2. Bounded(base[q], entry) /\ Sound(reader[q], base[q], entry)
      BY DEF IndInv
    <3> QED
      BY <1>3, <1>4, <3>1, <3>2
  <2> QED
    BY <2>1, <2>2
<1> QED
  BY <1>1, <1>2, <1>5, <1>6, <1>7 DEF IndInv

\* A step of one writer, and of the replica it writes to.
LEMMA WriterMoves ==
  ASSUME IndInv, NEW w \in Writers, NEW bt \in Batch,
         writer' = [writer EXCEPT ![w] = bt],
         entry' = [k \in Keys |-> entry'[k]],
         \A k \in Keys : Grows(entry[k], entry'[k]),
         sent' \subseteq Mutation, acked' \in [Keys -> Nat],
         UNCHANGED <<strays, reader, base>>,
         Bounded(bt.got, entry'), Bounded(acked', entry')
  PROVE  IndInv'
<1>1. Types'
  BY DEF IndInv, Types
<1>2. \A k \in Keys : Kept(entry[k]) /\ Kept(entry'[k])
  BY DEF IndInv, Grows
<1>3. /\ \A f \in Answers : Bounded(f, entry) => Bounded(f, entry')
      /\ \A o \in Transaction, c \in [Keys -> Nat] : Sound(o, c, entry) => Sound(o, c, entry')
  BY <1>2, SoundStays
<1>4. [Keys -> Nat] \subseteq Answers
  <2>1. Keys \in SUBSET Keys
    OBVIOUS
  <2> QED
    BY <2>1 DEF Answers
<1>5. \A u \in Writers : Bounded(writer'[u].got, entry')
  BY <1>3 DEF IndInv, Types, Batch
<1>6. \A r \in Readers : Bounded(base'[r], entry') /\ Sound(reader'[r], base'[r], entry')
  BY <1>3, <1>4 DEF IndInv, Types
<1> QED
  BY <1>1, <1>2, <1>5, <1>6 DEF IndInv

\* insert() sends a batch, the first time or again.
LEMMA SendBatchIndInv ==
  ASSUME IndInv, NEW w \in Writers, SendBatch(w)
  PROVE  IndInv'
<1> DEFINE t == writer[w].try + 1
           bt == [Unstarted EXCEPT !.try = t]
<1>1. /\ writer' = [writer EXCEPT ![w] = bt]
      /\ sent' = sent \union {[writer |-> w, try |-> t, key |-> k] : k \in Keys}
      /\ UNCHANGED <<entry, strays, reader, acked, base>>
      /\ t \in Nat
  BY DEF SendBatch, IndInv, Types, Batch
<1>2. bt \in Batch /\ bt.got = <<>>
  BY <1>1, AnswersShape DEF Unstarted, Batch
<1>3. sent' \subseteq Mutation
  BY <1>1 DEF IndInv, Types, Mutation
<1> HIDE DEF bt, t
<1>4. Bounded(bt.got, entry')
  BY <1>2, AnswersShape DEF Bounded
<1>5. /\ entry' = [k \in Keys |-> entry'[k]]
      /\ acked' \in [Keys -> Nat] /\ Bounded(acked', entry')
  BY <1>1 DEF IndInv, Types, Bounded
<1>6. \A k \in Keys : Grows(entry[k], entry'[k])
  BY <1>1, GrowsIsReflexive DEF IndInv
<1> QED
  BY <1>1, <1>2, <1>3, <1>4, <1>5, <1>6, WriterMoves

\* apply() on the replica of one key of a batch.
LEMMA HandleWriteIndInv ==
  ASSUME IndInv, NEW m \in sent, HandleWrite(m)
  PROVE  IndInv'
<1> DEFINE x == m.key
           w == m.writer
           e == entry[x]
           f == Applied(e, 0, {})
           o == writer[w]
           n == CommitVersion(e, 0)
           g == IF o.try = m.try THEN Extended(o.got, x, n) ELSE o.got
           bt == [o EXCEPT !.got = g]
<1>1. /\ x \in Keys /\ w \in Writers /\ Kept(e) /\ o \in Batch /\ o.got \in Answers
      /\ Bounded(o.got, entry)
  BY DEF IndInv, Types, Mutation, Batch
<1>2. /\ sent' = sent \ {m} /\ ~ApplyFaults(e, 0, {})
      /\ entry' = [entry EXCEPT ![x] = f]
      /\ UNCHANGED <<strays, reader, acked, base>>
      /\ writer' = [writer EXCEPT ![w] = bt]
  BY DEF HandleWrite
<1>3. Grows(e, f) /\ n \in Nat /\ n <= f.highest_version_written
  BY <1>1, <1>2, ApplyGrows
<1>4. /\ Extended(o.got, x, n) \in Answers
      /\ DOMAIN Extended(o.got, x, n) = DOMAIN o.got \union {x}
      /\ Extended(o.got, x, n)[x] = n
      /\ \A q \in DOMAIN o.got : q # x => Extended(o.got, x, n)[q] = o.got[q]
  BY <1>1, <1>3, ExtendedShape
<1>5. bt \in Batch /\ bt.got = g
  BY <1>1, <1>4 DEF Batch
<1> HIDE DEF f, n, o, bt
<1>6. entry'[x] = f /\ (\A k \in Keys : k # x => entry'[k] = entry[k])
      /\ entry' = [k \in Keys |-> entry'[k]]
  BY <1>1, <1>2 DEF IndInv, Types
<1>7. \A k \in Keys : Grows(entry[k], entry'[k])
  BY <1>3, <1>6, GrowsIsReflexive DEF IndInv
<1>8. \A h \in Answers : Bounded(h, entry) => Bounded(h, entry')
  <2>1. \A k \in Keys : Kept(entry[k])
    BY DEF IndInv
  <2> QED
    BY <1>7, <2>1, SoundStays
<1>9. Bounded(g, entry')
  <2>1. Bounded(o.got, entry')
    BY <1>1, <1>8
  <2>2. Bounded(Extended(o.got, x, n), entry')
    BY <1>3, <1>4, <1>6, <2>1 DEF Bounded
  <2> QED
    BY <2>1, <2>2
<1>10. Bounded(acked', entry') /\ acked' \in [Keys -> Nat]
  <2>1. acked \in Answers
    <3>1. Keys \in SUBSET Keys
      OBVIOUS
    <3> QED
      BY <3>1 DEF IndInv, Types, Answers
  <2> QED
    BY <1>2, <1>8, <2>1 DEF IndInv, Types
<1>11. sent' \subseteq Mutation
  BY <1>2 DEF IndInv, Types
<1> HIDE DEF g, w
<1> QED
  BY <1>1, <1>2, <1>5, <1>6, <1>7, <1>9, <1>10, <1>11, WriterMoves

\* A batch is acknowledged: every key of it has been applied.
LEMMA BatchDoneIndInv ==
  ASSUME IndInv, NEW w \in Writers, BatchDone(w)
  PROVE  IndInv'
<1> DEFINE bt == [Unstarted EXCEPT !.done = TRUE]
           got == writer[w].got
<1>1. /\ writer' = [writer EXCEPT ![w] = bt]
      /\ DOMAIN got = Keys /\ got \in Answers /\ Bounded(got, entry)
      /\ acked' = Larger(acked, got)
      /\ UNCHANGED <<entry, sent, strays, reader, base>>
  BY DEF BatchDone, IndInv, Types, Batch
<1>2. got \in [Keys -> Nat]
  BY <1>1, AnswersShape
<1>3. bt \in Batch /\ bt.got = <<>>
  BY AnswersShape DEF Unstarted, Batch
<1> HIDE DEF bt, got
<1>4. Bounded(bt.got, entry')
  BY <1>3, AnswersShape DEF Bounded
<1>5. acked \in [Keys -> Nat] /\ Bounded(acked, entry) /\ sent' \subseteq Mutation
      /\ entry' = [k \in Keys |-> entry'[k]]
  BY <1>1 DEF IndInv, Types
<1>6. /\ acked' \in [Keys -> Nat]
      /\ \A k \in Keys : acked'[k] = acked[k] \/ acked'[k] = got[k]
  BY <1>1, <1>2, <1>5, LargerShape
<1>7. Bounded(acked', entry')
  BY <1>1, <1>2, <1>5, <1>6 DEF Bounded
<1>8. \A k \in Keys : Grows(entry[k], entry'[k])
  BY <1>1, GrowsIsReflexive DEF IndInv
<1> QED
  BY <1>1, <1>3, <1>4, <1>5, <1>6, <1>7, <1>8, WriterMoves

-----------------------------------------------------------------------------

\* A transaction that has read nothing yet is sound.
LEMMA EmptySound ==
  ASSUME NEW rd, rd.got = <<>>, rd.at = 0, rd.phase # "second", NEW b, NEW en
  PROVE  Sound(rd, b, en)
  BY AnswersShape DEF Sound

\* read() sends the first round.
LEMMA BeginReadIndInv ==
  ASSUME IndInv, NEW r \in Readers, BeginRead(r)
  PROVE  IndInv'
<1> DEFINE n == reader[r].reads + 1
           rd == [Idle EXCEPT !.phase = "first", !.try = 1, !.reads = n]
           b == Larger(base[r], acked)
<1>1. /\ reader' = [reader EXCEPT ![r] = rd]
      /\ base' = [base EXCEPT ![r] = b]
      /\ UNCHANGED <<entry, sent, strays, writer, acked>>
  BY DEF BeginRead
<1>2. /\ base[r] \in [Keys -> Nat] /\ acked \in [Keys -> Nat]
      /\ Bounded(base[r], entry) /\ Bounded(acked, entry) /\ reader[r].reads \in Nat
      /\ strays' \subseteq Stray /\ entry' = [k \in Keys |-> entry'[k]]
  BY <1>1 DEF IndInv, Types, Transaction
<1>3. b \in [Keys -> Nat] /\ \A k \in Keys : b[k] = base[r][k] \/ b[k] = acked[k]
  BY <1>2, LargerShape
<1>4. rd \in Transaction /\ rd.got = <<>> /\ rd.at = 0 /\ rd.phase = "first"
  <2>1. n \in Nat
    BY <1>2
  <2> HIDE DEF n
  <2>2. Idle \in Transaction /\ Idle.got = <<>> /\ Idle.at = 0
    BY AnswersShape DEF Idle, Transaction
  <2> QED
    BY <2>1, <2>2 DEF Transaction
<1> HIDE DEF rd, b
<1>5. Bounded(b, entry') /\ Sound(rd, b, entry')
  BY <1>1, <1>2, <1>3, <1>4, EmptySound DEF Bounded
<1>6. \A k \in Keys : Grows(entry[k], entry'[k])
  BY <1>1, GrowsIsReflexive DEF IndInv
<1> QED
  BY <1>1, <1>2, <1>3, <1>4, <1>5, <1>6, ReaderMoves

\* The newest version in the first round is at or above all that is known; in
\* the second round what is found is at or above what the first round found.
LEMMA HandleReadIndInv ==
  ASSUME IndInv, NEW r \in Readers, NEW k \in Keys, HandleRead(r, k)
  PROVE  IndInv'
<1> DEFINE o == reader[r]
           e == entry[k]
           f == AfterRead(e, o.at)
           n == VersionRead(e.versions, o.at)
           g == Extended(o.got, k, n)
           rd == [o EXCEPT !.got = g]
           b == base[r]
<1>1. /\ o \in Transaction /\ o.at \in Nat /\ o.got \in Answers /\ o.first \in Answers
      /\ o.phase \in {"first", "second"} /\ k \notin DOMAIN o.got
      /\ b \in [Keys -> Nat] /\ Bounded(b, entry) /\ Sound(o, b, entry)
      /\ Kept(e)
  BY DEF HandleRead, IndInv, Types, Transaction
<1>2. /\ entry' = [entry EXCEPT ![k] = f]
      /\ reader' = [reader EXCEPT ![r] = rd]
      /\ UNCHANGED <<sent, strays, writer, acked, base>>
  BY DEF HandleRead
<1>3. /\ Grows(e, f) /\ n \in Nat /\ Seen(f, n)
      /\ o.at = 0 => n = e.highest_version_written
      /\ \A v \in Nat : o.at > 0 /\ v <= o.at /\ Seen(e, v) => n >= v
  BY <1>1, ReadGrows
<1>4. /\ g \in Answers /\ DOMAIN g = DOMAIN o.got \union {k} /\ g[k] = n
      /\ \A q \in DOMAIN o.got : q # k => g[q] = o.got[q]
  <2>1. o.got \in Answers /\ n \in Nat
    BY <1>1, <1>3
  <2> HIDE DEF n, o, e, f
  <2> QED
    BY <2>1, ExtendedShape
<1>5. /\ rd \in Transaction /\ rd.got = g /\ rd.phase = o.phase /\ rd.at = o.at
      /\ rd.first = o.first
  BY <1>1, <1>4 DEF Transaction
<1> HIDE DEF f, n, o, g, rd, b
<1>6. entry'[k] = f /\ (\A q \in Keys : q # k => entry'[q] = entry[q])
      /\ entry' = [q \in Keys |-> entry'[q]]
  BY <1>1, <1>2 DEF IndInv, Types
<1>7. \A q \in Keys : Grows(entry[q], entry'[q])
  BY <1>3, <1>6, GrowsIsReflexive DEF IndInv
<1>8. Sound(o, b, entry') /\ Bounded(b, entry')
  <2>1. \A q \in Keys : Kept(entry[q])
    BY DEF IndInv
  <2>2. b \in Answers
    <3>1. Keys \in SUBSET Keys
      OBVIOUS
    <3> QED
      BY <1>1, <3>1 DEF Answers
  <2> QED
    BY <1>1, <1>7, <2>1, <2>2, SoundStays
<1>9. n >= b[k] /\ (o.phase = "second" => n >= o.first[k])
  <2>1. CASE o.phase = "first"
    BY <1>1, <1>3, <2>1 DEF Sound, Bounded, Kept, WellFormed, Entry
  <2>2. CASE o.phase = "second"
    <3>1. /\ o.first[k] \in Nat /\ o.at > 0 /\ o.first[k] <= o.at
          /\ Seen(e, o.first[k]) /\ b[k] <= o.first[k] /\ b[k] \in Nat
      BY <1>1, <2>2, AnswersShape DEF Sound
    <3>2. n >= o.first[k]
      BY <1>3, <3>1
    <3> QED
      BY <1>3, <3>1, <3>2
  <2> QED
    BY <1>1, <2>1, <2>2
<1>10. Sound(rd, b, entry')
  <2>1. \A q \in DOMAIN rd.got : Seen(entry'[q], rd.got[q]) /\ rd.got[q] >= b[q]
    BY <1>3, <1>4, <1>5, <1>6, <1>8, <1>9 DEF Sound
  <2>2. rd.phase = "first" => rd.at = 0
    BY <1>1, <1>5 DEF Sound
  <2>3. rd.phase = "second" =>
           /\ DOMAIN rd.first = Keys
           /\ rd.at > 0
           /\ \A q \in Keys :
                /\ Seen(entry'[q], rd.first[q])
                /\ b[q] <= rd.first[q] /\ rd.first[q] <= rd.at
                /\ q \in DOMAIN rd.got => rd.got[q] >= rd.first[q]
    BY <1>4, <1>5, <1>8, <1>9 DEF Sound
  <2> QED
    BY <2>1, <2>2, <2>3 DEF Sound
<1>11. base' = [base EXCEPT ![r] = b] /\ strays' \subseteq Stray
  BY <1>2 DEF IndInv, Types, b
<1> QED
  BY <1>1, <1>2, <1>5, <1>6, <1>7, <1>8, <1>10, <1>11, ReaderMoves

\* read() returns what it has.
LEMMA ReturnIndInv ==
  ASSUME IndInv, NEW r \in Readers, DOMAIN reader[r].got = Keys, Return(r)
  PROVE  IndInv'
<1> DEFINE rd == [Idle EXCEPT !.reads = reader[r].reads]
           got == reader[r].got
           b == Larger(base[r], got)
<1>1. /\ reader' = [reader EXCEPT ![r] = rd]
      /\ base' = [base EXCEPT ![r] = b]
      /\ UNCHANGED <<entry, sent, strays, writer, acked>>
  BY DEF Return
<1>2. /\ base[r] \in [Keys -> Nat] /\ got \in Answers
      /\ Bounded(base[r], entry) /\ reader[r].reads \in Nat
      /\ strays' \subseteq Stray /\ entry' = [k \in Keys |-> entry'[k]]
      /\ Sound(reader[r], base[r], entry)
  BY <1>1 DEF IndInv, Types, Transaction
<1>3. got \in [Keys -> Nat] /\ \A k \in Keys : got[k] <= entry[k].highest_version_written
  BY <1>2, AnswersShape DEF Sound, Seen
<1>4. b \in [Keys -> Nat] /\ \A k \in Keys : b[k] = base[r][k] \/ b[k] = got[k]
  BY <1>2, <1>3, LargerShape
<1>5. rd \in Transaction /\ rd.got = <<>> /\ rd.at = 0 /\ rd.phase = "idle"
  BY <1>2, AnswersShape DEF Idle, Transaction
<1> HIDE DEF rd, b, got
<1>6. Bounded(b, entry') /\ Sound(rd, b, entry')
  BY <1>1, <1>2, <1>3, <1>4, <1>5, EmptySound DEF Bounded
<1>7. \A k \in Keys : Grows(entry[k], entry'[k])
  BY <1>1, GrowsIsReflexive DEF IndInv
<1> QED
  BY <1>1, <1>2, <1>4, <1>5, <1>6, <1>7, ReaderMoves

\* The first round was inconsistent: the second asks at one version.
LEMMA BeginSecondIndInv ==
  ASSUME IndInv, NEW r \in Readers, BeginSecond(r)
  PROVE  IndInv'
<1> DEFINE o == reader[r]
           got == o.got
           at == ReadTS(got)
           rd == [o EXCEPT !.phase = "second", !.at = at, !.first = got, !.got = <<>>]
           b == base[r]
<1>1. /\ o \in Transaction /\ DOMAIN got = Keys /\ got \in Answers
      /\ Inconsistent(got)
      /\ b \in [Keys -> Nat] /\ Bounded(b, entry) /\ Sound(o, b, entry)
      /\ UNCHANGED <<entry, sent, strays, writer, acked, base>>
  BY DEF BeginSecond, FirstRoundDone, IndInv, Types, Transaction
<1>2. reader' = [reader EXCEPT ![r] = rd]
  BY DEF BeginSecond
<1>3. got \in [Keys -> Nat]
  BY <1>1, AnswersShape
<1>4. at \in Nat /\ \A k \in Keys : got[k] <= at
  <2> HIDE DEF got
  <2> QED
    BY <1>3, ReadTSIsLargest
<1>5. at > 0
  <2>1. PICK k \in Keys, q \in Keys : got[k] # got[q]
    BY <1>1 DEF Inconsistent
  <2>2. got[k] \in Nat /\ got[q] \in Nat /\ got[k] <= at /\ got[q] <= at
    BY <1>3, <1>4
  <2> HIDE DEF at, got
  <2> QED
    BY <1>4, <2>1, <2>2
<1>6. /\ rd \in Transaction /\ rd.phase = "second" /\ rd.at = at
      /\ rd.first = got /\ rd.got = <<>>
  <2> HIDE DEF at
  <2> QED
    BY <1>1, <1>4, AnswersShape DEF Transaction
<1> HIDE DEF o, got, at, rd, b
<1>7. Sound(rd, b, entry)
  <2>1. \A k \in Keys : Seen(entry[k], got[k]) /\ got[k] >= b[k]
    BY <1>1 DEF Sound, got
  <2>2. \A k \in Keys : b[k] <= got[k]
    BY <1>1, <1>3, <2>1
  <2> QED
    BY <1>3, <1>4, <1>5, <1>6, <2>1, <2>2, AnswersShape DEF Sound
<1>8. /\ base' = [base EXCEPT ![r] = b] /\ strays' \subseteq Stray
      /\ entry' = [k \in Keys |-> entry'[k]]
  BY <1>1 DEF IndInv, Types, b
<1>9. \A k \in Keys : Grows(entry[k], entry'[k])
  BY <1>1, GrowsIsReflexive DEF IndInv
<1> QED
  BY <1>1, <1>2, <1>6, <1>7, <1>8, <1>9, ReaderMoves

\* A round given up on leaves its open reads on their way to the replicas.
LEMMA ReadFailsIndInv ==
  ASSUME IndInv, NEW r \in Readers, ReadFails(r)
  PROVE  IndInv'
<1> DEFINE o == reader[r]
           open == IF o.phase = "second" THEN Keys \ DOMAIN o.got ELSE {}
           rd == IF o.try = MaxTries[r] THEN [Idle EXCEPT !.reads = o.reads]
                 ELSE [Idle EXCEPT !.phase = "first", !.try = o.try + 1, !.reads = o.reads]
           b == base[r]
<1>1. /\ o \in Transaction /\ o.try \in Nat /\ o.reads \in Nat /\ o.at \in Nat
      /\ b \in [Keys -> Nat] /\ Bounded(b, entry)
  BY DEF IndInv, Types, Transaction
<1>2. /\ reader' = [reader EXCEPT ![r] = rd]
      /\ strays' = strays \union {[key |-> k, at |-> o.at] : k \in open}
      /\ UNCHANGED <<entry, sent, writer, acked, base>>
  BY DEF ReadFails
<1>3. strays' \subseteq Stray
  <2>1. open \subseteq Keys
    OBVIOUS
  <2> QED
    BY <1>1, <1>2, <2>1 DEF IndInv, Types, Stray
<1>4. rd \in Transaction /\ rd.got = <<>> /\ rd.at = 0 /\ rd.phase # "second"
  <2>1. rd = [phase |-> IF o.try = MaxTries[r] THEN "idle" ELSE "first",
              try |-> IF o.try = MaxTries[r] THEN 0 ELSE o.try + 1,
              at |-> 0, first |-> <<>>, got |-> <<>>, reads |-> o.reads]
    BY DEF Idle
  <2> HIDE DEF rd
  <2> QED
    BY <1>1, <2>1, AnswersShape DEF Transaction
<1> HIDE DEF o, open, rd, b
<1>5. Sound(rd, b, entry')
  BY <1>4, EmptySound
<1>6. base' = [base EXCEPT ![r] = b] /\ entry' = [k \in Keys |-> entry'[k]]
      /\ Bounded(b, entry')
  BY <1>1, <1>2 DEF IndInv, Types, b
<1>7. \A k \in Keys : Grows(entry[k], entry'[k])
  BY <1>2, GrowsIsReflexive DEF IndInv
<1> QED
  BY <1>1, <1>2, <1>3, <1>4, <1>5, <1>6, <1>7, ReaderMoves

\* A read given up on raises highest_version_read only.
LEMMA HandleStrayIndInv ==
  ASSUME IndInv, NEW m \in strays, HandleStray(m)
  PROVE  IndInv'
<1> DEFINE x == m.key
           f == AfterRead(entry[x], m.at)
<1>1. /\ x \in Keys /\ m.at \in Nat /\ Kept(entry[x])
      /\ strays' = strays \ {m}
      /\ entry' = [entry EXCEPT ![x] = f]
      /\ UNCHANGED <<sent, writer, reader, acked, base>>
  BY DEF HandleStray, IndInv, Types, Stray
<1>2. Grows(entry[x], f)
  BY <1>1, ReadGrows
<1> HIDE DEF f
<1>3. /\ entry' = [k \in Keys |-> entry'[k]]
      /\ entry'[x] = f /\ \A k \in Keys : k # x => entry'[k] = entry[k]
  <2>1. entry = [k \in Keys |-> entry[k]]
    BY Zenon DEF IndInv, Types
  <2>2. DOMAIN entry = Keys
    BY Zenon, <2>1
  <2> HIDE DEF x
  <2> QED
    BY Zenon, <1>1, <2>2
<1>4. \A k \in Keys : Kept(entry[k]) /\ Grows(entry[k], entry'[k]) /\ Kept(entry'[k])
  BY <1>2, <1>3, GrowsIsReflexive DEF IndInv, Grows
<1>5. /\ \A g \in Answers : Bounded(g, entry) => Bounded(g, entry')
      /\ \A o \in Transaction, c \in [Keys -> Nat] : Sound(o, c, entry) => Sound(o, c, entry')
  BY <1>4, SoundStays
<1>6. [Keys -> Nat] \subseteq Answers
  <2>1. Keys \in SUBSET Keys
    OBVIOUS
  <2> QED
    BY <2>1 DEF Answers
<1>7. Types'
  BY <1>1, <1>3 DEF IndInv, Types
<1>8. /\ \A w \in Writers : Bounded(writer'[w].got, entry')
      /\ Bounded(acked', entry')
  BY <1>1, <1>5, <1>6 DEF IndInv, Types, Batch
<1>9. \A r \in Readers : Bounded(base'[r], entry') /\ Sound(reader'[r], base'[r], entry')
  BY <1>1, <1>5, <1>6 DEF IndInv, Types
<1> QED
  BY <1>4, <1>7, <1>8, <1>9 DEF IndInv

\* IndInv holds in every reachable state.
THEOREM IndInvHolds == Spec => []IndInv
<1>1. Init => IndInv
  BY InitIndInv
<1>2. IndInv /\ [Next]_vars => IndInv'
  <2>1. ASSUME IndInv, UNCHANGED vars PROVE IndInv'
    <3>1. Types'
      BY <2>1 DEF vars, IndInv, Types
    <3> QED
      BY <2>1, <3>1 DEF vars, IndInv
  <2>2. ASSUME IndInv, NEW r \in Readers, ReaderStep(r) PROVE IndInv'
    BY <2>2, HandleReadIndInv, ReturnIndInv, BeginSecondIndInv
       DEF ReaderStep, ReturnFirst, ReturnSecond, FirstRoundDone
  <2> QED
    BY <2>1, <2>2, SendBatchIndInv, BatchDoneIndInv, HandleWriteIndInv, HandleStrayIndInv,
       BeginReadIndInv, ReadFailsIndInv DEF Next
<1> QED
  BY <1>1, <1>2, PTL DEF Spec

\* read() never goes back: no key is returned at a version older than what was
\* acknowledged before, what the reader had read, or what its first round found,
\* although the second round reads at a version that writes may have overtaken
\* and the trimming may have removed.
THEOREM ReadsStayRecent == Spec => []ReadsAreRecent
<1>1. IndInv => ReadsAreRecent
  <2>1. SUFFICES ASSUME IndInv, NEW r \in Readers, NEW k \in DOMAIN reader[r].got
                 PROVE  /\ reader[r].got[k] >= base[r][k]
                        /\ reader[r].phase = "second" => reader[r].got[k] >= reader[r].first[k]
    BY DEF ReadsAreRecent
  <2>2. Sound(reader[r], base[r], entry) /\ k \in Keys
    BY <2>1, AnswersShape DEF IndInv, Types, Transaction
  <2> QED
    BY <2>2 DEF Sound
<1> QED
  BY <1>1, IndInvHolds, PTL
=============================================================================
