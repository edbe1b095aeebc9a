------------------------- MODULE ColumnFamilyProofs -------------------------
(***************************************************************************)
(* Durability in ColumnFamily: proved for every set of writes and          *)
(* proposals, any segment size, window and number of memtables, and any    *)
(* number of crashes and failed flushes.                                   *)
(***************************************************************************)
EXTENDS ColumnFamily, VersionListProofs

-----------------------------------------------------------------------------
(* The inductive invariant, on the set M of memtables.                     *)

Contents == UNION {[D -> Writes] : D \in SUBSET Nat}

Memtable == [ gen : Nat \ {0}, entry : Entry, data : Contents, rps : SUBSET Writes,
              stage : {"active", "sealed", "written", "added", "cleared"} ]

LogEntry == [write : Writes, vtw : Nat, seg : Nat]

\* memtable_list: the generations rise, and the last memtable is active.
List(ms) ==
    /\ ms \in Seq(Memtable)
    /\ ms # <<>>
    /\ \A i \in DOMAIN ms : (ms[i].stage = "active") = (i = Len(ms))
    /\ \A i, j \in DOMAIN ms : i < j => ms[i].gen < ms[j].gen

Members(ms) == {ms[i] : i \in DOMAIN ms}

\* The chain of the key and the writes at its versions; only the active
\* memtable may be empty.
Sane(m) ==
    /\ WellFormed(m.entry)
    /\ m.entry.num_versions <= MaxVersions
    /\ DOMAIN m.data = Linked(m.entry) \ {0}
    /\ m.stage # "active" => ~IsEmpty(m)

Sstable(m) == [gen |-> m.gen, write |-> Written(m)]

\* What the stage of a memtable says of its sstable.
Flushed(M, ss, ld) ==
    /\ ld \subseteq ss
    /\ \A m \in M :
         /\ m.stage \in {"active", "sealed"} => \A s \in ss : s.gen # m.gen
         /\ m.stage \notin {"active", "sealed"} =>
              Sstable(m) \in ss /\ \A s \in ss : s.gen = m.gen => s = Sstable(m)
         /\ m.stage \in {"active", "sealed", "written"} => \A s \in ld : s.gen # m.gen
         /\ m.stage \notin {"active", "sealed", "written"} => Sstable(m) \in ld

WritesIn(l) == {l[i].write : i \in DOMAIN l}

\* The log has the entries whose segments are held: those of the writes in
\* flight (which have no home yet) and of the writes in memtables.  A write is
\* in one memtable only, so that a flush lets go of what it has written.
Held(M, lg, d, u, f, h) ==
    /\ d \subseteq WritesIn(lg)
    /\ f \subseteq d
    /\ \A w \in f : h[w] = 0
    /\ \A m \in M : \A w \in m.rps :
         /\ w \in d
         /\ h[w] = m.gen
         /\ BatchSync => w \notin u

\* What is in memory came from a write of this session or, until the node is
\* up, from the log of the session before.
Sourced(M, ph, o) ==
    \A m \in M : \A n \in DOMAIN m.data :
        IF ph = "up" THEN m.data[n] \in m.rps ELSE m.data[n] \in WritesIn(o)

\* Write w is in an sstable that no flush will remove.
OnDisk(M, ss, h, w) ==
    /\ \E s \in ss : s.gen = h[w]
    /\ \A m \in M : m.gen # h[w]

\* Where an acknowledged write is.
Durable(M, ss, h, ak, ph, o, lf) ==
    BatchSync => \A w \in ak :
        \/ OnDisk(M, ss, h, w)
        \/ IF ph = "up" THEN \E m \in M : w \in m.rps
           ELSE /\ w \in WritesIn(o)
                /\ \/ \E i \in lf : o[i].write = w
                   \/ \E m \in M : m.gen = h[w] /\ ~IsEmpty(m)

Phases ==
    /\ phase \in {"up", "replay", "drain"}
    /\ phase = "up" => DOMAIN old = {}
    /\ phase # "replay" => left = {}
    /\ phase # "up" => DOMAIN log = {} /\ unsynced = {} /\ dirty = {} /\ inflight = {}

Types ==
    /\ List(memtables)
    /\ sstables \subseteq [gen : 1 .. Active.gen, write : Writes]
    /\ log \in [DOMAIN log -> LogEntry] /\ DOMAIN log \subseteq Nat
    /\ \E b \in Nat : \A i \in DOMAIN log : i <= b
    /\ segment \in Nat
    /\ old \in [DOMAIN old -> LogEntry] /\ left \subseteq DOMAIN old
    /\ acked \subseteq Writes
    /\ home \in [Writes -> Nat]
    /\ \A w \in acked : home[w] # 0

IndInv ==
    /\ Types
    /\ Phases
    /\ \A m \in Members(memtables) : Sane(m)
    /\ Flushed(Members(memtables), sstables, loaded)
    /\ Held(Members(memtables), log, dirty, unsynced, inflight, home)
    /\ Sourced(Members(memtables), phase, old)
    /\ Durable(Members(memtables), sstables, home, acked, phase, old, left)

\* m and q differ in highest_version_read only.
Alike(m, q) ==
    /\ q \in Memtable
    /\ Sane(q)
    /\ q.gen = m.gen /\ q.data = m.data /\ q.rps = m.rps /\ q.stage = m.stage
    /\ Newest(q) = Newest(m)

-----------------------------------------------------------------------------
(* memtable_list.                                                          *)

\* The fields of a memtable.
LEMMA MemtableFields ==
  ASSUME NEW m \in Memtable
  PROVE  /\ m.gen \in Nat /\ m.gen # 0
         /\ m.entry \in Entry
         /\ m.data \in Contents
         /\ m.rps \subseteq Writes
         /\ m.stage \in {"active", "sealed", "written", "added", "cleared"}
  BY Zenon DEF Memtable

\* What a memtable holds are writes.
LEMMA MemtableData ==
  ASSUME NEW m \in Memtable, NEW k \in DOMAIN m.data
  PROVE  m.data[k] \in Writes
<1>1. m.data \in Contents
  BY Zenon, MemtableFields
<1>2. PICK D \in SUBSET Nat : m.data \in [D -> Writes]
  BY Zenon, <1>1 DEF Contents
<1> QED
  BY Zenon, <1>2

\* The stage of a memtable changes, nothing else does.
LEMMA StageShape ==
  ASSUME NEW m \in Memtable,
         NEW s \in {"active", "sealed", "written", "added", "cleared"}
  PROVE  LET q == [m EXCEPT !.stage = s]
         IN  /\ q \in Memtable
             /\ q.gen = m.gen /\ q.entry = m.entry /\ q.data = m.data /\ q.rps = m.rps
             /\ q.stage = s
  BY Zenon DEF Memtable

\* Generations name memtables, and the active memtable has the largest.
LEMMA ListShape ==
  ASSUME NEW ms, List(ms)
  PROVE  /\ Len(ms) \in DOMAIN ms
         /\ ms[Len(ms)] \in Members(ms)
         /\ Members(ms) \subseteq Memtable
         /\ \A m \in Members(ms) : /\ m.gen <= ms[Len(ms)].gen
                                   /\ (m.stage = "active") = (m = ms[Len(ms)])
         /\ \A m, q \in Members(ms) : m.gen = q.gen => m = q
<1>1. /\ ms \in Seq(Memtable) /\ DOMAIN ms = 1 .. Len(ms) /\ Len(ms) \in Nat /\ Len(ms) # 0
      /\ \A i \in DOMAIN ms : ms[i] \in Memtable
  BY DEF List
<1>2. \A i \in DOMAIN ms : ms[i].gen \in Nat
  BY Zenon, <1>1 DEF Memtable
<1>3. \A i, j \in DOMAIN ms : i < j => ms[i].gen < ms[j].gen
  BY Zenon DEF List
<1>4. \A i, j \in DOMAIN ms : ms[i].gen = ms[j].gen => i = j
  <2>1. SUFFICES ASSUME NEW i \in DOMAIN ms, NEW j \in DOMAIN ms, ms[i].gen = ms[j].gen
        PROVE  i = j
    BY Zenon
  <2>2. i \in Nat /\ j \in Nat /\ ms[i].gen \in Nat
    BY <1>1, <1>2
  <2> QED
    BY <1>3, <2>1, <2>2
<1>5. \A i \in DOMAIN ms : ms[i].gen <= ms[Len(ms)].gen
  <2>1. SUFFICES ASSUME NEW i \in DOMAIN ms PROVE ms[i].gen <= ms[Len(ms)].gen
    BY Zenon
  <2>2. CASE i = Len(ms)
    BY <1>2, <2>2
  <2>3. CASE i < Len(ms)
    BY <1>1, <1>2, <1>3, <2>3
  <2> QED
    BY <1>1, <2>2, <2>3
<1>6. \A i \in DOMAIN ms : (ms[i].stage = "active") = (ms[i] = ms[Len(ms)])
  BY <1>1, <1>4 DEF List
<1> QED
  BY <1>1, <1>4, <1>5, <1>6 DEF Members

\* One memtable changes; its generation, and whether it is active, does not.
LEMMA ReplaceShape ==
  ASSUME NEW ms, List(ms), NEW i \in DOMAIN ms, NEW q \in Memtable,
         q.gen = ms[i].gen, (q.stage = "active") = (ms[i].stage = "active")
  PROVE  LET t == [ms EXCEPT ![i] = q]
         IN  /\ List(t)
             /\ Members(t) = (Members(ms) \ {ms[i]}) \union {q}
             /\ Len(t) = Len(ms)
             /\ t[Len(t)] = IF i = Len(ms) THEN q ELSE ms[Len(ms)]
<1> DEFINE t == [ms EXCEPT ![i] = q]
<1>1. ms \in Seq(Memtable) /\ DOMAIN ms = 1 .. Len(ms) /\ Len(ms) \in Nat /\ Len(ms) # 0
  BY DEF List
<1>2. t \in Seq(Memtable) /\ DOMAIN t = DOMAIN ms /\ Len(t) = Len(ms)
  BY <1>1
<1>3. \A j \in DOMAIN ms : t[j] = IF j = i THEN q ELSE ms[j]
  BY Zenon, <1>1
<1> HIDE DEF t
<1>4. \A j \in DOMAIN t : t[j].gen = ms[j].gen
  BY Zenon, <1>2, <1>3
<1>5. List(t)
  <2>1. t # <<>>
    BY Zenon, <1>1, <1>2
  <2>2. \A j \in DOMAIN t : (t[j].stage = "active") = (j = Len(t))
    BY <1>2, <1>3 DEF List
  <2>3. \A j, k \in DOMAIN t : j < k => t[j].gen < t[k].gen
    BY Zenon, <1>2, <1>4 DEF List
  <2> QED
    BY Zenon, <1>2, <2>1, <2>2, <2>3 DEF List
<1>6. \A j \in DOMAIN ms : j # i => ms[j] # ms[i]
  <2>1. \A j, k \in DOMAIN ms : j < k => ms[j].gen < ms[k].gen
    BY Zenon DEF List
  <2>2. ms[i].gen \in Nat
    BY Zenon, <1>1 DEF Memtable
  <2> QED
    BY <1>1, <2>1, <2>2
<1>7. Members(t) = (Members(ms) \ {ms[i]}) \union {q}
  BY Zenon, <1>2, <1>3, <1>6 DEF Members
<1>8. t[Len(t)] = IF i = Len(ms) THEN q ELSE ms[Len(ms)]
  BY <1>1, <1>2, <1>3
<1> QED
  BY Zenon, <1>2, <1>5, <1>7, <1>8 DEF t

\* seal_active_memtable: the active memtable is sealed and a new one added.
LEMMA SealShape ==
  ASSUME NEW ms, List(ms), NEW f \in Memtable,
         f.stage = "active", f.gen = ms[Len(ms)].gen + 1
  PROVE  LET a == ms[Len(ms)]
             t == Append([ms EXCEPT ![Len(ms)].stage = "sealed"], f)
         IN  /\ List(t)
             /\ Members(t) = (Members(ms) \ {a}) \union {[a EXCEPT !.stage = "sealed"], f}
             /\ t[Len(t)] = f
<1> DEFINE n == Len(ms)
           a == ms[n]
           q == [a EXCEPT !.stage = "sealed"]
           u == [ms EXCEPT ![n].stage = "sealed"]
           t == Append(u, f)
<1>1. ms \in Seq(Memtable) /\ DOMAIN ms = 1 .. n /\ n \in Nat /\ n # 0 /\ n \in DOMAIN ms
  BY DEF List
<1>2. a \in Memtable /\ q \in Memtable /\ q.gen = a.gen /\ q.stage = "sealed" /\ a.gen \in Nat
  <2>1. a \in Memtable
    BY <1>1
  <2> HIDE DEF a
  <2> QED
    BY Zenon, <2>1, StageShape, MemtableFields
<1>3. u = [ms EXCEPT ![n] = q]
  BY Zenon, <1>1
<1>4. u \in Seq(Memtable) /\ Len(u) = n /\ DOMAIN u = 1 .. n
  BY <1>1, <1>2, <1>3
<1>5. /\ t \in Seq(Memtable) /\ Len(t) = n + 1 /\ DOMAIN t = 1 .. (n + 1)
      /\ t[n + 1] = f /\ \A j \in 1 .. n : t[j] = u[j]
  <2> HIDE DEF u, n
  <2> QED
    BY <1>1, <1>4
<1>6. \A j \in 1 .. n : u[j] = IF j = n THEN q ELSE ms[j]
  BY Zenon, <1>1, <1>3
<1>7. /\ \A j \in 1 .. n : (ms[j].stage = "active") = (j = n)
      /\ \A j, k \in 1 .. n : j < k => ms[j].gen < ms[k].gen
      /\ \A j \in 1 .. n : ms[j].gen \in Nat
  <2>1. \A j \in 1 .. n : ms[j] \in Memtable
    BY <1>1
  <2>2. \A j \in 1 .. n : ms[j].gen \in Nat
    BY Zenon, <2>1, MemtableFields
  <2> QED
    BY Zenon, <1>1, <2>2 DEF List
<1> HIDE DEF n, a, q, u, t
<1>8. \A j \in 1 .. n : t[j] = IF j = n THEN q ELSE ms[j]
  BY Zenon, <1>5, <1>6
<1>9. a = ms[n] /\ f.gen = a.gen + 1
  BY Zenon DEF a, n
<1>10. List(t)
  <2>1. t # <<>>
    BY <1>1, <1>5
  <2>2. \A j \in DOMAIN t : (t[j].stage = "active") = (j = Len(t))
    BY <1>1, <1>2, <1>5, <1>7, <1>8
  <2>3. \A j, k \in DOMAIN t : j < k => t[j].gen < t[k].gen
    <3>1. SUFFICES ASSUME NEW j \in 1 .. (n + 1), NEW k \in 1 .. (n + 1), j < k
          PROVE  t[j].gen < t[k].gen
      BY Zenon, <1>5
    <3>2. j \in 1 .. n /\ t[j].gen = ms[j].gen
      BY <1>1, <1>2, <1>8, <1>9, <3>1
    <3>3. CASE k = n + 1
      <4>1. ms[j].gen <= a.gen
        BY <1>1, <1>7, <1>9, <3>2
      <4> QED
        BY <1>2, <1>5, <1>7, <1>9, <3>2, <3>3, <4>1
    <3>4. CASE k # n + 1
      <4>1. k \in 1 .. n /\ t[k].gen = ms[k].gen
        BY <1>1, <1>2, <1>8, <1>9, <3>4
      <4> QED
        BY Zenon, <1>7, <3>1, <3>2, <4>1
    <3> QED
      BY Zenon, <3>3, <3>4
  <2> QED
    BY Zenon, <1>5, <2>1, <2>2, <2>3 DEF List
<1>11. \A j \in 1 .. n : j # n => ms[j] # a
  BY Zenon, <1>1, <1>7, <1>9
<1>12. Members(t) = (Members(ms) \ {a}) \union {q, f}
  <2>1. Members(t) = {t[j] : j \in 1 .. (n + 1)} /\ Members(ms) = {ms[j] : j \in 1 .. n}
    BY Zenon, <1>1, <1>5 DEF Members
  <2>2. \A x : x \in Members(t) => x \in (Members(ms) \ {a}) \union {q, f}
    BY <1>1, <1>5, <1>8, <1>11, <2>1
  <2>3. \A x : x \in (Members(ms) \ {a}) \union {q, f} => x \in Members(t)
    <3>1. q \in Members(t) /\ f \in Members(t)
      BY <1>1, <1>5, <1>8, <2>1
    <3>2. \A x \in Members(ms) \ {a} : x \in Members(t)
      BY <1>1, <1>5, <1>8, <1>9, <2>1
    <3> QED
      BY Zenon, <3>1, <3>2
  <2> QED
    BY Zenon, <2>2, <2>3
<1> QED
  BY Zenon, <1>5, <1>10, <1>12 DEF t, u, q, a, n

\* _memtables->erase: one memtable out, the rest in order.
LEMMA RemoveShape ==
  ASSUME NEW ms, List(ms), NEW i \in DOMAIN ms, ms[i].stage # "active"
  PROVE  LET t == Unlink(ms, i)
         IN  /\ List(t)
             /\ Members(t) = Members(ms) \ {ms[i]}
             /\ t[Len(t)] = ms[Len(ms)]
<1> DEFINE n == Len(ms)
           b == SubSeq(ms, 1, i - 1)
           c == SubSeq(ms, i + 1, n)
           t == Unlink(ms, i)
<1>1. ms \in Seq(Memtable) /\ DOMAIN ms = 1 .. n /\ n \in Nat /\ i \in 1 .. n
  BY DEF List
<1>2. \A j \in 1 .. n : ms[j] \in Memtable /\ ms[j].gen \in Nat
  <2>1. \A j \in 1 .. n : ms[j] \in Memtable
    BY <1>1
  <2> QED
    BY Zenon, <2>1, MemtableFields
<1>3. /\ \A j \in 1 .. n : (ms[j].stage = "active") = (j = n)
      /\ \A j, k \in 1 .. n : j < k => ms[j].gen < ms[k].gen
  BY Zenon, <1>1 DEF List
<1>4. i < n
  <2> HIDE DEF n
  <2>1. i # n
    BY Zenon, <1>1, <1>3
  <2> QED
    BY <1>1, <2>1
<1>5. b \in Seq(Memtable) /\ Len(b) = i - 1 /\ \A j \in 1 .. (i - 1) : b[j] = ms[j]
  BY <1>1
<1>6. c \in Seq(Memtable) /\ Len(c) = n - i /\ \A j \in 1 .. (n - i) : c[j] = ms[i + j]
  <2>1. \A j \in (i + 1) .. n : ms[j] \in Memtable
    BY <1>1
  <2> QED
    BY <1>1, <1>4, <2>1
<1>7. t = b \o c
  BY Zenon DEF Unlink
<1> HIDE DEF b, c, t, n
<1>8. t \in Seq(Memtable) /\ Len(t) = n - 1
  <2>1. b \in Seq(Memtable) /\ c \in Seq(Memtable)
    BY Zenon, <1>5, <1>6
  <2>2. t \in Seq(Memtable)
    BY <1>7, <2>1
  <2>3. Len(t) = Len(b) + Len(c)
    BY <1>7, <2>1
  <2>4. Len(b) = i - 1 /\ Len(c) = n - i
    BY Zenon, <1>5, <1>6
  <2> QED
    BY <1>1, <2>2, <2>3, <2>4
<1>9. DOMAIN t = 1 .. (n - 1)
  BY <1>8
<1>10. \A j \in 1 .. (n - 1) : t[j] = IF j < i THEN ms[j] ELSE ms[j + 1]
  <2>1. \A j \in 1 .. (n - 1) : t[j] = IF j <= i - 1 THEN b[j] ELSE c[j - (i - 1)]
    BY <1>1, <1>5, <1>6, <1>7
  <2>2. SUFFICES ASSUME NEW j \in 1 .. (n - 1)
        PROVE  t[j] = IF j < i THEN ms[j] ELSE ms[j + 1]
    BY Zenon
  <2>3. CASE j < i
    BY <1>1, <1>5, <2>1, <2>3
  <2>4. CASE ~(j < i)
    <3>1. j - (i - 1) \in 1 .. (n - i) /\ i + (j - (i - 1)) = j + 1
      BY <1>1, <2>4
    <3>2. c[j - (i - 1)] = ms[j + 1]
      BY Zenon, <1>6, <3>1
    <3> QED
      BY <1>1, <2>1, <2>4, <3>2
  <2> QED
    BY Zenon, <2>3, <2>4
<1>11. List(t)
  <2>1. t # <<>>
    BY <1>1, <1>4, <1>8
  <2>2. \A j \in DOMAIN t : (t[j].stage = "active") = (j = Len(t))
    <3>1. SUFFICES ASSUME NEW j \in 1 .. (n - 1)
          PROVE  (t[j].stage = "active") = (j = n - 1)
      BY Zenon, <1>8, <1>9
    <3>2. CASE j < i
      BY <1>1, <1>3, <1>4, <1>10, <3>2
    <3>3. CASE ~(j < i)
      <4>1. j + 1 \in 1 .. n /\ t[j] = ms[j + 1] /\ (j + 1 = n) = (j = n - 1)
        BY <1>1, <1>10, <3>3
      <4> QED
        BY Zenon, <1>3, <4>1
    <3> QED
      BY Zenon, <3>2, <3>3
  <2>3. \A j, k \in DOMAIN t : j < k => t[j].gen < t[k].gen
    BY <1>1, <1>3, <1>9, <1>10
  <2> QED
    BY Zenon, <1>8, <2>1, <2>2, <2>3 DEF List
<1>12. \A j \in 1 .. n : j # i => ms[j] # ms[i]
  BY <1>1, <1>2, <1>3
<1>13. Members(t) = Members(ms) \ {ms[i]}
  <2>1. Members(t) = {t[j] : j \in 1 .. (n - 1)} /\ Members(ms) = {ms[j] : j \in 1 .. n}
    BY Zenon, <1>1, <1>9 DEF Members
  <2>2. \A x \in Members(t) : x \in Members(ms) \ {ms[i]}
    BY <1>1, <1>10, <1>12, <2>1
  <2>3. ASSUME NEW x \in Members(ms), x # ms[i] PROVE x \in Members(t)
    <3>1. PICK j \in 1 .. n : x = ms[j] /\ j # i
      BY Zenon, <2>1, <2>3
    <3>2. CASE j < i
      BY <1>1, <1>4, <1>10, <2>1, <3>1, <3>2
    <3>3. CASE ~(j < i)
      <4>1. j - 1 \in 1 .. (n - 1) /\ ~(j - 1 < i) /\ (j - 1) + 1 = j
        BY <1>1, <3>1, <3>3
      <4>2. t[j - 1] = x
        BY Zenon, <1>10, <3>1, <4>1
      <4> QED
        BY Zenon, <2>1, <4>1, <4>2
    <3> QED
      BY Zenon, <3>2, <3>3
  <2> QED
    BY Zenon, <2>2, <2>3
<1>14. t[Len(t)] = ms[n]
  <2>1. n - 1 \in 1 .. (n - 1) /\ ~(n - 1 < i) /\ (n - 1) + 1 = n
    BY <1>1, <1>4
  <2> QED
    BY Zenon, <1>8, <1>10, <2>1
<1> QED
  BY Zenon, <1>11, <1>13, <1>14 DEF t, n

-----------------------------------------------------------------------------
(* One memtable.                                                           *)

\* A new memtable.
LEMMA FreshShape ==
  ASSUME NEW g \in Nat \ {0}
  PROVE  /\ Fresh(g) \in Memtable
         /\ Fresh(g).gen = g /\ Fresh(g).stage = "active" /\ Fresh(g).rps = {}
         /\ Sane(Fresh(g)) /\ IsEmpty(Fresh(g))
<1>1. NewEntry \in Entry /\ WellFormed(NewEntry) /\ NewEntry.num_versions = 0
  BY Zenon, NewEntryWellFormed DEF WellFormed, NewEntry
<1>2. Linked(NewEntry) = {0}
  BY DEF Linked, NewEntry
<1>3. <<>> \in [{} -> Writes] /\ DOMAIN <<>> = {}
  OBVIOUS
<1>4. <<>> \in Contents
  BY Zenon, <1>3 DEF Contents
<1>5. /\ Fresh(g).gen = g /\ Fresh(g).entry = NewEntry /\ Fresh(g).data = <<>>
      /\ Fresh(g).rps = {} /\ Fresh(g).stage = "active"
  BY Zenon DEF Fresh
<1>6. Fresh(g) \in Memtable
  BY Zenon, <1>1, <1>4 DEF Fresh, Memtable
<1>7. 0 <= MaxVersions
  BY MaxVersionsAssumption
<1> QED
  BY Zenon, <1>1, <1>2, <1>3, <1>5, <1>6, <1>7 DEF Sane, IsEmpty

\* A memtable that is not empty: the newest version is one with data.
LEMMA NewestHasData ==
  ASSUME NEW m \in Memtable, Sane(m), ~IsEmpty(m)
  PROVE  /\ Newest(m) = m.data[m.entry.versions[1]]
         /\ m.entry.versions[1] \in DOMAIN m.data
         /\ Newest(m) \in Writes
<1>1. /\ WellFormed(m.entry) /\ DOMAIN m.data = Linked(m.entry) \ {0}
  BY Zenon DEF Sane
<1>2. PICK n \in Linked(m.entry) : n # 0
  BY Zenon, <1>1 DEF IsEmpty
<1>3. n \in Nat /\ n <= m.entry.highest_version_written
  BY Zenon, <1>1, LinkedAreNumbers, FrontIsLargest
<1>4. /\ m.entry.versions[1] = m.entry.highest_version_written
      /\ m.entry.highest_version_written \in Nat
      /\ 1 \in DOMAIN m.entry.versions
  BY <1>1 DEF WellFormed, Entry
<1>5. m.entry.versions[1] \in DOMAIN m.data
  <2>1. m.entry.versions[1] # 0
    BY <1>2, <1>3, <1>4
  <2> QED
    BY Zenon, <1>1, <1>4, <2>1 DEF Linked
<1>6. Newest(m) = m.data[m.entry.versions[1]]
  BY Zenon DEF Newest, VersionRead
<1>7. \A k \in DOMAIN m.data : m.data[k] \in Writes
  BY Zenon, MemtableData
<1> QED
  BY Zenon, <1>5, <1>6, <1>7

\* The chain after apply(): what it links, it had or is the new version, which
\* is linked and has data.
LEMMA AppliedLinks ==
  ASSUME NEW e, WellFormed(e), e.num_versions <= MaxVersions, NEW vtw \in Nat,
         ~Dropped(e, vtw), ~ApplyFaults(e, vtw, {})
  PROVE  /\ WellFormed(Applied(e, vtw, {}))
         /\ Applied(e, vtw, {}).num_versions <= MaxVersions
         /\ \A y \in Linked(Applied(e, vtw, {})) : y \in Linked(e) \/ y = Promoted(e, vtw)
         /\ Promoted(e, vtw) \in Linked(Applied(e, vtw, {})) \ {0}
<1> DEFINE f == Applied(e, vtw, {})
           n == Promoted(e, vtw)
<1>1. /\ WellFormed(f) /\ f.num_versions <= MaxVersions
      /\ f.highest_version_written = n
      /\ \A y \in Linked(f) : y \in Linked(e) \/ y = n
  BY AppliedWellFormed, SMTT(30)
<1>2. n \in Nat /\ n > e.highest_version_written /\ e.highest_version_written \in Nat
  BY Zenon, PromotedIsAbove DEF WellFormed, Entry
<1> HIDE DEF f, n
<1>3. n \in Linked(f)
  BY <1>1 DEF WellFormed, Entry, Linked
<1> QED
  BY <1>1, <1>2, <1>3 DEF f, n

\* memtable::apply: the chain stays sane, and the memtable is not empty after
\* it, whether the write was dropped or not.
LEMMA PutShape ==
  ASSUME NEW m \in Memtable, Sane(m), NEW w \in Writes, NEW vtw \in Nat,
         ~ApplyFaults(m.entry, vtw, {})
  PROVE  LET p == Put(m, w, vtw)
         IN  /\ p \in Memtable
             /\ p.gen = m.gen /\ p.stage = m.stage /\ p.rps = m.rps
             /\ Sane(p) /\ ~IsEmpty(p)
             /\ \A n \in DOMAIN p.data :
                  p.data[n] = w \/ \E k \in DOMAIN m.data : p.data[n] = m.data[k]
<1>1. WellFormed(m.entry) /\ m.entry.num_versions <= MaxVersions
  BY Zenon DEF Sane
<1>2. CASE Dropped(m.entry, vtw)
  <2>1. Put(m, w, vtw) = m
    BY Zenon, <1>2 DEF Put
  <2>2. /\ m.entry.highest_version_written \in Nat /\ 1 \in DOMAIN m.entry.versions
        /\ m.entry.versions[1] = m.entry.highest_version_written
    BY <1>1 DEF WellFormed, Entry
  <2>3. m.entry.highest_version_written # 0
    BY <1>2, <2>2 DEF Dropped
  <2>4. m.entry.highest_version_written \in DOMAIN m.data
    BY Zenon, <2>2, <2>3 DEF Sane, Linked
  <2>5. ~IsEmpty(m)
    BY Zenon, <2>4 DEF IsEmpty
  <2> QED
    BY Zenon, <2>1, <2>5
<1>3. CASE ~Dropped(m.entry, vtw)
  <2> DEFINE e == Applied(m.entry, vtw, {})
             n == Promoted(m.entry, vtw)
             D == Linked(e) \ {0}
             d == [i \in D |-> IF i = n THEN w ELSE m.data[i]]
             p == Put(m, w, vtw)
  <2>1. /\ WellFormed(e) /\ e.num_versions <= MaxVersions /\ n \in D
        /\ \A y \in D : y \in Linked(m.entry) \/ y = n
    BY Zenon, <1>1, <1>3, AppliedLinks
  <2>2. p = [m EXCEPT !.entry = e, !.data = d]
    BY Zenon, <1>3 DEF Put
  <2>3. e \in Entry /\ D \subseteq Nat
    BY Zenon, <2>1, LinkedAreNumbers DEF WellFormed
  <2> HIDE DEF e, n
  <2>4. \A i \in D : i # n => i \in DOMAIN m.data
    BY Zenon, <2>1 DEF Sane
  <2>5. \A i \in DOMAIN m.data : m.data[i] \in Writes
    BY Zenon, MemtableData
  <2>6. d \in [D -> Writes]
    BY Zenon, <2>4, <2>5
  <2>7. d \in Contents
    BY Zenon, <2>3, <2>6 DEF Contents
  <2>8. DOMAIN d = D /\ \A i \in D : d[i] = IF i = n THEN w ELSE m.data[i]
    BY Zenon
  <2> HIDE DEF d, p
  <2>9. /\ p \in Memtable /\ p.gen = m.gen /\ p.stage = m.stage /\ p.rps = m.rps
        /\ p.entry = e /\ p.data = d
    BY Zenon, <2>2, <2>3, <2>7 DEF Memtable
  <2>10. ~IsEmpty(p)
    BY Zenon, <2>1, <2>8, <2>9 DEF IsEmpty
  <2>11. Sane(p)
    BY Zenon, <2>1, <2>8, <2>9, <2>10 DEF Sane
  <2>12. \A i \in DOMAIN p.data :
            p.data[i] = w \/ \E k \in DOMAIN m.data : p.data[i] = m.data[k]
    BY Zenon, <2>4, <2>8, <2>9
  <2> QED
    BY Zenon, <2>9, <2>10, <2>11, <2>12 DEF p
<1> QED
  BY Zenon, <1>2, <1>3

\* apply_in_memory: the same, and the memtable takes the position.
LEMMA TakenShape ==
  ASSUME NEW m \in Memtable, Sane(m), NEW w \in Writes, NEW vtw \in Nat,
         ~ApplyFaults(m.entry, vtw, {})
  PROVE  LET p == Taken(m, w, vtw)
         IN  /\ p \in Memtable
             /\ p.gen = m.gen /\ p.stage = m.stage /\ p.rps = m.rps \union {w}
             /\ Sane(p) /\ ~IsEmpty(p)
             /\ \A n \in DOMAIN p.data :
                  p.data[n] = w \/ \E k \in DOMAIN m.data : p.data[n] = m.data[k]
<1> DEFINE q == Put(m, w, vtw)
           p == Taken(m, w, vtw)
<1>1. /\ q \in Memtable
      /\ q.gen = m.gen /\ q.stage = m.stage /\ q.rps = m.rps
      /\ Sane(q) /\ ~IsEmpty(q)
      /\ \A n \in DOMAIN q.data :
           q.data[n] = w \/ \E k \in DOMAIN m.data : q.data[n] = m.data[k]
  BY Zenon, PutShape
<1>2. p = [q EXCEPT !.rps = q.rps \union {w}]
  BY Zenon DEF Taken
<1> HIDE DEF q, p
<1>3. /\ p \in Memtable /\ p.gen = q.gen /\ p.stage = q.stage /\ p.rps = q.rps \union {w}
      /\ p.entry = q.entry /\ p.data = q.data
  BY Zenon, <1>1, <1>2 DEF Memtable
<1>4. Sane(p) /\ ~IsEmpty(p)
  BY Zenon, <1>1, <1>3 DEF Sane, IsEmpty
<1> QED
  BY Zenon, <1>1, <1>3, <1>4 DEF p

\* read() of one memtable records the version.
LEMMA AfterReadShape ==
  ASSUME NEW m \in Memtable, Sane(m), NEW vtr \in Nat
  PROVE  Alike(m, [m EXCEPT !.entry = AfterRead(m.entry, vtr)])
<1> DEFINE e == m.entry
           f == AfterRead(e, vtr)
           q == [m EXCEPT !.entry = f]
<1>1. e \in Entry /\ WellFormed(e)
  BY Zenon DEF Sane, WellFormed
<1>2. /\ f \in Entry /\ f.versions = e.versions /\ f.num_versions = e.num_versions
      /\ f.last_version = e.last_version
      /\ f.highest_version_written = e.highest_version_written
  <2> HIDE DEF e
  <2> QED
    BY Zenon, <1>1 DEF AfterRead, Entry
<1> HIDE DEF f
<1>3. WellFormed(f) /\ Linked(f) = Linked(e)
  BY Zenon, <1>1, <1>2 DEF WellFormed, LastIsOldest, Linked
<1>4. /\ q \in Memtable /\ q.gen = m.gen /\ q.data = m.data /\ q.rps = m.rps
      /\ q.stage = m.stage /\ q.entry = f
  BY Zenon, <1>2 DEF Memtable
<1> HIDE DEF q
<1>5. Sane(q)
  BY Zenon, <1>2, <1>3, <1>4 DEF Sane, IsEmpty
<1>6. Newest(q) = Newest(m)
  BY Zenon, <1>2, <1>4 DEF Newest
<1> QED
  BY Zenon, <1>4, <1>5, <1>6 DEF Alike, f, q, e

\* make_reader: every memtable with the key records the version.
LEMMA ReadShape ==
  ASSUME NEW ms, List(ms), \A m \in Members(ms) : Sane(m), NEW vtr \in Nat, NEW t,
         t = [i \in DOMAIN ms |->
                IF IsEmpty(ms[i]) \/ ms[i].stage = "cleared" THEN ms[i]
                ELSE [ms[i] EXCEPT !.entry = AfterRead(@, vtr)]]
  PROVE  /\ List(t) /\ Len(t) = Len(ms) /\ DOMAIN t = DOMAIN ms
         /\ \A i \in DOMAIN ms : Alike(ms[i], t[i])
         /\ \A q \in Members(t) : \E m \in Members(ms) : Alike(m, q)
         /\ \A m \in Members(ms) : \E q \in Members(t) : Alike(m, q)
<1>1. /\ ms \in Seq(Memtable) /\ DOMAIN ms = 1 .. Len(ms) /\ Len(ms) \in Nat /\ ms # <<>>
      /\ \A i \in DOMAIN ms : ms[i] \in Memtable
  BY DEF List
<1>2. \A i \in DOMAIN ms : Sane(ms[i])
  BY Zenon DEF Members
<1>3. \A i \in DOMAIN ms : Alike(ms[i], ms[i])
  BY Zenon, <1>1, <1>2 DEF Alike
<1>4. \A i \in DOMAIN ms : Alike(ms[i], [ms[i] EXCEPT !.entry = AfterRead(ms[i].entry, vtr)])
  BY Zenon, <1>1, <1>2, AfterReadShape
<1>5. DOMAIN t = DOMAIN ms /\ \A i \in DOMAIN ms : Alike(ms[i], t[i])
  BY Zenon, <1>3, <1>4
<1>6. /\ \A i \in DOMAIN ms : /\ t[i] \in Memtable
                              /\ t[i].gen = ms[i].gen
                              /\ t[i].stage = ms[i].stage
  BY Zenon, <1>5 DEF Alike
<1>7. t \in Seq(Memtable) /\ Len(t) = Len(ms)
  <2>1. t \in [1 .. Len(ms) -> Memtable]
    BY Zenon, <1>1, <1>5, <1>6
  <2> QED
    BY <1>1, <2>1
<1>8. List(t)
  <2>1. t # <<>>
    BY <1>1, <1>7
  <2>2. \A i \in DOMAIN t : (t[i].stage = "active") = (i = Len(t))
    BY <1>5, <1>6, <1>7 DEF List
  <2>3. \A i, j \in DOMAIN t : i < j => t[i].gen < t[j].gen
    BY <1>5, <1>6 DEF List
  <2> QED
    BY Zenon, <1>7, <2>1, <2>2, <2>3 DEF List
<1>9. \A i \in DOMAIN ms : ms[i] \in Members(ms) /\ t[i] \in Members(t)
  BY Zenon, <1>5 DEF Members
<1>10. \A q \in Members(t) : \E i \in DOMAIN ms : q = t[i]
  BY Zenon, <1>5 DEF Members
<1>11. \A m \in Members(ms) : \E i \in DOMAIN ms : m = ms[i]
  BY Zenon DEF Members
<1>12. \A q \in Members(t) : \E m \in Members(ms) : Alike(m, q)
  <2>1. SUFFICES ASSUME NEW q \in Members(t) PROVE \E m \in Members(ms) : Alike(m, q)
    BY Zenon
  <2>2. PICK i \in DOMAIN ms : q = t[i]
    BY Zenon, <1>10
  <2>3. Alike(ms[i], q) /\ ms[i] \in Members(ms)
    BY Zenon, <1>5, <1>9, <2>2
  <2> QED
    BY Zenon, <2>3
<1>13. \A m \in Members(ms) : \E q \in Members(t) : Alike(m, q)
  <2>1. SUFFICES ASSUME NEW m \in Members(ms) PROVE \E q \in Members(t) : Alike(m, q)
    BY Zenon
  <2>2. PICK i \in DOMAIN ms : m = ms[i]
    BY Zenon, <1>11
  <2>3. Alike(m, t[i]) /\ t[i] \in Members(t)
    BY Zenon, <1>5, <1>9, <2>2
  <2> QED
    BY Zenon, <2>3
<1> QED
  BY Zenon, <1>5, <1>7, <1>8, <1>12, <1>13

-----------------------------------------------------------------------------
(* The log and the sets of memtables.                                      *)

\* discard_unused_segments keeps the entries of the writes that are held.
LEMMA DiscardKeeps ==
  ASSUME log \in [DOMAIN log -> LogEntry], NEW d, d \subseteq WritesIn(log)
  PROVE  /\ Discard(d) \in [DOMAIN Discard(d) -> LogEntry]
         /\ DOMAIN Discard(d) \subseteq DOMAIN log
         /\ d \subseteq WritesIn(Discard(d))
<1> DEFINE K == {i \in DOMAIN log :
                   \/ log[i].seg = segment
                   \/ \E j \in DOMAIN log : /\ log[j].seg = log[i].seg
                                            /\ log[j].write \in d \/ log[j].write \in unsynced}
<1>1. Discard(d) = [i \in K |-> log[i]]
  BY Zenon DEF Discard, Restrict
<1>2. K \subseteq DOMAIN log /\ \A i \in DOMAIN log : log[i].write \in d => i \in K
  BY Zenon
<1> HIDE DEF K
<1>3. DOMAIN Discard(d) = K /\ \A i \in K : Discard(d)[i] = log[i]
  BY Zenon, <1>1
<1>4. Discard(d) \in [K -> LogEntry]
  BY Zenon, <1>1, <1>2
<1>5. \A w \in d : \E i \in K : log[i].write = w
  BY Zenon, <1>2 DEF WritesIn
<1> QED
  BY Zenon, <1>2, <1>3, <1>4, <1>5 DEF WritesIn

\* A memtable is replaced by one with the same generation and positions.
LEMMA SwapHeld ==
  ASSUME NEW M, NEW m \in M, NEW q, q.gen = m.gen, q.rps = m.rps,
         NEW lg, NEW d, NEW u, NEW f, NEW h, Held(M, lg, d, u, f, h)
  PROVE  Held((M \ {m}) \union {q}, lg, d, u, f, h)
  BY Zenon DEF Held

\* A memtable is replaced by one with the same positions and data.
LEMMA SwapSourced ==
  ASSUME NEW M, NEW m \in M, NEW q, q.rps = m.rps, q.data = m.data,
         NEW ph, NEW o, Sourced(M, ph, o)
  PROVE  Sourced((M \ {m}) \union {q}, ph, o)
  BY Zenon DEF Sourced

\* A memtable is replaced by one with the same generation, positions and data,
\* and no sstable of another generation goes.
LEMMA SwapDurable ==
  ASSUME NEW M, NEW m \in M, NEW q, q.gen = m.gen, q.rps = m.rps, q.data = m.data,
         NEW ss, NEW tt, \A s \in ss : s.gen # m.gen => s \in tt,
         NEW h, NEW ak, NEW ph, NEW o, NEW lf, Durable(M, ss, h, ak, ph, o, lf)
  PROVE  Durable((M \ {m}) \union {q}, tt, h, ak, ph, o, lf)
<1> DEFINE N == (M \ {m}) \union {q}
<1>1. \A w : OnDisk(M, ss, h, w) => OnDisk(N, tt, h, w)
  BY Zenon DEF OnDisk
<1>2. \A w : (\E x \in M : w \in x.rps) => \E x \in N : w \in x.rps
  BY Zenon
<1>3. \A w : (\E x \in M : x.gen = h[w] /\ ~IsEmpty(x)) =>
             \E x \in N : x.gen = h[w] /\ ~IsEmpty(x)
  BY Zenon DEF IsEmpty
<1> HIDE DEF N
<1>4. Durable(N, tt, h, ak, ph, o, lf)
  BY Zenon, <1>1, <1>2, <1>3 DEF Durable
<1> QED
  BY Zenon, <1>4 DEF N

-----------------------------------------------------------------------------
(* The inductive invariant: initially, and step by step.                   *)

\* The node starts with one empty memtable and an empty log.
LEMMA InitIndInv == Init => IndInv
<1> SUFFICES ASSUME Init PROVE IndInv
  BY Zenon
<1> USE DEF Init
<1>1. /\ Fresh(1) \in Memtable /\ Fresh(1).gen = 1 /\ Fresh(1).stage = "active"
      /\ Fresh(1).rps = {} /\ Sane(Fresh(1)) /\ DOMAIN Fresh(1).data = {}
  BY FreshShape DEF IsEmpty
<1>2. memtables = <<Fresh(1)>> /\ Members(memtables) = {Fresh(1)} /\ Active = Fresh(1)
  BY DEF Members, Active
<1>3. List(memtables)
  BY <1>1, <1>2 DEF List
<1>4. Types
  <2>1. log \in [DOMAIN log -> LogEntry] /\ old \in [DOMAIN old -> LogEntry]
    OBVIOUS
  <2>2. DOMAIN log = {} /\ DOMAIN old = {}
    OBVIOUS
  <2>3. \E b \in Nat : \A i \in DOMAIN log : i <= b
    BY Zenon, <2>2
  <2> QED
    BY Zenon, <1>3, <2>1, <2>2, <2>3 DEF Types
<1>5. Phases
  BY DEF Phases
<1>6. Flushed(Members(memtables), sstables, loaded)
  BY Zenon, <1>1, <1>2 DEF Flushed
<1>7. Held(Members(memtables), log, dirty, unsynced, inflight, home)
  BY Zenon, <1>1, <1>2 DEF Held
<1>8. Sourced(Members(memtables), phase, old)
  BY Zenon, <1>1, <1>2 DEF Sourced
<1>9. Durable(Members(memtables), sstables, home, acked, phase, old, left)
  BY Zenon DEF Durable
<1> QED
  BY Zenon, <1>1, <1>2, <1>4, <1>5, <1>6, <1>7, <1>8, <1>9 DEF IndInv

\* A position the log has not used.
LEMMA NextPositionIsNew ==
  ASSUME Types
  PROVE  /\ NextPosition \in Nat /\ NextPosition \notin DOMAIN log
         /\ \A i \in DOMAIN log : i <= NextPosition
<1> DEFINE S == DOMAIN log \union {0}
<1>1. PICK b \in Nat : \A i \in DOMAIN log : i <= b
  BY Zenon DEF Types
<1>2. S \subseteq Nat /\ S # {} /\ \A y \in S : y <= b
  BY <1>1 DEF Types
<1> HIDE DEF S
<1>3. PICK x \in S : \A y \in S : y <= x
  BY Zenon, <1>2, LargestExists
<1>4. \A y \in S : x >= y
  BY Zenon, <1>2, <1>3
<1>5. Max(S) \in S /\ \A y \in S : Max(S) >= y
  BY Zenon, <1>4 DEF Max
<1>6. NextPosition = Max(S) + 1
  BY Zenon DEF NextPosition, S
<1>7. DOMAIN log \subseteq S
  BY Zenon DEF S
<1>8. Max(S) \in Nat /\ \A i \in DOMAIN log : i \in Nat /\ Max(S) >= i
  BY Zenon, <1>2, <1>5, <1>7
<1> DEFINE t == Max(S)
<1> HIDE DEF t
<1>9. t \in Nat /\ NextPosition = t + 1 /\ \A i \in DOMAIN log : i \in Nat /\ t >= i
  BY Zenon, <1>6, <1>8 DEF t
<1> QED
  BY <1>9

\* A write that waits for memory has no home, so no memtable has its position.
LEMMA HomelessIsNowhere ==
  ASSUME IndInv, NEW w, home[w] = 0
  PROVE  \A m \in Members(memtables) : w \notin m.rps
<1>1. \A m \in Members(memtables) : m.gen # 0
  BY Zenon, ListShape, MemtableFields DEF IndInv, Types
<1>2. \A m \in Members(memtables) : \A x \in m.rps : home[x] = m.gen
  BY Zenon DEF IndInv, Held
<1> QED
  BY Zenon, <1>1, <1>2

\* commitlog::add_entry.
LEMMA AddEntryIndInv ==
  ASSUME IndInv, NEW w \in Writes, NEW vtw \in Proposals[w], AddEntry(w, vtw)
  PROVE  IndInv'
<1> DEFINE s == IF Cardinality({i \in DOMAIN log : log[i].seg = segment}) = SegmentSize
                THEN segment + 1 ELSE segment
           p == NextPosition
           M == Members(memtables)
<1>1. /\ phase = "up" /\ home[w] = 0
      /\ log' = [i \in DOMAIN log \union {p} |->
                   IF i = p THEN [write |-> w, vtw |-> vtw, seg |-> s] ELSE log[i]]
      /\ segment' = s
      /\ unsynced' = unsynced \union {w}
      /\ dirty' = dirty \union {w}
      /\ inflight' = inflight \union {w}
      /\ UNCHANGED <<phase, memtables, sstables, loaded, old, left, acked, home>>
  BY Zenon DEF AddEntry, replayVars, historyVars
<1>2. p \in Nat /\ p \notin DOMAIN log /\ \A i \in DOMAIN log : i <= p
  BY Zenon, NextPositionIsNew DEF IndInv
<1>3. vtw \in Nat /\ s \in Nat
  BY ColumnFamilyAssumption DEF IndInv, Types
<1> HIDE DEF p, s
<1>4. /\ DOMAIN log' = DOMAIN log \union {p}
      /\ log' \in [DOMAIN log' -> LogEntry] /\ log'[p].write = w
      /\ \A i \in DOMAIN log : log'[i] = log[i]
  <2>1. [write |-> w, vtw |-> vtw, seg |-> s] \in LogEntry
    BY Zenon, <1>3 DEF LogEntry
  <2>2. log \in [DOMAIN log -> LogEntry]
    BY Zenon DEF IndInv, Types
  <2> QED
    BY Zenon, <1>1, <1>2, <2>1, <2>2
<1>5. Types'
  <2>1. DOMAIN log' \subseteq Nat
    BY Zenon, <1>2, <1>4 DEF IndInv, Types
  <2>2. \A i \in DOMAIN log' : i <= p
    BY <1>2, <1>4
  <2>3. segment' \in Nat
    BY Zenon, <1>1, <1>3
  <2> QED
    BY Zenon, <1>1, <1>2, <1>4, <2>1, <2>2, <2>3 DEF IndInv, Types, Active
<1>6. Phases'
  BY Zenon, <1>1 DEF IndInv, Phases
<1>7. Held(M, log', dirty', unsynced', inflight', home)
  <2>1. WritesIn(log) \union {w} \subseteq WritesIn(log')
    BY Zenon, <1>4 DEF WritesIn
  <2>2. \A m \in M : w \notin m.rps
    BY Zenon, <1>1, HomelessIsNowhere
  <2>3. Held(M, log, dirty, unsynced, inflight, home)
    BY Zenon DEF IndInv
  <2> QED
    BY Zenon, <1>1, <2>1, <2>2, <2>3 DEF Held
<1> QED
  BY Zenon, <1>1, <1>5, <1>6, <1>7 DEF IndInv

\* A segment of the log is written to disk.
LEMMA SyncIndInv ==
  ASSUME IndInv, NEW s, Sync(s)
  PROVE  IndInv'
<1>1. /\ unsynced' \subseteq unsynced
      /\ UNCHANGED <<phase, memtables, sstables, loaded, log, segment, dirty, inflight,
                     old, left, acked, home>>
  BY Zenon DEF Sync, replayVars, historyVars
<1>2. Held(Members(memtables), log, dirty, unsynced', inflight, home)
  BY Zenon, <1>1 DEF IndInv, Held
<1>3. Phases'
  BY Zenon, <1>1 DEF IndInv, Phases
<1> QED
  BY Zenon, <1>1, <1>2, <1>3 DEF IndInv, Types, Active

\* What the log has of a write that is held.
LEMMA VtwOfIsLogged ==
  ASSUME IndInv, NEW w \in dirty
  PROVE  VtwOf(log, w) \in Nat /\ w \in Writes
<1>1. \E i \in DOMAIN log : log[i].write = w
  BY Zenon DEF IndInv, Held, WritesIn
<1>2. \A i \in DOMAIN log : log[i].vtw \in Nat /\ log[i].write \in Writes
  BY Zenon DEF IndInv, Types, LogEntry
<1> DEFINE i == CHOOSE i \in DOMAIN log : log[i].write = w
<1>3. i \in DOMAIN log /\ log[i].write = w
  BY Zenon, <1>1
<1> QED
  BY Zenon, <1>2, <1>3 DEF VtwOf

\* apply_in_memory: the write moves from the request to the active memtable.
LEMMA ApplyInMemoryIndInv ==
  ASSUME IndInv, NEW w \in inflight, ApplyInMemory(w)
  PROVE  IndInv'
<1> DEFINE M == Members(memtables)
           n == Len(memtables)
           a == memtables[n]
           v == VtwOf(log, w)
           q == Taken(a, w, v)
           N == (M \ {a}) \union {q}
<1>1. /\ BatchSync => w \notin unsynced
      /\ ~ApplyFaults(a.entry, v, {})
      /\ memtables' = [memtables EXCEPT ![n] = q]
      /\ inflight' = inflight \ {w}
      /\ acked' = acked \union {w}
      /\ home' = [home EXCEPT ![w] = a.gen]
      /\ UNCHANGED <<phase, sstables, loaded, log, segment, unsynced, dirty, old, left>>
  BY Zenon DEF ApplyInMemory, MayApply, Active, logVars, replayVars
<1>2. w \in dirty /\ home[w] = 0 /\ phase = "up"
  BY Zenon DEF IndInv, Held, Phases
<1>3. v \in Nat /\ w \in Writes
  BY Zenon, <1>2, VtwOfIsLogged
<1>4. /\ List(memtables) /\ n \in DOMAIN memtables /\ a \in M /\ a \in Memtable
      /\ M \subseteq Memtable /\ Sane(a)
  BY Zenon, ListShape DEF IndInv, Types
<1> HIDE DEF v, a, n, M
<1>5. /\ q \in Memtable
      /\ q.gen = a.gen /\ q.stage = a.stage /\ q.rps = a.rps \union {w}
      /\ Sane(q) /\ ~IsEmpty(q)
      /\ \A k \in DOMAIN q.data :
           q.data[k] = w \/ \E j \in DOMAIN a.data : q.data[k] = a.data[j]
  BY <1>1, <1>3, <1>4, TakenShape
<1> HIDE DEF q
<1>6. List(memtables') /\ Members(memtables') = N /\ Active' = q
  <2>1. a = memtables[n] /\ n = Len(memtables) /\ M = Members(memtables)
    BY Zenon DEF a, n, M
  <2> QED
    BY Zenon, <1>1, <1>4, <1>5, <2>1, ReplaceShape DEF Active
<1>7. a.stage = "active" /\ a.gen \in Nat /\ a.gen # 0
  <2>1. a = memtables[n] /\ n = Len(memtables) /\ M = Members(memtables)
    BY Zenon DEF a, n, M
  <2> QED
    BY Zenon, <1>4, <2>1, ListShape, MemtableFields
<1>8. home \in [Writes -> Nat] /\ acked \subseteq Writes /\ Active = a
  BY Zenon DEF IndInv, Types, Active, a, n
<1>9. home'[w] = a.gen /\ \A x : x # w => home'[x] = home[x]
  BY <1>1, <1>3, <1>8
<1>10. Types'
  <2>1. sstables \subseteq [gen : 1 .. a.gen, write : Writes]
    BY Zenon, <1>8 DEF IndInv, Types
  <2>2. home' \in [Writes -> Nat] /\ acked' \subseteq Writes
    BY Zenon, <1>1, <1>3, <1>7, <1>8
  <2>3. \A x \in acked' : home'[x] # 0
    BY Zenon, <1>1, <1>7, <1>9 DEF IndInv, Types
  <2> QED
    BY Zenon, <1>1, <1>5, <1>6, <2>1, <2>2, <2>3 DEF IndInv, Types
<1>11. Phases'
  BY Zenon, <1>1, <1>2 DEF IndInv, Phases
<1>12. \A m \in N : Sane(m)
  BY Zenon, <1>5 DEF IndInv, M
<1>13. Flushed(N, sstables, loaded)
  BY SMTT(30), <1>4, <1>5, <1>7 DEF IndInv, M, Flushed
<1>14. Held(N, log, dirty, unsynced, inflight', home')
  <2>1. Held(M, log, dirty, unsynced, inflight, home) /\ \A m \in M : w \notin m.rps
    BY Zenon, <1>2, HomelessIsNowhere DEF IndInv, M
  <2>2. \A m \in M : \A x \in m.rps : home'[x] = m.gen
    BY Zenon, <1>9, <2>1 DEF Held
  <2> QED
    BY <1>1, <1>2, <1>4, <1>5, <1>9, <2>1, <2>2 DEF Held
<1>15. Sourced(N, phase, old)
  <2>1. \A m \in M : \A k \in DOMAIN m.data : m.data[k] \in m.rps
    BY Zenon, <1>2 DEF IndInv, Sourced, M
  <2> QED
    BY <1>2, <1>4, <1>5, <2>1 DEF Sourced
<1>16. Durable(N, sstables, home', acked', phase, old, left)
  <2>1. SUFFICES ASSUME BatchSync, NEW x \in acked'
        PROVE  OnDisk(N, sstables, home', x) \/ \E m \in N : x \in m.rps
    BY Zenon, <1>2 DEF Durable
  <2>2. CASE x = w
    BY Zenon, <1>5, <2>2
  <2>3. CASE x # w
    <3>1. OnDisk(M, sstables, home, x) \/ \E m \in M : x \in m.rps
      BY Zenon, <1>1, <1>2, <2>1, <2>3 DEF IndInv, Durable, M
    <3>2. CASE OnDisk(M, sstables, home, x)
      BY Zenon, <1>4, <1>5, <1>9, <2>3, <3>2 DEF OnDisk
    <3>3. CASE \E m \in M : x \in m.rps
      BY Zenon, <1>5, <3>3
    <3> QED
      BY Zenon, <3>1, <3>2, <3>3
  <2> QED
    BY Zenon, <2>2, <2>3
<1> HIDE DEF N
<1> QED
  BY Zenon, <1>1, <1>6, <1>10, <1>11, <1>12, <1>13, <1>14, <1>15, <1>16 DEF IndInv

\* The request times out: its write is held no more.
LEMMA ApplyTimesOutIndInv ==
  ASSUME IndInv, NEW w \in inflight, ApplyTimesOut(w)
  PROVE  IndInv'
<1> DEFINE M == Members(memtables)
           d == dirty \ {w}
<1>1. /\ inflight' = inflight \ {w}
      /\ dirty' = d
      /\ log' = Discard(d)
      /\ home' = [home EXCEPT ![w] = 1]
      /\ UNCHANGED <<phase, memtables, sstables, loaded, segment, unsynced, old, left, acked>>
  BY Zenon DEF ApplyTimesOut, GaveUp, replayVars
<1>2. w \in dirty /\ home[w] = 0 /\ phase = "up"
  BY Zenon DEF IndInv, Held, Phases
<1>3. w \in Writes
  BY Zenon, <1>2, VtwOfIsLogged
<1>4. Held(M, log, dirty, unsynced, inflight, home)
  BY Zenon DEF IndInv
<1>5. /\ log' \in [DOMAIN log' -> LogEntry]
      /\ DOMAIN log' \subseteq DOMAIN log
      /\ d \subseteq WritesIn(log')
  <2>1. log \in [DOMAIN log -> LogEntry]
    BY Zenon DEF IndInv, Types
  <2>2. d \subseteq WritesIn(log)
    BY Zenon, <1>4 DEF Held
  <2> HIDE DEF d
  <2> QED
    BY Zenon, <1>1, <2>1, <2>2, DiscardKeeps
<1>6. home \in [Writes -> Nat]
  BY Zenon DEF IndInv, Types
<1>7. \A x : x # w => home'[x] = home[x]
  BY <1>1, <1>6
<1>8. Types'
  <2>1. home' \in [Writes -> Nat]
    BY Zenon, <1>1, <1>6
  <2>2. \A x \in acked' : home'[x] # 0
    BY <1>1, <1>3, <1>6, <1>7 DEF IndInv, Types
  <2> QED
    BY Zenon, <1>1, <1>5, <2>1, <2>2 DEF IndInv, Types, Active
<1>9. Phases'
  BY Zenon, <1>1, <1>2 DEF IndInv, Phases
<1>10. Held(M, log', dirty', unsynced, inflight', home')
  <2>1. \A m \in M : w \notin m.rps
    BY Zenon, <1>2, HomelessIsNowhere
  <2> QED
    BY Zenon, <1>1, <1>4, <1>5, <1>7, <2>1 DEF Held
<1>11. Durable(M, sstables, home', acked, phase, old, left)
  <2>1. SUFFICES ASSUME BatchSync, NEW x \in acked
        PROVE  OnDisk(M, sstables, home', x) \/ \E m \in M : x \in m.rps
    BY Zenon, <1>2 DEF Durable
  <2>2. x # w
    BY Zenon, <1>2, <2>1 DEF IndInv, Types
  <2>3. OnDisk(M, sstables, home, x) \/ \E m \in M : x \in m.rps
    BY Zenon, <1>2, <2>1 DEF IndInv, Durable
  <2> QED
    BY Zenon, <1>7, <2>2, <2>3 DEF OnDisk
<1> QED
  BY Zenon, <1>1, <1>8, <1>9, <1>10, <1>11 DEF IndInv

\* A read records its version in the memtables.
LEMMA ReadIndInv ==
  ASSUME IndInv, NEW vtr \in ReadVersions, Read(vtr)
  PROVE  IndInv'
<1> DEFINE M == Members(memtables)
           N == Members(memtables')
<1>1. /\ memtables' = [i \in DOMAIN memtables |->
           IF IsEmpty(memtables[i]) \/ memtables[i].stage = "cleared" THEN memtables[i]
           ELSE [memtables[i] EXCEPT !.entry = AfterRead(@, vtr)]]
      /\ UNCHANGED <<phase, sstables, loaded, log, segment, unsynced, dirty, inflight,
                     old, left, acked, home>>
  BY Zenon DEF Read, logVars, replayVars, historyVars
<1>2. List(memtables) /\ \A m \in M : Sane(m)
  BY Zenon DEF IndInv, Types
<1>3. /\ List(memtables') /\ Len(memtables') = Len(memtables)
      /\ \A i \in DOMAIN memtables : Alike(memtables[i], memtables'[i])
      /\ \A q \in N : \E m \in M : Alike(m, q)
      /\ \A m \in M : \E q \in N : Alike(m, q)
  <2>1. vtr \in Nat
    BY Zenon, ColumnFamilyAssumption
  <2> QED
    BY <1>1, <1>2, <2>1, ReadShape
<1>4. Types'
  <2>1. Active'.gen = Active.gen
    BY <1>2, <1>3, ListShape DEF Active, Alike
  <2> QED
    BY Zenon, <1>1, <1>3, <2>1 DEF IndInv, Types
<1>5. Phases'
  BY Zenon, <1>1 DEF IndInv, Phases
<1> HIDE DEF M, N
<1>6. \A q \in N : Sane(q)
  BY Zenon, <1>3 DEF Alike
<1>7. Flushed(N, sstables, loaded)
  <2>1. \A q \in N : \E m \in M : Sstable(q) = Sstable(m) /\ q.gen = m.gen /\ q.stage = m.stage
    BY Zenon, <1>3 DEF Alike, Sstable, Written
  <2>2. Flushed(M, sstables, loaded)
    BY Zenon DEF IndInv, M
  <2>3. ASSUME NEW q \in N
        PROVE  /\ q.stage \in {"active", "sealed"} => \A s \in sstables : s.gen # q.gen
               /\ q.stage \notin {"active", "sealed"} =>
                    Sstable(q) \in sstables /\ \A s \in sstables : s.gen = q.gen => s = Sstable(q)
               /\ q.stage \in {"active", "sealed", "written"} => \A s \in loaded : s.gen # q.gen
               /\ q.stage \notin {"active", "sealed", "written"} => Sstable(q) \in loaded
    <3>1. PICK m \in M : Sstable(q) = Sstable(m) /\ q.gen = m.gen /\ q.stage = m.stage
      BY Zenon, <2>1
    <3> QED
      BY <2>2, <3>1 DEF Flushed
  <2> QED
    BY Zenon, <2>2, <2>3 DEF Flushed
<1>8. Held(N, log, dirty, unsynced, inflight, home)
  <2>1. \A q \in N : \E m \in M : q.gen = m.gen /\ q.rps = m.rps
    BY Zenon, <1>3 DEF Alike
  <2>2. Held(M, log, dirty, unsynced, inflight, home)
    BY Zenon DEF IndInv, M
  <2> QED
    BY Zenon, <2>1, <2>2 DEF Held
<1>9. Sourced(N, phase, old)
  <2>1. \A q \in N : \E m \in M : q.data = m.data /\ q.rps = m.rps
    BY Zenon, <1>3 DEF Alike
  <2>2. Sourced(M, phase, old)
    BY Zenon DEF IndInv, M
  <2> QED
    BY Zenon, <2>1, <2>2 DEF Sourced
<1>10. Durable(N, sstables, home, acked, phase, old, left)
  <2>1. \A q \in N : \E m \in M : q.gen = m.gen
    BY Zenon, <1>3 DEF Alike
  <2>2. \A m \in M : \E q \in N : q.gen = m.gen /\ q.rps = m.rps /\ q.data = m.data
    BY Zenon, <1>3 DEF Alike
  <2>3. Durable(M, sstables, home, acked, phase, old, left)
    BY Zenon DEF IndInv, M
  <2>4. \A w : OnDisk(M, sstables, home, w) => OnDisk(N, sstables, home, w)
    BY Zenon, <2>1 DEF OnDisk
  <2>5. \A w : (\E m \in M : w \in m.rps) => \E m \in N : w \in m.rps
    BY Zenon, <2>2
  <2>6. \A w : (\E m \in M : m.gen = home[w] /\ ~IsEmpty(m)) =>
               \E m \in N : m.gen = home[w] /\ ~IsEmpty(m)
    BY Zenon, <2>2 DEF IsEmpty
  <2> QED
    BY Zenon, <2>3, <2>4, <2>5, <2>6 DEF Durable
<1> QED
  BY Zenon, <1>1, <1>4, <1>5, <1>6, <1>7, <1>8, <1>9, <1>10 DEF IndInv, N

\* seal_active_memtable.
LEMMA SealActiveIndInv ==
  ASSUME IndInv, SealActive
  PROVE  IndInv'
<1> DEFINE M == Members(memtables)
           a == memtables[Len(memtables)]
           q == [a EXCEPT !.stage = "sealed"]
           f == Fresh(a.gen + 1)
           N == (M \ {a}) \union {q, f}
<1>1. /\ ~IsEmpty(a)
      /\ memtables' = Append([memtables EXCEPT ![Len(memtables)].stage = "sealed"], f)
      /\ UNCHANGED <<phase, sstables, loaded, log, segment, unsynced, dirty, inflight,
                     old, left, acked, home>>
  BY Zenon DEF SealActive, Active, logVars, replayVars, historyVars
<1>2. /\ List(memtables) /\ a \in M /\ a \in Memtable /\ M \subseteq Memtable
      /\ a.stage = "active" /\ Sane(a) /\ Active = a
  BY Zenon, ListShape DEF IndInv, Types, Active
<1>3. /\ a.gen \in Nat /\ a.gen # 0
      /\ q \in Memtable /\ q.gen = a.gen /\ q.entry = a.entry /\ q.data = a.data
      /\ q.rps = a.rps /\ q.stage = "sealed"
  <2> HIDE DEF a
  <2> QED
    BY Zenon, <1>2, MemtableFields, StageShape
<1>4. /\ f \in Memtable /\ f.gen = a.gen + 1 /\ f.stage = "active" /\ f.rps = {}
      /\ Sane(f) /\ DOMAIN f.data = {}
  <2>1. a.gen + 1 \in Nat \ {0}
    BY <1>3
  <2> HIDE DEF a
  <2> QED
    BY Zenon, <2>1, FreshShape DEF IsEmpty
<1> HIDE DEF f
<1>5. List(memtables') /\ Members(memtables') = N /\ Active' = f
  BY Zenon, <1>1, <1>2, <1>4, SealShape DEF Active
<1> HIDE DEF a, q, M
<1>6. \A s \in sstables : s.gen \in Nat /\ s.gen <= a.gen /\ s.gen # f.gen
  BY <1>2, <1>3, <1>4 DEF IndInv, Types
<1>7. Types'
  <2>1. sstables \subseteq [gen : 1 .. f.gen, write : Writes]
    <3>1. sstables \subseteq [gen : 1 .. a.gen, write : Writes]
      BY Zenon, <1>2 DEF IndInv, Types
    <3> QED
      BY <1>3, <1>4, <3>1
  <2> QED
    BY Zenon, <1>1, <1>5, <2>1 DEF IndInv, Types
<1>8. Phases'
  BY Zenon, <1>1 DEF IndInv, Phases
<1>9. \A m \in N : Sane(m)
  <2>1. Sane(q)
    BY Zenon, <1>1, <1>2, <1>3 DEF Sane, IsEmpty
  <2> QED
    BY Zenon, <1>4, <2>1 DEF IndInv, M
<1>10. Flushed(N, sstables, loaded)
  <2>1. Flushed(M, sstables, loaded)
    BY Zenon DEF IndInv, M
  <2>2. \A s \in loaded : s \in sstables
    BY Zenon, <2>1 DEF Flushed
  <2>3. \A s \in sstables : s.gen # q.gen
    BY <1>2, <1>3, <2>1 DEF Flushed
  <2>4. ASSUME NEW m \in N
        PROVE  /\ m.stage \in {"active", "sealed"} => \A s \in sstables : s.gen # m.gen
               /\ m.stage \notin {"active", "sealed"} =>
                    Sstable(m) \in sstables /\ \A s \in sstables : s.gen = m.gen => s = Sstable(m)
               /\ m.stage \in {"active", "sealed", "written"} => \A s \in loaded : s.gen # m.gen
               /\ m.stage \notin {"active", "sealed", "written"} => Sstable(m) \in loaded
    <3>1. CASE m \in M
      BY Zenon, <2>1, <3>1 DEF Flushed
    <3>2. CASE m = q
      BY Zenon, <1>3, <2>2, <2>3, <3>2
    <3>3. CASE m = f
      BY Zenon, <1>4, <1>6, <2>2, <3>3
    <3> QED
      BY Zenon, <2>4, <3>1, <3>2, <3>3
  <2> QED
    BY Zenon, <2>1, <2>4 DEF Flushed
<1>11. Held(N, log, dirty, unsynced, inflight, home)
  BY Zenon, <1>2, <1>3, <1>4 DEF IndInv, M, Held
<1>12. Sourced(N, phase, old)
  BY Zenon, <1>2, <1>3, <1>4 DEF IndInv, M, Sourced
<1>13. Durable(N, sstables, home, acked, phase, old, left)
  <2>1. Durable(M, sstables, home, acked, phase, old, left)
    BY Zenon DEF IndInv, M
  <2>2. \A w : OnDisk(M, sstables, home, w) => OnDisk(N, sstables, home, w)
    BY Zenon, <1>2, <1>3, <1>6 DEF OnDisk
  <2>3. \A w : (\E m \in M : w \in m.rps) => \E m \in N : w \in m.rps
    BY Zenon, <1>3
  <2>4. \A w : (\E m \in M : m.gen = home[w] /\ ~IsEmpty(m)) =>
               \E m \in N : m.gen = home[w] /\ ~IsEmpty(m)
    BY Zenon, <1>3 DEF IsEmpty
  <2> HIDE DEF N
  <2> QED
    BY Zenon, <2>1, <2>2, <2>3, <2>4 DEF Durable
<1> HIDE DEF N
<1> QED
  BY Zenon, <1>1, <1>5, <1>7, <1>8, <1>9, <1>10, <1>11, <1>12, <1>13 DEF IndInv

\* What the steps of a flush share: the stage of one memtable changes, and no
\* sstable of another generation goes.
LEMMA StageKeeps ==
  ASSUME IndInv, NEW i \in DOMAIN memtables, NEW from, NEW to, Stage(i, from, to),
         from # "active", to \in {"sealed", "written", "added", "cleared"},
         UNCHANGED <<phase, log, segment, unsynced, dirty, inflight, old, left, acked, home>>,
         sstables' \subseteq [gen : 1 .. Active.gen, write : Writes],
         \A s \in sstables : s.gen # memtables[i].gen => s \in sstables',
         Flushed((Members(memtables) \ {memtables[i]})
                   \union {[memtables[i] EXCEPT !.stage = to]}, sstables', loaded')
  PROVE  IndInv'
<1> DEFINE M == Members(memtables)
           m == memtables[i]
           q == [m EXCEPT !.stage = to]
           N == (M \ {m}) \union {q}
<1>1. m.stage = from /\ memtables' = [memtables EXCEPT ![i] = q]
  BY Zenon DEF Stage
<1>2. List(memtables) /\ m \in M /\ m \in Memtable /\ Sane(m)
  <2>1. m \in M
    BY Zenon DEF Members
  <2> QED
    BY Zenon, <2>1, ListShape DEF IndInv, Types
<1>3. /\ q \in Memtable /\ q.gen = m.gen /\ q.entry = m.entry /\ q.data = m.data
      /\ q.rps = m.rps /\ q.stage = to
  <2>1. to \in {"active", "sealed", "written", "added", "cleared"}
    BY Zenon
  <2> HIDE DEF m
  <2> QED
    BY Zenon, <1>2, <2>1, StageShape
<1>4. List(memtables') /\ Members(memtables') = N /\ Active' = Active
  <2>1. i # Len(memtables)
    BY Zenon, <1>1, <1>2 DEF List
  <2>2. (q.stage = "active") = (memtables[i].stage = "active") /\ q.gen = memtables[i].gen
    BY Zenon, <1>1, <1>3
  <2> HIDE DEF q
  <2>3. /\ List([memtables EXCEPT ![i] = q])
        /\ Members([memtables EXCEPT ![i] = q]) = N
        /\ [memtables EXCEPT ![i] = q][Len([memtables EXCEPT ![i] = q])] =
             IF i = Len(memtables) THEN q ELSE memtables[Len(memtables)]
    BY Zenon, <1>2, <1>3, <2>2, ReplaceShape
  <2> QED
    BY Zenon, <1>1, <2>1, <2>3 DEF Active
<1> HIDE DEF q
<1>5. Types'
  BY Zenon, <1>4 DEF IndInv, Types
<1>6. Phases'
  BY Zenon DEF IndInv, Phases
<1>7. \A x \in N : Sane(x)
  <2>1. ~IsEmpty(m) /\ Sane(q)
    BY Zenon, <1>1, <1>2, <1>3 DEF Sane, IsEmpty
  <2> QED
    BY Zenon, <2>1 DEF IndInv
<1>8. Held(N, log, dirty, unsynced, inflight, home)
  BY Zenon, <1>2, <1>3, SwapHeld DEF IndInv
<1>9. Sourced(N, phase, old)
  BY Zenon, <1>2, <1>3, SwapSourced DEF IndInv
<1>10. Durable(N, sstables', home, acked, phase, old, left)
  BY Zenon, <1>2, <1>3, SwapDurable DEF IndInv
<1>11. Flushed(N, sstables', loaded')
  BY Zenon DEF q
<1> HIDE DEF N
<1> QED
  BY Zenon, <1>4, <1>5, <1>6, <1>7, <1>8, <1>9, <1>10, <1>11 DEF IndInv

\* A memtable of the list, and the same memtable in another stage.
LEMMA StageFacts ==
  ASSUME IndInv, NEW i \in DOMAIN memtables,
         NEW to \in {"active", "sealed", "written", "added", "cleared"}
  PROVE  LET M == Members(memtables)
             m == memtables[i]
             q == [m EXCEPT !.stage = to]
         IN  /\ m \in M /\ m \in Memtable /\ Sane(m)
             /\ m.gen \in 1 .. Active.gen
             /\ q.gen = m.gen /\ q.stage = to /\ Sstable(q) = Sstable(m)
             /\ \A x \in M : x # m => x.gen # m.gen
<1> DEFINE M == Members(memtables)
           m == memtables[i]
           q == [m EXCEPT !.stage = to]
<1>1. m \in M
  BY Zenon DEF Members
<1>2. List(memtables) /\ \A x \in M : Sane(x)
  BY Zenon DEF IndInv, Types
<1>3. m \in Memtable /\ m.gen <= Active.gen /\ Active \in Memtable
  BY Zenon, <1>1, <1>2, ListShape DEF Active
<1>4. \A x \in M : x # m => x.gen # m.gen
  BY Zenon, <1>1, <1>2, ListShape
<1> HIDE DEF m, M
<1>5. q.gen = m.gen /\ q.stage = to /\ q.entry = m.entry /\ q.data = m.data
  BY <1>3, StageShape
<1>6. m.gen \in Nat /\ m.gen # 0 /\ Active.gen \in Nat
  BY Zenon, <1>3, MemtableFields
<1>7. m.gen \in 1 .. Active.gen
  BY <1>3, <1>6
<1> HIDE DEF q
<1>8. Sstable(q) = Sstable(m)
  BY Zenon, <1>5 DEF Sstable, Written, Newest
<1> QED
  BY Zenon, <1>1, <1>2, <1>3, <1>4, <1>5, <1>7, <1>8 DEF m, M, q

\* write_memtable_to_sstable.
LEMMA WriteSstableIndInv ==
  ASSUME IndInv, NEW i \in DOMAIN memtables, WriteSstable(i)
  PROVE  IndInv'
<1> DEFINE M == Members(memtables)
           m == memtables[i]
           q == [m EXCEPT !.stage = "written"]
<1>1. /\ Stage(i, "sealed", "written") /\ m.stage = "sealed"
      /\ sstables' = sstables \union {Sstable(m)} /\ loaded' = loaded
      /\ UNCHANGED <<phase, log, segment, unsynced, dirty, inflight, old, left, acked, home>>
  BY Zenon DEF WriteSstable, Stage, Sstable, logVars, replayVars, historyVars
<1>2. /\ m \in M /\ m \in Memtable /\ Sane(m) /\ m.gen \in 1 .. Active.gen
      /\ q.gen = m.gen /\ q.stage = "written" /\ Sstable(q) = Sstable(m)
      /\ \A x \in M : x # m => x.gen # m.gen
  BY Zenon, StageFacts
<1> HIDE DEF m, q, M
<1>3. Sstable(m) \in [gen : 1 .. Active.gen, write : Writes] /\ Sstable(m).gen = m.gen
  <2>1. ~IsEmpty(m)
    BY Zenon, <1>1, <1>2 DEF Sane
  <2>2. Newest(m) \in Writes
    BY Zenon, <1>2, <2>1, NewestHasData
  <2> QED
    BY Zenon, <1>2, <2>2 DEF Sstable, Written
<1>4. sstables' \subseteq [gen : 1 .. Active.gen, write : Writes]
  BY Zenon, <1>1, <1>3 DEF IndInv, Types
<1>5. Flushed((M \ {m}) \union {q}, sstables', loaded')
  <2>1. Flushed(M, sstables, loaded)
    BY Zenon DEF IndInv, M
  <2> QED
    BY <1>1, <1>2, <1>3, <2>1 DEF Flushed
<1> QED
  BY Zenon, <1>1, <1>4, <1>5, StageKeeps DEF m, q, M

\* The flush fails and its sstable is removed.
LEMMA FlushFailsIndInv ==
  ASSUME IndInv, NEW i \in DOMAIN memtables, FlushFails(i)
  PROVE  IndInv'
<1> DEFINE M == Members(memtables)
           m == memtables[i]
           q == [m EXCEPT !.stage = "sealed"]
<1>1. /\ Stage(i, "written", "sealed") /\ m.stage = "written"
      /\ sstables' = {s \in sstables : s.gen # m.gen} /\ loaded' = loaded
      /\ UNCHANGED <<phase, log, segment, unsynced, dirty, inflight, old, left, acked, home>>
  BY Zenon DEF FlushFails, Stage, logVars, replayVars, historyVars
<1>2. /\ m \in M /\ m \in Memtable /\ Sane(m) /\ m.gen \in 1 .. Active.gen
      /\ q.gen = m.gen /\ q.stage = "sealed" /\ Sstable(q) = Sstable(m)
      /\ \A x \in M : x # m => x.gen # m.gen
  BY Zenon, StageFacts
<1> HIDE DEF m, q, M
<1>3. sstables' \subseteq [gen : 1 .. Active.gen, write : Writes]
  BY Zenon, <1>1 DEF IndInv, Types
<1>4. Flushed((M \ {m}) \union {q}, sstables', loaded')
  <2>1. Flushed(M, sstables, loaded)
    BY Zenon DEF IndInv, M
  <2>2. \A x \in M : Sstable(x).gen = x.gen
    BY Zenon DEF Sstable
  <2> QED
    BY <1>1, <1>2, <2>1, <2>2 DEF Flushed
<1> QED
  BY Zenon, <1>1, <1>3, <1>4, StageKeeps DEF m, q, M

\* add_sstable and mark_flushed.
LEMMA AddSstableIndInv ==
  ASSUME IndInv, NEW i \in DOMAIN memtables, AddSstable(i)
  PROVE  IndInv'
<1> DEFINE M == Members(memtables)
           m == memtables[i]
           q == [m EXCEPT !.stage = "added"]
<1>1. /\ Stage(i, "written", "added") /\ m.stage = "written"
      /\ loaded' = loaded \union {s \in sstables : s.gen = m.gen} /\ sstables' = sstables
      /\ UNCHANGED <<phase, log, segment, unsynced, dirty, inflight, old, left, acked, home>>
  BY Zenon DEF AddSstable, Stage, logVars, replayVars, historyVars
<1>2. /\ m \in M /\ m \in Memtable /\ Sane(m) /\ m.gen \in 1 .. Active.gen
      /\ q.gen = m.gen /\ q.stage = "added" /\ Sstable(q) = Sstable(m)
      /\ \A x \in M : x # m => x.gen # m.gen
  BY Zenon, StageFacts
<1> HIDE DEF m, q, M
<1>3. sstables' \subseteq [gen : 1 .. Active.gen, write : Writes]
  BY Zenon, <1>1 DEF IndInv, Types
<1>4. Flushed((M \ {m}) \union {q}, sstables', loaded')
  <2>1. Flushed(M, sstables, loaded)
    BY Zenon DEF IndInv, M
  <2>2. \A x \in M : Sstable(x).gen = x.gen
    BY Zenon DEF Sstable
  <2> QED
    BY <1>1, <1>2, <2>1, <2>2 DEF Flushed
<1> QED
  BY Zenon, <1>1, <1>3, <1>4, StageKeeps DEF m, q, M

\* clear_gently.
LEMMA ClearGentlyIndInv ==
  ASSUME IndInv, NEW i \in DOMAIN memtables, ClearGently(i)
  PROVE  IndInv'
<1> DEFINE M == Members(memtables)
           m == memtables[i]
           q == [m EXCEPT !.stage = "cleared"]
<1>1. /\ Stage(i, "added", "cleared") /\ m.stage = "added"
      /\ loaded' = loaded /\ sstables' = sstables
      /\ UNCHANGED <<phase, log, segment, unsynced, dirty, inflight, old, left, acked, home>>
  BY Zenon DEF ClearGently, Stage, logVars, replayVars, historyVars
<1>2. /\ m \in M /\ m \in Memtable /\ Sane(m) /\ m.gen \in 1 .. Active.gen
      /\ q.gen = m.gen /\ q.stage = "cleared" /\ Sstable(q) = Sstable(m)
      /\ \A x \in M : x # m => x.gen # m.gen
  BY Zenon, StageFacts
<1> HIDE DEF m, q, M
<1>3. sstables' \subseteq [gen : 1 .. Active.gen, write : Writes]
  BY Zenon, <1>1 DEF IndInv, Types
<1>4. Flushed((M \ {m}) \union {q}, sstables', loaded')
  <2>1. Flushed(M, sstables, loaded)
    BY Zenon DEF IndInv, M
  <2> QED
    BY <1>1, <1>2, <2>1 DEF Flushed
<1> QED
  BY Zenon, <1>1, <1>3, <1>4, StageKeeps DEF m, q, M

\* The memtable goes, and with it its hold on the log.
LEMMA RetireIndInv ==
  ASSUME IndInv, NEW i \in DOMAIN memtables, Retire(i)
  PROVE  IndInv'
<1> DEFINE M == Members(memtables)
           m == memtables[i]
           N == M \ {m}
           d == dirty \ m.rps
<1>1. /\ m.stage = "cleared"
      /\ memtables' = Unlink(memtables, i)
      /\ dirty' = d
      /\ log' = Discard(d)
      /\ UNCHANGED <<phase, sstables, loaded, segment, unsynced, inflight, old, left, acked, home>>
  BY Zenon DEF Retire, replayVars, historyVars
<1>2. /\ m \in M /\ m \in Memtable /\ m.gen # 0
      /\ \A x \in M : x # m => x.gen # m.gen
  BY Zenon, StageFacts, MemtableFields
<1>3. List(memtables') /\ Members(memtables') = N /\ Active' = Active
  BY Zenon, <1>1, RemoveShape DEF IndInv, Types, Active
<1> HIDE DEF m, M
<1>4. Held(M, log, dirty, unsynced, inflight, home) /\ Flushed(M, sstables, loaded)
  BY Zenon DEF IndInv, M
<1>5. /\ log' \in [DOMAIN log' -> LogEntry]
      /\ DOMAIN log' \subseteq DOMAIN log
      /\ d \subseteq WritesIn(log')
  <2>1. log \in [DOMAIN log -> LogEntry]
    BY Zenon DEF IndInv, Types
  <2>2. d \subseteq WritesIn(log)
    BY Zenon, <1>4 DEF Held
  <2> HIDE DEF d
  <2> QED
    BY Zenon, <1>1, <2>1, <2>2, DiscardKeeps
<1>6. Types'
  BY Zenon, <1>1, <1>3, <1>5 DEF IndInv, Types
<1>7. Phases'
  BY Zenon, <1>1, <1>5 DEF IndInv, Phases
<1>8. \A x \in N : Sane(x)
  BY Zenon DEF IndInv, M
<1>9. Flushed(N, sstables, loaded)
  BY Zenon, <1>4 DEF Flushed
<1>10. Held(N, log', d, unsynced, inflight, home)
  <2>1. \A w \in m.rps : home[w] = m.gen
    BY Zenon, <1>2, <1>4 DEF Held
  <2>2. inflight \subseteq d
    BY Zenon, <1>2, <1>4, <2>1 DEF Held
  <2>3. \A x \in N : \A w \in x.rps : w \in d
    BY Zenon, <1>2, <1>4, <2>1 DEF Held
  <2> HIDE DEF d
  <2> QED
    BY Zenon, <1>4, <1>5, <2>2, <2>3 DEF Held
<1>11. Sourced(N, phase, old)
  BY Zenon DEF IndInv, Sourced, M
<1>12. Durable(N, sstables, home, acked, phase, old, left)
  <2>1. Durable(M, sstables, home, acked, phase, old, left)
    BY Zenon DEF IndInv, M
  <2>2. \A w : OnDisk(M, sstables, home, w) => OnDisk(N, sstables, home, w)
    BY Zenon DEF OnDisk
  <2>3. \A w : home[w] = m.gen => OnDisk(N, sstables, home, w)
    <3>1. Sstable(m) \in sstables /\ Sstable(m).gen = m.gen
      BY Zenon, <1>1, <1>2, <1>4 DEF Flushed, Sstable
    <3> QED
      BY Zenon, <1>2, <3>1 DEF OnDisk
  <2>4. \A w : (\E x \in M : w \in x.rps) =>
               OnDisk(N, sstables, home, w) \/ \E x \in N : w \in x.rps
    BY Zenon, <1>4, <2>3 DEF Held
  <2>5. \A w : (\E x \in M : x.gen = home[w] /\ ~IsEmpty(x)) =>
               OnDisk(N, sstables, home, w) \/ \E x \in N : x.gen = home[w] /\ ~IsEmpty(x)
    BY Zenon, <2>3
  <2> HIDE DEF N
  <2> QED
    BY Zenon, <2>1, <2>2, <2>4, <2>5 DEF Durable
<1> HIDE DEF N
<1> QED
  BY Zenon, <1>1, <1>3, <1>6, <1>7, <1>8, <1>9, <1>10, <1>11, <1>12 DEF IndInv

\* The node stops: what was acknowledged is in an sstable or in what is left of
\* the log.
LEMMA CrashIndInv ==
  ASSUME IndInv, Crash
  PROVE  IndInv'
<1> DEFINE M == Members(memtables)
           a == memtables[Len(memtables)]
           f == Fresh(a.gen + 1)
<1>1. /\ phase' = "replay" /\ memtables' = <<f>>
      /\ left' = DOMAIN old'
      /\ log' = <<>> /\ segment' = segment + 1 /\ unsynced' = {} /\ dirty' = {}
      /\ inflight' = {} /\ loaded' = sstables /\ sstables' = sstables /\ acked' = acked
      /\ home' = [w \in Writes |-> IF w \in inflight THEN 1 ELSE home[w]]
  BY Zenon DEF Crash, Active, GaveUp
<1>2. PICK kept \in SUBSET DOMAIN log :
        /\ \A i \in DOMAIN log \ kept : log[i].write \in unsynced
        /\ old' = IF phase = "up" THEN Restrict(log, kept) ELSE old
  BY Zenon DEF Crash
<1>3. /\ List(memtables) /\ a \in M /\ M \subseteq Memtable /\ Active = a
      /\ a.gen \in Nat /\ \A m \in M : m.gen # 0
  BY Zenon, ListShape, MemtableFields DEF IndInv, Types, Active
<1>4. /\ f \in Memtable /\ f.gen = a.gen + 1 /\ f.stage = "active" /\ f.rps = {}
      /\ Sane(f) /\ DOMAIN f.data = {}
  <2>1. a.gen + 1 \in Nat \ {0}
    BY <1>3
  <2> HIDE DEF a
  <2> QED
    BY Zenon, <2>1, FreshShape DEF IsEmpty
<1> HIDE DEF f
<1>5. List(memtables') /\ Members(memtables') = {f} /\ Active' = f
  BY <1>1, <1>4 DEF List, Members, Active
<1> HIDE DEF a, M
<1>6. /\ \A s \in sstables : s.gen \in Nat /\ s.gen # 0 /\ s.gen # f.gen
      /\ sstables \subseteq [gen : 1 .. f.gen, write : Writes]
  <2>1. sstables \subseteq [gen : 1 .. a.gen, write : Writes]
    BY Zenon, <1>3 DEF IndInv, Types
  <2> QED
    BY <1>3, <1>4, <2>1
<1>7. /\ log \in [DOMAIN log -> LogEntry] /\ old \in [DOMAIN old -> LogEntry]
      /\ home \in [Writes -> Nat] /\ acked \subseteq Writes /\ segment \in Nat
  BY Zenon DEF IndInv, Types
<1>8. old' \in [DOMAIN old' -> LogEntry]
  BY Zenon, <1>2, <1>7 DEF Restrict
<1>9. home' \in [Writes -> Nat] /\ \A w \in Writes : w \notin inflight => home'[w] = home[w]
  BY Zenon, <1>1, <1>7
<1>10. Types'
  <2>1. log' \in [DOMAIN log' -> LogEntry] /\ DOMAIN log' = {}
    BY <1>1
  <2>2. \E b \in Nat : \A i \in DOMAIN log' : i <= b
    BY Zenon, <2>1
  <2>3. \A w \in acked' : home'[w] # 0
    BY <1>1, <1>7, <1>9 DEF IndInv, Types
  <2>4. /\ List(memtables') /\ sstables' \subseteq [gen : 1 .. Active'.gen, write : Writes]
        /\ segment' \in Nat /\ acked' \subseteq Writes /\ left' \subseteq DOMAIN old'
    BY <1>1, <1>5, <1>6, <1>7
  <2> QED
    BY Zenon, <1>8, <1>9, <2>1, <2>2, <2>3, <2>4 DEF Types
<1>11. Phases'
  BY <1>1 DEF Phases
<1>12. Flushed({f}, sstables, sstables)
  BY Zenon, <1>4, <1>6 DEF Flushed
<1>13. Held({f}, log', {}, {}, {}, home')
  BY Zenon, <1>4 DEF Held
<1>14. Sourced({f}, phase', old')
  BY Zenon, <1>4 DEF Sourced
<1>15. Durable({f}, sstables, home', acked, "replay", old', left')
  <2>1. SUFFICES ASSUME BatchSync, NEW w \in acked
        PROVE  OnDisk({f}, sstables, home', w) \/ \E i \in DOMAIN old' : old'[i].write = w
    BY Zenon, <1>1 DEF Durable, WritesIn
  <2>2. \/ OnDisk(M, sstables, home, w)
        \/ phase = "up" /\ \E m \in M : w \in m.rps
        \/ phase # "up" /\ w \in WritesIn(old)
    BY Zenon, <2>1 DEF IndInv, Durable, M
  <2>3. Held(M, log, dirty, unsynced, inflight, home)
    BY Zenon DEF IndInv, M
  <2>4. CASE OnDisk(M, sstables, home, w)
    <3>1. home[w] # 0
      BY Zenon, <1>6, <2>4 DEF OnDisk
    <3>2. home'[w] = home[w]
      BY Zenon, <1>7, <1>9, <2>3, <3>1 DEF Held
    <3> QED
      BY Zenon, <1>6, <2>4, <3>2 DEF OnDisk
  <2>5. CASE phase = "up" /\ \E m \in M : w \in m.rps
    <3>1. w \in WritesIn(log) /\ w \notin unsynced
      BY Zenon, <2>1, <2>3, <2>5 DEF Held
    <3>2. PICK i \in DOMAIN log : log[i].write = w
      BY Zenon, <3>1 DEF WritesIn
    <3>3. i \in kept
      BY Zenon, <1>2, <3>1, <3>2
    <3> QED
      BY Zenon, <1>2, <2>5, <3>2, <3>3 DEF Restrict
  <2>6. CASE phase # "up" /\ w \in WritesIn(old)
    BY Zenon, <1>2, <2>6 DEF WritesIn
  <2> QED
    BY Zenon, <2>2, <2>4, <2>5, <2>6
<1> QED
  BY Zenon, <1>1, <1>4, <1>5, <1>10, <1>11, <1>12, <1>13, <1>14, <1>15 DEF IndInv

\* One entry of the log is replayed into the active memtable.
LEMMA ReplayIndInv ==
  ASSUME IndInv, NEW i \in left, Replay(i)
  PROVE  IndInv'
<1> DEFINE M == Members(memtables)
           n == Len(memtables)
           a == memtables[n]
           e == old[i]
           q == Put(a, e.write, e.vtw)
           N == (M \ {a}) \union {q}
<1>1. /\ phase = "replay"
      /\ ~ApplyFaults(a.entry, e.vtw, {})
      /\ memtables' = [memtables EXCEPT ![n] = q]
      /\ home' = [home EXCEPT ![e.write] = IF e.write \in acked THEN a.gen ELSE home[e.write]]
      /\ left' = left \ {i}
      /\ UNCHANGED <<phase, sstables, loaded, log, segment, unsynced, dirty, inflight, old, acked>>
  BY Zenon DEF Replay, Active, logVars
<1>2. /\ i \in DOMAIN old /\ old \in [DOMAIN old -> LogEntry]
      /\ home \in [Writes -> Nat] /\ left \subseteq DOMAIN old
  BY Zenon DEF IndInv, Types
<1>3. e.write \in Writes /\ e.vtw \in Nat /\ e.write \in WritesIn(old)
  BY Zenon, <1>2 DEF LogEntry, WritesIn
<1>4. /\ List(memtables) /\ n \in DOMAIN memtables /\ a \in M /\ a \in Memtable
      /\ M \subseteq Memtable /\ Sane(a) /\ a.stage = "active" /\ Active = a
  BY Zenon, ListShape DEF IndInv, Types, Active
<1>5. a.gen \in Nat /\ a.gen # 0
  BY Zenon, <1>4, MemtableFields
<1> HIDE DEF a, n, M, e
<1>6. /\ q \in Memtable
      /\ q.gen = a.gen /\ q.stage = a.stage /\ q.rps = a.rps
      /\ Sane(q) /\ ~IsEmpty(q)
      /\ \A k \in DOMAIN q.data :
           q.data[k] = e.write \/ \E j \in DOMAIN a.data : q.data[k] = a.data[j]
  BY Zenon, <1>1, <1>3, <1>4, PutShape
<1> HIDE DEF q
<1>7. List(memtables') /\ Members(memtables') = N /\ Active' = q
  <2>1. a = memtables[n] /\ n = Len(memtables) /\ M = Members(memtables)
    BY Zenon DEF a, n, M
  <2>2. (q.stage = "active") = (memtables[n].stage = "active") /\ q.gen = memtables[n].gen
    BY Zenon, <1>6, <2>1
  <2>3. q \in Memtable /\ List(memtables) /\ n \in DOMAIN memtables
    BY Zenon, <1>4, <1>6
  <2>4. List([memtables EXCEPT ![n] = q])
    BY Zenon, <2>2, <2>3, ReplaceShape
  <2>5. Members([memtables EXCEPT ![n] = q]) =
          (Members(memtables) \ {memtables[n]}) \union {q}
    BY <2>2, <2>3, ReplaceShape
  <2>6. [memtables EXCEPT ![n] = q][Len([memtables EXCEPT ![n] = q])] =
          IF n = Len(memtables) THEN q ELSE memtables[Len(memtables)]
    BY Zenon, <2>2, <2>3, ReplaceShape
  <2> QED
    BY Zenon, <1>1, <2>1, <2>4, <2>5, <2>6 DEF Active
<1>8. /\ home' \in [Writes -> Nat]
      /\ e.write \in acked => home'[e.write] = a.gen
      /\ \A x : x # e.write => home'[x] = home[x]
  BY <1>1, <1>2, <1>3, <1>5
<1>9. Types'
  <2>1. sstables \subseteq [gen : 1 .. a.gen, write : Writes]
    BY Zenon, <1>4 DEF IndInv, Types
  <2>2. \A x \in acked' : home'[x] # 0
    BY Zenon, <1>1, <1>5, <1>8 DEF IndInv, Types
  <2> QED
    BY Zenon, <1>1, <1>6, <1>7, <1>8, <2>1, <2>2 DEF IndInv, Types
<1>10. Phases'
  BY Zenon, <1>1 DEF IndInv, Phases
<1>11. \A m \in N : Sane(m)
  BY Zenon, <1>6 DEF IndInv, M
<1>12. Flushed(N, sstables, loaded)
  <2>1. Flushed(M, sstables, loaded)
    BY Zenon DEF IndInv, M
  <2>2. /\ q.stage = "active" /\ \A s \in sstables : s.gen # q.gen
        /\ \A s \in loaded : s.gen # q.gen
    BY Zenon, <1>4, <1>6, <2>1 DEF Flushed
  <2> QED
    BY Zenon, <2>1, <2>2 DEF Flushed
<1>13. Held(N, log, dirty, unsynced, inflight, home')
  <2>1. Held(M, log, dirty, unsynced, inflight, home) /\ dirty = {} /\ inflight = {}
    BY Zenon, <1>1 DEF IndInv, Phases, M
  <2>2. \A m \in N : m.rps = {}
    BY Zenon, <1>4, <1>6, <2>1 DEF Held
  <2> QED
    BY Zenon, <2>1, <2>2 DEF Held
<1>14. Sourced(N, phase, old)
  <2>1. \A m \in M : \A k \in DOMAIN m.data : m.data[k] \in WritesIn(old)
    BY Zenon, <1>1 DEF IndInv, Sourced, M
  <2> QED
    BY Zenon, <1>1, <1>3, <1>4, <1>6, <2>1 DEF Sourced
<1>15. Durable(N, sstables, home', acked, phase, old, left')
  <2>1. SUFFICES ASSUME BatchSync, NEW w \in acked
        PROVE  \/ OnDisk(N, sstables, home', w)
               \/ /\ w \in WritesIn(old)
                  /\ \/ \E j \in left' : old[j].write = w
                     \/ \E m \in N : m.gen = home'[w] /\ ~IsEmpty(m)
    BY Zenon, <1>1 DEF Durable
  <2>2. CASE w = e.write
    BY Zenon, <1>3, <1>6, <1>8, <2>1, <2>2
  <2>3. CASE w # e.write
    <3>1. \/ OnDisk(M, sstables, home, w)
          \/ /\ w \in WritesIn(old)
             /\ \/ \E j \in left : old[j].write = w
                \/ \E m \in M : m.gen = home[w] /\ ~IsEmpty(m)
      BY Zenon, <1>1, <2>1 DEF IndInv, Durable, M
    <3>2. home'[w] = home[w]
      BY Zenon, <1>8, <2>3
    <3>3. OnDisk(M, sstables, home, w) => OnDisk(N, sstables, home', w)
      BY Zenon, <1>4, <1>6, <3>2 DEF OnDisk
    <3>4. (\E j \in left : old[j].write = w) => \E j \in left' : old[j].write = w
      BY Zenon, <1>1, <2>3 DEF e
    <3>5. (\E m \in M : m.gen = home[w] /\ ~IsEmpty(m)) =>
             \E m \in N : m.gen = home'[w] /\ ~IsEmpty(m)
      BY Zenon, <1>6, <3>2
    <3> QED
      BY Zenon, <3>1, <3>3, <3>4, <3>5
  <2> QED
    BY Zenon, <2>2, <2>3
<1> HIDE DEF N
<1> QED
  BY Zenon, <1>1, <1>7, <1>9, <1>10, <1>11, <1>12, <1>13, <1>14, <1>15 DEF IndInv

\* recover() is done.
LEMMA DrainIndInv ==
  ASSUME IndInv, Drain
  PROVE  IndInv'
<1> DEFINE M == Members(memtables)
<1>1. /\ phase = "replay" /\ left = {} /\ phase' = "drain"
      /\ UNCHANGED <<memtables, sstables, loaded, log, segment, unsynced, dirty, inflight,
                     old, left, acked, home>>
  BY Zenon DEF Drain, logVars, replayVars, historyVars
<1>2. Types' /\ Phases'
  BY Zenon, <1>1 DEF IndInv, Types, Phases, Active
<1>3. Sourced(M, phase', old)
  BY Zenon, <1>1 DEF IndInv, Sourced
<1>4. Durable(M, sstables, home, acked, phase', old, left)
  BY Zenon, <1>1 DEF IndInv, Durable
<1> QED
  BY Zenon, <1>1, <1>2, <1>3, <1>4 DEF IndInv

\* Every memtable is flushed, the replayed segments go.
LEMMA StartServingIndInv ==
  ASSUME IndInv, StartServing
  PROVE  IndInv'
<1> DEFINE M == Members(memtables)
<1>1. /\ phase = "drain" /\ Len(memtables) = 1 /\ IsEmpty(Active)
      /\ old' = <<>> /\ phase' = "up"
      /\ UNCHANGED <<memtables, sstables, loaded, log, segment, unsynced, dirty, inflight,
                     left, acked, home>>
  BY Zenon DEF StartServing, logVars, historyVars
<1>2. left = {}
  BY Zenon, <1>1 DEF IndInv, Phases
<1>3. \A m \in M : IsEmpty(m)
  <2>1. DOMAIN memtables = {1}
    BY <1>1 DEF IndInv, Types, List
  <2> QED
    BY Zenon, <1>1, <2>1 DEF Members, Active
<1>4. Types'
  <2>1. old' \in [DOMAIN old' -> LogEntry] /\ left' \subseteq DOMAIN old'
    BY <1>1, <1>2
  <2> QED
    BY Zenon, <1>1, <2>1 DEF IndInv, Types, Active
<1>5. Phases'
  BY <1>1, <1>2 DEF Phases
<1>6. Sourced(M, "up", old')
  BY Zenon, <1>3 DEF Sourced, IsEmpty
<1>7. Durable(M, sstables, home, acked, "up", old', left)
  BY Zenon, <1>1, <1>2, <1>3 DEF IndInv, Durable
<1> QED
  BY Zenon, <1>1, <1>4, <1>5, <1>6, <1>7 DEF IndInv

\* Every step of the column family keeps the inductive invariant.
LEMMA NextIndInv == IndInv /\ [Next]_vars => IndInv'
<1> SUFFICES ASSUME IndInv, [Next]_vars PROVE IndInv'
  BY Zenon
<1>1. ASSUME NEW w \in Writes, NEW vtw \in Proposals[w], AddEntry(w, vtw) PROVE IndInv'
  BY Zenon, <1>1, AddEntryIndInv
<1>2. ASSUME NEW s \in 1 .. segment, Sync(s) PROVE IndInv'
  BY Zenon, <1>2, SyncIndInv
<1>3. ASSUME NEW w \in inflight, ApplyInMemory(w) PROVE IndInv'
  BY Zenon, <1>3, ApplyInMemoryIndInv
<1>4. ASSUME NEW w \in inflight, ApplyTimesOut(w) PROVE IndInv'
  BY Zenon, <1>4, ApplyTimesOutIndInv
<1>5. ASSUME NEW vtr \in ReadVersions, Read(vtr) PROVE IndInv'
  BY Zenon, <1>5, ReadIndInv
<1>6. CASE SealActive
  BY Zenon, <1>6, SealActiveIndInv
<1>7. ASSUME NEW i \in DOMAIN memtables, WriteSstable(i) PROVE IndInv'
  BY Zenon, <1>7, WriteSstableIndInv
<1>8. ASSUME NEW i \in DOMAIN memtables, FlushFails(i) PROVE IndInv'
  BY Zenon, <1>8, FlushFailsIndInv
<1>9. ASSUME NEW i \in DOMAIN memtables, AddSstable(i) PROVE IndInv'
  BY Zenon, <1>9, AddSstableIndInv
<1>10. ASSUME NEW i \in DOMAIN memtables, ClearGently(i) PROVE IndInv'
  BY Zenon, <1>10, ClearGentlyIndInv
<1>11. ASSUME NEW i \in DOMAIN memtables, Retire(i) PROVE IndInv'
  BY Zenon, <1>11, RetireIndInv
<1>12. CASE Crash
  BY Zenon, <1>12, CrashIndInv
<1>13. ASSUME NEW i \in left, Replay(i) PROVE IndInv'
  BY Zenon, <1>13, ReplayIndInv
<1>14. CASE Drain
  BY Zenon, <1>14, DrainIndInv
<1>15. CASE StartServing
  BY Zenon, <1>15, StartServingIndInv
<1>16. CASE UNCHANGED vars
  BY Zenon, <1>16 DEF vars, IndInv, Types, Phases, Active
<1> QED
  BY Zenon, <1>1, <1>2, <1>3, <1>4, <1>5, <1>6, <1>7, <1>8, <1>9, <1>10, <1>11, <1>12,
     <1>13, <1>14, <1>15, <1>16 DEF Next

\* The inductive invariant holds in every reachable state.
THEOREM IndInvHolds == Spec => []IndInv
  BY InitIndInv, NextIndInv, PTL DEF Spec

-----------------------------------------------------------------------------
(* The properties.                                                         *)

\* The state keeps its shape: the data of a memtable lie on the chain of the
\* key, and what a segment is held for is in the log.
THEOREM TypeCorrect == Spec => []TypeOK
<1>1. IndInv => TypeOK
  <2> SUFFICES ASSUME IndInv PROVE TypeOK
    BY Zenon
  <2>1. List(memtables) /\ \A i \in DOMAIN memtables : memtables[i] \in Members(memtables)
    BY Zenon DEF IndInv, Types, Members
  <2>2. \A i \in DOMAIN memtables :
          /\ memtables[i].entry \in Entry
          /\ memtables[i].rps \subseteq Writes
    BY Zenon, <2>1, ListShape, MemtableFields
  <2>3. \A i \in DOMAIN memtables :
          DOMAIN memtables[i].data = Linked(memtables[i].entry) \ {0}
    BY Zenon, <2>1 DEF IndInv, Sane
  <2>4. \A i \in DOMAIN memtables : (memtables[i].stage = "active") = (i = Len(memtables))
    BY Zenon, <2>1 DEF List
  <2>5. loaded \subseteq sstables /\ inflight \subseteq dirty
    BY Zenon DEF IndInv, Flushed, Held
  <2>6. dirty \subseteq Logged
    BY Zenon DEF IndInv, Held, WritesIn, Logged
  <2>7. phase \in {"up", "replay", "drain"}
    BY Zenon DEF IndInv, Phases
  <2> QED
    BY Zenon, <2>2, <2>3, <2>4, <2>5, <2>6, <2>7 DEF TypeOK
<1> QED
  BY <1>1, IndInvHolds, PTL

\* No flush, time-out or replay lets go of a segment that a write in an
\* unflushed memtable needs (discard_completed_segments).
THEOREM MemoryStaysLogged == Spec => []MemoryIsLogged
<1>1. IndInv => MemoryIsLogged
  <2> SUFFICES ASSUME IndInv, NEW i \in DOMAIN memtables,
                      NEW n \in DOMAIN memtables[i].data
               PROVE  memtables[i].data[n] \in Logged
    BY Zenon DEF MemoryIsLogged
  <2> DEFINE m == memtables[i]
             w == m.data[n]
  <2>1. m \in Members(memtables)
    BY Zenon DEF Members
  <2> HIDE DEF m
  <2>2. CASE phase = "up"
    <3>1. w \in m.rps
      BY Zenon, <2>1, <2>2 DEF IndInv, Sourced, m
    <3>2. w \in WritesIn(log)
      BY Zenon, <2>1, <3>1 DEF IndInv, Held
    <3> QED
      BY Zenon, <3>2 DEF WritesIn, Logged, m
  <2>3. CASE phase # "up"
    <3>1. w \in WritesIn(old)
      BY Zenon, <2>1, <2>3 DEF IndInv, Sourced, m
    <3> QED
      BY Zenon, <3>1 DEF WritesIn, Logged, m
  <2> QED
    BY Zenon, <2>2, <2>3
<1> QED
  BY <1>1, IndInvHolds, PTL

\* With BATCH sync an acknowledged write is always on disk, in the log or in an
\* sstable: whatever is flushed, fails to flush, crashes, or crashes again
\* while the log is replayed.
THEOREM AcknowledgedStaysDurable == Spec => []AckedIsDurable
<1>1. IndInv => AckedIsDurable
  <2> SUFFICES ASSUME IndInv, BatchSync, NEW w \in acked
               PROVE  \/ w \in Logged \ unsynced
                      \/ \E s \in sstables : s.gen = home[w]
    BY Zenon DEF AckedIsDurable
  <2> DEFINE M == Members(memtables)
  <2>1. \/ OnDisk(M, sstables, home, w)
        \/ phase = "up" /\ \E m \in M : w \in m.rps
        \/ phase # "up" /\ w \in WritesIn(old)
    BY Zenon DEF IndInv, Durable
  <2>2. CASE OnDisk(M, sstables, home, w)
    BY Zenon, <2>2 DEF OnDisk
  <2>3. CASE phase = "up" /\ \E m \in M : w \in m.rps
    <3>1. w \in WritesIn(log) /\ w \notin unsynced
      BY Zenon, <2>3 DEF IndInv, Held
    <3> QED
      BY Zenon, <3>1 DEF WritesIn, Logged
  <2>4. CASE phase # "up" /\ w \in WritesIn(old)
    <3>1. unsynced = {}
      BY Zenon, <2>4 DEF IndInv, Phases
    <3> QED
      BY Zenon, <2>4, <3>1 DEF WritesIn, Logged
  <2> QED
    BY Zenon, <2>1, <2>2, <2>3, <2>4
<1> QED
  BY <1>1, IndInvHolds, PTL

\* What a read without a version can find in the memtables M and sstables ld.
Found(M, ld) ==
    {s.write : s \in ld} \union
    {Newest(m) : m \in {x \in M : ~IsEmpty(x) /\ x.stage # "cleared"}}

\* It finds the same if the same writes can be found.
LEMMA FoundIsRead ==
  ASSUME Found(Members(memtables'), loaded') = Found(Members(memtables), loaded)
  PROVE  NewestRead' = NewestRead
<1>1. Found(Members(memtables), loaded) =
        {s.write : s \in loaded} \union
        {Newest(memtables[i]) : i \in {j \in DOMAIN memtables :
           ~IsEmpty(memtables[j]) /\ memtables[j].stage # "cleared"}}
  BY DEF Found, Members
<1>2. Found(Members(memtables'), loaded') =
        {s.write : s \in loaded'} \union
        {Newest(memtables'[i]) : i \in {j \in DOMAIN memtables' :
           ~IsEmpty(memtables'[j]) /\ memtables'[j].stage # "cleared"}}
  BY DEF Found, Members
<1>3. NewestRead = LET found == Found(Members(memtables), loaded)
                   IN  CHOOSE w \in found \union {None} : \A u \in found : u <= w
  BY Zenon, <1>1 DEF NewestRead
<1>4. NewestRead' = LET found == Found(Members(memtables'), loaded')
                    IN  CHOOSE w \in found \union {None} : \A u \in found : u <= w
  BY Zenon, <1>2 DEF NewestRead
<1> QED
  BY Zenon, <1>3, <1>4

\* A memtable changes its stage and what is loaded grows: what can be found is
\* the same if the memtable can be found before, and it or its sstable after.
LEMMA StageFound ==
  ASSUME NEW M, NEW m \in M, NEW q, Newest(q) = Newest(m), q.data = m.data, ~IsEmpty(m),
         NEW ld, NEW le, ld \subseteq le,
         \A s \in le \ ld : s.write = Newest(m),
         m.stage # "cleared",
         q.stage = "cleared" => Sstable(m) \in le
  PROVE  Found((M \ {m}) \union {q}, le) = Found(M, ld)
<1>1. Sstable(m).write = Newest(m)
  BY Zenon DEF Sstable, Written
<1>2. ~IsEmpty(q)
  BY Zenon DEF IsEmpty
<1> DEFINE N == (M \ {m}) \union {q}
<1>3. \A x : x \in Found(M, ld) <=> \/ \E s \in ld : x = s.write
                                    \/ \E y \in M : ~IsEmpty(y) /\ y.stage # "cleared" /\ x = Newest(y)
  BY Zenon DEF Found
<1>4. \A x : x \in Found(N, le) <=> \/ \E s \in le : x = s.write
                                    \/ \E y \in N : ~IsEmpty(y) /\ y.stage # "cleared" /\ x = Newest(y)
  BY Zenon DEF Found
<1>5. \A x : x \in Found(M, ld) => x \in Found(N, le)
  BY Zenon, <1>1, <1>2, <1>3, <1>4
<1>6. \A x : x \in Found(N, le) => x \in Found(M, ld)
  BY Zenon, <1>3, <1>4
<1> QED
  BY Zenon, <1>5, <1>6

\* The steps of a flush do not change what a read finds: the sstable is loaded
\* before the memtable is cleared, and holds its newest version.
LEMMA FlushFound ==
  ASSUME IndInv, NEW i \in DOMAIN memtables,
         WriteSstable(i) \/ FlushFails(i) \/ AddSstable(i) \/ ClearGently(i)
  PROVE  NewestRead' = NewestRead
<1> DEFINE M == Members(memtables)
           m == memtables[i]
<1>1. PICK to \in {"active", "sealed", "written", "added", "cleared"} :
        /\ memtables' = [memtables EXCEPT ![i] = [m EXCEPT !.stage = to]]
        /\ m.stage # "active" /\ m.stage # "cleared" /\ to # "active"
        /\ \/ to # "cleared" /\ loaded' = loaded
           \/ /\ to = "added" /\ m.stage = "written"
              /\ loaded' = loaded \union {s \in sstables : s.gen = m.gen}
           \/ to = "cleared" /\ m.stage = "added" /\ loaded' = loaded
  BY Zenon DEF WriteSstable, FlushFails, AddSstable, ClearGently, Stage
<1> DEFINE q == [m EXCEPT !.stage = to]
<1>2. /\ m \in M /\ m \in Memtable /\ Sane(m)
      /\ q.gen = m.gen /\ q.stage = to /\ Sstable(q) = Sstable(m)
  BY Zenon, StageFacts
<1>3. q \in Memtable /\ q.data = m.data
  <2> HIDE DEF m
  <2> QED
    BY Zenon, <1>2, StageShape
<1>4. Newest(q) = Newest(m)
  <2>1. Sstable(q).write = Newest(q) /\ Sstable(m).write = Newest(m)
    BY Zenon DEF Sstable, Written
  <2> QED
    BY Zenon, <1>2, <2>1
<1>5. Members(memtables') = (M \ {m}) \union {q}
  <2>1. (q.stage = "active") = (memtables[i].stage = "active")
    BY Zenon, <1>1, <1>2
  <2>2. List(memtables) /\ q.gen = memtables[i].gen
    BY Zenon, <1>2 DEF IndInv, Types
  <2> HIDE DEF q
  <2>3. Members([memtables EXCEPT ![i] = q]) =
          (Members(memtables) \ {memtables[i]}) \union {q}
    BY Zenon, <1>3, <2>1, <2>2, ReplaceShape
  <2> QED
    BY Zenon, <1>1, <2>3 DEF q
<1>6. ~IsEmpty(m)
  BY Zenon, <1>1, <1>2 DEF Sane
<1>7. Flushed(M, sstables, loaded)
  BY Zenon DEF IndInv
<1> HIDE DEF M, m, q
<1>8. \A s \in loaded' \ loaded : s.write = Newest(m)
  <2>1. \A s \in loaded' \ loaded : m.stage = "written" /\ s \in sstables /\ s.gen = m.gen
    BY Zenon, <1>1
  <2>2. \A s \in loaded' \ loaded : s = Sstable(m)
    BY Zenon, <1>2, <1>7, <2>1 DEF Flushed
  <2> QED
    BY <2>2 DEF Sstable, Written
<1>9. q.stage = "cleared" => Sstable(m) \in loaded'
  BY Zenon, <1>1, <1>2, <1>7 DEF Flushed
<1>10. loaded \subseteq loaded' /\ m.stage # "cleared"
  BY Zenon, <1>1
<1>11. Found((M \ {m}) \union {q}, loaded') = Found(M, loaded)
  BY <1>2, <1>3, <1>4, <1>6, <1>8, <1>9, <1>10, StageFound
<1> QED
  BY Zenon, <1>5, <1>11, FoundIsRead DEF M

\* The other steps that are not writes, while the node is up.
LEMMA OtherFound ==
  ASSUME IndInv, phase = "up", phase' = "up", acked' = acked, Next,
         ~\E i \in DOMAIN memtables :
             WriteSstable(i) \/ FlushFails(i) \/ AddSstable(i) \/ ClearGently(i)
  PROVE  NewestRead' = NewestRead
<1> DEFINE M == Members(memtables)
<1>1. CASE memtables' = memtables /\ loaded' = loaded
  BY Zenon, <1>1, FoundIsRead
<1>2. ASSUME NEW w \in inflight, ApplyInMemory(w) PROVE FALSE
  <2>1. w \in acked /\ home[w] = 0
    BY Zenon, <1>2 DEF ApplyInMemory, IndInv, Held
  <2> QED
    BY Zenon, <2>1 DEF IndInv, Types
<1>3. ASSUME NEW vtr \in ReadVersions, Read(vtr) PROVE NewestRead' = NewestRead
  <2>1. /\ \A q \in Members(memtables') : \E m \in M : Alike(m, q)
        /\ \A m \in M : \E q \in Members(memtables') : Alike(m, q)
        /\ loaded' = loaded
    <3>1. vtr \in Nat /\ List(memtables) /\ \A m \in M : Sane(m)
      BY Zenon, ColumnFamilyAssumption DEF IndInv, Types
    <3> QED
      BY Zenon, <1>3, <3>1, ReadShape DEF Read
  <2> HIDE DEF M
  <2> DEFINE N == Members(memtables')
  <2> HIDE DEF N
  <2>2. /\ \A q \in N : \E m \in M : Newest(q) = Newest(m) /\ q.data = m.data /\ q.stage = m.stage
        /\ \A m \in M : \E q \in N : Newest(q) = Newest(m) /\ q.data = m.data /\ q.stage = m.stage
    BY Zenon, <2>1 DEF Alike, N
  <2>3. Found(N, loaded) = Found(M, loaded)
    <3>1. \A x : x \in Found(M, loaded) => x \in Found(N, loaded)
      BY <2>2 DEF Found, IsEmpty
    <3>2. \A x : x \in Found(N, loaded) => x \in Found(M, loaded)
      BY <2>2 DEF Found, IsEmpty
    <3> QED
      BY Zenon, <3>1, <3>2
  <2> QED
    BY Zenon, <2>1, <2>3, FoundIsRead DEF M, N
<1>4. CASE SealActive
  <2> DEFINE a == memtables[Len(memtables)]
             q == [a EXCEPT !.stage = "sealed"]
             f == Fresh(a.gen + 1)
  <2>1. /\ ~IsEmpty(a) /\ loaded' = loaded
        /\ memtables' = Append([memtables EXCEPT ![Len(memtables)].stage = "sealed"], f)
    BY Zenon, <1>4 DEF SealActive, Active
  <2>2. List(memtables) /\ a \in M /\ a \in Memtable /\ a.stage = "active"
    BY Zenon, ListShape DEF IndInv, Types
  <2>3. q.entry = a.entry /\ q.data = a.data /\ q.stage = "sealed"
    <3> HIDE DEF a
    <3> QED
      BY Zenon, <2>2, StageShape
  <2>4. f \in Memtable /\ f.gen = a.gen + 1 /\ f.stage = "active" /\ IsEmpty(f)
    <3>1. a.gen + 1 \in Nat \ {0}
      BY <2>2, MemtableFields
    <3> HIDE DEF a
    <3> QED
      BY Zenon, <3>1, FreshShape
  <2> HIDE DEF f
  <2>5. Members(memtables') = (M \ {a}) \union {q, f}
    BY Zenon, <2>1, <2>2, <2>4, SealShape
  <2> HIDE DEF a, q, M
  <2>6. Newest(q) = Newest(a) /\ ~IsEmpty(q)
    BY Zenon, <2>1, <2>3 DEF Newest, IsEmpty
  <2>7. Found((M \ {a}) \union {q, f}, loaded) = Found(M, loaded)
    <3>1. \A x : x \in Found(M, loaded) => x \in Found((M \ {a}) \union {q, f}, loaded)
      BY Zenon, <2>3, <2>6 DEF Found
    <3>2. \A x : x \in Found((M \ {a}) \union {q, f}, loaded) => x \in Found(M, loaded)
      BY Zenon, <2>1, <2>2, <2>3, <2>4, <2>6 DEF Found
    <3> QED
      BY Zenon, <3>1, <3>2
  <2> QED
    BY Zenon, <2>1, <2>5, <2>7, FoundIsRead DEF M
<1>5. ASSUME NEW i \in DOMAIN memtables, Retire(i) PROVE NewestRead' = NewestRead
  <2> DEFINE m == memtables[i]
  <2>1. m.stage = "cleared" /\ memtables' = Unlink(memtables, i) /\ loaded' = loaded
    BY Zenon, <1>5 DEF Retire
  <2>2. Members(memtables') = M \ {m}
    BY Zenon, <2>1, RemoveShape DEF IndInv, Types
  <2> HIDE DEF m, M
  <2>3. Found(M \ {m}, loaded) = Found(M, loaded)
    BY Zenon, <2>1 DEF Found
  <2> QED
    BY Zenon, <2>1, <2>2, <2>3, FoundIsRead DEF M
<1>6. \/ memtables' = memtables /\ loaded' = loaded
      \/ \E w \in inflight : ApplyInMemory(w)
      \/ \E vtr \in ReadVersions : Read(vtr)
      \/ SealActive
      \/ \E i \in DOMAIN memtables : Retire(i)
  BY Zenon DEF Next, AddEntry, Sync, ApplyTimesOut, Crash, Replay, Drain, StartServing
<1> QED
  BY Zenon, <1>1, <1>2, <1>3, <1>4, <1>5, <1>6

\* Only a write changes what a read without a version finds: a memtable that is
\* being flushed cannot be told from its sstable.
THEOREM FlushStaysInvisible == Spec => FlushIsInvisible
<1>1. IndInv /\ [Next]_vars =>
        [phase = "up" /\ phase' = "up" /\ acked' = acked => NewestRead' = NewestRead]_vars
  <2> SUFFICES ASSUME IndInv, Next, phase = "up", phase' = "up", acked' = acked
               PROVE  NewestRead' = NewestRead
    BY Zenon
  <2> QED
    BY Zenon, FlushFound, OtherFound
<1> QED
  BY <1>1, IndInvHolds, PTL DEF Spec, FlushIsInvisible
=============================================================================
