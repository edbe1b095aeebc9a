----------------------------- MODULE PortProofs -----------------------------
(***************************************************************************)
(* The protocol of Port, proved for every set of clients, keys and key     *)
(* sets, every number of operations and retries, and any reuse of the dead *)
(* stack slot, unless a theorem says otherwise.                            *)
(***************************************************************************)
EXTENDS Port, VersionListProofs

-----------------------------------------------------------------------------
(* The inductive invariant.                                                *)

Answers == UNION {[D -> Nat] : D \in SUBSET Keys}

Operation == [kind : {"rot", "write"}, try : 1 .. MaxTries, keys : SUBSET Keys,
              ver : Nat \ {0}, got : Answers]

Request == [kind : {"rot", "write"}, client : Clients, op : 1 .. MaxOps,
            try : 1 .. MaxTries, key : Keys, ver : Nat \ {0}]

WriteOf(m) == [client |-> m.client, op |-> m.op]

Types ==
    /\ clock \in [Clients -> Nat \ {0}]
    /\ view \in [Clients -> [Buckets -> Nat]]
    /\ op \in [Clients -> {Idle} \union Operation]
    /\ ops \in [Clients -> 0 .. MaxOps]
    /\ requests \subseteq Request
    /\ floor \in [Clients -> [Keys -> Nat]]

\* A chain that holds version 1, and the writes stored at its versions.
Chain(e, d) ==
    /\ WellFormed(e)
    /\ 1 \in Linked(e)
    /\ d \in [Linked(e) \ {0} -> Writes]

Stored ==
    /\ entry = [k \in Keys |-> entry[k]]
    /\ data = [k \in Keys |-> data[k]]
    /\ \A k \in Keys : Chain(entry[k], data[k])

\* What a client waits for was sent at its clock, and what is in flight for it
\* is of this operation's tries, or of an earlier operation.
InFlight ==
    /\ \A c \in Clients : op[c] # Idle =>
         /\ ops[c] > 0
         /\ op[c].keys # {}
         /\ op[c].ver = IF op[c].kind = "rot" THEN clock[c] ELSE clock[c] + 1
         /\ DOMAIN op[c].got \subseteq op[c].keys
    /\ \A m \in requests :
         /\ m.op <= ops[m.client]
         /\ m.op = ops[m.client] /\ op[m.client] # Idle =>
              /\ m.kind = op[m.client].kind
              /\ m.ver = op[m.client].ver
              /\ m.key \in op[m.client].keys
              /\ m.try <= op[m.client].try
    /\ \A m, q \in requests : WriteOf(m) = WriteOf(q) => m.ver = q.ver

\* n is what a key has at version v, now and for ever: it was read there.
Closed(e, d, v, n) ==
    /\ n \in DOMAIN d
    /\ n <= v
    /\ v <= e.highest_version_read
    /\ \A i \in DOMAIN d : i <= v => i <= n

ReadsAreClosed ==
    /\ \A c \in Clients : op[c] # Idle /\ op[c].kind = "rot" =>
         \A k \in DOMAIN op[c].got : Closed(entry[k], data[k], op[c].ver, op[c].got[k])
    /\ \A t \in rots : t.ver \in Nat /\ \A k \in DOMAIN t.res :
         k \in Keys /\ Closed(entry[k], data[k], t.ver, t.res[k])

\* What clients know of are versions that were committed.
KnownIsStored ==
    /\ \A c \in Clients : op[c] # Idle =>
         \A k \in DOMAIN op[c].got : op[c].got[k] \in DOMAIN data[k]
    /\ \A c \in Clients, k \in Keys : floor[c][k] \in DOMAIN data[k]

\* All tries of a write propose one version, and where one of them took effect
\* the key is at or above it, so that the others are dropped.
WritesAreOnce ==
    /\ AppliedAtMostOnce
    /\ \A k \in Keys : \A n \in DOMAIN data[k] : \A c \in Clients :
         data[k][n].client = c =>
           /\ data[k][n].op <= ops[c]
           /\ data[k][n].op = ops[c] /\ op[c] # Idle => op[c].ver <= n
    /\ \A m \in requests : m.kind = "write" =>
         \A n \in DOMAIN data[m.key] : data[m.key][n] = WriteOf(m) => m.ver <= n

\* A read reports no version above the one it was sent with, the clock, so the
\* view that reads build is never ahead of it (ReadsReportTheNewest fails).
ViewIsBehind == \A c \in Clients : \A b \in Buckets : view[c][b] <= clock[c]

IndInv ==
    /\ Types
    /\ Stored
    /\ InFlight
    /\ ViewIsBehind
    /\ ReadsAreClosed
    /\ KnownIsStored
    /\ WritesAreOnce

\* As long as no version has reached the cap of the client's clock, the clock
\* covers all its client knows of, and a write is above all its client knew.
BelowCap == \A k \in Keys : entry[k].highest_version_written < VersionCap

Covers(v, known) == \A q \in Keys : known[q] <= v

Known ==
    /\ deps \in [DOMAIN deps -> [Keys -> Nat]]
    /\ \A w \in DOMAIN deps : \A q \in Keys : deps[w][q] = 0 \/ deps[w][q] \in DOMAIN data[q]
    /\ \A k \in Keys : \A n \in DOMAIN data[k] : data[k][n] \in DOMAIN deps
    /\ \A m \in requests : m.kind = "write" => WriteOf(m) \in DOMAIN deps
    /\ \A c \in Clients : op[c] # Idle /\ op[c].kind = "write" =>
         [client |-> c, op |-> ops[c]] \in DOMAIN deps

Covered ==
    /\ ClockCoversCommits
    /\ \A k \in Keys : \A n \in DOMAIN data[k] : Covers(n, deps[data[k][n]])
    /\ \A m \in requests : m.kind = "write" => Covers(m.ver, deps[WriteOf(m)])
    /\ \A c \in Clients : op[c] # Idle /\ op[c].kind = "write" =>
         Covers(op[c].ver, deps[[client |-> c, op |-> ops[c]]])

CausalInv == Known /\ (BelowCap => Covered)

-----------------------------------------------------------------------------
(* The operators of the model.                                             *)

\* get_version_to_read() returns the clock when the view is not ahead of it.
LEMMA VersionToReadIsClock ==
  ASSUME NEW current \in Nat, NEW v \in [Buckets -> Nat],
         \A b \in Buckets : v[b] <= current,
         NEW ks, ks \subseteq Keys, ks # {}
  PROVE  VersionToRead(current, v, ks) = current
<1>1. CASE \E k \in ks : v[Bucket[k]] = 0
  BY Zenon, <1>1 DEF VersionToRead
<1>2. CASE ~\E k \in ks : v[Bucket[k]] = 0
  <2> DEFINE seen == {v[Bucket[k]] : k \in ks}
             low == CHOOSE n \in seen : \A u \in seen : n <= u
  <2>1. \A k \in ks : Bucket[k] \in Buckets
    BY Zenon DEF Buckets
  <2>2. seen \subseteq Nat /\ seen # {} /\ \A u \in seen : u <= current
    BY Zenon, <2>1
  <2>3. low \in seen
    BY Zenon, <2>2, SmallestExists
  <2>4. VersionToRead(current, v, ks) = SetCurrent(current, low)
    BY Zenon, <1>2 DEF VersionToRead
  <2> HIDE DEF low
  <2>5. low \in Nat /\ low <= current
    BY Zenon, <2>2, <2>3
  <2> QED
    BY <2>4, <2>5 DEF SetCurrent
<1> QED
  BY Zenon, <1>1, <1>2

\* update_view() keeps the view within a bound of the view and the answers.
LEMMA UpdateViewBounded ==
  ASSUME NEW v \in [Buckets -> Nat], NEW D, NEW g \in [D -> Nat], NEW b \in Nat,
         \A x \in Buckets : v[x] <= b,
         \A k \in D : g[k] <= b
  PROVE  /\ UpdateView(v, g) \in [Buckets -> Nat]
         /\ \A x \in Buckets : UpdateView(v, g)[x] <= b
<1>1. ASSUME NEW x \in Buckets
      PROVE  UpdateView(v, g)[x] \in Nat /\ UpdateView(v, g)[x] <= b
  <2> DEFINE seen == {v[x]} \union {g[k] : k \in {q \in DOMAIN g : Bucket[q] = x}}
             top == CHOOSE n \in seen : \A u \in seen : u <= n
  <2>1. seen \subseteq Nat /\ seen # {} /\ \A u \in seen : u <= b
    BY Zenon
  <2>2. top \in seen
    BY Zenon, <2>1, LargestExists
  <2>3. UpdateView(v, g)[x] = top
    BY Zenon DEF UpdateView
  <2> HIDE DEF top, seen
  <2> QED
    BY Zenon, <2>1, <2>2, <2>3
<1>2. UpdateView(v, g) = [x \in Buckets |-> UpdateView(v, g)[x]]
  BY DEF UpdateView
<1> QED
  BY Zenon, <1>1, <1>2

\* The answers a client has, and one more.
LEMMA AnswersGrow ==
  ASSUME NEW g \in Answers, NEW k \in Keys, NEW v \in Nat
  PROVE  WithAnswer(g, k, v) \in Answers
<1>1. PICK D \in SUBSET Keys : g \in [D -> Nat]
  BY Zenon DEF Answers
<1>2. WithAnswer(g, k, v) \in [D \union {k} -> Nat]
  BY Zenon, <1>1 DEF WithAnswer
<1> QED
  BY Zenon, <1>2 DEF Answers

\* A client's answers are numbers for keys; before the first one there are none.
LEMMA AnswersShape ==
  /\ <<>> \in Answers /\ DOMAIN <<>> = {}
  /\ \A g \in Answers : g \in [DOMAIN g -> Nat] /\ DOMAIN g \subseteq Keys
<1>1. <<>> \in [{} -> Nat]
  OBVIOUS
<1>2. {} \in SUBSET Keys
  BY Zenon
<1> QED
  BY Zenon, <1>1, <1>2 DEF Answers

-----------------------------------------------------------------------------
(* One key: its chain and the writes stored on it.                         *)

\* A later state of a chain: what was there stays, and what is new is above all
\* that was read and written.
Grows(e, d, f, g) ==
    /\ e.highest_version_read <= f.highest_version_read
    /\ e.highest_version_written <= f.highest_version_written
    /\ \A n \in DOMAIN d : n \in DOMAIN g /\ g[n] = d[n]
    /\ \A n \in DOMAIN g : n \notin DOMAIN d =>
          n > e.highest_version_read /\ n > e.highest_version_written

\* The versions of a chain are positive, and highest_version_written is the
\* largest of them.
LEMMA ChainVersions ==
  ASSUME NEW e, NEW d, Chain(e, d)
  PROVE  /\ e.highest_version_read \in Nat /\ e.highest_version_written \in Nat
         /\ \A n \in DOMAIN d : n \in Nat \ {0} /\ n <= e.highest_version_written
         /\ 1 \in DOMAIN d /\ e.highest_version_written \in DOMAIN d
<1> DEFINE s == e.versions
           m == Len(s)
<1>1. /\ s \in Seq(Nat) /\ DOMAIN s = 1 .. m /\ m \in Nat
      /\ s[1] = e.highest_version_written /\ Linked(e) = {s[i] : i \in 1 .. m}
      /\ e.highest_version_read \in Nat /\ e.highest_version_written \in Nat
      /\ DOMAIN d = Linked(e) \ {0} /\ 1 \in Linked(e)
  BY DEF Chain, WellFormed, Entry, Linked
<1>2. \A i, j \in 1 .. m : i < j => s[i] > s[j]
  BY Zenon, <1>1 DEF Chain, WellFormed, Descending
<1> HIDE DEF s, m
<1>3. \A i \in 1 .. m : s[i] \in Nat /\ s[i] <= s[1] /\ 1 \in 1 .. m
  BY <1>1, <1>2
<1>4. \A n \in Linked(e) : n \in Nat /\ n <= e.highest_version_written
  BY Zenon, <1>1, <1>3
<1>5. e.highest_version_written >= 1 /\ e.highest_version_written \in Linked(e)
  BY Zenon, <1>1, <1>3, <1>4
<1> QED
  BY <1>1, <1>4, <1>5

\* read() at a version finds the newest write at or below it, and closes the
\* past of that version.
LEMMA ChainRead ==
  ASSUME NEW e, NEW d, Chain(e, d), NEW v \in Nat \ {0}
  PROVE  /\ Chain(AfterRead(e, v), d)
         /\ Grows(e, d, AfterRead(e, v), d)
         /\ Closed(AfterRead(e, v), d, v, VersionRead(e.versions, v))
<1> DEFINE f == AfterRead(e, v)
           S == {y \in DOMAIN d : y <= v}
<1>1. e \in Entry /\ WellFormed(e) /\ DOMAIN d = Linked(e) \ {0}
  BY Zenon DEF Chain, WellFormed
<1>2. /\ f \in Entry
      /\ f.versions = e.versions
      /\ f.highest_version_written = e.highest_version_written
      /\ f.num_versions = e.num_versions
      /\ f.last_version = e.last_version
      /\ f.highest_version_read \in Nat
      /\ f.highest_version_read >= e.highest_version_read
      /\ f.highest_version_read >= v
  BY <1>1 DEF AfterRead, Entry
<1>3. Linked(f) = Linked(e) /\ WellFormed(f)
  BY Zenon, <1>1, <1>2 DEF WellFormed, LastIsOldest, Linked
<1>4. Chain(f, d)
  BY Zenon, <1>3 DEF Chain
<1>5. Grows(e, d, f, d)
  BY <1>1, <1>2 DEF Grows, Entry
<1>6. S \subseteq Nat /\ 1 \in S /\ \A y \in S : y <= v
  BY ChainVersions
<1>7. PICK n \in S : \A y \in S : y <= n
  BY Zenon, <1>6, LargestExists
<1>8. n \in Nat /\ n # 0 /\ n <= v /\ n \in Linked(e) /\ n \in DOMAIN d
  BY Zenon, <1>1, <1>6, <1>7
<1>9. \A y \in Linked(e) : ~(n < y /\ y <= v)
  <2>1. \A y \in Linked(e) : y \in Nat
    BY Zenon, <1>1, LinkedAreNumbers
  <2> QED
    BY <1>1, <1>7, <1>8, <2>1
<1>10. VersionRead(e.versions, v) = n
  BY Zenon, <1>1, <1>8, <1>9, NewestBelowIsRead
<1>11. Closed(f, d, v, n)
  BY Zenon, <1>2, <1>7, <1>8 DEF Closed
<1> QED
  BY Zenon, <1>4, <1>5, <1>10, <1>11

\* A versioned write that apply() does not drop is stored above all that was
\* read and written, and not below the version it proposes.
LEMMA ChainWrite ==
  ASSUME NEW e, NEW d, Chain(e, d), NEW v \in Nat \ {0}, ~Dropped(e, v), NEW w \in Writes
  PROVE  LET n == Promoted(e, v)
             g == [i \in DOMAIN d \union {n} |-> IF i = n THEN w ELSE d[i]]
         IN  /\ n \in Nat /\ n >= v /\ n > e.highest_version_read
             /\ n > e.highest_version_written
             /\ n \notin DOMAIN d /\ n \in DOMAIN g
             /\ Inserted(e, v).highest_version_written = n
             /\ Inserted(e, v).highest_version_read = e.highest_version_read
             /\ Chain(Inserted(e, v), g)
             /\ Grows(e, d, Inserted(e, v), g)
<1> DEFINE n == Promoted(e, v)
           g == [i \in DOMAIN d \union {n} |-> IF i = n THEN w ELSE d[i]]
           f == Inserted(e, v)
<1>1. WellFormed(e) /\ e \in Entry /\ d \in [Linked(e) \ {0} -> Writes] /\ 1 \in Linked(e)
  BY Zenon DEF Chain, WellFormed
<1>2. /\ n \in Nat /\ n >= v /\ n > e.highest_version_read
      /\ n > e.highest_version_written
      /\ e.highest_version_read \in Nat /\ e.highest_version_written \in Nat
  BY <1>1 DEF Promoted, Dropped, Entry
<1>3. /\ WellFormed(f)
      /\ Linked(f) = Linked(e) \union {n}
      /\ f.highest_version_read = e.highest_version_read
      /\ f.highest_version_written = n
  BY Zenon, <1>1, InsertedWellFormed
<1> HIDE DEF n, f
<1>4. n \notin DOMAIN d
  BY <1>2, ChainVersions
<1>5. n # 0
  BY <1>2
<1>6. g \in [Linked(f) \ {0} -> Writes]
  BY Zenon, <1>1, <1>3, <1>5
<1>7. Chain(f, g)
  BY Zenon, <1>1, <1>3, <1>6 DEF Chain
<1>8. DOMAIN g = DOMAIN d \union {n} /\ \A i \in DOMAIN d : g[i] = d[i]
  BY Zenon, <1>4
<1> HIDE DEF g
<1>9. Grows(e, d, f, g)
  BY <1>2, <1>3, <1>8 DEF Grows
<1>10. /\ n \in Nat /\ n >= v /\ n > e.highest_version_read
       /\ n > e.highest_version_written
       /\ n \notin DOMAIN d /\ n \in DOMAIN g
       /\ f.highest_version_written = n
       /\ f.highest_version_read = e.highest_version_read
       /\ Chain(f, g)
       /\ Grows(e, d, f, g)
  BY Zenon, <1>2, <1>3, <1>4, <1>7, <1>8, <1>9
<1> QED
  BY Zenon, <1>10 DEF n, g, f

\* The past that a read has closed stays as it is.
LEMMA ClosedStays ==
  ASSUME NEW e, NEW d, Chain(e, d), NEW f, NEW g, Chain(f, g), Grows(e, d, f, g),
         NEW v \in Nat, NEW n, Closed(e, d, v, n)
  PROVE  Closed(f, g, v, n)
<1>1. /\ e.highest_version_read \in Nat /\ f.highest_version_read \in Nat
      /\ \A i \in DOMAIN d : i \in Nat
      /\ \A i \in DOMAIN g : i \in Nat
  BY Zenon, ChainVersions
<1>2. v <= e.highest_version_read /\ n \in DOMAIN d /\ n <= v
  BY Zenon DEF Closed
<1>3. \A i \in DOMAIN g : i <= v => i <= n
  BY <1>1, <1>2 DEF Closed, Grows
<1> QED
  BY <1>1, <1>2, <1>3 DEF Closed, Grows

-----------------------------------------------------------------------------
(* The steps.                                                              *)

\* After the load phase the invariant holds.
LEMMA InitIndInv == Init => IndInv
<1>1. SUFFICES ASSUME Init PROVE IndInv
  BY Zenon
<1> DEFINE e == Inserted(NewEntry, 1)
           d == [n \in {1} |-> LoadWrite]
<1>2. VersionToWrite(InitialVersion, TRUE) = 1
  BY DEF VersionToWrite
<1>3. ~Dropped(NewEntry, 1) /\ Promoted(NewEntry, 1) = 1 /\ Linked(NewEntry) = {0}
  BY DEF Dropped, Promoted, NewEntry, Linked
<1>4. WellFormed(e) /\ Linked(e) = {0, 1}
  BY <1>3, NewEntryWellFormed, InsertedWellFormed
<1>5. LoadWrite \in Writes
  BY PortAssumption DEF LoadWrite, Writes
<1>6. Chain(e, d)
  <2>1. Linked(e) \ {0} = {1}
    BY <1>4
  <2>2. d \in [{1} -> Writes]
    BY Zenon, <1>5
  <2> QED
    BY Zenon, <1>4, <2>1, <2>2 DEF Chain
<1>7. \A k \in Keys : entry[k] = e /\ data[k] = d
  BY Zenon, <1>1, <1>2 DEF Init
<1> HIDE DEF e
<1>8. Stored
  BY Zenon, <1>1, <1>6, <1>7 DEF Stored, Init
<1>9. Types
  BY <1>1, PortAssumption DEF Types, Init, InitialVersion, EmptyView
<1>10. InFlight
  BY Zenon, <1>1 DEF InFlight, Init
<1>11. ViewIsBehind
  BY <1>1 DEF ViewIsBehind, Init, EmptyView, InitialVersion
<1>12. ReadsAreClosed
  BY Zenon, <1>1 DEF ReadsAreClosed, Init
<1>13. KnownIsStored
  BY Zenon, <1>1 DEF KnownIsStored, Init
<1>14. WritesAreOnce
  BY <1>1, <1>7 DEF WritesAreOnce, AppliedAtMostOnce, Init, LoadWrite
<1> QED
  BY Zenon, <1>8, <1>9, <1>10, <1>11, <1>12, <1>13, <1>14 DEF IndInv

\* An answer adds at most its key to what one client waits for, and only if it
\* is an answer to that client's current operation.
LEMMA AnswerOp ==
  ASSUME Types, InFlight, NEW m \in requests, NEW v \in Nat, Answer(m, v)
  PROVE  /\ op' \in [Clients -> {Idle} \union Operation]
         /\ \A c \in Clients : (op'[c] = Idle) = (op[c] = Idle)
         /\ \A c \in Clients : op[c] # Idle =>
              /\ op'[c].kind = op[c].kind /\ op'[c].try = op[c].try
              /\ op'[c].keys = op[c].keys /\ op'[c].ver = op[c].ver
              /\ DOMAIN op'[c].got \subseteq op[c].keys
              /\ \A k \in DOMAIN op'[c].got :
                   \/ k \in DOMAIN op[c].got /\ op'[c].got[k] = op[c].got[k]
                   \/ /\ c = m.client /\ k = m.key /\ op'[c].got[k] = v
                      /\ m.kind = op[c].kind /\ m.ver = op[c].ver
<1> DEFINE c0 == m.client
           o == op[c0]
           now == o.kind = m.kind /\ ops[c0] = m.op /\ o.try = m.try
           g == WithAnswer(o.got, m.key, v)
<1>1. /\ m \in Request /\ c0 \in Clients /\ m.key \in Keys
      /\ op \in [Clients -> {Idle} \union Operation]
  BY Zenon DEF Types, Request
<1>2. op' = IF now THEN [op EXCEPT ![c0] = [o EXCEPT !.got = g]] ELSE op
  BY Zenon DEF Answer
<1>3. \A c \in Clients : c # c0 => op'[c] = op[c]
  BY Zenon, <1>1, <1>2
<1>4. now => op'[c0] = [o EXCEPT !.got = g]
  BY Zenon, <1>1, <1>2
<1>5. now => o # Idle
  BY <1>1 DEF Request, Idle
<1>6. \A c \in Clients : op[c] # Idle =>
         op[c] \in Operation /\ DOMAIN op[c].got \subseteq op[c].keys
  BY Zenon, <1>1 DEF InFlight
<1>7. CASE ~now
  <2>1. op' = op
    BY Zenon, <1>1, <1>2, <1>7
  <2> QED
    BY Zenon, <1>1, <1>6, <2>1
<1>8. CASE now
  <2>1. /\ o \in Operation /\ o # Idle /\ o.got \in Answers
        /\ m.kind = o.kind /\ m.ver = o.ver /\ m.key \in o.keys
    BY Zenon, <1>1, <1>5, <1>6, <1>8 DEF InFlight, Operation
  <2>2. g \in Answers
    BY Zenon, <1>1, <2>1, AnswersGrow
  <2>3. DOMAIN g = DOMAIN o.got \union {m.key}
        /\ \A k \in DOMAIN g : IF k = m.key THEN g[k] = v
                               ELSE k \in DOMAIN o.got /\ g[k] = o.got[k]
    BY Zenon DEF WithAnswer
  <2>4. op'[c0] = [o EXCEPT !.got = g]
    BY Zenon, <1>4, <1>8
  <2> HIDE DEF g, o, now, c0
  <2>5. /\ op'[c0] \in Operation
        /\ op'[c0].kind = o.kind /\ op'[c0].try = o.try
        /\ op'[c0].keys = o.keys /\ op'[c0].ver = o.ver
        /\ op'[c0].got = g
    BY Zenon, <2>1, <2>2, <2>4 DEF Operation
  <2>6. op'[c0] # Idle
    BY <2>5 DEF Operation, Idle
  <2>7. op' \in [Clients -> {Idle} \union Operation]
    <3>1. op' = [c \in Clients |-> op'[c]]
      BY Zenon, <1>1, <1>2 DEF c0
    <3> QED
      BY Zenon, <1>1, <1>3, <2>5, <3>1
  <2>8. DOMAIN g \subseteq o.keys
    BY Zenon, <1>1, <1>6, <2>1, <2>3 DEF o
  <2>9. ASSUME NEW c \in Clients
        PROVE  (op'[c] = Idle) = (op[c] = Idle)
    BY Zenon, <1>3, <2>1, <2>6 DEF o
  <2>10. ASSUME NEW c \in Clients, op[c] # Idle, c # c0
         PROVE  /\ op'[c].kind = op[c].kind /\ op'[c].try = op[c].try
                /\ op'[c].keys = op[c].keys /\ op'[c].ver = op[c].ver
                /\ DOMAIN op'[c].got \subseteq op[c].keys
                /\ \A k \in DOMAIN op'[c].got :
                     k \in DOMAIN op[c].got /\ op'[c].got[k] = op[c].got[k]
    BY Zenon, <1>3, <1>6, <2>10
  <2>11. /\ op'[c0].kind = op[c0].kind /\ op'[c0].try = op[c0].try
         /\ op'[c0].keys = op[c0].keys /\ op'[c0].ver = op[c0].ver
         /\ DOMAIN op'[c0].got \subseteq op[c0].keys
         /\ \A k \in DOMAIN op'[c0].got :
              \/ k \in DOMAIN op[c0].got /\ op'[c0].got[k] = op[c0].got[k]
              \/ /\ k = m.key /\ op'[c0].got[k] = v
                 /\ m.kind = op[c0].kind /\ m.ver = op[c0].ver
    BY Zenon, <2>1, <2>3, <2>5, <2>8 DEF o
  <2> QED
    BY <2>7, <2>9, <2>10, <2>11 DEF c0
<1> QED
  BY Zenon, <1>7, <1>8

\* What a replica does to its key when it handles a request: the chain grows, and
\* the answer is a version on it; the answer to a read closes the past of the
\* version that was read at.
Handled(m, v) ==
    /\ m \in requests
    /\ requests' = requests \ {m}
    /\ Answer(m, v)
    /\ UNCHANGED <<clock, view, ops, rots, floor, deps>>
    /\ Stored'
    /\ \A k \in Keys : Grows(entry[k], data[k], entry'[k], data'[k])
    /\ v \in Nat
    /\ v \in DOMAIN data'[m.key]
    /\ m.kind = "rot" => Closed(entry'[m.key], data'[m.key], m.ver, v)

\* read() at a replica, for the protocol.
LEMMA HandleReadHandled ==
  ASSUME IndInv, NEW m \in requests, HandleRead(m)
  PROVE  /\ Handled(m, VersionRead(entry[m.key].versions, m.ver))
         /\ data' = data
<1> DEFINE x == m.key
           v == VersionRead(entry[x].versions, m.ver)
           f == AfterRead(entry[x], m.ver)
<1>1. m \in Request /\ x \in Keys /\ m.ver \in Nat \ {0}
  BY Zenon DEF IndInv, Types, Request
<1>2. /\ entry = [k \in Keys |-> entry[k]] /\ data = [k \in Keys |-> data[k]]
      /\ \A k \in Keys : Chain(entry[k], data[k])
  BY Zenon DEF IndInv, Stored
<1>3. /\ Chain(f, data[x])
      /\ Grows(entry[x], data[x], f, data[x])
      /\ Closed(f, data[x], m.ver, v)
  BY Zenon, <1>1, <1>2, ChainRead
<1>4. /\ requests' = requests \ {m} /\ Answer(m, v)
      /\ entry' = [entry EXCEPT ![x] = f]
      /\ UNCHANGED <<clock, view, ops, data, rots, floor, deps>>
  BY Zenon DEF HandleRead
<1>5. /\ entry'[x] = f /\ \A k \in Keys : k # x => entry'[k] = entry[k]
      /\ entry' = [k \in Keys |-> entry'[k]]
  BY Zenon, <1>1, <1>2, <1>4
<1> HIDE DEF f, v, x
<1>6. Stored'
  BY Zenon, <1>2, <1>3, <1>4, <1>5 DEF Stored
<1>7. v \in DOMAIN data'[x] /\ v \in Nat
  BY Zenon, <1>1, <1>2, <1>3, <1>4, ChainVersions DEF Closed
<1>8. ASSUME NEW k \in Keys
      PROVE  Grows(entry[k], data[k], entry'[k], data'[k])
  <2>1. CASE k = x
    BY Zenon, <1>3, <1>4, <1>5, <2>1
  <2>2. CASE k # x
    BY <1>2, <1>4, <1>5, <2>2, ChainVersions DEF Grows
  <2> QED
    BY Zenon, <2>1, <2>2
<1>9. Closed(entry'[x], data'[x], m.ver, v)
  BY Zenon, <1>3, <1>4, <1>5
<1> QED
  BY Zenon, <1>4, <1>6, <1>7, <1>8, <1>9 DEF Handled, v, x

\* apply() at a replica, for the protocol: dropped, or stored once.
LEMMA HandleWriteHandled ==
  ASSUME IndInv, NEW m \in requests, HandleWrite(m)
  PROVE  /\ Handled(m, CommitVersion(entry[m.key], m.ver))
         /\ m.kind = "write"
         /\ \/ entry' = entry /\ data' = data
            \/ LET n == Promoted(entry[m.key], m.ver)
               IN  /\ ~Dropped(entry[m.key], m.ver)
                   /\ n \in Nat /\ n >= m.ver
                   /\ n > entry[m.key].highest_version_read
                   /\ n > entry[m.key].highest_version_written
                   /\ n \notin DOMAIN data[m.key]
                   /\ entry'[m.key].highest_version_read = entry[m.key].highest_version_read
                   /\ \A k \in Keys : k # m.key => entry'[k] = entry[k]
                   /\ data' = [data EXCEPT ![m.key] =
                                 [i \in DOMAIN data[m.key] \union {n} |->
                                    IF i = n THEN WriteOf(m) ELSE data[m.key][i]]]
<1> DEFINE x == m.key
           e == entry[x]
           d == data[x]
           w == WriteOf(m)
           n == Promoted(e, m.ver)
           g == [i \in DOMAIN d \union {n} |-> IF i = n THEN w ELSE d[i]]
<1>1. m \in Request /\ x \in Keys /\ m.ver \in Nat \ {0}
  BY Zenon DEF IndInv, Types, Request
<1>2. w \in Writes
  BY <1>1, PortAssumption DEF Request, Writes, WriteOf
<1>3. /\ entry = [k \in Keys |-> entry[k]] /\ data = [k \in Keys |-> data[k]]
      /\ \A k \in Keys : Chain(entry[k], data[k])
  BY Zenon DEF IndInv, Stored
<1>4. /\ requests' = requests \ {m} /\ m.kind = "write"
      /\ Answer(m, CommitVersion(e, m.ver))
      /\ UNCHANGED <<clock, view, ops, rots, floor, deps>>
  BY Zenon DEF HandleWrite
<1>5. CASE Dropped(e, m.ver)
  <2>1. entry' = entry /\ data' = data
    BY Zenon, <1>5 DEF HandleWrite
  <2>2. CommitVersion(e, m.ver) = e.highest_version_written
    BY Zenon, <1>5 DEF CommitVersion
  <2>3. e.highest_version_written \in Nat /\ e.highest_version_written \in DOMAIN data'[x]
    BY Zenon, <1>1, <1>3, <2>1, ChainVersions
  <2>4. \A k \in Keys : Grows(entry[k], data[k], entry'[k], data'[k])
    BY <1>3, <2>1, ChainVersions DEF Grows
  <2>5. Stored'
    BY Zenon, <1>3, <2>1 DEF Stored
  <2> QED
    BY Zenon, <1>4, <2>1, <2>2, <2>3, <2>4, <2>5 DEF Handled
<1>6. CASE ~Dropped(e, m.ver)
  <2>1. entry' = [entry EXCEPT ![x] = Inserted(e, m.ver)] /\ data' = [data EXCEPT ![x] = g]
    BY Zenon, <1>6 DEF HandleWrite, WriteOf
  <2>2. CommitVersion(e, m.ver) = n
    BY Zenon, <1>6 DEF CommitVersion
  <2>3. /\ n \in Nat /\ n >= m.ver /\ n > e.highest_version_read
        /\ n > e.highest_version_written
        /\ n \notin DOMAIN d /\ n \in DOMAIN g
        /\ Inserted(e, m.ver).highest_version_read = e.highest_version_read
        /\ Chain(Inserted(e, m.ver), g)
        /\ Grows(e, d, Inserted(e, m.ver), g)
    <3>1. Chain(e, d) /\ m.ver \in Nat \ {0} /\ ~Dropped(e, m.ver) /\ w \in Writes
      BY Zenon, <1>1, <1>2, <1>3, <1>6
    <3> HIDE DEF e, d, w
    <3> QED
      BY <3>1, ChainWrite, SMTT(30)
  <2> HIDE DEF g, n
  <2>4. /\ entry'[x] = Inserted(e, m.ver) /\ data'[x] = g
        /\ \A k \in Keys : k # x => entry'[k] = entry[k] /\ data'[k] = data[k]
        /\ entry' = [k \in Keys |-> entry'[k]] /\ data' = [k \in Keys |-> data'[k]]
    BY Zenon, <1>1, <1>3, <2>1
  <2>5. Stored'
    BY Zenon, <1>3, <2>3, <2>4 DEF Stored
  <2>6. ASSUME NEW k \in Keys
        PROVE  Grows(entry[k], data[k], entry'[k], data'[k])
    <3>1. CASE k = x
      BY Zenon, <2>3, <2>4, <3>1
    <3>2. CASE k # x
      BY <1>3, <2>4, <3>2, ChainVersions DEF Grows
    <3> QED
      BY Zenon, <3>1, <3>2
  <2>7. n \in DOMAIN data'[x]
    BY Zenon, <2>3, <2>4
  <2>8. Handled(m, n)
    BY Zenon, <1>4, <2>2, <2>3, <2>5, <2>6, <2>7 DEF Handled
  <2> QED
    BY Zenon, <1>4, <1>6, <2>1, <2>2, <2>3, <2>4, <2>8 DEF g, n
<1> QED
  BY Zenon, <1>5, <1>6

\* Handling a request, a current one or one its client gave up on, keeps what
\* the clients rely on.
LEMMA HandledKeeps ==
  ASSUME IndInv, NEW m \in requests, NEW v, Handled(m, v)
  PROVE  /\ Types' /\ Stored' /\ InFlight' /\ ViewIsBehind'
         /\ ReadsAreClosed' /\ KnownIsStored'
         /\ \A c \in Clients : (op'[c] = Idle) = (op[c] = Idle)
         /\ \A c \in Clients : op[c] # Idle => op'[c].ver = op[c].ver /\ op'[c].kind = op[c].kind
<1>1. /\ Types /\ Stored /\ InFlight /\ ViewIsBehind
      /\ ReadsAreClosed /\ KnownIsStored
  BY Zenon DEF IndInv
<1>2. /\ requests' = requests \ {m} /\ Answer(m, v) /\ v \in Nat
      /\ UNCHANGED <<clock, view, ops, rots, floor>>
      /\ Stored'
      /\ \A k \in Keys : Grows(entry[k], data[k], entry'[k], data'[k])
      /\ v \in DOMAIN data'[m.key]
      /\ m.kind = "rot" => Closed(entry'[m.key], data'[m.key], m.ver, v)
  BY Zenon DEF Handled
<1>3. /\ op' \in [Clients -> {Idle} \union Operation]
      /\ \A c \in Clients : (op'[c] = Idle) = (op[c] = Idle)
      /\ \A c \in Clients : op[c] # Idle =>
           /\ op'[c].kind = op[c].kind /\ op'[c].try = op[c].try
           /\ op'[c].keys = op[c].keys /\ op'[c].ver = op[c].ver
           /\ DOMAIN op'[c].got \subseteq op[c].keys
           /\ \A k \in DOMAIN op'[c].got :
                \/ k \in DOMAIN op[c].got /\ op'[c].got[k] = op[c].got[k]
                \/ /\ c = m.client /\ k = m.key /\ op'[c].got[k] = v
                   /\ m.kind = op[c].kind /\ m.ver = op[c].ver
  BY Zenon, <1>1, <1>2, AnswerOp
<1>4. \A c \in Clients : op[c] # Idle =>
         /\ op[c].ver \in Nat /\ op[c].keys \subseteq Keys
         /\ DOMAIN op[c].got \subseteq Keys
  BY Zenon, <1>1 DEF Types, InFlight, Operation
<1>5. \A q \in requests : q.client \in Clients
  BY Zenon, <1>1 DEF Types, Request
<1>6. Types'
  BY Zenon, <1>1, <1>2, <1>3 DEF Types
<1>7. InFlight'
  <2>1. ASSUME NEW c \in Clients, op'[c] # Idle
        PROVE  /\ ops'[c] > 0
               /\ op'[c].keys # {}
               /\ op'[c].ver = IF op'[c].kind = "rot" THEN clock'[c] ELSE clock'[c] + 1
               /\ DOMAIN op'[c].got \subseteq op'[c].keys
    BY Zenon, <1>1, <1>2, <1>3, <2>1 DEF InFlight
  <2>2. ASSUME NEW q \in requests'
        PROVE  /\ q.op <= ops'[q.client]
               /\ q.op = ops'[q.client] /\ op'[q.client] # Idle =>
                    /\ q.kind = op'[q.client].kind
                    /\ q.ver = op'[q.client].ver
                    /\ q.key \in op'[q.client].keys
                    /\ q.try <= op'[q.client].try
    <3>1. q \in requests /\ q.client \in Clients /\ ops' = ops
      BY Zenon, <1>2, <1>5
    <3> QED
      BY <1>1, <1>3, <3>1 DEF InFlight
  <2>3. \A q, r \in requests' : WriteOf(q) = WriteOf(r) => q.ver = r.ver
    BY Zenon, <1>1, <1>2 DEF InFlight
  <2> QED
    BY Zenon, <2>1, <2>2, <2>3 DEF InFlight
<1>8. ViewIsBehind'
  BY Zenon, <1>1, <1>2 DEF ViewIsBehind
<1>9. ASSUME NEW k \in Keys, NEW u \in Nat, NEW n, Closed(entry[k], data[k], u, n)
      PROVE  Closed(entry'[k], data'[k], u, n)
  <2>1. /\ Chain(entry[k], data[k]) /\ Chain(entry'[k], data'[k])
        /\ Grows(entry[k], data[k], entry'[k], data'[k])
    BY Zenon, <1>1, <1>2 DEF Stored
  <2> QED
    BY Zenon, <1>9, <2>1, ClosedStays
<1>10. ReadsAreClosed'
  <2>1. ASSUME NEW c \in Clients, op'[c] # Idle, op'[c].kind = "rot",
               NEW k \in DOMAIN op'[c].got
        PROVE  Closed(entry'[k], data'[k], op'[c].ver, op'[c].got[k])
    <3>1. op[c] # Idle /\ op[c].kind = "rot" /\ op'[c].ver = op[c].ver /\ op[c].ver \in Nat
      BY Zenon, <1>3, <1>4, <2>1
    <3>2. CASE k \in DOMAIN op[c].got /\ op'[c].got[k] = op[c].got[k]
      <4>1. k \in Keys /\ Closed(entry[k], data[k], op[c].ver, op[c].got[k])
        BY Zenon, <1>1, <1>4, <3>1, <3>2 DEF ReadsAreClosed
      <4> QED
        BY Zenon, <1>9, <3>1, <3>2, <4>1
    <3>3. CASE /\ c = m.client /\ k = m.key /\ op'[c].got[k] = v
               /\ m.kind = op[c].kind /\ m.ver = op[c].ver
      BY Zenon, <1>2, <3>1, <3>3
    <3> QED
      BY Zenon, <1>3, <2>1, <3>1, <3>2, <3>3
  <2>2. ASSUME NEW t \in rots'
        PROVE  t.ver \in Nat /\ \A k \in DOMAIN t.res :
                 k \in Keys /\ Closed(entry'[k], data'[k], t.ver, t.res[k])
    <3>1. t.ver \in Nat /\ \A k \in DOMAIN t.res :
            k \in Keys /\ Closed(entry[k], data[k], t.ver, t.res[k])
      BY Zenon, <1>1, <1>2 DEF ReadsAreClosed
    <3> QED
      BY Zenon, <1>9, <3>1
  <2> QED
    BY Zenon, <2>1, <2>2 DEF ReadsAreClosed
<1>11. KnownIsStored'
  <2>1. \A k \in Keys : \A n \in DOMAIN data[k] : n \in DOMAIN data'[k]
    BY Zenon, <1>2 DEF Grows
  <2>2. ASSUME NEW c \in Clients, op'[c] # Idle, NEW k \in DOMAIN op'[c].got
        PROVE  op'[c].got[k] \in DOMAIN data'[k]
    <3>1. op[c] # Idle
      BY Zenon, <1>3, <2>2
    <3>2. CASE k \in DOMAIN op[c].got /\ op'[c].got[k] = op[c].got[k]
      BY Zenon, <1>1, <1>4, <2>1, <3>1, <3>2 DEF KnownIsStored
    <3>3. CASE k = m.key /\ op'[c].got[k] = v
      BY Zenon, <1>2, <3>3
    <3> QED
      BY Zenon, <1>3, <2>2, <3>1, <3>2, <3>3
  <2>3. \A c \in Clients, k \in Keys : floor'[c][k] \in DOMAIN data'[k]
    BY Zenon, <1>1, <1>2, <2>1 DEF KnownIsStored
  <2> QED
    BY Zenon, <2>2, <2>3 DEF KnownIsStored
<1> QED
  BY Zenon, <1>2, <1>3, <1>6, <1>7, <1>8, <1>10, <1>11

\* A read at a replica keeps the invariant.
LEMMA HandleReadIndInv ==
  ASSUME IndInv, NEW m \in requests, HandleRead(m)
  PROVE  IndInv'
<1>1. data' = data /\ \E v : Handled(m, v)
  BY Zenon, HandleReadHandled
<1>2. requests' \subseteq requests /\ ops' = ops
  BY Zenon, <1>1 DEF Handled
<1>3. /\ Types' /\ Stored' /\ InFlight' /\ ViewIsBehind'
      /\ ReadsAreClosed' /\ KnownIsStored'
      /\ \A c \in Clients : (op'[c] = Idle) = (op[c] = Idle)
      /\ \A c \in Clients : op[c] # Idle => op'[c].ver = op[c].ver
  BY Zenon, <1>1, HandledKeeps
<1>4. WritesAreOnce'
  BY Zenon, <1>1, <1>2, <1>3 DEF IndInv, WritesAreOnce, AppliedAtMostOnce
<1> QED
  BY Zenon, <1>3, <1>4 DEF IndInv

\* A write at a replica keeps the invariant.  It is stored only if no other try
\* of it was: where one was stored, this one is at or below the newest version
\* and apply() drops it.
LEMMA HandleWriteIndInv ==
  ASSUME IndInv, NEW m \in requests, HandleWrite(m)
  PROVE  IndInv'
<1> DEFINE x == m.key
           n == Promoted(entry[x], m.ver)
<1>1. /\ m.kind = "write" /\ \E v : Handled(m, v)
      /\ \/ data' = data
         \/ /\ ~Dropped(entry[x], m.ver)
            /\ n \in Nat /\ n >= m.ver
            /\ n > entry[x].highest_version_written
            /\ n \notin DOMAIN data[x]
            /\ data' = [data EXCEPT ![x] =
                          [i \in DOMAIN data[x] \union {n} |->
                             IF i = n THEN WriteOf(m) ELSE data[x][i]]]
  BY Zenon, HandleWriteHandled
<1>2. requests' \subseteq requests /\ ops' = ops
  BY Zenon, <1>1 DEF Handled
<1>3. /\ Types' /\ Stored' /\ InFlight' /\ ViewIsBehind'
      /\ ReadsAreClosed' /\ KnownIsStored'
      /\ \A c \in Clients : (op'[c] = Idle) = (op[c] = Idle)
      /\ \A c \in Clients : op[c] # Idle => op'[c].ver = op[c].ver
  BY Zenon, <1>1, HandledKeeps
<1>4. m \in Request /\ x \in Keys /\ m.client \in Clients /\ m.ver \in Nat \ {0}
  BY Zenon DEF IndInv, Types, Request
<1> HIDE DEF n, x
<1>5. CASE data' = data
  BY Zenon, <1>2, <1>3, <1>5 DEF IndInv, WritesAreOnce, AppliedAtMostOnce
<1>6. CASE data' # data
  <2> DEFINE w == WriteOf(m)
  <2>1. /\ data'[x] = [i \in DOMAIN data[x] \union {n} |-> IF i = n THEN w ELSE data[x][i]]
        /\ \A k \in Keys : k # x => data'[k] = data[k]
        /\ n \notin DOMAIN data[x]
    BY Zenon, <1>1, <1>4, <1>6 DEF IndInv, Stored
  <2>2. /\ DOMAIN data'[x] = DOMAIN data[x] \union {n}
        /\ data'[x][n] = w
        /\ \A i \in DOMAIN data[x] : data'[x][i] = data[x][i]
    BY Zenon, <2>1
  <2>3. w.client = m.client /\ w.op = m.op
    BY Zenon DEF WriteOf
  <2> HIDE DEF w
  <2>4. \A i \in DOMAIN data[x] : data[x][i] # w
    <3>1. SUFFICES ASSUME NEW i \in DOMAIN data[x], data[x][i] = w
                   PROVE  FALSE
      BY Zenon
    <3>2. m.ver <= i
      BY Zenon, <1>1, <3>1 DEF IndInv, WritesAreOnce, w, x
    <3>3. /\ i \in Nat /\ i <= entry[x].highest_version_written
          /\ entry[x].highest_version_written \in Nat
      BY Zenon, <1>4, ChainVersions DEF IndInv, Stored
    <3>4. m.ver <= entry[x].highest_version_written /\ m.ver # 0
      BY <1>4, <3>2, <3>3
    <3> QED
      BY Zenon, <1>1, <1>6, <3>4 DEF Dropped
  <2>5. AppliedAtMostOnce'
    <3>1. SUFFICES ASSUME NEW k \in Keys, NEW i \in DOMAIN data'[k], NEW j \in DOMAIN data'[k],
                          data'[k][i] = data'[k][j]
                   PROVE  i = j
      BY Zenon DEF AppliedAtMostOnce
    <3>2. CASE k # x
      BY Zenon, <2>1, <3>1, <3>2 DEF IndInv, WritesAreOnce, AppliedAtMostOnce
    <3>3. CASE k = x
      BY Zenon, <2>2, <2>4, <3>1, <3>3 DEF IndInv, WritesAreOnce, AppliedAtMostOnce
    <3> QED
      BY Zenon, <3>2, <3>3
  <2>6. ASSUME NEW k \in Keys, NEW i \in DOMAIN data'[k], NEW c \in Clients,
               data'[k][i].client = c
        PROVE  /\ data'[k][i].op <= ops'[c]
               /\ data'[k][i].op = ops'[c] /\ op'[c] # Idle => op'[c].ver <= i
    <3>1. CASE k = x /\ i = n
      <4>1. c = m.client /\ data'[k][i].op = m.op /\ m.op <= ops[c]
        BY Zenon, <2>2, <2>3, <2>6, <3>1 DEF IndInv, InFlight
      <4>2. m.op = ops[c] /\ op[c] # Idle => m.ver = op[c].ver
        BY Zenon, <4>1 DEF IndInv, InFlight
      <4> QED
        BY Zenon, <1>1, <1>2, <1>3, <1>6, <3>1, <4>1, <4>2
    <3>2. CASE ~(k = x /\ i = n)
      <4>1. i \in DOMAIN data[k] /\ data'[k][i] = data[k][i]
        BY Zenon, <2>1, <2>2, <2>6, <3>2
      <4> QED
        BY Zenon, <1>2, <1>3, <2>6, <4>1 DEF IndInv, WritesAreOnce
    <3> QED
      BY Zenon, <3>1, <3>2
  <2>7. ASSUME NEW q \in requests', q.kind = "write", NEW i \in DOMAIN data'[q.key],
               data'[q.key][i] = WriteOf(q)
        PROVE  q.ver <= i
    <3>1. q \in requests /\ q.key \in Keys
      BY Zenon, <1>2 DEF IndInv, Types, Request
    <3>2. CASE q.key = x /\ i = n
      <4>1. q.ver = m.ver
        BY Zenon, <2>2, <2>7, <3>1, <3>2 DEF IndInv, InFlight, w
      <4> QED
        BY Zenon, <1>1, <1>6, <3>2, <4>1
    <3>3. CASE ~(q.key = x /\ i = n)
      <4>1. i \in DOMAIN data[q.key] /\ data'[q.key][i] = data[q.key][i]
        BY Zenon, <2>1, <2>2, <2>7, <3>1, <3>3
      <4> QED
        BY Zenon, <2>7, <3>1, <4>1 DEF IndInv, WritesAreOnce
    <3> QED
      BY Zenon, <3>2, <3>3
  <2>8. WritesAreOnce'
    BY Zenon, <2>5, <2>6, <2>7 DEF WritesAreOnce
  <2> QED
    BY Zenon, <1>3, <2>8 DEF IndInv
<1> QED
  BY Zenon, <1>5, <1>6

\* The first try of a new operation, or one more try of the current one.
Sends(c, kind, n, t, ks, v) ==
    /\ Send(c, kind, n, t, ks, v)
    /\ \/ op[c] = Idle /\ n = ops[c] + 1 /\ ops' = [ops EXCEPT ![c] = n]
       \/ /\ op[c] # Idle /\ n = ops[c] /\ ops' = ops
          /\ kind = op[c].kind /\ ks = op[c].keys /\ t = op[c].try + 1
    /\ n \in 1 .. MaxOps /\ t \in 1 .. MaxTries
    /\ kind \in {"rot", "write"}
    /\ ks \subseteq Keys /\ ks # {}
    /\ v = IF kind = "rot" THEN clock[c] ELSE clock[c] + 1
    /\ UNCHANGED <<clock, view, entry, data, rots, floor>>

\* Sending keeps the invariant.  A retry carries the version of the first try,
\* because nothing moves the clock of a client that waits.
LEMMA SendsIndInv ==
  ASSUME IndInv, NEW c \in Clients, NEW kind, NEW n, NEW t, NEW ks, NEW v,
         Sends(c, kind, n, t, ks, v)
  PROVE  IndInv'
<1> DEFINE o == [kind |-> kind, try |-> t, keys |-> ks, ver |-> v, got |-> <<>>]
           R == {[kind |-> kind, client |-> c, op |-> n, try |-> t, key |-> k, ver |-> v] : k \in ks}
<1>1. /\ Types /\ Stored /\ InFlight /\ ViewIsBehind
      /\ ReadsAreClosed /\ KnownIsStored /\ WritesAreOnce
  BY Zenon DEF IndInv
<1>2. /\ op' = [op EXCEPT ![c] = o]
      /\ requests' = requests \union R
      /\ \/ op[c] = Idle /\ n = ops[c] + 1 /\ ops' = [ops EXCEPT ![c] = n]
         \/ /\ op[c] # Idle /\ n = ops[c] /\ ops' = ops
            /\ kind = op[c].kind /\ ks = op[c].keys /\ t = op[c].try + 1
      /\ n \in 1 .. MaxOps /\ t \in 1 .. MaxTries
      /\ kind \in {"rot", "write"}
      /\ ks \subseteq Keys /\ ks # {}
      /\ v = IF kind = "rot" THEN clock[c] ELSE clock[c] + 1
      /\ UNCHANGED <<clock, view, entry, data, rots, floor>>
  BY Zenon DEF Sends, Send
<1>3. v \in Nat \ {0} /\ MaxOps \in Nat /\ MaxTries \in Nat
  BY <1>1, <1>2, PortAssumption DEF Types
<1>4. /\ o.kind = kind /\ o.try = t /\ o.keys = ks /\ o.ver = v
      /\ DOMAIN o.got = {} /\ o \in Operation /\ o # Idle
  <2>1. <<>> \in Answers /\ DOMAIN <<>> = {}
    BY Zenon, AnswersShape
  <2> QED
    BY Zenon, <1>2, <1>3, <2>1 DEF Operation, Idle
<1>5. \A q \in R : /\ q \in Request /\ q.kind = kind /\ q.client = c /\ q.op = n
                   /\ q.try = t /\ q.key \in ks /\ q.ver = v
  BY <1>2, <1>3 DEF Request
<1> HIDE DEF o, R
<1>6. /\ op'[c] = o
      /\ \A d \in Clients : d # c => op'[d] = op[d] /\ ops'[d] = ops[d]
      /\ ops'[c] = n
      /\ \A d \in Clients : ops[d] \in Nat
  BY <1>1, <1>2 DEF Types
<1>7. Types'
  <2>1. op' \in [Clients -> {Idle} \union Operation]
    BY Zenon, <1>1, <1>2, <1>4 DEF Types
  <2>2. ops' \in [Clients -> 0 .. MaxOps]
    BY <1>1, <1>2, <1>3 DEF Types
  <2>3. requests' \subseteq Request
    BY Zenon, <1>1, <1>2, <1>5 DEF Types
  <2> QED
    BY Zenon, <1>1, <1>2, <2>1, <2>2, <2>3 DEF Types
<1>8. Stored' /\ ViewIsBehind'
  BY Zenon, <1>1, <1>2 DEF Stored, ViewIsBehind
\* Requests of this operation in flight are of its earlier tries.
<1>9. \A q \in requests : q.client = c /\ q.op = n =>
         /\ op[c] # Idle /\ n = ops[c]
         /\ q.kind = kind /\ q.ver = v /\ q.key \in ks /\ q.try <= t
  <2>1. SUFFICES ASSUME NEW q \in requests, q.client = c, q.op = n
                 PROVE  /\ op[c] # Idle /\ n = ops[c]
                        /\ q.kind = kind /\ q.ver = v /\ q.key \in ks /\ q.try <= t
    BY Zenon
  <2>2. n <= ops[c] /\ q.try \in Nat
    BY <1>1, <2>1 DEF InFlight, Types, Request
  <2>3. op[c] # Idle /\ n = ops[c] /\ kind = op[c].kind /\ ks = op[c].keys
        /\ t = op[c].try + 1
    BY <1>2, <1>6, <2>2
  <2>4. q.kind = op[c].kind /\ q.ver = op[c].ver /\ q.key \in op[c].keys /\ q.try <= op[c].try
    BY Zenon, <1>1, <2>1, <2>3 DEF InFlight
  <2>5. op[c].ver = v
    BY Zenon, <1>1, <1>2, <2>3 DEF InFlight
  <2>6. op[c].try \in Nat
    BY <1>1, <2>3 DEF Types, Operation
  <2> QED
    BY <2>2, <2>3, <2>4, <2>5, <2>6
<1>10. InFlight'
  <2>1. ASSUME NEW d \in Clients, op'[d] # Idle
        PROVE  /\ ops'[d] > 0
               /\ op'[d].keys # {}
               /\ op'[d].ver = IF op'[d].kind = "rot" THEN clock'[d] ELSE clock'[d] + 1
               /\ DOMAIN op'[d].got \subseteq op'[d].keys
    <3>1. CASE d = c
      BY <1>2, <1>4, <1>6, <3>1
    <3>2. CASE d # c
      BY Zenon, <1>1, <1>2, <1>6, <2>1, <3>2 DEF InFlight
    <3> QED
      BY Zenon, <3>1, <3>2
  <2>2. ASSUME NEW q \in requests'
        PROVE  /\ q.op <= ops'[q.client]
               /\ q.op = ops'[q.client] /\ op'[q.client] # Idle =>
                    /\ q.kind = op'[q.client].kind
                    /\ q.ver = op'[q.client].ver
                    /\ q.key \in op'[q.client].keys
                    /\ q.try <= op'[q.client].try
    <3>1. CASE q \in R
      BY <1>2, <1>4, <1>5, <1>6, <3>1
    <3>2. CASE q \in requests /\ q.client # c
      <4>1. q.client \in Clients
        BY Zenon, <1>1, <3>2 DEF Types, Request
      <4> QED
        BY Zenon, <1>1, <1>6, <3>2, <4>1 DEF InFlight
    <3>3. CASE q \in requests /\ q.client = c
      <4>1. q.op <= ops[c] /\ q.op \in Nat
        BY <1>1, <3>3 DEF InFlight, Types, Request
      <4>2. q.op <= n
        BY <1>2, <1>6, <4>1
      <4> QED
        BY Zenon, <1>4, <1>6, <1>9, <3>3, <4>2
    <3> QED
      BY Zenon, <1>2, <3>1, <3>2, <3>3
  <2>3. ASSUME NEW q \in requests', NEW r \in requests', WriteOf(q) = WriteOf(r)
        PROVE  q.ver = r.ver
    <3>1. q.client = r.client /\ q.op = r.op
      BY Zenon, <2>3 DEF WriteOf
    <3>2. CASE q \in requests /\ r \in requests
      BY Zenon, <1>1, <2>3, <3>2 DEF InFlight
    <3>3. CASE q \in R
      BY Zenon, <1>2, <1>5, <1>9, <3>1, <3>3
    <3>4. CASE r \in R
      BY Zenon, <1>2, <1>5, <1>9, <3>1, <3>4
    <3> QED
      BY Zenon, <1>2, <3>2, <3>3, <3>4
  <2> QED
    BY Zenon, <2>1, <2>2, <2>3 DEF InFlight
<1>11. ReadsAreClosed'
  <2>1. ASSUME NEW d \in Clients, op'[d] # Idle, op'[d].kind = "rot",
               NEW k \in DOMAIN op'[d].got
        PROVE  Closed(entry'[k], data'[k], op'[d].ver, op'[d].got[k])
    <3>1. d # c
      BY Zenon, <1>4, <1>6, <2>1
    <3> QED
      BY Zenon, <1>1, <1>2, <1>6, <2>1, <3>1 DEF ReadsAreClosed
  <2>2. \A u \in rots' : u.ver \in Nat /\ \A k \in DOMAIN u.res :
          k \in Keys /\ Closed(entry'[k], data'[k], u.ver, u.res[k])
    BY Zenon, <1>1, <1>2 DEF ReadsAreClosed
  <2> QED
    BY Zenon, <2>1, <2>2 DEF ReadsAreClosed
<1>12. KnownIsStored'
  <2>1. ASSUME NEW d \in Clients, op'[d] # Idle, NEW k \in DOMAIN op'[d].got
        PROVE  op'[d].got[k] \in DOMAIN data'[k]
    <3>1. d # c
      BY Zenon, <1>4, <1>6, <2>1
    <3> QED
      BY Zenon, <1>1, <1>2, <1>6, <2>1, <3>1 DEF KnownIsStored
  <2> QED
    BY Zenon, <1>1, <1>2, <2>1 DEF KnownIsStored
<1>13. WritesAreOnce'
  <2>1. AppliedAtMostOnce'
    BY Zenon, <1>1, <1>2 DEF WritesAreOnce, AppliedAtMostOnce
  <2>2. ASSUME NEW k \in Keys, NEW i \in DOMAIN data[k], data[k][i].client = c
        PROVE  /\ data[k][i].op <= n
               /\ data[k][i].op = n => v <= i
    <3>1. data[k][i].op <= ops[c] /\ data[k][i].op \in Nat
      <4>1. data[k][i] \in Writes
        BY Zenon, <1>1 DEF Stored, Chain
      <4> QED
        BY <1>1, <1>3, <2>2, <4>1 DEF WritesAreOnce, Writes
    <3>2. CASE n = ops[c] + 1
      BY <1>6, <3>1, <3>2
    <3>3. CASE op[c] # Idle /\ n = ops[c] /\ kind = op[c].kind
      <4>1. op[c].ver = v
        BY Zenon, <1>1, <1>2, <3>3 DEF InFlight
      <4> QED
        BY Zenon, <1>1, <2>2, <3>3, <4>1 DEF WritesAreOnce
    <3> QED
      BY Zenon, <1>2, <3>2, <3>3
  <2>3. ASSUME NEW k \in Keys, NEW i \in DOMAIN data'[k], NEW d \in Clients,
               data'[k][i].client = d
        PROVE  /\ data'[k][i].op <= ops'[d]
               /\ data'[k][i].op = ops'[d] /\ op'[d] # Idle => op'[d].ver <= i
    <3>1. CASE d = c
      BY <1>2, <1>4, <1>6, <2>2, <2>3, <3>1
    <3>2. CASE d # c
      BY <1>1, <1>2, <1>6, <2>3, <3>2 DEF WritesAreOnce
    <3> QED
      BY Zenon, <3>1, <3>2
  <2>4. ASSUME NEW q \in requests', q.kind = "write", NEW i \in DOMAIN data'[q.key],
               data'[q.key][i] = WriteOf(q)
        PROVE  q.ver <= i
    <3>1. CASE q \in requests
      BY Zenon, <1>1, <1>2, <2>4, <3>1 DEF WritesAreOnce
    <3>2. CASE q \in R
      <4>1. q.key \in Keys /\ q.ver = v /\ i \in DOMAIN data[q.key]
            /\ data[q.key][i].client = c /\ data[q.key][i].op = n
        BY <1>2, <1>5, <2>4, <3>2 DEF WriteOf
      <4> QED
        BY Zenon, <2>2, <4>1
    <3> QED
      BY Zenon, <1>2, <3>1, <3>2
  <2> QED
    BY Zenon, <2>1, <2>3, <2>4 DEF WritesAreOnce
<1> QED
  BY Zenon, <1>7, <1>8, <1>10, <1>11, <1>12, <1>13 DEF IndInv

\* BeginRot, BeginWrite and the retries in Timeout are sends.
LEMMA BeginRotSends ==
  ASSUME IndInv, NEW c \in Clients, NEW ks \in RotSets, BeginRot(c, ks)
  PROVE  Sends(c, "rot", ops[c] + 1, 1, ks, clock[c]) /\ deps' = deps
<1>1. /\ clock \in [Clients -> Nat \ {0}] /\ view[c] \in [Buckets -> Nat]
      /\ ops[c] \in 0 .. MaxOps
      /\ \A b \in Buckets : view[c][b] <= clock[c]
  BY Zenon DEF IndInv, Types, ViewIsBehind
<1>2. /\ ks \subseteq Keys /\ ks # {} /\ MaxOps \in Nat /\ MaxTries \in Nat \ {0}
  BY Zenon, PortAssumption
<1>3. VersionToRead(clock[c], view[c], ks) = clock[c]
  BY Zenon, <1>1, <1>2, VersionToReadIsClock
<1>4. clock' = clock /\ Send(c, "rot", ops[c] + 1, 1, ks, clock[c])
  BY Zenon, <1>1, <1>3 DEF BeginRot, SendRot
<1>5. /\ op[c] = Idle /\ ops[c] < MaxOps /\ ops' = [ops EXCEPT ![c] = ops[c] + 1]
      /\ UNCHANGED <<view, entry, data, rots, floor, deps>>
  BY Zenon DEF BeginRot, Begin
<1>6. ops[c] + 1 \in 1 .. MaxOps /\ 1 \in 1 .. MaxTries
  BY <1>1, <1>2, <1>5
<1> QED
  BY Zenon, <1>2, <1>4, <1>5, <1>6 DEF Sends

\* insert() proposes clock + 1 for every key of the batch.
LEMMA BeginWriteSends ==
  ASSUME IndInv, NEW c \in Clients, NEW ks \in WriteSets, BeginWrite(c, ks)
  PROVE  Sends(c, "write", ops[c] + 1, 1, ks, clock[c] + 1)
<1>1. clock[c] \in Nat /\ ops[c] \in 0 .. MaxOps
  BY Zenon DEF IndInv, Types
<1>2. /\ ks \subseteq Keys /\ ks # {} /\ MaxOps \in Nat /\ MaxTries \in Nat \ {0}
  BY Zenon, PortAssumption
<1>3. clock' = clock /\ Send(c, "write", ops[c] + 1, 1, ks, clock[c] + 1)
  BY Zenon DEF BeginWrite, SendWrite, VersionToWrite
<1>4. /\ op[c] = Idle /\ ops[c] < MaxOps /\ ops' = [ops EXCEPT ![c] = ops[c] + 1]
      /\ UNCHANGED <<view, entry, data, rots, floor>>
  BY Zenon DEF BeginWrite, Begin
<1>5. ops[c] + 1 \in 1 .. MaxOps /\ 1 \in 1 .. MaxTries
  BY <1>1, <1>2, <1>4
<1> QED
  BY Zenon, <1>2, <1>3, <1>4, <1>5 DEF Sends

\* A timeout either gives up or sends the operation again.
LEMMA TimeoutSends ==
  ASSUME IndInv, NEW c \in Clients, Timeout(c)
  PROVE  /\ deps' = deps /\ op[c] # Idle
         /\ \/ /\ op' = [op EXCEPT ![c] = Idle]
               /\ UNCHANGED <<clock, view, ops, requests, entry, data, rots, floor>>
            \/ Sends(c, op[c].kind, ops[c], op[c].try + 1, op[c].keys, op[c].ver)
<1>1. /\ clock \in [Clients -> Nat \ {0}] /\ view[c] \in [Buckets -> Nat]
      /\ ops[c] \in 0 .. MaxOps
      /\ \A b \in Buckets : view[c][b] <= clock[c]
  BY Zenon DEF IndInv, Types, ViewIsBehind
<1>2. op[c] # Idle /\ UNCHANGED <<view, ops, entry, data, rots, floor, deps>>
  BY Zenon DEF Timeout
<1>3. /\ op[c] \in Operation /\ ops[c] > 0 /\ op[c].keys # {}
      /\ op[c].ver = IF op[c].kind = "rot" THEN clock[c] ELSE clock[c] + 1
  BY Zenon, <1>2 DEF IndInv, Types, InFlight
<1>4. op[c].keys \subseteq Keys /\ op[c].try \in 1 .. MaxTries /\ op[c].kind \in {"rot", "write"}
  BY Zenon, <1>3 DEF Operation
<1>5. CASE op[c].try = MaxTries
  BY Zenon, <1>2, <1>5 DEF Timeout
<1>6. CASE op[c].try # MaxTries
  <2>1. clock' = clock /\ Send(c, op[c].kind, ops[c], op[c].try + 1, op[c].keys, op[c].ver)
    <3>1. CASE op[c].kind = "rot" /\ SendRot(c, ops[c], op[c].try + 1, op[c].keys)
      <4>1. VersionToRead(clock[c], view[c], op[c].keys) = clock[c]
        BY Zenon, <1>1, <1>3, <1>4, VersionToReadIsClock
      <4> QED
        BY Zenon, <1>1, <1>3, <3>1, <4>1 DEF SendRot
    <3>2. CASE op[c].kind = "write" /\ SendWrite(c, ops[c], op[c].try + 1, op[c].keys)
      BY Zenon, <1>3, <3>2 DEF SendWrite, VersionToWrite
    <3> QED
      BY Zenon, <1>6, <3>1, <3>2 DEF Timeout
  <2>2. MaxTries \in Nat /\ MaxOps \in Nat
    BY Zenon, PortAssumption
  <2>3. op[c].try + 1 \in 1 .. MaxTries /\ ops[c] \in 1 .. MaxOps
    BY <1>1, <1>3, <1>4, <1>6, <2>2
  <2>4. Sends(c, op[c].kind, ops[c], op[c].try + 1, op[c].keys, op[c].ver)
    BY Zenon, <1>2, <1>3, <1>4, <2>1, <2>3 DEF Sends
  <2> QED
    BY Zenon, <1>2, <2>4
<1> QED
  BY Zenon, <1>5, <1>6

\* A client stops waiting: what it learned is on the chains.
LEMMA EndIndInv ==
  ASSUME IndInv, NEW c \in Clients,
         op' = [op EXCEPT ![c] = Idle],
         UNCHANGED <<ops, requests, entry, data>>,
         clock' \in [Clients -> Nat \ {0}],
         \A d \in Clients : d # c => clock'[d] = clock[d],
         view' \in [Clients -> [Buckets -> Nat]],
         ViewIsBehind',
         floor' \in [Clients -> [Keys -> Nat]],
         \A d \in Clients, k \in Keys : floor'[d][k] \in DOMAIN data[k],
         \A t \in rots' : t.ver \in Nat /\ \A k \in DOMAIN t.res :
            k \in Keys /\ Closed(entry[k], data[k], t.ver, t.res[k])
  PROVE  IndInv'
<1>1. /\ Types /\ Stored /\ InFlight /\ ReadsAreClosed /\ KnownIsStored /\ WritesAreOnce
  BY Zenon DEF IndInv
<1>2. op'[c] = Idle /\ \A d \in Clients : d # c => op'[d] = op[d]
  BY Zenon, <1>1 DEF Types
<1>3. Types'
  BY Zenon, <1>1 DEF Types
<1>4. Stored'
  BY Zenon, <1>1 DEF Stored
<1>5. InFlight'
  <2>1. \A q \in requests : q.client \in Clients
    BY Zenon, <1>1 DEF Types, Request
  <2> QED
    BY <1>1, <1>2, <2>1 DEF InFlight
<1>6. ReadsAreClosed'
  <2>1. ASSUME NEW d \in Clients, op'[d] # Idle, op'[d].kind = "rot",
               NEW k \in DOMAIN op'[d].got
        PROVE  Closed(entry'[k], data'[k], op'[d].ver, op'[d].got[k])
    BY Zenon, <1>1, <1>2, <2>1 DEF ReadsAreClosed
  <2> QED
    BY Zenon, <2>1 DEF ReadsAreClosed
<1>7. KnownIsStored'
  BY Zenon, <1>1, <1>2 DEF KnownIsStored
<1>8. WritesAreOnce'
  BY <1>1, <1>2 DEF WritesAreOnce, AppliedAtMostOnce
<1> QED
  BY Zenon, <1>3, <1>4, <1>5, <1>6, <1>7, <1>8 DEF IndInv

\* What a client knows when its operation completes was committed.
LEMMA KnownToStored ==
  ASSUME IndInv, NEW c \in Clients, Answered(c)
  PROVE  /\ op[c] \in Operation /\ op[c].got \in [op[c].keys -> Nat] /\ op[c].keys \subseteq Keys
         /\ KnownTo(c) \in [Keys -> Nat]
         /\ \A k \in Keys : KnownTo(c)[k] \in DOMAIN data[k]
<1>1. op[c] # Idle /\ DOMAIN op[c].got = op[c].keys
  BY Zenon DEF Answered
<1>2. op[c] \in Operation /\ floor[c] \in [Keys -> Nat]
  BY Zenon, <1>1 DEF IndInv, Types
<1>3. op[c].got \in Answers /\ op[c].keys \subseteq Keys
  BY Zenon, <1>2 DEF Operation
<1>4. op[c].got \in [op[c].keys -> Nat]
  BY Zenon, <1>1, <1>3, AnswersShape
<1>5. \A k \in op[c].keys : op[c].got[k] \in DOMAIN data[k]
  BY Zenon, <1>1 DEF IndInv, KnownIsStored
<1>6. \A k \in Keys : floor[c][k] \in DOMAIN data[k]
  BY Zenon DEF IndInv, KnownIsStored
<1> QED
  BY Zenon, <1>2, <1>3, <1>4, <1>5, <1>6 DEF KnownTo

\* A transaction that returns keeps the invariant.
LEMMA CompleteRotIndInv ==
  ASSUME IndInv, NEW c \in Clients, CompleteRot(c)
  PROVE  IndInv'
<1> DEFINE t0 == [client |-> c, ver |-> op[c].ver, res |-> op[c].got]
<1>1. /\ Answered(c) /\ op[c].kind = "rot" /\ op[c] # Idle
      /\ view' = [view EXCEPT ![c] = UpdateView(view[c], op[c].got)]
      /\ rots' = rots \union {t0}
      /\ floor' = [floor EXCEPT ![c] = KnownTo(c)]
      /\ op' = [op EXCEPT ![c] = Idle]
      /\ UNCHANGED <<clock, ops, requests, entry, data, deps>>
  BY Zenon DEF CompleteRot, Answered
<1>2. /\ op[c] \in Operation /\ op[c].got \in [op[c].keys -> Nat] /\ op[c].keys \subseteq Keys
      /\ KnownTo(c) \in [Keys -> Nat]
      /\ \A k \in Keys : KnownTo(c)[k] \in DOMAIN data[k]
  BY Zenon, <1>1, KnownToStored
<1>3. /\ clock \in [Clients -> Nat \ {0}] /\ view \in [Clients -> [Buckets -> Nat]]
      /\ floor \in [Clients -> [Keys -> Nat]]
      /\ \A d \in Clients : \A b \in Buckets : view[d][b] <= clock[d]
      /\ op[c].ver = clock[c]
  BY Zenon, <1>1 DEF IndInv, Types, ViewIsBehind, InFlight
<1>4. \A k \in op[c].keys : Closed(entry[k], data[k], op[c].ver, op[c].got[k])
  BY Zenon, <1>1, <1>2 DEF IndInv, ReadsAreClosed
<1>5. \A k \in op[c].keys : op[c].got[k] <= clock[c]
  BY Zenon, <1>3, <1>4 DEF Closed
<1>6. /\ UpdateView(view[c], op[c].got) \in [Buckets -> Nat]
      /\ \A b \in Buckets : UpdateView(view[c], op[c].got)[b] <= clock[c]
  BY Zenon, <1>2, <1>3, <1>5, UpdateViewBounded
<1>7. view' \in [Clients -> [Buckets -> Nat]] /\ ViewIsBehind'
  BY Zenon, <1>1, <1>3, <1>6 DEF ViewIsBehind
<1>8. /\ floor' \in [Clients -> [Keys -> Nat]]
      /\ \A d \in Clients, k \in Keys : floor'[d][k] \in DOMAIN data[k]
  BY Zenon, <1>1, <1>2, <1>3 DEF IndInv, KnownIsStored
<1>9. ASSUME NEW t \in rots'
      PROVE  t.ver \in Nat /\ \A k \in DOMAIN t.res :
               k \in Keys /\ Closed(entry[k], data[k], t.ver, t.res[k])
  <2>1. CASE t \in rots
    BY Zenon, <2>1 DEF IndInv, ReadsAreClosed
  <2>2. CASE t = t0
    BY Zenon, <1>2, <1>3, <1>4, <2>2
  <2> QED
    BY Zenon, <1>1, <2>1, <2>2
<1> QED
  BY Zenon, <1>1, <1>3, <1>7, <1>8, <1>9, EndIndInv

\* A batch that completes keeps the invariant, whatever the dead slot holds.
LEMMA CompleteWriteIndInv ==
  ASSUME IndInv, NEW c \in Clients, CompleteWrite(c)
  PROVE  IndInv'
<1>1. /\ Answered(c) /\ op[c].kind = "write" /\ op[c] # Idle
      /\ floor' = [floor EXCEPT ![c] = KnownTo(c)]
      /\ op' = [op EXCEPT ![c] = Idle]
      /\ UNCHANGED <<view, ops, requests, entry, data, rots, deps>>
  BY Zenon DEF CompleteWrite, Answered
<1>2. /\ op[c] \in Operation /\ op[c].got \in [op[c].keys -> Nat] /\ op[c].keys \subseteq Keys
      /\ KnownTo(c) \in [Keys -> Nat]
      /\ \A k \in Keys : KnownTo(c)[k] \in DOMAIN data[k]
  BY Zenon, <1>1, KnownToStored
<1>3. PICK v \in {op[c].got[k] : k \in op[c].keys} \union DeadSlot :
         clock' = [clock EXCEPT ![c] = SetCurrent(clock[c], v)]
  BY Zenon DEF CompleteWrite
<1>4. v \in Nat
  BY Zenon, <1>2, PortAssumption
<1>5. /\ clock \in [Clients -> Nat \ {0}] /\ view \in [Clients -> [Buckets -> Nat]]
      /\ floor \in [Clients -> [Keys -> Nat]]
      /\ \A d \in Clients : \A b \in Buckets : view[d][b] <= clock[d]
  BY Zenon DEF IndInv, Types, ViewIsBehind
<1>6. SetCurrent(clock[c], v) \in Nat \ {0} /\ SetCurrent(clock[c], v) >= clock[c]
  BY <1>4, <1>5, VersionCapAssumption DEF SetCurrent
<1>7. /\ clock' \in [Clients -> Nat \ {0}]
      /\ \A d \in Clients : d # c => clock'[d] = clock[d]
      /\ \A d \in Clients : clock'[d] >= clock[d]
  BY <1>3, <1>5, <1>6
<1>8. ViewIsBehind' /\ view' \in [Clients -> [Buckets -> Nat]]
  <2>1. \A d \in Clients : \A b \in Buckets :
          view[d][b] \in Nat /\ clock[d] \in Nat /\ clock'[d] \in Nat
    BY Zenon, <1>5, <1>7
  <2> QED
    BY <1>1, <1>5, <1>7, <2>1 DEF ViewIsBehind
<1>9. /\ floor' \in [Clients -> [Keys -> Nat]]
      /\ \A d \in Clients, k \in Keys : floor'[d][k] \in DOMAIN data[k]
  BY Zenon, <1>1, <1>2, <1>5 DEF IndInv, KnownIsStored
<1>10. \A t \in rots' : t.ver \in Nat /\ \A k \in DOMAIN t.res :
         k \in Keys /\ Closed(entry[k], data[k], t.ver, t.res[k])
  BY Zenon, <1>1 DEF IndInv, ReadsAreClosed
<1> QED
  BY Zenon, <1>1, <1>7, <1>8, <1>9, <1>10, EndIndInv

\* A client that gives up keeps the invariant.
LEMMA TimeoutIndInv ==
  ASSUME IndInv, NEW c \in Clients, Timeout(c)
  PROVE  IndInv'
<1>1. CASE Sends(c, op[c].kind, ops[c], op[c].try + 1, op[c].keys, op[c].ver)
  BY Zenon, <1>1, SendsIndInv
<1>2. CASE /\ op' = [op EXCEPT ![c] = Idle]
           /\ UNCHANGED <<clock, view, ops, requests, entry, data, rots, floor>>
  BY Zenon, <1>2, EndIndInv DEF IndInv, Types, KnownIsStored, ReadsAreClosed, ViewIsBehind
<1> QED
  BY Zenon, <1>1, <1>2, TimeoutSends

\* Every step keeps the invariant.
LEMMA NextIndInv == IndInv /\ [Next]_vars => IndInv'
<1>1. SUFFICES ASSUME IndInv, [Next]_vars PROVE IndInv'
  BY Zenon
<1>2. ASSUME NEW c \in Clients, NEW ks \in RotSets, BeginRot(c, ks) PROVE IndInv'
  BY Zenon, <1>1, <1>2, BeginRotSends, SendsIndInv
<1>3. ASSUME NEW c \in Clients, NEW ks \in WriteSets, BeginWrite(c, ks) PROVE IndInv'
  BY Zenon, <1>1, <1>3, BeginWriteSends, SendsIndInv
<1>4. CASE UNCHANGED vars
  <2>1. Types' /\ Stored' /\ InFlight' /\ ViewIsBehind'
    BY Zenon, <1>1, <1>4 DEF vars, IndInv, Types, Stored, InFlight, ViewIsBehind
  <2>2. ReadsAreClosed' /\ KnownIsStored'
    BY Zenon, <1>1, <1>4 DEF vars, IndInv, ReadsAreClosed, KnownIsStored
  <2>3. WritesAreOnce'
    BY Zenon, <1>1, <1>4 DEF vars, IndInv, WritesAreOnce, AppliedAtMostOnce
  <2> QED
    BY Zenon, <2>1, <2>2, <2>3 DEF IndInv
<1> QED
  BY Zenon, <1>1, <1>2, <1>3, <1>4, HandleReadIndInv, HandleWriteIndInv, CompleteRotIndInv,
     CompleteWriteIndInv, TimeoutIndInv DEF Next

\* The invariant holds in every reachable state.
THEOREM IndInvHolds == Spec => []IndInv
  BY InitIndInv, NextIndInv, PTL DEF Spec

-----------------------------------------------------------------------------
(* What follows for the protocol.                                          *)

\* Type correctness of the clients, the replicas and the requests in flight.
THEOREM TypeCorrect == Spec => []TypeOK
<1>1. IndInv => TypeOK
  <2>1. SUFFICES ASSUME IndInv PROVE TypeOK
    BY Zenon
  <2>2. entry \in [Keys -> Entry]
    <3>1. entry = [k \in Keys |-> entry[k]] /\ \A k \in Keys : entry[k] \in Entry
      BY Zenon, <2>1 DEF IndInv, Stored, Chain, WellFormed
    <3> QED
      BY Zenon, <3>1
  <2>3. \A c \in Clients : op[c] # Idle =>
          op[c] \in Operation /\ DOMAIN op[c].got \subseteq op[c].keys
    BY Zenon, <2>1 DEF IndInv, Types, InFlight
  <2>4. clock \in [Clients -> Nat]
    BY Zenon, <2>1 DEF IndInv, Types
  <2> QED
    BY Zenon, <2>1, <2>2, <2>3, <2>4 DEF TypeOK, IndInv, Types, Operation
<1> QED
  BY <1>1, IndInvHolds, PTL

\* No write ever commits into the past of a read-only transaction that returned.
THEOREM SnapshotsStayStable == Spec => []SnapshotsAreStable
<1>1. IndInv => SnapshotsAreStable
  BY Zenon DEF IndInv, ReadsAreClosed, Closed, SnapshotsAreStable
<1> QED
  BY <1>1, IndInvHolds, PTL

\* However often a write is retried, and whichever of its tries arrive, it takes
\* effect at most once on each key.
THEOREM WritesApplyOnce == Spec => []AppliedAtMostOnce
<1>1. IndInv => AppliedAtMostOnce
  BY Zenon DEF IndInv, WritesAreOnce
<1> QED
  BY <1>1, IndInvHolds, PTL

-----------------------------------------------------------------------------
(* The protocol implements SnapshotStore: a write that is stored commits, a *)
(* read at a replica closes the past of its key, and a transaction returns  *)
(* one state of all its keys when it completes.                             *)

\* The initial states are initial states of the store.
LEMMA InitIsStoreInit == Init => Store!StoreInit(LoadWrite)
<1>1. SUFFICES ASSUME Init PROVE Store!StoreInit(LoadWrite)
  BY Zenon
<1>2. Inserted(NewEntry, VersionToWrite(InitialVersion, TRUE)).highest_version_read = 0
  BY Zenon DEF Inserted, NewEntry
<1>3. \A k \in Keys : entry[k].highest_version_read = 0
  BY Zenon, <1>1, <1>2 DEF Init
<1> QED
  BY Zenon, <1>1, <1>3 DEF Store!StoreInit, Store!LoadVersion, Init

\* A read at a replica closes the past of one key, or changes nothing there.
LEMMA HandleReadIsFreeze ==
  ASSUME Versions = Nat, IndInv, NEW m \in requests, HandleRead(m)
  PROVE  [Store!StoreNext]_(Store!storeVars)
<1> DEFINE x == m.key
           F == [k \in Keys |-> entry[k].highest_version_read]
           G == [k \in Keys |-> entry'[k].highest_version_read]
<1>1. m \in Request /\ x \in Keys /\ m.ver \in Nat
  BY Zenon DEF IndInv, Types, Request
<1>2. /\ entry' = [entry EXCEPT ![x] = AfterRead(entry[x], m.ver)]
      /\ UNCHANGED <<data, rots>>
  BY Zenon DEF HandleRead
<1>3. entry = [k \in Keys |-> entry[k]] /\ entry[x] \in Entry
  BY Zenon, <1>1 DEF IndInv, Stored, Chain, WellFormed
<1>4. AfterRead(entry[x], m.ver).highest_version_read =
        IF m.ver > F[x] THEN m.ver ELSE F[x]
  BY Zenon, <1>1, <1>3 DEF AfterRead, Entry
<1>5. G = [F EXCEPT ![x] = IF m.ver > F[x] THEN m.ver ELSE F[x]]
  BY Zenon, <1>1, <1>2, <1>3, <1>4
<1>6. CASE G = F
  BY Zenon, <1>2, <1>6 DEF Store!storeVars
<1>7. CASE G # F
  <2>1. m.ver > F[x] /\ G = [F EXCEPT ![x] = m.ver]
    BY Zenon, <1>5, <1>7
  <2>2. Store!Freeze(x, m.ver)
    BY Zenon, <2>1 DEF Store!Freeze
  <2> QED
    BY Zenon, <1>1, <1>2, <1>7, <2>2 DEF Store!StoreNext
<1> QED
  BY Zenon, <1>6, <1>7

\* A write at a replica commits, above all that was read and once, or is dropped.
LEMMA HandleWriteIsCommit ==
  ASSUME Versions = Nat, IndInv, NEW m \in requests, HandleWrite(m)
  PROVE  [Store!StoreNext]_(Store!storeVars)
<1> DEFINE x == m.key
           n == Promoted(entry[x], m.ver)
           F == [k \in Keys |-> entry[k].highest_version_read]
           G == [k \in Keys |-> entry'[k].highest_version_read]
           w == WriteOf(m)
<1>1. m \in Request /\ x \in Keys /\ m.ver \in Nat \ {0} /\ w \in Writes
  BY PortAssumption DEF IndInv, Types, Request, Writes, WriteOf
<1>2. rots' = rots /\ m.kind = "write"
  BY Zenon DEF HandleWrite
<1>3. \/ entry' = entry /\ data' = data
      \/ /\ ~Dropped(entry[x], m.ver)
         /\ n \in Nat
         /\ n > entry[x].highest_version_read
         /\ n > entry[x].highest_version_written
         /\ entry'[x].highest_version_read = entry[x].highest_version_read
         /\ \A k \in Keys : k # x => entry'[k] = entry[k]
         /\ data' = [data EXCEPT ![x] =
                       [i \in DOMAIN data[x] \union {n} |->
                          IF i = n THEN w ELSE data[x][i]]]
  BY Zenon, HandleWriteHandled
<1> HIDE DEF n
<1>4. CASE data' = data /\ entry' = entry
  BY Zenon, <1>2, <1>4 DEF Store!storeVars
<1>5. CASE ~(data' = data /\ entry' = entry)
  <2>1. G = F
    BY Zenon, <1>3, <1>5
  <2>2. /\ \A i \in DOMAIN data[x] : i \in Nat /\ i <= entry[x].highest_version_written
        /\ entry[x].highest_version_written \in Nat
    BY Zenon, <1>1, ChainVersions DEF IndInv, Stored
  <2>3. \A i \in DOMAIN data[x] : i < n
    BY <1>3, <1>5, <2>2
  <2>4. \A i \in DOMAIN data[x] : data[x][i] # w
    <3>1. SUFFICES ASSUME NEW i \in DOMAIN data[x], data[x][i] = w
                   PROVE  FALSE
      BY Zenon
    <3>2. m.ver <= i
      BY Zenon, <1>2, <3>1 DEF IndInv, WritesAreOnce
    <3>3. m.ver <= entry[x].highest_version_written /\ m.ver # 0
      BY <1>1, <2>2, <3>2
    <3> QED
      BY Zenon, <1>3, <1>5, <3>3 DEF Dropped
  <2>5. Store!Commit(x, n, w)
    BY Zenon, <1>1, <1>3, <1>5, <2>3, <2>4 DEF Store!Commit
  <2>6. CASE data' = data
    BY Zenon, <1>2, <2>1, <2>6 DEF Store!storeVars
  <2>7. CASE data' # data
    BY Zenon, <1>1, <1>2, <1>3, <1>5, <2>1, <2>5, <2>7 DEF Store!StoreNext
  <2> QED
    BY Zenon, <2>6, <2>7
<1> QED
  BY Zenon, <1>4, <1>5

\* A transaction completes with the state of all its keys at its version.
LEMMA CompleteRotIsReadOnlyTxn ==
  ASSUME Versions = Nat, IndInv, NEW c \in Clients, CompleteRot(c)
  PROVE  [Store!StoreNext]_(Store!storeVars)
<1> DEFINE ks == op[c].keys
           v == op[c].ver
           g == op[c].got
<1>1. /\ Answered(c) /\ op[c].kind = "rot" /\ op[c] # Idle
      /\ rots' = rots \union {[client |-> c, ver |-> v, res |-> g]}
      /\ UNCHANGED <<entry, data>>
  BY Zenon DEF CompleteRot, Answered
<1>2. op[c] \in Operation /\ g \in [ks -> Nat] /\ ks \subseteq Keys
  BY Zenon, <1>1, KnownToStored
<1>3. v \in Nat /\ v >= 1
  BY <1>2 DEF Operation
<1>4. \A k \in ks : Closed(entry[k], data[k], v, g[k])
  BY Zenon, <1>1, <1>2 DEF IndInv, ReadsAreClosed
<1>5. \A k \in ks : \A i \in DOMAIN data[k] : i \in Nat
  BY Zenon, <1>2, ChainVersions DEF IndInv, Stored
<1>6. \A k \in ks : g[k] = Store!Latest(data[k], v)
  <2>1. SUFFICES ASSUME NEW k \in ks PROVE g[k] = Store!Latest(data[k], v)
    BY Zenon
  <2>2. /\ g[k] \in DOMAIN data[k] /\ g[k] <= v
        /\ \A i \in DOMAIN data[k] : i <= v => i <= g[k]
    BY Zenon, <1>4 DEF Closed
  <2>3. \A n \in DOMAIN data[k] :
          n <= v /\ (\A i \in DOMAIN data[k] : i <= v => i <= n) => n = g[k]
    BY <1>5, <2>2
  <2> QED
    BY Zenon, <2>2, <2>3 DEF Store!Latest
<1>7. g = [k \in ks |-> Store!Latest(data[k], v)]
  BY Zenon, <1>2, <1>6
<1>8. \A k \in ks : v <= entry[k].highest_version_read
  BY Zenon, <1>4 DEF Closed
<1> HIDE DEF ks, v, g
<1>9. Store!ReadOnlyTxn(c, ks, v)
  BY Zenon, <1>1, <1>2, <1>3, <1>7, <1>8 DEF Store!ReadOnlyTxn, Store!LoadVersion
<1>10. CASE rots' = rots
  BY Zenon, <1>1, <1>10 DEF Store!storeVars
<1>11. CASE rots' # rots
  BY Zenon, <1>1, <1>2, <1>3, <1>9, <1>11 DEF Store!StoreNext
<1> QED
  BY Zenon, <1>10, <1>11

\* The steps of the clients between a request and its answers change nothing in
\* the store.
LEMMA OtherStepsStutter ==
  ASSUME UNCHANGED <<entry, data, rots>>
  PROVE  UNCHANGED Store!storeVars
  BY Zenon DEF Store!storeVars

\* The clients, coordinators and replicas together implement a store in which a
\* read-only transaction is one instantaneous read of all its keys.  Versions is
\* the set of version numbers of the store, here all of them.
THEOREM PortImplementsStore ==
  ASSUME Versions = Nat
  PROVE  Spec => StoreSpec
<1>1. Init => Store!StoreInit(LoadWrite)
  BY Zenon, InitIsStoreInit
<1>2. IndInv /\ [Next]_vars => [Store!StoreNext]_(Store!storeVars)
  <2>1. SUFFICES ASSUME IndInv, [Next]_vars
                 PROVE  [Store!StoreNext]_(Store!storeVars)
    BY Zenon
  <2>2. ASSUME NEW m \in requests, HandleRead(m) \/ HandleWrite(m)
        PROVE  [Store!StoreNext]_(Store!storeVars)
    BY Zenon, <2>1, <2>2, HandleReadIsFreeze, HandleWriteIsCommit
  <2>3. ASSUME NEW c \in Clients, CompleteRot(c)
        PROVE  [Store!StoreNext]_(Store!storeVars)
    BY Zenon, <2>1, <2>3, CompleteRotIsReadOnlyTxn
  <2>4. ASSUME \/ \E c \in Clients, ks \in RotSets : BeginRot(c, ks)
               \/ \E c \in Clients, ks \in WriteSets : BeginWrite(c, ks)
               \/ \E c \in Clients : CompleteWrite(c) \/ Timeout(c)
               \/ UNCHANGED vars
        PROVE  [Store!StoreNext]_(Store!storeVars)
    <3>1. UNCHANGED <<entry, data, rots>>
      BY Zenon, <2>4 DEF BeginRot, BeginWrite, CompleteWrite, Timeout, vars
    <3> QED
      BY Zenon, <3>1, OtherStepsStutter
  <2> QED
    BY Zenon, <2>1, <2>2, <2>3, <2>4 DEF Next
<1> QED
  BY <1>1, <1>2, IndInvHolds, PTL DEF Spec, StoreSpec

-----------------------------------------------------------------------------
(* Sessions and causality.                                                 *)

\* After the load phase nothing is known of but version 1.
LEMMA InitCausalInv == Init => CausalInv
<1>1. SUFFICES ASSUME Init PROVE CausalInv
  BY Zenon
<1>2. /\ deps = [w \in {LoadWrite} |-> [k \in Keys |-> 0]]
      /\ data = [k \in Keys |-> [n \in {1} |-> LoadWrite]]
      /\ requests = {} /\ op = [c \in Clients |-> Idle]
      /\ floor = [c \in Clients |-> [k \in Keys |-> 1]]
      /\ clock = [c \in Clients |-> 1]
  BY Zenon, <1>1 DEF Init, InitialVersion
<1>3. Known
  BY Zenon, <1>2 DEF Known
<1>4. Covered
  BY <1>2 DEF Covered, Covers, ClockCoversCommits
<1> QED
  BY Zenon, <1>3, <1>4 DEF CausalInv

\* Versions never go down, so a state below the cap has only had such states
\* before it.
LEMMA BelowCapBefore ==
  ASSUME IndInv, [Next]_vars, BelowCap'
  PROVE  BelowCap
<1>1. ASSUME \A k \in Keys : Grows(entry[k], data[k], entry'[k], data'[k])
      PROVE  BelowCap
  <2>1. ASSUME NEW k \in Keys
        PROVE  entry[k].highest_version_written < VersionCap
    <3>1. entry[k].highest_version_written \in Nat /\ entry'[k].highest_version_written \in Nat
      BY Zenon, NextIndInv, ChainVersions DEF IndInv, Stored
    <3>2. /\ entry[k].highest_version_written <= entry'[k].highest_version_written
          /\ entry'[k].highest_version_written < VersionCap
      BY Zenon, <1>1 DEF Grows, BelowCap
    <3> QED
      BY <3>1, <3>2, VersionCapAssumption
  <2> QED
    BY Zenon, <2>1 DEF BelowCap
<1>2. ASSUME NEW m \in requests, HandleRead(m) \/ HandleWrite(m) PROVE BelowCap
  BY Zenon, <1>1, <1>2, HandleReadHandled, HandleWriteHandled DEF Handled
<1>3. ASSUME entry' = entry PROVE BelowCap
  BY Zenon, <1>3 DEF BelowCap
<1>4. CASE Next
  BY Zenon, <1>2, <1>3, <1>4 DEF Next, BeginRot, BeginWrite, CompleteRot, CompleteWrite, Timeout
<1> QED
  BY Zenon, <1>3, <1>4 DEF vars

\* A send adds requests of a write whose dependencies are recorded and covered.
LEMMA SendsCausalInv ==
  ASSUME IndInv, CausalInv, NEW c \in Clients, NEW kind, NEW n, NEW t, NEW ks, NEW v,
         Sends(c, kind, n, t, ks, v),
         deps' \in [DOMAIN deps' -> [Keys -> Nat]],
         \A w \in DOMAIN deps' : \A q \in Keys : deps'[w][q] = 0 \/ deps'[w][q] \in DOMAIN data[q],
         \A w \in DOMAIN deps : w \in DOMAIN deps' /\
            (deps'[w] = deps[w] \/ (op[c] = Idle /\ w = [client |-> c, op |-> n])),
         kind = "write" => [client |-> c, op |-> n] \in DOMAIN deps',
         kind = "write" /\ BelowCap => Covers(v, deps'[[client |-> c, op |-> n]])
  PROVE  CausalInv'
<1> DEFINE w0 == [client |-> c, op |-> n]
           o == [kind |-> kind, try |-> t, keys |-> ks, ver |-> v, got |-> <<>>]
           R == {[kind |-> kind, client |-> c, op |-> n, try |-> t, key |-> k, ver |-> v] : k \in ks}
<1>1. /\ op' = [op EXCEPT ![c] = o]
      /\ requests' = requests \union R
      /\ \/ op[c] = Idle /\ n = ops[c] + 1 /\ ops' = [ops EXCEPT ![c] = n]
         \/ op[c] # Idle /\ n = ops[c] /\ ops' = ops
      /\ UNCHANGED <<clock, view, entry, data, rots, floor>>
  BY Zenon DEF Sends, Send
<1>2. o.kind = kind /\ o.ver = v
  BY Zenon
<1>3. \A q \in R : q.kind = kind /\ q.ver = v /\ WriteOf(q) = w0
  BY DEF WriteOf
<1> HIDE DEF o, R
<1>4. /\ op'[c] = o /\ \A d \in Clients : d # c => op'[d] = op[d] /\ ops'[d] = ops[d]
      /\ ops'[c] = n /\ ops[c] \in Nat
  BY <1>1 DEF IndInv, Types
\* The dependencies of what is stored or in flight are kept.
<1>5. ASSUME NEW k \in Keys, NEW i \in DOMAIN data[k]
      PROVE  data[k][i] \in DOMAIN deps' /\ deps'[data[k][i]] = deps[data[k][i]]
  <2>1. data[k][i] \in DOMAIN deps
    BY Zenon DEF CausalInv, Known
  <2>2. CASE op[c] = Idle /\ data[k][i] = w0
    <3>1. data[k][i].client = c /\ data[k][i].op = ops[c] + 1
      BY <1>1, <2>2
    <3>2. data[k][i].op <= ops[c]
      BY Zenon, <3>1 DEF IndInv, WritesAreOnce
    <3> QED
      BY <1>4, <3>1, <3>2
  <2> QED
    BY Zenon, <2>1, <2>2
<1>6. ASSUME NEW q \in requests, q.kind = "write"
      PROVE  WriteOf(q) \in DOMAIN deps' /\ deps'[WriteOf(q)] = deps[WriteOf(q)]
  <2>1. WriteOf(q) \in DOMAIN deps
    BY Zenon, <1>6 DEF CausalInv, Known
  <2>2. CASE op[c] = Idle /\ WriteOf(q) = w0
    <3>1. q.client = c /\ q.op = ops[c] + 1
      BY Zenon, <1>1, <2>2 DEF WriteOf
    <3>2. q.op <= ops[c]
      BY Zenon, <3>1 DEF IndInv, InFlight
    <3> QED
      BY <1>4, <3>1, <3>2
  <2> QED
    BY Zenon, <2>1, <2>2
<1>7. ASSUME NEW d \in Clients, op[d] # Idle, op[d].kind = "write", d # c
      PROVE  LET u == [client |-> d, op |-> ops[d]]
             IN  u \in DOMAIN deps' /\ deps'[u] = deps[u]
  <2>1. [client |-> d, op |-> ops[d]] \in DOMAIN deps
    BY Zenon, <1>7 DEF CausalInv, Known
  <2>2. [client |-> d, op |-> ops[d]] # w0
    BY Zenon, <1>7
  <2> QED
    BY Zenon, <2>1, <2>2
<1>8. Known'
  <2>1. \A q \in requests' : q.kind = "write" => WriteOf(q) \in DOMAIN deps'
    BY Zenon, <1>1, <1>3, <1>6
  <2>2. ASSUME NEW d \in Clients, op'[d] # Idle, op'[d].kind = "write"
        PROVE  [client |-> d, op |-> ops'[d]] \in DOMAIN deps'
    <3>1. CASE d = c
      BY Zenon, <1>2, <1>4, <2>2, <3>1
    <3>2. CASE d # c
      BY Zenon, <1>4, <1>7, <2>2, <3>2
    <3> QED
      BY Zenon, <3>1, <3>2
  <2>3. \A k \in Keys : \A i \in DOMAIN data'[k] : data'[k][i] \in DOMAIN deps'
    BY Zenon, <1>1, <1>5
  <2>4. \A w \in DOMAIN deps' : \A q \in Keys : deps'[w][q] = 0 \/ deps'[w][q] \in DOMAIN data'[q]
    BY Zenon, <1>1
  <2> QED
    BY Zenon, <2>1, <2>2, <2>3, <2>4 DEF Known, WriteOf
<1>9. ASSUME BelowCap' PROVE Covered'
  <2>1. BelowCap /\ Covered
    BY Zenon, <1>1, <1>9 DEF BelowCap, CausalInv
  <2>2. ClockCoversCommits'
    BY Zenon, <1>1, <2>1 DEF Covered, ClockCoversCommits
  <2>3. \A k \in Keys : \A i \in DOMAIN data'[k] : Covers(i, deps'[data'[k][i]])
    BY Zenon, <1>1, <1>5, <2>1 DEF Covered
  <2>4. \A q \in requests' : q.kind = "write" => Covers(q.ver, deps'[WriteOf(q)])
    BY Zenon, <1>1, <1>3, <1>6, <2>1 DEF Covered
  <2>5. ASSUME NEW d \in Clients, op'[d] # Idle, op'[d].kind = "write"
        PROVE  Covers(op'[d].ver, deps'[[client |-> d, op |-> ops'[d]]])
    <3>1. CASE d = c
      BY Zenon, <1>2, <1>4, <2>1, <2>5, <3>1
    <3>2. CASE d # c
      BY <1>4, <1>7, <2>1, <2>5, <3>2 DEF Covered
    <3> QED
      BY Zenon, <3>1, <3>2
  <2> QED
    BY Zenon, <2>2, <2>3, <2>4, <2>5 DEF Covered, WriteOf, Covers
<1> QED
  BY Zenon, <1>8, <1>9 DEF CausalInv

\* A new read, a new write and a retry keep it: a write depends on what its
\* client knows, which its clock covers, and proposes a version above the clock.
LEMMA BeginRotCausalInv ==
  ASSUME IndInv, CausalInv, NEW c \in Clients, NEW ks \in RotSets, BeginRot(c, ks)
  PROVE  CausalInv'
<1>1. Sends(c, "rot", ops[c] + 1, 1, ks, clock[c]) /\ deps' = deps
  BY Zenon, BeginRotSends
<1>2. /\ deps' \in [DOMAIN deps' -> [Keys -> Nat]]
      /\ \A w \in DOMAIN deps' : \A q \in Keys : deps'[w][q] = 0 \/ deps'[w][q] \in DOMAIN data[q]
  BY Zenon, <1>1 DEF CausalInv, Known
<1> QED
  BY Zenon, <1>1, <1>2, SendsCausalInv

\* A write depends on what its client knows of when it is sent.
LEMMA BeginWriteCausalInv ==
  ASSUME IndInv, CausalInv, NEW c \in Clients, NEW ks \in WriteSets, BeginWrite(c, ks)
  PROVE  CausalInv'
<1> DEFINE w == [client |-> c, op |-> ops[c] + 1]
<1>1. Sends(c, "write", ops[c] + 1, 1, ks, clock[c] + 1)
  BY Zenon, BeginWriteSends
<1>2. /\ deps' = [u \in DOMAIN deps \union {w} |-> IF u = w THEN floor[c] ELSE deps[u]]
      /\ op[c] = Idle
  BY Zenon DEF BeginWrite, Begin
<1>3. /\ floor[c] \in [Keys -> Nat] /\ clock[c] \in Nat
      /\ \A q \in Keys : floor[c][q] \in DOMAIN data[q]
  BY Zenon DEF IndInv, Types, KnownIsStored
<1>4. /\ deps \in [DOMAIN deps -> [Keys -> Nat]]
      /\ \A u \in DOMAIN deps : \A q \in Keys : deps[u][q] = 0 \/ deps[u][q] \in DOMAIN data[q]
  BY Zenon DEF CausalInv, Known
<1> HIDE DEF w
<1>5. DOMAIN deps' = DOMAIN deps \union {w} /\ deps'[w] = floor[c]
      /\ \A u \in DOMAIN deps : u # w => deps'[u] = deps[u]
  BY Zenon, <1>2
<1>6. /\ deps' \in [DOMAIN deps' -> [Keys -> Nat]]
      /\ \A u \in DOMAIN deps' : \A q \in Keys : deps'[u][q] = 0 \/ deps'[u][q] \in DOMAIN data[q]
  <2>1. \A u \in DOMAIN deps' : deps'[u] \in [Keys -> Nat]
    BY Zenon, <1>3, <1>4, <1>5
  <2>2. deps' = [u \in DOMAIN deps' |-> deps'[u]]
    BY Zenon, <1>2
  <2> QED
    BY Zenon, <1>3, <1>4, <1>5, <2>1, <2>2
<1>7. BelowCap => Covers(clock[c] + 1, deps'[w])
  <2>1. SUFFICES ASSUME BelowCap, NEW q \in Keys PROVE floor[c][q] <= clock[c] + 1
    BY Zenon, <1>5 DEF Covers
  <2>2. floor[c][q] <= clock[c] /\ floor[c][q] \in Nat
    BY Zenon, <1>3, <2>1 DEF CausalInv, Covered, ClockCoversCommits
  <2> QED
    BY <1>3, <2>2
<1>8. \A u \in DOMAIN deps : u \in DOMAIN deps' /\
        (deps'[u] = deps[u] \/ (op[c] = Idle /\ u = w))
  BY Zenon, <1>2, <1>5
<1>9. w \in DOMAIN deps'
  BY Zenon, <1>5
<1> QED
  BY Zenon, <1>1, <1>6, <1>7, <1>8, <1>9, SendsCausalInv DEF w

\* Giving up changes what the client waits for and nothing else.
LEMMA TimeoutCausalInv ==
  ASSUME IndInv, CausalInv, NEW c \in Clients, Timeout(c)
  PROVE  CausalInv'
<1>1. deps' = deps /\ op[c] # Idle
  BY Zenon, TimeoutSends
<1>2. CASE /\ op' = [op EXCEPT ![c] = Idle]
           /\ UNCHANGED <<clock, view, ops, requests, entry, data, rots, floor>>
  <2>1. \A d \in Clients : op'[d] # Idle => op'[d] = op[d]
    BY Zenon, <1>2 DEF IndInv, Types
  <2>2. Known'
    BY Zenon, <1>1, <1>2, <2>1 DEF CausalInv, Known, WriteOf
  <2>3. BelowCap' => Covered'
    BY Zenon, <1>1, <1>2, <2>1 DEF CausalInv, Covered, ClockCoversCommits, Covers, BelowCap, WriteOf
  <2> QED
    BY Zenon, <2>2, <2>3 DEF CausalInv
<1>3. CASE Sends(c, op[c].kind, ops[c], op[c].try + 1, op[c].keys, op[c].ver)
  <2>1. /\ deps' \in [DOMAIN deps' -> [Keys -> Nat]]
        /\ \A w \in DOMAIN deps' : \A q \in Keys :
             deps'[w][q] = 0 \/ deps'[w][q] \in DOMAIN data[q]
    BY Zenon, <1>1 DEF CausalInv, Known
  <2>2. op[c].kind = "write" => [client |-> c, op |-> ops[c]] \in DOMAIN deps'
    BY Zenon, <1>1 DEF CausalInv, Known
  <2>3. op[c].kind = "write" /\ BelowCap =>
           Covers(op[c].ver, deps'[[client |-> c, op |-> ops[c]]])
    BY Zenon, <1>1 DEF CausalInv, Covered
  <2> QED
    BY Zenon, <1>1, <1>3, <2>1, <2>2, <2>3, SendsCausalInv
<1> QED
  BY Zenon, <1>2, <1>3, TimeoutSends

\* A replica's step keeps it: what is stored is at or above the version its
\* write proposed.
LEMMA HandledCausalInv ==
  ASSUME IndInv, CausalInv, NEW m \in requests, HandleRead(m) \/ HandleWrite(m)
  PROVE  CausalInv'
<1> DEFINE x == m.key
<1>1. PICK v : Handled(m, v)
  BY Zenon, HandleReadHandled, HandleWriteHandled
<1>2. /\ requests' = requests \ {m}
      /\ UNCHANGED <<clock, ops, floor, deps>>
      /\ \A k \in Keys : Grows(entry[k], data[k], entry'[k], data'[k])
  BY Zenon, <1>1 DEF Handled
<1>3. /\ \A c \in Clients : (op'[c] = Idle) = (op[c] = Idle)
      /\ \A c \in Clients : op[c] # Idle => op'[c].ver = op[c].ver /\ op'[c].kind = op[c].kind
  BY Zenon, <1>1, HandledKeeps
<1>4. ASSUME NEW k \in Keys, NEW i \in DOMAIN data'[k]
      PROVE  \/ i \in DOMAIN data[k] /\ data'[k][i] = data[k][i]
             \/ /\ m.kind = "write" /\ data'[k][i] = WriteOf(m)
                /\ i \in Nat /\ i >= m.ver
  <2>1. CASE data' = data
    BY Zenon, <2>1
  <2>2. CASE data' # data
    <3> DEFINE n == Promoted(entry[x], m.ver)
    <3>1. HandleWrite(m)
      BY Zenon, <2>2, HandleReadHandled
    <3>2. /\ m.kind = "write" /\ n \in Nat /\ n >= m.ver
          /\ data' = [data EXCEPT ![x] =
                        [j \in DOMAIN data[x] \union {n} |->
                           IF j = n THEN WriteOf(m) ELSE data[x][j]]]
      BY Zenon, <2>2, <3>1, HandleWriteHandled
    <3> HIDE DEF n
    <3>3. CASE k # x
      BY Zenon, <3>2, <3>3 DEF IndInv, Stored
    <3>4. CASE k = x
      <4>1. data'[k] = [j \in DOMAIN data[x] \union {n} |->
                          IF j = n THEN WriteOf(m) ELSE data[x][j]]
        BY Zenon, <3>2, <3>4 DEF IndInv, Stored
      <4> QED
        BY Zenon, <3>2, <3>4, <4>1
    <3> QED
      BY Zenon, <3>3, <3>4
  <2> QED
    BY Zenon, <2>1, <2>2
<1>5. m.ver \in Nat
  BY Zenon DEF IndInv, Types, Request
<1>6. Known'
  <2>1. \A w \in DOMAIN deps' : \A q \in Keys : deps'[w][q] = 0 \/ deps'[w][q] \in DOMAIN data'[q]
    BY Zenon, <1>2 DEF CausalInv, Known, Grows
  <2>2. \A k \in Keys : \A i \in DOMAIN data'[k] : data'[k][i] \in DOMAIN deps'
    BY Zenon, <1>2, <1>4 DEF CausalInv, Known
  <2>3. \A q \in requests' : q.kind = "write" => WriteOf(q) \in DOMAIN deps'
    BY Zenon, <1>2 DEF CausalInv, Known
  <2>4. \A c \in Clients : op'[c] # Idle /\ op'[c].kind = "write" =>
          [client |-> c, op |-> ops'[c]] \in DOMAIN deps'
    BY Zenon, <1>2, <1>3 DEF CausalInv, Known
  <2>5. deps' \in [DOMAIN deps' -> [Keys -> Nat]]
    BY Zenon, <1>2 DEF CausalInv, Known
  <2> QED
    BY Zenon, <2>1, <2>2, <2>3, <2>4, <2>5 DEF Known, WriteOf
<1>7. ASSUME BelowCap' PROVE Covered'
  <2>1. Covered
    <3>1. [Next]_vars
      BY Zenon DEF Next
    <3> QED
      BY Zenon, <1>7, <3>1, BelowCapBefore DEF CausalInv
  <2>2. ClockCoversCommits'
    BY Zenon, <1>2, <2>1 DEF Covered, ClockCoversCommits
  <2>3. ASSUME NEW k \in Keys, NEW i \in DOMAIN data'[k]
        PROVE  Covers(i, deps'[data'[k][i]])
    <3>1. CASE i \in DOMAIN data[k] /\ data'[k][i] = data[k][i]
      BY Zenon, <1>2, <2>1, <3>1 DEF Covered
    <3>2. CASE m.kind = "write" /\ data'[k][i] = WriteOf(m) /\ i \in Nat /\ i >= m.ver
      <4>1. Covers(m.ver, deps[WriteOf(m)]) /\ deps[WriteOf(m)] \in [Keys -> Nat]
        BY Zenon, <2>1, <3>2 DEF Covered, CausalInv, Known
      <4>2. Covers(i, deps[WriteOf(m)])
        <5>1. SUFFICES ASSUME NEW q \in Keys PROVE deps[WriteOf(m)][q] <= i
          BY Zenon DEF Covers
        <5>2. deps[WriteOf(m)][q] <= m.ver /\ deps[WriteOf(m)][q] \in Nat
          BY Zenon, <4>1 DEF Covers
        <5> QED
          BY <1>5, <3>2, <5>2
      <4> QED
        BY Zenon, <1>2, <3>2, <4>2
    <3> QED
      BY Zenon, <1>4, <3>1, <3>2
  <2>4. \A q \in requests' : q.kind = "write" => Covers(q.ver, deps'[WriteOf(q)])
    BY Zenon, <1>2, <2>1 DEF Covered
  <2>5. \A c \in Clients : op'[c] # Idle /\ op'[c].kind = "write" =>
          Covers(op'[c].ver, deps'[[client |-> c, op |-> ops'[c]]])
    BY Zenon, <1>2, <1>3, <2>1 DEF Covered
  <2> QED
    BY Zenon, <2>2, <2>3, <2>4, <2>5 DEF Covered, WriteOf, Covers
<1> QED
  BY Zenon, <1>6, <1>7 DEF CausalInv

\* A client that stops waiting, with its clock at all it now knows of.
LEMMA EndCausalInv ==
  ASSUME IndInv, CausalInv, NEW c \in Clients,
         op' = [op EXCEPT ![c] = Idle],
         UNCHANGED <<ops, requests, entry, data, deps>>,
         BelowCap => ClockCoversCommits'
  PROVE  CausalInv'
<1>1. \A d \in Clients : op'[d] # Idle => op'[d] = op[d]
  BY Zenon DEF IndInv, Types
<1>2. Known'
  BY Zenon, <1>1 DEF CausalInv, Known, WriteOf
<1>3. BelowCap' => Covered'
  BY Zenon, <1>1 DEF CausalInv, Covered, Covers, BelowCap, WriteOf
<1> QED
  BY Zenon, <1>2, <1>3 DEF CausalInv

\* What a read returns is at or below the clock it was sent at.
LEMMA CompleteRotCausalInv ==
  ASSUME IndInv, CausalInv, NEW c \in Clients, CompleteRot(c)
  PROVE  CausalInv'
<1>1. /\ Answered(c) /\ op[c].kind = "rot" /\ op[c] # Idle
      /\ floor' = [floor EXCEPT ![c] = KnownTo(c)]
      /\ op' = [op EXCEPT ![c] = Idle]
      /\ UNCHANGED <<clock, ops, requests, entry, data, deps>>
  BY Zenon DEF CompleteRot, Answered
<1>2. op[c].got \in [op[c].keys -> Nat] /\ op[c].keys \subseteq Keys
  BY Zenon, <1>1, KnownToStored
<1>3. op[c].ver = clock[c]
  BY Zenon, <1>1 DEF IndInv, InFlight
<1>4. \A k \in op[c].keys : op[c].got[k] <= clock[c]
  BY Zenon, <1>1, <1>2, <1>3 DEF IndInv, ReadsAreClosed, Closed
<1>5. ASSUME BelowCap PROVE ClockCoversCommits'
  <2>1. \A d \in Clients : \A k \in Keys : floor[d][k] <= clock[d]
    BY Zenon, <1>5 DEF CausalInv, Covered, ClockCoversCommits
  <2>2. \A k \in Keys : KnownTo(c)[k] <= clock[c]
    BY Zenon, <1>4, <2>1 DEF KnownTo
  <2>3. floor'[c] = KnownTo(c) /\ \A d \in Clients : d # c => floor'[d] = floor[d]
    BY Zenon, <1>1 DEF IndInv, Types
  <2> QED
    BY Zenon, <1>1, <2>1, <2>2, <2>3 DEF ClockCoversCommits
<1> QED
  BY Zenon, <1>1, <1>5, EndCausalInv

\* A batch moves its client's clock to its largest commit version, as long as
\* that is below the cap and the slot it is read from is intact.
LEMMA CompleteWriteCausalInv ==
  ASSUME DeadSlot = {}, IndInv, CausalInv, NEW c \in Clients, CompleteWrite(c)
  PROVE  CausalInv'
<1>1. /\ Answered(c) /\ op[c].kind = "write" /\ op[c] # Idle
      /\ floor' = [floor EXCEPT ![c] = KnownTo(c)]
      /\ op' = [op EXCEPT ![c] = Idle]
      /\ UNCHANGED <<ops, requests, entry, data, deps>>
  BY Zenon DEF CompleteWrite, Answered
<1>2. op[c].got \in [op[c].keys -> Nat] /\ op[c].keys \subseteq Keys
      /\ DOMAIN op[c].got = op[c].keys
  BY Zenon, <1>1, KnownToStored
<1>3. PICK z \in op[c].keys :
         /\ \A k \in op[c].keys : op[c].got[k] <= op[c].got[z]
         /\ clock' = [clock EXCEPT ![c] = SetCurrent(clock[c], op[c].got[z])]
  <2>1. PICK v \in {op[c].got[k] : k \in op[c].keys} :
           /\ \A k \in op[c].keys : op[c].got[k] <= v
           /\ clock' = [clock EXCEPT ![c] = SetCurrent(clock[c], v)]
    BY Zenon DEF CompleteWrite
  <2>2. PICK z \in op[c].keys : v = op[c].got[z]
    BY Zenon
  <2> QED
    BY Zenon, <2>1, <2>2
<1>4. /\ clock \in [Clients -> Nat \ {0}] /\ floor \in [Clients -> [Keys -> Nat]]
  BY Zenon DEF IndInv, Types
<1>5. op[c].got[z] \in DOMAIN data[z] /\ z \in Keys
  BY Zenon, <1>1, <1>2 DEF IndInv, KnownIsStored
<1>6. /\ op[c].got[z] <= entry[z].highest_version_written
      /\ entry[z].highest_version_written \in Nat
  BY Zenon, <1>5, ChainVersions DEF IndInv, Stored
<1>7. ASSUME BelowCap PROVE ClockCoversCommits'
  <2>1. op[c].got[z] < VersionCap /\ op[c].got[z] \in Nat /\ VersionCap \in Nat
    BY <1>2, <1>5, <1>6, <1>7, VersionCapAssumption DEF BelowCap
  <2>2. /\ clock'[c] \in Nat /\ clock'[c] >= clock[c] /\ clock'[c] >= op[c].got[z]
        /\ \A d \in Clients : d # c => clock'[d] = clock[d]
    BY <1>3, <1>4, <2>1 DEF SetCurrent
  <2>3. \A d \in Clients : \A k \in Keys :
           floor[d][k] <= clock[d] /\ floor[d][k] \in Nat /\ clock[d] \in Nat
    BY Zenon, <1>4, <1>7 DEF CausalInv, Covered, ClockCoversCommits
  <2>4. \A k \in Keys : KnownTo(c)[k] <= clock'[c]
    <3>1. \A k \in op[c].keys : op[c].got[k] \in Nat /\ op[c].got[k] <= clock'[c]
      BY <1>2, <1>3, <2>1, <2>2
    <3>2. \A k \in Keys : floor[c][k] <= clock'[c]
      BY <2>2, <2>3
    <3> QED
      BY Zenon, <3>1, <3>2 DEF KnownTo
  <2>5. floor'[c] = KnownTo(c) /\ \A d \in Clients : d # c => floor'[d] = floor[d]
    BY Zenon, <1>1, <1>4
  <2> QED
    BY Zenon, <2>2, <2>3, <2>4, <2>5 DEF ClockCoversCommits
<1> QED
  BY Zenon, <1>1, <1>7, EndCausalInv

\* Every step keeps the causal invariant if the dead slot is intact.
LEMMA NextCausalInv ==
  ASSUME DeadSlot = {}, IndInv, CausalInv, [Next]_vars
  PROVE  CausalInv'
<1>1. CASE UNCHANGED vars
  <2>1. Known'
    BY Zenon, <1>1 DEF vars, CausalInv, Known, WriteOf
  <2>2. BelowCap' => Covered'
    BY Zenon, <1>1 DEF vars, CausalInv, Covered, ClockCoversCommits, Covers, BelowCap, WriteOf
  <2> QED
    BY Zenon, <2>1, <2>2 DEF CausalInv
<1>2. CASE Next
  BY Zenon, <1>2, BeginRotCausalInv, BeginWriteCausalInv, HandledCausalInv, CompleteRotCausalInv,
     CompleteWriteCausalInv, TimeoutCausalInv DEF Next
<1> QED
  BY Zenon, <1>1, <1>2

\* With the commit version intact and below the cap, the clock of a client has
\* reached the commit versions of its writes, as the comment in insert() says.
THEOREM ClocksCoverCommits ==
  ASSUME DeadSlot = {}
  PROVE  Spec => [](BelowCap => ClockCoversCommits)
<1>1. Init => CausalInv
  BY Zenon, InitCausalInv
<1>2. IndInv /\ CausalInv /\ [Next]_vars => CausalInv'
  BY Zenon, NextCausalInv
<1>3. CausalInv => (BelowCap => ClockCoversCommits)
  BY Zenon DEF CausalInv, Covered
<1> QED
  BY <1>1, <1>2, <1>3, IndInvHolds, PTL DEF Spec

\* Under the same conditions a client never reads a key at an older version than
\* one it read before or its own write committed at: read() finds the newest
\* version at or below the clock, and the clock covers what the client knows.
THEOREM SessionsAreOrdered ==
  ASSUME DeadSlot = {}
  PROVE  Spec => [](BelowCap => SessionOrder)
<1>1. IndInv /\ (BelowCap => ClockCoversCommits) => (BelowCap => SessionOrder)
  <2>1. SUFFICES ASSUME IndInv, ClockCoversCommits,
                        NEW c \in Clients, op[c] # Idle, op[c].kind = "rot",
                        NEW k \in DOMAIN op[c].got
                 PROVE  op[c].got[k] >= floor[c][k]
    BY Zenon DEF SessionOrder
  <2>2. k \in Keys /\ Closed(entry[k], data[k], op[c].ver, op[c].got[k])
    <3>1. op[c].keys \subseteq Keys /\ DOMAIN op[c].got \subseteq op[c].keys
      BY Zenon, <2>1 DEF IndInv, Types, InFlight, Operation
    <3> QED
      BY Zenon, <2>1, <3>1 DEF IndInv, ReadsAreClosed
  <2>3. floor[c][k] \in DOMAIN data[k] /\ floor[c][k] <= op[c].ver
    BY Zenon, <2>1, <2>2 DEF IndInv, KnownIsStored, InFlight, ClockCoversCommits
  <2>4. floor[c][k] <= op[c].got[k] /\ op[c].got[k] \in Nat /\ floor[c][k] \in Nat
    BY Zenon, <2>1, <2>2, <2>3, ChainVersions DEF Closed, IndInv, Stored
  <2> QED
    BY Zenon, <2>4
<1> QED
  BY <1>1, IndInvHolds, ClocksCoverCommits, PTL

\* Under the same conditions read-only transactions are causal: one that returns
\* a write returns all that the write's client knew of, or newer.
THEOREM SnapshotsStayCausal ==
  ASSUME DeadSlot = {}
  PROVE  Spec => [](BelowCap => SnapshotsAreCausal)
<1>1. IndInv /\ CausalInv => (BelowCap => SnapshotsAreCausal)
  <2>1. SUFFICES ASSUME IndInv, Known, Covered, NEW t \in rots,
                        NEW k \in DOMAIN t.res, NEW q \in DOMAIN t.res
                 PROVE  t.res[q] >= deps[data[k][t.res[k]]][q]
    BY Zenon DEF SnapshotsAreCausal, CausalInv
  <2> DEFINE n == t.res[k]
             w == data[k][n]
             dep == deps[w][q]
  <2>2. /\ k \in Keys /\ q \in Keys /\ t.ver \in Nat
        /\ Closed(entry[k], data[k], t.ver, n)
        /\ Closed(entry[q], data[q], t.ver, t.res[q])
    BY Zenon, <2>1 DEF IndInv, ReadsAreClosed
  <2>3. n \in DOMAIN data[k] /\ n <= t.ver /\ t.res[q] \in DOMAIN data[q]
    BY Zenon, <2>2 DEF Closed
  <2>4. w \in DOMAIN deps /\ Covers(n, deps[w])
    BY Zenon, <2>1, <2>2, <2>3 DEF Known, Covered
  <2>5. dep \in Nat /\ (dep = 0 \/ dep \in DOMAIN data[q]) /\ dep <= n
    BY Zenon, <2>1, <2>2, <2>4 DEF Known, Covers
  <2>6. n \in Nat /\ t.res[q] \in Nat
    BY Zenon, <2>1, <2>2, <2>3, ChainVersions DEF IndInv, Stored
  <2>7. dep <= t.ver
    BY <2>2, <2>3, <2>5, <2>6
  <2>8. dep = 0 \/ dep <= t.res[q]
    BY Zenon, <2>2, <2>5, <2>7 DEF Closed
  <2> QED
    BY <2>5, <2>6, <2>8
<1>2. IndInv /\ CausalInv /\ [Next]_vars => CausalInv'
  BY Zenon, NextCausalInv
<1> QED
  BY <1>1, <1>2, InitCausalInv, IndInvHolds, PTL DEF Spec
=============================================================================
