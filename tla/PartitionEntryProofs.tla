------------------------ MODULE PartitionEntryProofs ------------------------
(***************************************************************************)
(* The invariants of PartitionEntry, for every number of readers, every    *)
(* window and every mix of proposed and read versions.                     *)
(***************************************************************************)
EXTENDS PartitionEntry, VersionListProofs

\* The inductive invariant.  StableReads needs to know that the trimming only
\* removes what is older than everything kept (the third conjunct of History),
\* and that highest_version_read covers every read; SnapshotsPinned needs
\* last_version to be the oldest version with data (in WellFormed).
History ==
    /\ \A n \in committed : 0 < n /\ n <= pe.highest_version_written
    /\ \A n \in Linked(pe) : n = 0 \/ n \in committed
    /\ \A n \in committed : n \notin Linked(pe) =>
          \A m \in Linked(pe) : m = 0 \/ n < m
    /\ \A rd \in reads : 0 < rd.got /\ rd.at <= pe.highest_version_read

IndInv ==
    /\ TypeOK
    /\ WellFormed(pe)
    /\ pe.num_versions <= MaxVersions
    /\ SnapshotsPinned
    /\ History

-----------------------------------------------------------------------------

\* A new entry, with no reader and an empty history, satisfies the invariant.
LEMMA InitIndInv == Init => IndInv
<1>1. SUFFICES ASSUME Init PROVE IndInv
  OBVIOUS
<1>2. WellFormed(pe)
  BY <1>1, NewEntryWellFormed DEF Init
<1>3. pe.num_versions <= MaxVersions
  BY <1>1, MaxVersionsAssumption DEF Init, NewEntry
<1>4. TypeOK
  BY <1>1, <1>2 DEF TypeOK, Init, WellFormed, NullVersion
<1>5. SnapshotsPinned
  BY <1>1 DEF SnapshotsPinned, Init
<1>6. History
  BY <1>1 DEF History, Init, NewEntry, Linked
<1> QED
  BY <1>2, <1>3, <1>4, <1>5, <1>6 DEF IndInv

\* A write keeps the invariant: dropped, inserted, trimmed or faulting.
LEMMA ApplyIndInv ==
  ASSUME IndInv, NEW vtw \in WriteVersions, Apply(vtw)
  PROVE  IndInv'
<1>1. /\ WellFormed(pe) /\ pe \in Entry /\ vtw \in Nat
      /\ UNCHANGED <<open, reads>> /\ Pinned = { open[r] : r \in Readers } \ {NullVersion}
  BY VersionsAssumption DEF IndInv, WellFormed, Apply, Pinned
<1>2. CASE ApplyFaults(pe, vtw, Pinned) \/ Dropped(pe, vtw)
  <2>1. UNCHANGED <<pe, open, committed, reads>> /\ fault' \in BOOLEAN
    BY <1>2 DEF Apply, Applied, ApplyFaults, IndInv, TypeOK
  <2> QED
    BY <2>1 DEF IndInv, TypeOK, WellFormed, SnapshotsPinned, History, Linked
<1>3. CASE ~ApplyFaults(pe, vtw, Pinned) /\ ~Dropped(pe, vtw)
  <2> DEFINE n == Promoted(pe, vtw)
  <2>1. pe' = Applied(pe, vtw, Pinned) /\ committed' = committed \union {n}
        /\ UNCHANGED fault
    BY <1>3 DEF Apply
  <2>2. /\ WellFormed(pe')
        /\ pe'.num_versions <= MaxVersions
        /\ pe'.highest_version_read = pe.highest_version_read
        /\ pe'.highest_version_written = n
        /\ \A y \in Linked(pe') : y \in Linked(pe) \/ y = n
        /\ \A y \in Linked(pe) \union {n} : y \notin Linked(pe') =>
              /\ y = 0 \/ y \notin Pinned
              /\ \A z \in Linked(pe') : z = 0 \/ y < z
    <3>1. WellFormed(pe) /\ pe.num_versions <= MaxVersions /\ vtw \in Nat
      BY <1>1 DEF IndInv
    <3>2. ~Dropped(pe, vtw) /\ ~ApplyFaults(pe, vtw, Pinned)
      BY <1>3
    <3> DEFINE f == Applied(pe, vtw, Pinned)
    <3>3. /\ WellFormed(f)
          /\ f.num_versions <= MaxVersions
          /\ f.highest_version_read = pe.highest_version_read
          /\ f.highest_version_written = n
          /\ \A y \in Linked(f) : y \in Linked(pe) \/ y = n
          /\ \A y \in Linked(pe) \union {n} : y \notin Linked(f) =>
                /\ y = 0 \/ y \notin Pinned
                /\ \A z \in Linked(f) : z = 0 \/ y < z
      BY <3>1, <3>2, AppliedWellFormed
    <3> QED
      BY <2>1, <3>3
  <2>3. n \in Nat /\ n > pe.highest_version_written /\ pe.highest_version_written \in Nat
    BY <1>1, <1>3, PromotedIsAbove DEF Entry
  <2> HIDE DEF n
  <2>4. TypeOK'
    BY <1>1, <2>1, <2>2, <2>3 DEF IndInv, TypeOK, WellFormed
  <2>5. SnapshotsPinned'
    <3>1. SUFFICES ASSUME NEW r \in Readers, open[r] # NullVersion
                   PROVE  open[r] \in Linked(pe')
      BY <1>1 DEF SnapshotsPinned, Linked
    <3>2. open[r] \in Linked(pe) /\ open[r] \in Pinned /\ open[r] # 0
      BY <1>1, <3>1 DEF IndInv, SnapshotsPinned, NullVersion
    <3> QED
      BY <2>2, <3>2
  <2>6. History'
    <3>1. \A c \in committed' : 0 < c /\ c <= pe'.highest_version_written
      BY <2>1, <2>2, <2>3 DEF IndInv, History, TypeOK
    <3>2. \A c \in Linked(pe') : c = 0 \/ c \in committed'
      BY <2>1, <2>2 DEF IndInv, History
    <3>3. ASSUME NEW c \in committed', c \notin Linked(pe'), NEW m \in Linked(pe')
          PROVE  m = 0 \/ c < m
      <4>1. CASE c = n \/ c \in Linked(pe)
        BY <2>2, <3>3, <4>1
      <4>2. CASE c \in committed /\ c \notin Linked(pe)
        <5>1. m \in Linked(pe) \/ m = n
          BY <2>2
        <5>2. c <= pe.highest_version_written /\ c \in Nat
          BY <4>2 DEF IndInv, History, TypeOK
        <5> QED
          BY <2>3, <4>2, <5>1, <5>2 DEF IndInv, History
      <4> QED
        BY <2>1, <3>3, <4>1, <4>2
    <3>4. \A rd \in reads' : 0 < rd.got /\ rd.at <= pe'.highest_version_read
      BY <1>1, <2>2 DEF IndInv, History
    <3> QED
      BY <3>1, <3>2, <3>3, <3>4 DEF History, Linked
  <2> QED
    BY <2>2, <2>4, <2>5, <2>6 DEF IndInv, WellFormed
<1> QED
  BY <1>2, <1>3

\* A read keeps the invariant: it moves highest_version_read only, and what it
\* opens is on the chain.
LEMMA ReadIndInv ==
  ASSUME IndInv, NEW r \in Readers, NEW vtr \in ReadVersions, Read(r, vtr)
  PROVE  /\ IndInv'
         /\ Linked(pe') = Linked(pe)
         /\ \A rd \in reads' \ reads :
               /\ rd \in [at : Nat, got : Nat]
               /\ Exact(rd) => \A y \in Linked(pe) : ~(rd.got < y /\ y <= rd.at)
               /\ rd.got \in Linked(pe)
<1> DEFINE n == VersionRead(pe.versions, vtr)
<1>1. /\ WellFormed(pe) /\ pe \in Entry /\ vtr \in Nat
      /\ pe.highest_version_written > 0
      /\ UNCHANGED <<fault, committed>>
      /\ pe' = AfterRead(pe, vtr)
      /\ open' = [open EXCEPT ![r] = n]
      /\ reads' = IF vtr = 0 THEN reads ELSE reads \union {[at |-> vtr, got |-> n]}
  BY VersionsAssumption DEF IndInv, WellFormed, Read, Exists
<1>2. /\ n \in Linked(pe)
      /\ n # 0
      /\ vtr > 0 /\ n <= vtr => \A y \in Linked(pe) : ~(n < y /\ y <= vtr)
  BY <1>1, VersionReadIsNewestBelow
<1>3. \A y \in Linked(pe) : y \in Nat
  BY <1>1 DEF Linked, Entry
<1> HIDE DEF n
<1>4. /\ pe' \in Entry
      /\ pe'.versions = pe.versions
      /\ pe'.highest_version_written = pe.highest_version_written
      /\ pe'.num_versions = pe.num_versions
      /\ pe'.last_version = pe.last_version
      /\ pe'.highest_version_read \in Nat
      /\ pe'.highest_version_read >= pe.highest_version_read
      /\ pe'.highest_version_read >= vtr
  BY <1>1 DEF AfterRead, Entry
<1>5. Linked(pe') = Linked(pe)
  BY <1>4 DEF Linked
<1>6. WellFormed(pe')
  BY <1>1, <1>4 DEF WellFormed, LastIsOldest
<1>7. TypeOK'
  BY <1>1, <1>2, <1>3, <1>4 DEF IndInv, TypeOK
<1>8. SnapshotsPinned'
  <2>1. \A q \in Readers : open'[q] # NullVersion => open'[q] \in Linked(pe)
    BY <1>1, <1>2 DEF IndInv, SnapshotsPinned, TypeOK
  <2> QED
    BY <1>5, <2>1 DEF SnapshotsPinned, Linked
<1>9. History'
  <2>1. \A rd \in reads' : 0 < rd.got /\ rd.at <= pe'.highest_version_read
    <3>1. n \in Nat /\ n > 0
      BY <1>2, <1>3
    <3>2. \A rd \in reads : 0 < rd.got /\ rd.at <= pe.highest_version_read /\ rd.at \in Nat
      BY DEF IndInv, History, TypeOK
    <3> QED
      BY <1>1, <1>4, <3>1, <3>2 DEF Entry
  <2> QED
    BY <1>1, <1>4, <1>5, <2>1 DEF IndInv, History, Linked
<1>10. IndInv'
  BY <1>4, <1>6, <1>7, <1>8, <1>9 DEF IndInv, WellFormed, LastIsOldest
<1>11. \A rd \in reads' \ reads :
          /\ rd \in [at : Nat, got : Nat]
          /\ Exact(rd) => \A y \in Linked(pe) : ~(rd.got < y /\ y <= rd.at)
          /\ rd.got \in Linked(pe)
  BY <1>1, <1>2, <1>3 DEF Exact
<1> QED
  BY <1>5, <1>10, <1>11

\* Closing a snapshot, and a stuttering step, keep the invariant.
LEMMA CloseIndInv ==
  ASSUME IndInv, (\E r \in Readers : CloseSnapshot(r)) \/ UNCHANGED vars
  PROVE  IndInv' /\ UNCHANGED <<pe, committed, reads>>
<1>1. CASE \E r \in Readers : CloseSnapshot(r)
  BY <1>1 DEF CloseSnapshot, IndInv, TypeOK, SnapshotsPinned, History, WellFormed,
              LastIsOldest, Descending, Linked, NullVersion
<1>2. CASE UNCHANGED vars
  BY <1>2 DEF vars, IndInv, TypeOK, SnapshotsPinned, History, WellFormed,
              LastIsOldest, Descending, Linked
<1> QED
  BY <1>1, <1>2

\* IndInv holds in every reachable state.
THEOREM IndInvHolds == Spec => []IndInv
<1>1. Init => IndInv
  BY InitIndInv
<1>2. IndInv /\ [Next]_vars => IndInv'
  BY ApplyIndInv, ReadIndInv, CloseIndInv DEF Next
<1> QED
  BY <1>1, <1>2, PTL DEF Spec

-----------------------------------------------------------------------------

\* Type correctness of the entry, its readers and its history.
THEOREM TypeCorrect == Spec => []TypeOK
<1>1. IndInv => TypeOK
  BY DEF IndInv
<1> QED
  BY <1>1, IndInvHolds, PTL

\* The chain is strictly descending with highest_version_written in front,
\* under any mix of writes, unversioned ones included.
THEOREM VersionsAreDescending == Spec => []VersionsDescending
<1>1. IndInv => VersionsDescending
  <2>1. SUFFICES ASSUME IndInv PROVE VersionsDescending
    OBVIOUS
  <2>2. pe.versions \in Seq(Nat) /\ pe.num_versions \in Nat
        /\ Len(pe.versions) = pe.num_versions + 1
    BY <2>1 DEF IndInv, WellFormed, Entry
  <2>3. pe.versions # <<>>
    BY <2>2
  <2> QED
    BY <2>1, <2>3 DEF VersionsDescending, IndInv, WellFormed, Descending
<1> QED
  BY <1>1, IndInvHolds, PTL

\* The trimming never unlinks a version with an open snapshot.
THEOREM SnapshotsStayPinned == Spec => []SnapshotsPinned
<1>1. IndInv => SnapshotsPinned
  BY DEF IndInv
<1> QED
  BY <1>1, IndInvHolds, PTL

\* num_versions matches the chain, and the chain stays within the window.
THEOREM CounterIsExact == Spec => []CounterMatchesChain
<1>1. IndInv => CounterMatchesChain
  BY DEF IndInv, WellFormed, CounterMatchesChain
<1> QED
  BY <1>1, IndInvHolds, PTL

\* What apply() trims is the oldest version, at most one per write.
THEOREM TrimsTheOldest == Spec => GCFromTheOldest
<1> DEFINE Trim == \A n \in Linked(pe) \ Linked(pe)' :
                     /\ \A m \in Linked(pe)' : m > n \/ m = 0
                     /\ \A m \in Linked(pe) \ Linked(pe)' : m = n
<1>1. IndInv /\ [Next]_vars => [Trim]_vars
  <2>1. SUFFICES ASSUME IndInv, Next PROVE Trim
    OBVIOUS
  <2>2. Linked(pe)' = Linked(pe')
    BY DEF Linked
  <2>3. ASSUME NEW vtw \in WriteVersions, Apply(vtw) PROVE Trim
    <3>1. CASE ApplyFaults(pe, vtw, Pinned) \/ Dropped(pe, vtw)
      <4>1. pe' = pe
        BY <2>3, <3>1 DEF Apply, Applied, ApplyFaults
      <4> QED
        BY <2>2, <4>1
    <3>2. CASE ~ApplyFaults(pe, vtw, Pinned) /\ ~Dropped(pe, vtw)
      <4>1. WellFormed(pe) /\ pe.num_versions <= MaxVersions /\ vtw \in Nat
        BY <2>1, VersionsAssumption DEF IndInv
      <4> DEFINE f == Applied(pe, vtw, Pinned)
                 n == Promoted(pe, vtw)
      <4>2. pe' = f
        BY <2>3, <3>2 DEF Apply
      <4>3. /\ WellFormed(f)
            /\ \A y \in Linked(pe) \union {n} : y \notin Linked(f) =>
                  \A z \in Linked(f) : z = 0 \/ y < z
            /\ \A y, z \in Linked(pe) \union {n} :
                  y \notin Linked(f) /\ z \notin Linked(f) => y = z
        BY <3>2, <4>1, AppliedWellFormed
      <4>4. (\A y \in Linked(f) : y \in Nat) /\ (\A y \in Linked(pe) : y \in Nat)
        BY <4>1, <4>3, LinkedAreNumbers
      <4> HIDE DEF f, n
      <4> QED
        BY <2>2, <4>2, <4>3, <4>4
    <3> QED
      BY <3>1, <3>2
  <2>4. ASSUME NEW r \in Readers, NEW vtr \in ReadVersions, Read(r, vtr) PROVE Trim
    BY <2>1, <2>2, <2>4, ReadIndInv
  <2>5. ASSUME \E r \in Readers : CloseSnapshot(r) PROVE Trim
    BY <2>1, <2>2, <2>5, CloseIndInv
  <2> QED
    BY <2>1, <2>3, <2>4, <2>5 DEF Next
<1> QED
  BY <1>1, IndInvHolds, PTL DEF Spec, GCFromTheOldest

\* apply() runs into the null pointer only if the end of the list was never
\* recorded, or is pinned with nothing behind it.
LEMMA FaultExplained ==
  ASSUME IndInv, NEW vtw \in WriteVersions, ApplyFaults(pe, vtw, Pinned)
  PROVE  \/ pe.last_version = NullVersion
         \/ pe.last_version \in Pinned /\ 0 \notin Linked(pe)
<1> DEFINE f == Inserted(pe, vtw)
           n == Promoted(pe, vtw)
           m == Len(f.versions)
           p == Position(f.versions, f.last_version)
<1>1. /\ WellFormed(pe) /\ vtw \in Nat /\ pe \in Entry
      /\ ~Dropped(pe, vtw) /\ NeedsGC(f) /\ GCFaults(f, Pinned)
  BY VersionsAssumption DEF IndInv, TypeOK, ApplyFaults
<1>2. /\ WellFormed(f) /\ Linked(f) = Linked(pe) \union {n}
      /\ f.num_versions = pe.num_versions + 1
  BY <1>1, InsertedWellFormed
<1>3. f.last_version = IF n = 1 THEN n ELSE pe.last_version
  BY <1>1 DEF Inserted, Entry
<1>4. SUFFICES ASSUME pe.last_version # NullVersion
               PROVE  pe.last_version \in Pinned /\ 0 \notin Linked(pe)
  OBVIOUS
<1>5. n # 1
  <2>1. n \in Nat /\ n > pe.highest_version_written /\ pe.highest_version_written \in Nat
    BY <1>1, PromotedIsAbove DEF Entry
  <2>2. pe.last_version \in Nat /\ pe.last_version <= pe.highest_version_written
    BY <1>1, <1>4 DEF WellFormed, LastIsOldest, Entry, Linked, Descending
  <2> QED
    BY <1>4, <2>1, <2>2 DEF NullVersion
<1>6. f.last_version = pe.last_version /\ f.last_version # NullVersion
  BY <1>3, <1>4, <1>5
<1>7. /\ p \in DOMAIN f.versions /\ f.versions[p] = f.last_version
      /\ p = m \/ p = m - 1
  BY <1>2, <1>6, PositionOfLast
<1>8. /\ f.versions \in Seq(Nat) /\ m \in Nat /\ m >= 3 /\ DOMAIN f.versions = 1 .. m
  <2>1. f.num_versions \in Nat /\ m = f.num_versions + 1 /\ f.versions \in Seq(Nat)
    BY <1>2 DEF WellFormed, Entry
  <2>2. f.num_versions >= 2
    BY <1>1, <2>1, MaxVersionsAssumption DEF NeedsGC
  <2> QED
    BY <2>1, <2>2
<1>9. GCPosition(f, Pinned) \notin 1 .. (m - 1)
  BY <1>1, <1>6 DEF GCFaults
<1>10. GCPosition(f, Pinned) = IF f.last_version \in Pinned THEN p ELSE p - 1
  BY DEF GCPosition
<1>11. \A i, j \in DOMAIN f.versions : i < j => f.versions[i] > f.versions[j]
  BY <1>2 DEF WellFormed, Descending
<1> HIDE DEF m, p
<1>12. f.last_version \in Pinned /\ p = m
  BY <1>7, <1>8, <1>9, <1>10
<1>13. 0 \notin Linked(f)
  <2>1. SUFFICES ASSUME NEW i \in 1 .. m, f.versions[i] = 0 PROVE FALSE
    BY <1>8 DEF Linked
  <2>2. f.versions[m] \in Nat /\ f.versions[m] # 0
    BY <1>6, <1>7, <1>8, <1>12 DEF NullVersion
  <2>3. CASE i = m
    BY <2>1, <2>2, <2>3
  <2>4. CASE i < m
    <3>1. f.versions[i] > f.versions[m]
      BY <1>8, <1>11, <2>4
    <3> QED
      BY <2>1, <2>2, <3>1
  <2> QED
    BY <1>8, <2>3, <2>4
<1> QED
  BY <1>2, <1>6, <1>12, <1>13

\* A fault of apply() is one of the two the code is known to have: no third way
\* to the null pointer exists, for any window, readers and versions.
THEOREM FaultsHaveTwoCauses == Spec => FaultsAreExplained
<1> DEFINE Explained == fault' # fault =>
                          \/ pe.last_version = NullVersion
                          \/ pe.last_version \in Pinned /\ 0 \notin Linked(pe)
<1>1. IndInv /\ [Next]_vars => [Explained]_vars
  <2>1. SUFFICES ASSUME IndInv, Next, fault' # fault
                 PROVE  \/ pe.last_version = NullVersion
                        \/ pe.last_version \in Pinned /\ 0 \notin Linked(pe)
    OBVIOUS
  <2>2. PICK vtw \in WriteVersions : Apply(vtw)
    BY <2>1 DEF Next, Read, CloseSnapshot
  <2>3. ApplyFaults(pe, vtw, Pinned)
    BY <2>1, <2>2 DEF Apply
  <2> QED
    BY <2>1, <2>3, FaultExplained
<1> QED
  BY <1>1, IndInvHolds, PTL DEF Spec, FaultsAreExplained

-----------------------------------------------------------------------------

\* StableReads is inductive relative to IndInv when every write carries a
\* version: a new version is above highest_version_read, so above every read.
LEMMA StableReadsStep ==
  ASSUME 0 \notin WriteVersions, IndInv, StableReads, [Next]_vars
  PROVE  StableReads'
<1>1. ASSUME NEW vtw \in WriteVersions, Apply(vtw) PROVE StableReads'
  <2>1. CASE ApplyFaults(pe, vtw, Pinned) \/ Dropped(pe, vtw)
    <3>1. UNCHANGED <<committed, reads>>
      BY <1>1, <2>1 DEF Apply, ApplyFaults
    <3> QED
      BY <3>1 DEF StableReads
  <2>2. CASE ~ApplyFaults(pe, vtw, Pinned) /\ ~Dropped(pe, vtw)
    <3> DEFINE n == Promoted(pe, vtw)
    <3>1. committed' = committed \union {n} /\ reads' = reads
      BY <1>1, <2>2 DEF Apply
    <3>2. pe \in Entry /\ vtw \in Nat /\ vtw # 0
      BY VersionsAssumption DEF IndInv, TypeOK
    <3>3. n \in Nat /\ n > pe.highest_version_read /\ pe.highest_version_read \in Nat
      BY <2>2, <3>2, PromotedIsAbove DEF Entry
    <3>4. \A rd \in reads : rd.at <= pe.highest_version_read /\ rd.at \in Nat
      BY DEF IndInv, History, TypeOK
    <3> HIDE DEF n
    <3>5. \A rd \in reads : ~(n <= rd.at)
      BY <3>3, <3>4
    <3> QED
      BY <3>1, <3>5 DEF StableReads
  <2> QED
    BY <2>1, <2>2
<1>2. ASSUME NEW r \in Readers, NEW vtr \in ReadVersions, Read(r, vtr)
      PROVE  StableReads'
  <2>1. committed' = committed
    BY <1>2 DEF Read
  <2>2. SUFFICES ASSUME NEW rd \in reads', Exact(rd), rd \notin reads,
                        NEW n \in committed, rd.got < n, n <= rd.at
                 PROVE  FALSE
    BY <2>1 DEF StableReads
  <2>3. /\ rd \in [at : Nat, got : Nat]
        /\ \A y \in Linked(pe) : ~(rd.got < y /\ y <= rd.at)
        /\ rd.got \in Linked(pe)
        /\ rd.got # 0
    BY <1>2, <2>2, ReadIndInv DEF IndInv, History
  <2>4. n \notin Linked(pe)
    BY <2>2, <2>3
  <2>5. n < rd.got
    BY <2>3, <2>4 DEF IndInv, History
  <2> QED
    BY <2>2, <2>3, <2>5 DEF IndInv, TypeOK
<1>3. CASE (\E r \in Readers : CloseSnapshot(r)) \/ UNCHANGED vars
  BY <1>3, CloseIndInv DEF StableReads
<1> QED
  BY <1>1, <1>2, <1>3 DEF Next

\* If every write carries a version, as in a deployment where all clients use
\* the versioned interface, a read is never overtaken by a later commit.
THEOREM ReadsAreStable ==
  ASSUME 0 \notin WriteVersions
  PROVE  Spec => []StableReads
<1>1. Init => StableReads
  BY DEF Init, StableReads
<1>2. IndInv /\ StableReads /\ [Next]_vars => StableReads'
  BY StableReadsStep
<1> QED
  BY <1>1, <1>2, IndInvHolds, PTL DEF Spec

\* Under the same assumption a read can be repeated for as long as its version
\* is kept.
THEOREM ReadsAreRepeatable ==
  ASSUME 0 \notin WriteVersions
  PROVE  Spec => []RepeatableReads
<1>1. IndInv /\ StableReads => RepeatableReads
  <2>1. SUFFICES ASSUME IndInv, StableReads, NEW rd \in reads,
                        Exact(rd), rd.got \in Linked(pe)
                 PROVE  VersionRead(pe.versions, rd.at) = rd.got
    BY DEF RepeatableReads
  <2>2. /\ rd.at \in Nat /\ rd.got \in Nat /\ rd.got # 0 /\ rd.got <= rd.at
        /\ WellFormed(pe)
    BY <2>1 DEF IndInv, TypeOK, History, Exact
  <2>3. \A y \in Linked(pe) : ~(rd.got < y /\ y <= rd.at)
    BY <2>1, <2>2 DEF StableReads, IndInv, History
  <2> QED
    BY <2>1, <2>2, <2>3, NewestBelowIsRead
<1> QED
  BY <1>1, IndInvHolds, ReadsAreStable, PTL
=============================================================================
