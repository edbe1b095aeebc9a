---------------------------- MODULE ColumnFamily ----------------------------
(***************************************************************************)
(* One column family with its memtables, its sstables and the commit log,  *)
(* seen through one key: writes are logged, then applied to the active     *)
(* memtable; memtables are sealed, flushed and dropped, which releases log *)
(* segments; after a crash the log is replayed and flushed before the node *)
(* serves again.  The row cache is off, as deployed.                       *)
(*                                                                         *)
(* A write is named by the timestamp of its cells, unique here.  Between   *)
(* memtables and sstables the largest timestamp wins; within a memtable    *)
(* it is the version chain of the key that decides (VersionList).          *)
(***************************************************************************)
EXTENDS VersionList, FiniteSetsExt

CONSTANTS Writes,         \* the timestamps of the writes, positive naturals
          Proposals,      \* write -> the values its version_to_write may have
          ReadVersions,   \* values of version_to_read
          BatchSync,      \* commitlog sync mode: BATCH (TRUE) or PERIODIC
          SegmentSize,    \* entries that fit into a log segment
          MaxGen,         \* bound: memtables until the first crash
          MaxFaults       \* bound: crashes and failed flushes

ASSUME ColumnFamilyAssumption ==
    /\ Writes \subseteq Nat \ {0}
    /\ Proposals \in [Writes -> SUBSET Nat] /\ ReadVersions \subseteq Nat
    /\ BatchSync \in BOOLEAN
    /\ SegmentSize \in Nat \ {0}
    /\ MaxGen \in Nat \ {0} /\ MaxFaults \in Nat

VARIABLES
    phase,       \* "up", or on the way there: "replay", then "drain"
    memtables,   \* memtable_list, oldest first; the last one is active
    sstables,    \* the sstables on disk: the memtable each is of, its write
    loaded,      \* those of them that are in _sstables
    log,         \* replay position -> the entry there, in the segments of this session
    segment,     \* the number of the segment that is still allocating
    unsynced,    \* writes whose entry is not on disk yet
    dirty,       \* writes that a segment is still held for (_cf_dirty)
    inflight,    \* writes that are logged and wait for memory
    old,         \* replay position -> entry, in the segments of the previous session
    left,        \* the positions that remain to be replayed
    current,     \* the segment being replayed, 0 between segments
    faults,      \* crashes and failed flushes so far
    acked,       \* history: writes that were acknowledged
    home,        \* history: write -> the memtable it was applied to last, 0 before
    lost         \* history: the write a read found just before the crash, if all
                 \* writes in the log were acknowledged and all of it survived

logVars == <<log, segment, unsynced, dirty>>
replayVars == <<old, left, current>>
historyVars == <<acked, home, lost>>
vars == <<phase, memtables, sstables, loaded, log, segment, unsynced, dirty,
          inflight, old, left, current, faults, acked, home, lost>>

None == 0
GaveUp == 1    \* stands for any memtable: the write was not acknowledged

-----------------------------------------------------------------------------
(* Memtables.  "rps" is the rp_set, here the writes themselves.            *)

Fresh(g) ==
    [ gen |-> g, entry |-> NewEntry, data |-> <<>>, rps |-> {}, stage |-> "active" ]

IsEmpty(m) == DOMAIN m.data = {}

\* Mutant: the write is stored under the version it was proposed at.
PutAsProposed(m, w, vtw) ==
    IF Dropped(m.entry, vtw) THEN m
    ELSE LET e == Applied(m.entry, vtw, {})
         IN  [ m EXCEPT !.entry = e,
                        !.data = [i \in (Linked(e) \ {0, Promoted(m.entry, vtw)}) \union {vtw} |->
                                    IF i = vtw THEN w ELSE @[i]] ]

\* memtable::apply to the entry of the key, which the first write creates.  The
\* chain is trimmed, as in VersionList; PartitionEntry has the open snapshots.
Put(m, w, vtw) ==
    IF Dropped(m.entry, vtw) THEN m
    ELSE LET e == Applied(m.entry, vtw, {})
         IN  [ m EXCEPT !.entry = e,
                        !.data = [i \in Linked(e) \ {0} |->
                                    IF i = Promoted(m.entry, vtw) THEN w ELSE @[i]] ]

\* apply_in_memory also hands over the position, and with it the segment.
Taken(m, w, vtw) == [Put(m, w, vtw) EXCEPT !.rps = @ \union {w}]

\* The newest version in a memtable, which is all that a flush writes.
Newest(m) == m.data[VersionRead(m.entry.versions, 0)]

Active == memtables[Len(memtables)]

\* A read without a version: the newest version of each memtable that still
\* has the key, and what the sstables hold; the largest timestamp wins.
NewestRead ==
    LET found == {s.write : s \in loaded} \union
                 {Newest(memtables[i]) : i \in {j \in DOMAIN memtables :
                    ~IsEmpty(memtables[j]) /\ memtables[j].stage # "cleared"}}
    IN  CHOOSE w \in found \union {None} : \A u \in found : u <= w

-----------------------------------------------------------------------------

Init ==
    /\ phase = "up"
    /\ memtables = <<Fresh(1)>>
    /\ sstables = {} /\ loaded = {}
    /\ log = <<>> /\ segment = 1 /\ unsynced = {} /\ dirty = {}
    /\ inflight = {}
    /\ old = <<>> /\ left = {} /\ current = 0
    /\ faults = 0
    /\ acked = {} /\ home = [w \in Writes |-> 0] /\ lost = {}

NextPosition == Max(DOMAIN log \union {0}) + 1

\* commitlog::add_entry: the entry gets a place in the allocating segment or,
\* when that is full, in a new one.
AddEntry(w, vtw) ==
    LET full == Cardinality({i \in DOMAIN log : log[i].seg = segment}) = SegmentSize
        s == IF full THEN segment + 1 ELSE segment
    IN  /\ phase = "up"
        /\ home[w] = 0 /\ w \notin inflight
        /\ \A i \in DOMAIN log : log[i].write # w
        /\ log' = [i \in DOMAIN log \union {NextPosition} |->
                     IF i = NextPosition THEN [write |-> w, vtw |-> vtw, seg |-> s] ELSE log[i]]
        /\ segment' = s
        /\ unsynced' = unsynced \union {w}
        /\ dirty' = dirty \union {w}
        /\ inflight' = inflight \union {w}
        /\ UNCHANGED <<phase, memtables, sstables, loaded, replayVars, faults, historyVars>>

\* segment::sync: the cycle that writes and flushes the buffers of segment s.
\* Each segment is a file of its own, and nobody waits for one of them before
\* the next is synced.
Sync(s) ==
    LET there == {log[i].write : i \in {j \in DOMAIN log : log[j].seg = s}}
    IN  /\ unsynced \intersect there # {}
        /\ unsynced' = unsynced \ there
        /\ UNCHANGED <<phase, memtables, sstables, loaded, log, segment, dirty, inflight,
                       replayVars, faults, historyVars>>

\* Mutant: a segment goes with its first clean entry.
DiscardSome(d) ==
    Restrict(log, {i \in DOMAIN log :
        \/ log[i].seg = segment
        \/ \A j \in DOMAIN log : log[j].seg = log[i].seg =>
              log[j].write \in d \/ log[j].write \in unsynced})

\* discard_unused_segments: a segment goes when it is closed, nothing holds
\* it (d is what is still held) and all of it is on disk.
Discard(d) ==
    Restrict(log, {i \in DOMAIN log :
        \/ log[i].seg = segment
        \/ \E j \in DOMAIN log : /\ log[j].seg = log[i].seg
                                 /\ log[j].write \in d \/ log[j].write \in unsynced})

VtwOf(entries, w) ==
    entries[CHOOSE i \in DOMAIN entries : entries[i].write = w].vtw

\* Mutant: acknowledged without waiting for the disk.
MayApplyEarly(w) == w \in inflight

\* In BATCH mode add_entry only returns when the entry is on disk.
MayApply(w) == w \in inflight /\ (BatchSync => w \notin unsynced)

\* apply_in_memory, when memory is available: the active memtable takes the
\* write and the log position.  A write that the chain drops is taken as well.
ApplyInMemory(w) ==
    /\ MayApply(w)
    /\ ~ApplyFaults(Active.entry, VtwOf(log, w), {})
    /\ memtables' = [memtables EXCEPT ![Len(memtables)] = Taken(@, w, VtwOf(log, w))]
    /\ inflight' = inflight \ {w}
    /\ acked' = acked \union {w}
    /\ home' = [home EXCEPT ![w] = Active.gen]
    /\ UNCHANGED <<phase, sstables, loaded, logVars, replayVars, faults, lost>>

\* The request times out first: its rp_handle lets go of the segment.
ApplyTimesOut(w) ==
    /\ w \in inflight
    /\ inflight' = inflight \ {w}
    /\ dirty' = dirty \ {w}
    /\ log' = Discard(dirty \ {w})
    /\ home' = [home EXCEPT ![w] = GaveUp]
    /\ UNCHANGED <<phase, memtables, sstables, loaded, segment, unsynced, replayVars,
                   faults, acked, lost>>

\* column_family::make_reader at a version: every memtable that has the key
\* records the version.
Read(vtr) ==
    /\ phase = "up"
    /\ memtables' = [i \in DOMAIN memtables |->
         IF IsEmpty(memtables[i]) \/ memtables[i].stage = "cleared" THEN memtables[i]
         ELSE [memtables[i] EXCEPT !.entry = AfterRead(@, vtr)]]
    /\ memtables' # memtables
    /\ UNCHANGED <<phase, sstables, loaded, logVars, inflight, replayVars, faults, historyVars>>

-----------------------------------------------------------------------------
(* seal_active_memtable and the flush it starts.                           *)

SealActive ==
    LET g == Active.gen + 1
    IN  /\ ~IsEmpty(Active)
        /\ phase = "up" => g <= MaxGen
        /\ memtables' = Append([memtables EXCEPT ![Len(memtables)].stage = "sealed"], Fresh(g))
        /\ UNCHANGED <<phase, sstables, loaded, logVars, inflight, replayVars, faults, historyVars>>

Stage(i, from, to) ==
    /\ memtables[i].stage = from
    /\ memtables' = [memtables EXCEPT ![i].stage = to]

\* Mutant: the sstable holds the oldest version.
WrittenOldest(m) == m.data[CHOOSE n \in DOMAIN m.data : \A k \in DOMAIN m.data : n <= k]

\* What flush_reader gets of the key: a snapshot read without a version.
Written(m) == Newest(m)

\* write_memtable_to_sstable.
WriteSstable(i) ==
    /\ Stage(i, "sealed", "written")
    /\ sstables' = sstables \union {[gen |-> memtables[i].gen, write |-> Written(memtables[i])]}
    /\ UNCHANGED <<phase, loaded, logVars, inflight, replayVars, faults, historyVars>>

\* The flush fails, its sstable is marked for deletion; it is tried again.
FlushFails(i) ==
    /\ faults < MaxFaults
    /\ faults' = faults + 1
    /\ Stage(i, "written", "sealed")
    /\ sstables' = {s \in sstables : s.gen # memtables[i].gen}
    /\ UNCHANGED <<phase, loaded, logVars, inflight, replayVars, historyVars>>

\* update_cache without a cache: add_sstable and mark_flushed ...
AddSstable(i) ==
    /\ Stage(i, "written", "added")
    /\ loaded' = loaded \union {s \in sstables : s.gen = memtables[i].gen}
    /\ UNCHANGED <<phase, sstables, logVars, inflight, replayVars, faults, historyVars>>

\* ... then clear_gently.
ClearGently(i) ==
    /\ Stage(i, "added", "cleared")
    /\ UNCHANGED <<phase, sstables, loaded, logVars, inflight, replayVars, faults, historyVars>>

\* _memtables->erase, then discard_completed_segments with the rp_set.
Retire(i) ==
    /\ memtables[i].stage = "cleared"
    /\ memtables' = Unlink(memtables, i)
    /\ dirty' = dirty \ memtables[i].rps
    /\ log' = Discard(dirty \ memtables[i].rps)
    /\ UNCHANGED <<phase, sstables, loaded, segment, unsynced, inflight, replayVars,
                   faults, historyVars>>

-----------------------------------------------------------------------------

\* The node stops.  What has not reached the disk is gone, except that the
\* buffers of a segment are written in order and some may have got there.
Crash ==
    /\ faults < MaxFaults
    /\ faults' = faults + 1
    /\ phase' = "replay"
    /\ memtables' = <<Fresh(Active.gen + 1)>>
    /\ loaded' = sstables
    /\ \E kept \in SUBSET DOMAIN log :
         /\ \A i \in DOMAIN log \ kept : log[i].write \in unsynced
         /\ \A i \in kept : \A j \in DOMAIN log : j < i /\ log[j].seg = log[i].seg => j \in kept
         /\ old' = IF phase = "up" THEN Restrict(log, kept) ELSE old
         /\ lost' = IF phase # "up" THEN lost
                    ELSE IF kept = DOMAIN log /\ \A i \in kept : log[i].write \in acked
                    THEN {NewestRead} ELSE {}
    /\ left' = DOMAIN old'
    /\ current' = 0
    /\ log' = <<>> /\ segment' = segment + 1 /\ unsynced' = {} /\ dirty' = {}
    /\ inflight' = {}
    /\ home' = [w \in Writes |-> IF w \in inflight THEN GaveUp ELSE home[w]]
    /\ UNCHANGED <<sstables, acked>>

\* commitlog_replayer: the segments in any order, each from its start.  An
\* entry is applied with its proposed version and without a log position.
Replay(i) ==
    LET e == old[i]
        rest == left \ {i}
    IN  /\ phase = "replay"
        /\ current \in {0, e.seg}
        /\ \A j \in left : j < i => old[j].seg # e.seg
        /\ ~ApplyFaults(Active.entry, e.vtw, {})
        /\ memtables' = [memtables EXCEPT ![Len(memtables)] = Put(@, e.write, e.vtw)]
        /\ home' = [home EXCEPT ![e.write] = IF e.write \in acked THEN Active.gen ELSE @]
        /\ left' = rest
        /\ current' = IF \E j \in rest : old[j].seg = e.seg THEN e.seg ELSE 0
        /\ UNCHANGED <<phase, sstables, loaded, logVars, inflight, old, faults, acked, lost>>

\* recover() is done: flush_all_memtables.
Drain ==
    /\ phase = "replay"
    /\ left = {}
    /\ phase' = "drain"
    /\ UNCHANGED <<memtables, sstables, loaded, logVars, inflight, replayVars, faults, historyVars>>

\* Every memtable is flushed: the replayed segments are removed, and the node
\* serves again.
StartServing ==
    /\ phase = "drain"
    /\ Len(memtables) = 1 /\ IsEmpty(Active)
    /\ old' = <<>>
    /\ phase' = "up"
    /\ UNCHANGED <<memtables, sstables, loaded, logVars, inflight, left, current,
                   faults, historyVars>>

Next ==
    \/ \E w \in Writes : \E vtw \in Proposals[w] : AddEntry(w, vtw)
    \/ \E s \in 1 .. segment : Sync(s)
    \/ \E w \in inflight : ApplyInMemory(w) \/ ApplyTimesOut(w)
    \/ \E vtr \in ReadVersions : Read(vtr)
    \/ SealActive
    \/ \E i \in DOMAIN memtables :
         WriteSstable(i) \/ FlushFails(i) \/ AddSstable(i) \/ ClearGently(i) \/ Retire(i)
    \/ Crash
    \/ \E i \in left : Replay(i)
    \/ Drain
    \/ StartServing

Spec == Init /\ [][Next]_vars

-----------------------------------------------------------------------------

Logged == {log[i].write : i \in DOMAIN log} \union {old[i].write : i \in DOMAIN old}

TypeOK ==
    /\ phase \in {"up", "replay", "drain"}
    /\ \A i \in DOMAIN memtables :
         /\ memtables[i].entry \in Entry
         /\ DOMAIN memtables[i].data = Linked(memtables[i].entry) \ {0}
         /\ memtables[i].rps \subseteq Writes
         /\ (memtables[i].stage = "active") = (i = Len(memtables))
    /\ loaded \subseteq sstables
    /\ dirty \subseteq Logged /\ inflight \subseteq dirty

\* What is in memory only is in the log: no flush, time-out or replay lets go of
\* a segment that some unflushed write needs, although segments are shared by
\* memtables that are flushed at different times.
MemoryIsLogged ==
    \A i \in DOMAIN memtables : memtables[i].stage \in {"active", "sealed"} =>
        \A n \in DOMAIN memtables[i].data : memtables[i].data[n] \in Logged

\* With BATCH sync an acknowledged write survives any crash: its log entry is on
\* disk, or an sstable is of the memtable that took it last.
AckedIsDurable ==
    BatchSync => \A w \in acked :
        \/ w \in Logged \ unsynced
        \/ \E s \in sstables : s.gen = home[w]

\* Only a write changes what a read without a version finds: no reader can tell
\* a memtable that is being flushed from its sstable.
FlushIsInvisible ==
    [][ phase = "up" /\ phase' = "up" /\ acked' = acked
          => NewestRead' = NewestRead ]_vars

-----------------------------------------------------------------------------
(* What comments in the code say that the code does not do.                *)

\* "The aim of the commit log is to be able to successfully recover data that
\* was not stored to disk via the Memtable": if all of the log survived and
\* nothing was in flight, a read after the recovery finds what a read before the
\* crash found.
LostIsRecovered ==
    [][ phase = "drain" /\ phase' = "up" => lost \subseteq {NewestRead} ]_vars
=============================================================================
