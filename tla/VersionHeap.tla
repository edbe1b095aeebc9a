----------------------------- MODULE VersionHeap -----------------------------
(***************************************************************************)
(* The objects behind a version chain: partition_version objects in a      *)
(* region of the log-structured allocator, linked by the anchorless list;  *)
(* the partition_entry with its partition_version_ref; and the snapshots,  *)
(* which since versions have snapshots of their own point at a version     *)
(* without being its back reference.                                       *)
(*                                                                         *)
(* Besides the operations of PartitionEntry, an entry meets the rest of    *)
(* the memtable here: the allocator moves objects when it compacts the     *)
(* region, a schema change upgrades the entry, and clear_gently() destroys *)
(* it once the memtable is on disk.  These are the disturbances, of which  *)
(* MaxEvents happen.                                                       *)
(*                                                                         *)
(* An access through a null pointer or to memory that was freed sets fault *)
(* and ends the behaviour.                                                 *)
(***************************************************************************)
EXTENDS VersionList, FiniteSetsExt

CONSTANTS Readers,
          WriteVersions,  \* the version_to_write values writes arrive with
          ReadVersions,   \* the version_to_read values reads arrive with
          MaxNumber,      \* bound on version numbers, 2^32 - 1 in the code
          MaxEvents       \* bound on disturbances

ASSUME VersionHeapAssumption ==
    /\ IsFiniteSet(Readers)
    /\ WriteVersions \subseteq Nat
    /\ ReadVersions \subseteq Nat
    /\ MaxNumber \in Nat
    /\ MaxEvents \in Nat

VARIABLES
    heap,       \* address -> partition_version, for the allocated ones
    entry,      \* the partition_entry; after its destruction, version is Null
    snaps,      \* partition_snapshot objects; free slots have no readers
    fault,
    events      \* disturbances so far

vars == <<heap, entry, snaps, fault, events>>

Null == 0       \* the null pointer, as an address and as a snapshot

Ids == 1 .. Cardinality(Readers)

\* backref says whether _backref points at the entry's ref: no other ref ever
\* registers itself.
NewVersion(n) ==
    [ number |-> n, next |-> Null, prev |-> Null, backref |-> FALSE, snapshot |-> Null ]

\* seen is a history variable: the number of the version when it was opened.
NoSnapshot == [ readers |-> {}, version |-> Null, seen |-> 0 ]

\* The entry is created by, and before, its first write.
Init ==
    /\ heap = [a \in {1} |-> [NewVersion(0) EXCEPT !.backref = TRUE]]
    /\ entry = [ version |-> 1, highest_version_read |-> 0, highest_version_written |-> 0,
                 num_versions |-> 0, last_version |-> Null ]
    /\ snaps = [i \in Ids |-> NoSnapshot]
    /\ fault = FALSE
    /\ events = 0

-----------------------------------------------------------------------------
(* The list and the references.                                            *)

\* Where the next object goes.  An address that some pointer still holds is
\* not used again, so that accesses to freed memory can be told.
FreshAddress ==
    LET held == DOMAIN heap \union {entry.version, entry.last_version, Null}
                  \union {snaps[i].version : i \in Ids}
    IN  Min(1 .. (Cardinality(held) + 1) \ held)

Placed(h, a, v) == [x \in DOMAIN h \union {a} |-> IF x = a THEN v ELSE h[x]]

\* The versions from a to the end of the list.
Elements(h, a) ==
    LET from[x \in DOMAIN h] ==
          IF h[x].next \in DOMAIN h THEN <<x>> \o from[h[x].next] ELSE <<x>>
    IN  from[a]

\* The neighbours of a point at n (for its predecessor) and at p instead.
Relinked(h, a, n, p) ==
    [x \in DOMAIN h |->
        [h[x] EXCEPT !.next = IF h[a].prev = x THEN n ELSE @,
                     !.prev = IF h[a].next = x THEN p ELSE @]]

InsertBefore(h, a, b) ==
    [ Relinked(h, b, a, b) EXCEPT
        ![a] = [@ EXCEPT !.prev = h[b].prev, !.next = b],
        ![b] = [@ EXCEPT !.prev = a] ]

Erase(h, a) ==
    [ Relinked(h, a, h[a].next, h[a].prev) EXCEPT ![a] = [@ EXCEPT !.next = Null, !.prev = Null] ]

Destroyed(h, a) == Restrict(Erase(h, a), DOMAIN h \ {a})

\* Mutant: the ref that is overwritten does not give up its version.
SetVersionKept(h, old, new) == [h EXCEPT ![new].backref = TRUE]

\* set_version(): the entry's ref leaves the old version for the new one.
SetVersion(h, old, new) ==
    [h EXCEPT ![old].backref = FALSE, ![new].backref = TRUE]

\* remove_or_mark_as_unique_owner(): destroys a and what follows it, up to a
\* version that has a back reference.
RemoveOrMark(h, a) ==
    LET s == Elements(h, a)
        n == Cardinality({j \in DOMAIN s : \A k \in 1 .. j : ~h[s[k]].backref})
        after[k \in 0 .. n] == IF k = 0 THEN h ELSE Destroyed(after[k - 1], s[k])
    IN  after[n]

\* The entry exists, and its ref points at memory that holds a version.
Usable == ~fault /\ entry.version \in DOMAIN heap

\* The first write, which creates the entry, is complete.
Created == Cardinality(DOMAIN heap) > 1 \/ events > 0

Disturb ==
    /\ Created
    /\ events < MaxEvents
    /\ events' = events + 1

-----------------------------------------------------------------------------
(* Writes and reads.                                                       *)

\* Mutant: the trimming does not look at last_version->_snapshot.
TrimmedUnpinned(h, e) ==
    IF e.last_version \notin DOMAIN h THEN Null
    ELSE LET l == h[e.last_version].prev
         IN  IF l # Null /\ h[l].next # Null THEN l ELSE Null

\* Where the trimming ends up: last_version after its update, or Null where
\* it follows a pointer that is null or freed.
Trimmed(h, e) ==
    IF e.last_version \notin DOMAIN h THEN Null
    ELSE LET l == IF h[e.last_version].snapshot = Null
                  THEN h[e.last_version].prev ELSE e.last_version
         IN  IF l # Null /\ h[l].next # Null THEN l ELSE Null

\* apply() with a version.  erase() unlinks the trimmed version; nothing ever
\* destroys it.
Apply(vtw) ==
    LET n == Promoted(entry, vtw)
        a == FreshAddress
        h == SetVersion(InsertBefore(Placed(heap, a, NewVersion(n)), a, entry.version),
                        entry.version, a)
        e == [ entry EXCEPT !.version = a,
                            !.last_version = IF n = 1 THEN a ELSE @,
                            !.highest_version_written = n,
                            !.num_versions = @ + 1 ]
        l == Trimmed(h, e)
    IN  /\ Usable
        /\ n <= MaxNumber
        /\ ~Dropped(entry, vtw)
        /\ \/ ~NeedsGC(e) /\ heap' = h /\ entry' = e /\ UNCHANGED fault
           \/ /\ NeedsGC(e) /\ l # Null
              /\ heap' = Erase(h, h[l].next)
              /\ entry' = [e EXCEPT !.last_version = l, !.num_versions = @ - 1]
              /\ UNCHANGED fault
           \/ NeedsGC(e) /\ l = Null /\ fault' = TRUE /\ UNCHANGED <<heap, entry>>
        /\ UNCHANGED <<snaps, events>>

Numbers(s) == [i \in DOMAIN s |-> heap[s[i]].number]

\* read() opens, or shares, the snapshot of the version it finds.
Read(r, vtr) ==
    LET s == Elements(heap, entry.version)
        n == Numbers(s)
        i == IF vtr = 0 \/ FallsBack(n, vtr) THEN 1 ELSE CHOOSE j \in ScanStop(n, vtr) : TRUE
        v == heap[s[i]]
        id == IF v.snapshot # Null THEN v.snapshot
              ELSE Min({j \in Ids : snaps[j].readers = {}})
    IN  /\ Usable
        /\ Created
        /\ \A j \in Ids : r \notin snaps[j].readers
        /\ entry' = AfterRead(entry, vtr)
        /\ heap' = [heap EXCEPT ![s[i]].snapshot = id]
        /\ snaps' = [snaps EXCEPT ![id] =
                       IF v.snapshot # Null THEN [snaps[id] EXCEPT !.readers = @ \union {r}]
                       ELSE [readers |-> {r}, version |-> s[i], seen |-> v.number]]
        /\ UNCHANGED <<fault, events>>

\* A reader leaves its snapshot; the last one destroys it.  ~partition_snapshot
\* clears the version's _snapshot and then, in ~partition_version_ref, its
\* _backref, which is the entry's if the version is the newest.
CloseSnapshot(r) ==
    \E i \in Ids :
        /\ ~fault
        /\ r \in snaps[i].readers
        /\ IF snaps[i].readers # {r}
           THEN /\ snaps' = [snaps EXCEPT ![i].readers = @ \ {r}]
                /\ UNCHANGED <<heap, fault>>
           ELSE \/ /\ snaps[i].version \in DOMAIN heap
                   /\ heap' = [heap EXCEPT ![snaps[i].version] =
                                 [@ EXCEPT !.snapshot = Null, !.backref = FALSE]]
                   /\ snaps' = [snaps EXCEPT ![i] = NoSnapshot]
                   /\ UNCHANGED fault
                \/ /\ snaps[i].version \notin DOMAIN heap
                   /\ fault' = TRUE
                   /\ UNCHANGED <<heap, snaps>>
        /\ UNCHANGED <<entry, events>>

\* Whatever touches the entry next follows its dangling ref.
EntryFault ==
    /\ ~fault
    /\ entry.version # Null
    /\ entry.version \notin DOMAIN heap
    /\ fault' = TRUE
    /\ UNCHANGED <<heap, entry, snaps, events>>

-----------------------------------------------------------------------------
(* Disturbances.                                                           *)

\* upgrade(): one version that is the merge of all replaces the list.  The
\* first access after a schema change calls it; that access is a step of its own.
Upgrade ==
    LET a == FreshAddress
        h == SetVersion(Placed(heap, a, NewVersion(0)), entry.version, a)
    IN  /\ Usable
        /\ Disturb
        /\ heap' = RemoveOrMark(h, entry.version)
        /\ entry' = [entry EXCEPT !.version = a]
        /\ UNCHANGED <<snaps, fault>>

\* ~partition_entry(), from memtable::clear_gently().
DestroyEntry ==
    /\ Usable
    /\ Disturb
    /\ heap' = RemoveOrMark([heap EXCEPT ![entry.version].backref = FALSE], entry.version)
    /\ entry' = [entry EXCEPT !.version = Null]
    /\ UNCHANGED <<snaps, fault>>

\* Mutant: the neighbours are not told of the move.
MovedAlone(h, a, b) ==
    Restrict(Placed(h, b, [h[a] EXCEPT !.number = 0, !.snapshot = Null]),
             (DOMAIN h \union {b}) \ {a})

\* partition_version(partition_version&&), into memory at b: the list and the
\* back reference follow; version_number and _snapshot start afresh.
Moved(h, a, b) ==
    Restrict(Placed(Relinked(h, a, b, b), b, [h[a] EXCEPT !.number = 0, !.snapshot = Null]),
             (DOMAIN h \union {b}) \ {a})

MoveVersion(a) ==
    /\ ~fault
    /\ Disturb
    /\ heap' = Moved(heap, a, FreshAddress)
    /\ entry' = [entry EXCEPT !.version = IF heap[a].backref THEN FreshAddress ELSE @]
    /\ UNCHANGED <<snaps, fault>>

\* partition_entry(partition_entry&&): the ref moves, and with it the back
\* reference; the version counters start afresh.
MoveEntry ==
    /\ Usable
    /\ Disturb
    /\ heap' = [heap EXCEPT ![entry.version].backref = TRUE]
    /\ entry' = [ version |-> entry.version, highest_version_read |-> 0,
                  highest_version_written |-> 0, num_versions |-> 0, last_version |-> Null ]
    /\ UNCHANGED <<snaps, fault>>

Next ==
    \/ \E vtw \in WriteVersions : Apply(vtw)
    \/ \E r \in Readers, vtr \in ReadVersions : Read(r, vtr)
    \/ \E r \in Readers : CloseSnapshot(r)
    \/ EntryFault
    \/ Upgrade
    \/ DestroyEntry
    \/ \E a \in DOMAIN heap : MoveVersion(a)
    \/ MoveEntry

Spec == Init /\ [][Next]_vars

-----------------------------------------------------------------------------

\* The links of the list and the neighbours' links back agree and lead to
\* allocated versions only, through trimming, moves, upgrades and destruction.
HeapIsLinked ==
    \A a \in DOMAIN heap :
        /\ heap[a].next # Null => heap[a].next \in DOMAIN heap /\ heap[heap[a].next].prev = a
        /\ heap[a].prev # Null => heap[a].prev \in DOMAIN heap /\ heap[heap[a].prev].next = a

\* A pointer back from a version is never stale: _backref is the entry's ref
\* and that ref points here; _snapshot is a live snapshot of this version.  So
\* destructors and moves, which write through them, write to live objects.
BackPointersHold ==
    \A a \in DOMAIN heap :
        /\ heap[a].backref => entry.version = a
        /\ heap[a].snapshot # Null =>
             /\ snaps[heap[a].snapshot].readers # {}
             /\ snaps[heap[a].snapshot].version = a

\* The chain as PartitionEntry sees it.
Chain ==
    [ versions |-> Numbers(Elements(heap, entry.version)),
      highest_version_read |-> entry.highest_version_read,
      highest_version_written |-> entry.highest_version_written,
      num_versions |-> entry.num_versions,
      last_version |-> IF entry.last_version = Null THEN NullVersion
                       ELSE heap[entry.last_version].number ]

Open == [r \in Readers |->
           LET mine == {i \in Ids : r \in snaps[i].readers}
           IN  IF mine = {} THEN NullVersion ELSE heap[snaps[CHOOSE i \in mine : TRUE].version].number]

Pinned == {Open[r] : r \in Readers} \ {NullVersion}

\* What PartitionEntry lets happen to the chain and to the readers in a step: a
\* write is applied or follows a null pointer, a read opens a snapshot, a reader
\* closes its snapshot.
ListStep ==
    \/ \E vtw \in WriteVersions :
         /\ ~ApplyFaults(Chain, vtw, Pinned)
         /\ Chain' = Applied(Chain, vtw, Pinned)
         /\ Open' = Open
         /\ fault' = FALSE
    \/ \E vtw \in WriteVersions :
         /\ ApplyFaults(Chain, vtw, Pinned)
         /\ UNCHANGED <<Chain, Open>>
         /\ fault' = TRUE
    \/ \E r \in Readers, vtr \in ReadVersions :
         /\ Chain.highest_version_written > 0
         /\ Open[r] = NullVersion
         /\ Chain' = AfterRead(Chain, vtr)
         /\ Open' = [Open EXCEPT ![r] = VersionRead(Chain.versions, vtr)]
         /\ fault' = FALSE
    \/ \E r \in Readers :
         /\ Open[r] # NullVersion
         /\ Chain' = Chain
         /\ Open' = [Open EXCEPT ![r] = NullVersion]
         /\ fault' = FALSE

\* Until the first disturbance the pointers implement the version list: every
\* apply(), with the erase() of its trimming, every read() and every closing of
\* a snapshot does to the chain and to the readers what VersionList says, and
\* a null pointer is followed exactly where VersionList says so.
ImplementsVersionList == [][events' = 0 => ListStep]_vars

-----------------------------------------------------------------------------
(* What a comment in the code says that the code does not do.              *)

\* "Old versions not used by any partition snapshot are removed" (Scene IV, the
\* schema upgrade; Scene V, the removal of the entry, says the same): the
\* version a snapshot is open on stays until the snapshot is destroyed, and
\* stays that version.
SnapshotsKeepTheirVersion ==
    \A i \in Ids : snaps[i].readers # {} =>
        /\ snaps[i].version \in DOMAIN heap
        /\ heap[snaps[i].version].number = snaps[i].seen
=============================================================================
