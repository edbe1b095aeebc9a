# TLA+ models of Scylla-PORT

Scylla-PORT adds one-round, non-blocking read-only transactions to ScyllaDB.
This directory models the protocol and what it rests on, checks the models with
TLC on small instances, and proves their safety properties with TLAPS. "PORT" and "moon" are the same system; paths below are relative to
`src/Scylla-moon/`.

## The system

A client (`ycsb-moon/.../CassandraClient10.java`) keeps a version clock
(`ClientView.java`). A read-only transaction sends one `multiget_slice` with the
version to read at; a write sends one `batch_mutate` with a proposed version,
clock + 1. The coordinator (`thrift/handler.cc`, `service/storage_proxy.cc`)
makes one request per key. The key's replica keeps a chain of versions in a
`partition_entry` (`partition_version.cc`), newest first:

* `read()` records the version it reads at in `highest_version_read` and opens a
  snapshot of the first version not above it;
* `apply()` drops a write proposed at or below `highest_version_written`,
  promotes one proposed at or below `highest_version_read` past it, links the new
  version in at the front and, beyond 100 versions, unlinks the oldest.

The answer of a write is its commit version. The batch's answer is the largest
of them (`moon_parallel_for_each`), and the client's clock moves up to it.

Below the protocol, the coordinator keeps a response handler per write
(acknowledgements, expiry, throttling), the column family logs every write,
keeps it in a memtable and flushes memtables to sstables, and the entries,
versions and snapshots are C++ objects that a compacting allocator moves. Two
other clients serve for comparison: one takes two rounds over the same server,
one validates optimistically over the unmodified server in `src/Scylla-original`.

### Inventory

| part | source | model |
|---|---|---|
| version chain, versioned `apply`/`read`, trimming | `partition_version.{cc,hh}`, `utils/anchorless_list.hh` | VersionList, PartitionEntry |
| the chain as objects: list links, back references, snapshots, allocator moves, upgrade, destruction | the same, `utils/allocation_strategy.hh`, `memtable.cc` | VersionHeap |
| client version clock | `ClientView.java` | ClientView |
| client operations and retries | `CassandraClient10.java` | Port |
| thrift verbs, requests per key | `thrift/handler.cc`, `storage_proxy.cc` | Port |
| response handlers, throttling, expiry, batch results | `storage_proxy.cc:183-410,1048-1215,1609-1704`, `seastar/core/future-util.hh` | WriteResponse, WriteBatch |
| memtables, flush, commit log, replay | `memtable.cc`, `database.cc`, `db/commitlog/`, `main.cc` | ColumnFamily |
| two-round client | `ycsb-2rounds/` | TwoRounds |
| OCC client on the unmodified server | `../Scylla-original/ycsb_occ/`, `../Scylla-original/database.cc` | Occ |
| row cache, sstable formats, compaction, gossip, repair, CQL | upstream code | no, see "Not modelled" |

`PROJECT.json` has the full list, the hazards found in the code with the
properties that cover them, and the source lines of every definition.

## Modules

* **VersionList**: one entry as a record with the fields of the C++ class, and
  `apply()`, its trimming and `read()` as operators on it. A version is named by
  its number; numbers on a chain are unique (proved). Number 0 is the empty
  version an entry is constructed with; a `last_version` of 0 is the null pointer.
* **PartitionEntry**: the state machine of one entry. `Apply` is the whole of
  `apply()`, trimming included; `Read` opens or shares a snapshot;
  `CloseSnapshot` ends one. A shard runs each of these to its end, but a reader
  keeps its snapshot open across waits. `fault` says that the trimming
  dereferenced a null pointer. `committed` and `reads` are history.
* **ClientView**: the clock and the view of a client as operators.
* **Port**: clients, requests in flight and one entry per key. A request of a try
  the client has given up on stays in flight and can arrive at any later time.
  `Timeout` is any failure the client sees: it tries again or gives up.
  `rots`, `floor` and `deps` are history.
* **SnapshotStore**: what the store promises. A multi-version map; a read-only
  transaction is a single atomic read of all its keys at one version; a write
  takes effect once per key, above everything already closed by a read.
* **VersionHeap**: one entry as objects with addresses. A version has its links,
  whether its `_backref` is set, and its `_snapshot`; the entry has the address of
  its newest version. Besides writes, reads and closing snapshots there are
  disturbances: the allocator moves a version or the entry (copying what the
  move constructors copy), `upgrade()` replaces the chain, `~partition_entry()`
  destroys it. Following a null pointer or touching freed memory sets `fault`.
  The ref of a per-version snapshot never registers itself as a back reference
  (`partition_version.hh:165`; the compiler elides the move from the temporary),
  but its destructor clears the back reference of its version (`:166`).
* **WriteResponse**: one coordinator shard. `proxy` holds the response handlers
  and the counters of `storage_proxy::_stats`; a handler lives while it is
  registered or a send or local apply refers to it, and its destructor gives
  the answer if nothing else did. `Expire` is the timer, `SendOver` the end of an
  RPC, `LocalDone` and `LocalFails` the end of `mutate_locally`. `Collect` is the
  continuation in `moon_parallel_for_each`. Replicas are external. A batch begins
  in one step: `mutate_prepare` and `moon_parallel_for_each` loop over its writes
  without a wait, and a local write is queued by an execution stage
  (`database.cc:3381`), never done on the spot, so that no write of the batch is
  answered, and no replica is found dead, between two of its writes.
* **WriteBatch**: what a batch promises. It fails, or it succeeds with the largest
  of versions that replicas acknowledged, every write by enough of them.
* **ColumnFamily**: one key through memtables, sstables and the commit log.
  `AddEntry` and `ApplyInMemory` are separate steps with a wait between them; a
  flush is five steps with reads and writes between them; `Sync` writes out one
  segment; `Crash` keeps what is on disk, and of each segment, a file of its own,
  any prefix that has at least what was synced; `Replay` takes the segments in any order and each from its start, as
  the replayer does; the node serves again after the flush that follows.
* **TwoRounds**: the two-round client over VersionList entries. Requests given up
  on arrive late, as in Port; late second-round reads still raise
  `highest_version_read` (`strays`).
* **Occ**: the OCC client over cells that are reconciled by timestamp, then by
  value. A second try of a batch carries blank values, since the first has
  consumed the iterators (`ByteIterator.toArray`). Values are compared, not
  timestamps, as in the code. The comparison drains the iterators of the map that
  `read()` gives its caller (`result`), so a validated transaction hands out empty
  values; what was compared stays in the history.
* **VersionListProofs**, **PartitionEntryProofs**, **VersionHeapProofs**,
  **PortProofs**, **WriteResponseProofs**, **ColumnFamilyProofs**,
  **TwoRoundsProofs**, **OccProofs**: the proofs, see below.
* **MCPartitionEntry**, **MCPort**, **MCVersionHeap**, **MCWriteResponse**,
  **MCColumnFamily**, **MCTwoRounds**, **MCOcc**: constants for TLC.

Definitions commented as mutants are plausible faults of the definition they
precede; with one in place TLC finds the property named in `PROJECT.json`
violated. They are used by no specification.

## Runs

Passing:

| run | question | bounds |
|---|---|---|
| entry_chain | does a chain stay readable, and do reads stay true, under any order of writes, reads, open snapshots and trimming? When does the trimming follow a null pointer? | 2 readers, window of 2 versions (100 in the code), writes proposed at 1..6, reads at 0..4 |
| version_heap | do links and back pointers stay right when objects are moved, replaced and destroyed, and do the pointers implement VersionList? | 2 readers, window of 1 version, version numbers up to 4, 2 disturbances |
| port | are snapshots stable and causal, sessions ordered and retried writes applied once when keys of transactions and batches interleave and abandoned requests arrive late; does the protocol implement SnapshotStore; is a read ever made to wait? | 2 clients, 2 keys, all key sets, 3 operations in all, 2 tries each |
| write_response | does every handler answer once, are background writes counted exactly, do batches implement WriteBatch and return? | a batch of 2 writes and one of 1, 2 replicas of which one is local, consistency level ONE, limits low enough to throttle |
| column_family | do acknowledged writes survive, and is flushing invisible? | 3 writes, segments of 2 entries, 2 memtables before the first crash, 2 crashes or failed flushes, BATCH sync |
| two_rounds | does the second round go back in time, and does a transaction return? | 1 reader with 2 transactions, 2 writers of which one retries, 2 keys, window of 2 versions |
| occ | is what validates a snapshot, and is it refused for a reason? | 1 reader, 2 writers, 2 keys, 2 tries, 3 clock values |

Why the bounds are enough:

* A window of 2 lets the trimming move `last_version` several times within six
  writes, with and without a snapshot on it. In VersionHeap a window of 1 lets
  the third write trim; two disturbances are the shortest sequences in which
  one meets what another left behind (a move of a version whose back reference
  a move of the entry has set again, say).
* Two clients and two keys are the smallest instance in which a write can fall
  between two reads of a transaction; the third operation lets a client write
  after it has seen a write, and the second try lets a request arrive after the
  client has gone on. Longer histories (a batch whose keys are promoted to
  different versions and then read again takes four operations), clocks at the
  version cap and an overwritten stack slot are left to the proofs, which have
  no such bound. Port stays below the window
  (`num_versions < MaxVersions`): the effects of trimming are PartitionEntry's subject.
* In WriteResponse a batch of two can succeed in one part and fail in the other,
  and the third write competes for the background.
* In ColumnFamily three writes over two-entry segments make a segment that two
  memtables share, and two faults allow a crash during recovery.
* Two writers are enough for a key to change and change back between OCC's
  rounds; a clock of 3 values makes timestamps tie.

Every key has a bucket of its own in the runs. Deadlock is not checked: clients
stop after a bounded number of operations, and a server stops at a fault.
Symmetry is used where no fairness is.

The load phase is in Port's and TwoRounds' initial state: one write per key,
committed at version 1.

`DeadSlot` is the set of other values that `do_moon_mutate()` can return
(see below). The run port assumes that it is empty, that is, that the slot still
holds the commit version when it is read. SnapshotsAreStable, AppliedAtMostOnce
and StoreSpec are proved whatever it holds.

Fairness:

* two_rounds: a read that has been sent is eventually served, and an answered
  round eventually completes, per reader. The shard's scheduler runs every ready
  task, and a live connection delivers. Nothing is assumed of writes.
* write_response: the reactor takes some step of its own while it has one: a timer
  that is due, the end of a send or of a local apply (both end at the latest with
  the request's time-out), a resolved promise. Nothing is assumed of other replicas.

Port has none: that one-round reads do not block is stated without fairness, as
RotsNeverWait: whatever writes are in flight, the shard can serve every read
that has reached it.

What the passing runs do not say, because it does not hold: with unversioned
writes a two-round transaction is no snapshot, and its retried writes commit
twice; ReadsAreRecent is what remains. ImplementsVersionList stops at the first
disturbance, since a move loses version numbers and counters.
FlushIsInvisible is about reads without a version: a new memtable does not know
what was read or written before. ValidatedReadsAreSnapshots is about what the
validation accepts, the values of the first pass; the caller of `read()` no longer
finds them, as the comparison has emptied its iterators. It excludes the blank
values of retried OCC writes, under which a key may change and change back.
RefusedOnlyByWrites makes no promise that a transaction succeeds; when all tries
fail validation the client dereferences an exception that was never set.

Runs that end in a violation, each of a statement in the code's comments:

| run | statement | what happens |
|---|---|---|
| entry_safe_guard | "should not get here, since we do not do GC for now" (`partition_version.cc:667`) | a read at a trimmed version returns the newest one |
| port_dead_slot | "update version_to_read" (`CassandraClient10.java:396`) | `do_moon_mutate()` returns a local after its frame is gone; the clock can miss the client's own commit |
| port_view | "for piggybacking current version to client [...] set after each read" (`atomic_cell_or_collection.hh:37`) | nothing sets it after a read: it is stamped when a version is written, so a read of an old version reports that version while the key has a newer one, and a client that only reads never moves its clock |
| column_family_replay | "able to successfully recover data that was not stored to disk" (`commitlog.hh:63`) | replay proposes logged writes at their old versions to an entry that has forgotten the reads; a write that was dropped wins over the one that was promoted past it |
| version_heap_snapshot | "Old versions not used by any partition snapshot are removed" (`partition_version.hh:95`) | `upgrade()` frees a version under its open snapshot |

Other observations made while modelling, without a run of their own:

* Trimming with a snapshot open on the oldest version unlinks the empty version
  at the end, which `partition_version.cc:668` says is always there. Done again
  it follows a null pointer. An entry first written above version 1 never
  records the end of its list and faults when the window is full.
  FaultsAreExplained says that these are the only two ways to fault.
* A successful validation of the OCC client empties the iterators of the result it
  returns (`CassandraClient10.java:318`): `toArray()` consumes them.
* A retry of `insert()` sends empty values, as the first try consumed them.
* A trimmed version is unlinked and never freed.
* Closing a snapshot of the newest version clears the entry's back reference; if
  the allocator then moves that version, the entry is left with a dangling ref
  (action `EntryFault`).

## Proofs

Every safety property of the passing runs except RotsNeverWait is proved for all
values of the constants. In each proof module `IndInv` is the inductive invariant, a first
theorem states that it holds, and the others follow from it. The bounds of the models (operations, tries, faults, clocks) are
constants too, so the theorems hold for any number of them.

| module | theorems | assumed besides the constants' types |
|---|---|---|
| PartitionEntryProofs | TypeOK, VersionsDescending, SnapshotsPinned, CounterMatchesChain, GCFromTheOldest, FaultsAreExplained | |
| | StableReads, RepeatableReads | no write has version 0 |
| VersionHeapProofs | HeapIsLinked, BackPointersHold | |
| | ImplementsVersionList: the pointers do what PartitionEntry says; SnapshotsKeepTheirVersion | up to the first disturbance, as part of the statement |
| PortProofs | TypeOK, SnapshotsAreStable, AppliedAtMostOnce | |
| | StoreSpec: Port implements SnapshotStore | the abstract store has all naturals as versions |
| | ClockCoversCommits, SessionOrder, SnapshotsAreCausal | the dead stack slot still holds the commit version (`DeadSlot = {}`); no version has reached VERSION_CAP |
| WriteResponseProofs | TypeOK, NoBrokenPromise, BackgroundIsCounted, ThrottledIsQueued, AnsweredOnce | |
| | BatchSpec: WriteResponse implements WriteBatch | |
| ColumnFamilyProofs | TypeOK, MemoryIsLogged, AckedIsDurable, FlushIsInvisible | |
| TwoRoundsProofs | ReadsAreRecent | |
| OccProofs | ValidatedReadsAreSnapshots, RefusedOnlyByWrites | |

The conditions in the last column are needed. A write of version 0, from CQL or
the two-round client, is not promoted past reads. With another value in the dead
slot the run port_dead_slot refutes ClockCoversCommits. Above the cap,
`ClientView` stops moving the clock, and a client may miss its own write. The
sets of batches, replicas and keys are finite where cardinalities are taken.

None of the properties is inductive alone. What the invariants add:

* **VersionList.** `WellFormed` says that the chain is strictly descending with
  `highest_version_written` at its front, that the counter is in step, and that
  `last_version` is null or on the chain with at most the empty version after it.
  VersionListProofs proves what each operator does to such an entry: linking in
  at the front, unlinking one position, and that the scan of `read()` finds the
  newest version not above its bound. Every proof about chains rests on it.
* **PartitionEntry.** Every open snapshot is on the chain, every commit is at most
  `highest_version_written`, every read at most `highest_version_read`, and a
  commit no longer on the chain is older than everything with data that is. The
  position of `last_version` is what makes the trimming take the oldest version.
* **VersionHeap.** Links in both directions are inductive only together with three
  facts. No list runs into itself: there is a rank that falls along the links,
  which `erase()`, moves and insertions keep. The entry's ref is at the front of
  its list, so that `apply()` inserts where nothing is before. A reader is in one
  snapshot. The moves, `upgrade()` and the destruction of a chain version by
  version (`RemoveOrMark`) are each shown to keep this for any heap. For
  ImplementsVersionList, `Undisturbed` says what the pointers are before the first
  disturbance: the list from the entry's ref is a `WellFormed` chain, no number is
  given twice on the heap, not even to a version that was trimmed, `last_version` is
  on the list and has data, and a snapshot and its version point at each other.
  From this, `last_version->prev()` is the position that `GCPosition` computes,
  `erase()` is `Unlink`, a null pointer is met exactly where `GCFaults` holds, and the
  versions whose `_snapshot` is set are those that a reader has open.
* **Port.** What a transaction has read of a key is `Closed` there: it is the
  largest commit at or below the version read at, and `highest_version_read` has
  reached that version, so that no later write can come in between. All tries
  of a write propose the same version, and where one took effect the key is at
  or above it, so that the others are dropped. For causality (`CausalInv`) the
  clock of a client covers all it knows of, and every write in flight is
  proposed above all its client knew when it sent it. In the refinement,
  `HandleWrite` is the store's Commit or a stutter, `HandleRead` its Freeze, and
  `CompleteRot` the atomic read.
* **WriteResponse.** As long as a handler is registered, the acknowledgements it
  has and the targets that have not answered are enough for its level together;
  so it can only leave the map with its level achieved or by its timer. A
  handler has answered exactly if its level is achieved and it is not held
  back. The queue has no write twice, and a registered write in it is held back.
  The two counters are the number and the total size of the unfinished writes,
  and `queued_write_bytes` the total of the sends that are not over; the sums
  over finite sets that this needs are proved from the definition of
  `MapThenSumSet`. For the refinement, a handler's acknowledgements come from
  different replicas and its version is that of one of them, and a batch's
  maximum is one of the versions it has collected. `Collect` is Succeed, Fail or a
  stutter, `Refuse` is Fail, an acknowledgement before the answer is Acknowledge.
* **ColumnFamily.** A write is in the `rp_set` of one memtable at most and holds
  its log segment until the sstable of that memtable is there; an sstable is in
  `_sstables` exactly from the stage at which its memtable may be dropped; and
  during recovery an acknowledged write is in an sstable, still to be replayed,
  or in a memtable that the drain will flush. BATCH sync is needed for
  AckedIsDurable only, and is part of its statement.
* **TwoRounds.** Whatever was seen of a key (`Seen`) is on its chain, or everything
  with data on the chain is newer, and the version of a second round is at or
  above all that the first round found.
* **Occ.** A value that is gone from a key does not come back, because the request
  that carried it is spent; blank values are the exception. So a key that had
  changed before the second pass is seen to have changed.

Only model-checked:

* liveness (ReadsReturn, BatchesReturn) and RotsNeverWait, which is stated with
  ENABLED: both out of the prover's reach;
* the five runs that end in a violation.

Induction over data is out of reach as a rule, since the library's induction
theorems take an operator as parameter. Where a proof needs it all the same (the
loop of `unthrottle()`, sums over finite sets, the list that `Elements` follows and
the destruction of a chain), the argument is by a least counterexample or by a set
of subsets closed under adding an element.

## Not modelled

* The row cache: switched off in the deployment (`--enable-cache=0`), and it
  merges versions without looking at their numbers.
* The unversioned `apply(mutation_partition)` of system tables, and merging of
  versions (`maybe_merge_versions` returns at once).
* Digest reads, read repair, speculative reads, hints, counters, several data
  centres: none runs with replication factor 1 and consistency level ONE.
* Columns: a write is one value. A read parses only the version it opened, so a
  write of some columns hides the others.
* Sstable formats, compaction, gossip, token ring, repair, streaming, CQL,
  authentication, metrics: unchanged upstream code that the protocol does not
  touch. Most of the repository's lines are of this kind.
* Byte formats of mutations, log segments and messages.
