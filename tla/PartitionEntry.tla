--------------------------- MODULE PartitionEntry ---------------------------
(***************************************************************************)
(* One partition_entry of a memtable, with the writes and reads that reach *)
(* it on its shard.  A shard is one thread: apply() and read() run to the  *)
(* end, but a reader keeps its snapshot open while it waits for its other  *)
(* sources and for the consumer, so writes run between the opening and the *)
(* closing of a snapshot.                                                  *)
(***************************************************************************)
EXTENDS VersionList

CONSTANTS Readers,        \* readers of this partition
          WriteVersions,  \* the version_to_write values writes arrive with
          ReadVersions,   \* the version_to_read values reads arrive with
          MaxNumber       \* bound on version numbers, 2^32 - 1 in the code

ASSUME VersionsAssumption ==
    WriteVersions \subseteq Nat /\ ReadVersions \subseteq Nat

ASSUME MaxNumberAssumption == MaxNumber \in Nat

VARIABLES
    pe,         \* the partition_entry
    open,       \* reader -> the version its snapshot is on, NullVersion if none
    fault,      \* a null pointer was dereferenced: the server is gone
    committed,  \* history: every version number apply() ever inserted
    reads       \* history: [at, got] of every versioned read

vars == <<pe, open, fault, committed, reads>>

Init ==
    /\ pe = NewEntry
    /\ open = [r \in Readers |-> NullVersion]
    /\ fault = FALSE
    /\ committed = {}
    /\ reads = {}

\* The versions with a non-null partition_version::_snapshot.
Pinned == { open[r] : r \in Readers } \ {NullVersion}

\* memtable::find_or_create_partition() has created the entry: it is created
\* by, and in the same step as, its first write.
Exists == pe.highest_version_written > 0

Apply(vtw) ==
    /\ ~fault
    /\ CommitVersion(pe, vtw) <= MaxNumber
    /\ IF ApplyFaults(pe, vtw, Pinned)
       THEN /\ fault' = TRUE
            /\ UNCHANGED <<pe, committed>>
       ELSE /\ pe' = Applied(pe, vtw, Pinned)
            /\ committed' = IF Dropped(pe, vtw) THEN committed
                            ELSE committed \union {Promoted(pe, vtw)}
            /\ UNCHANGED fault
    /\ UNCHANGED <<open, reads>>

\* A reader opens, or shares, the snapshot of the version it reads.
Read(r, vtr) ==
    /\ ~fault
    /\ Exists
    /\ open[r] = NullVersion
    /\ LET n == VersionRead(pe.versions, vtr)
       IN  /\ open' = [open EXCEPT ![r] = n]
           /\ reads' = IF vtr = 0 THEN reads
                       ELSE reads \union {[at |-> vtr, got |-> n]}
    /\ pe' = AfterRead(pe, vtr)
    /\ UNCHANGED <<fault, committed>>

\* The last reader to leave a snapshot destroys it.
CloseSnapshot(r) ==
    /\ ~fault
    /\ open[r] # NullVersion
    /\ open' = [open EXCEPT ![r] = NullVersion]
    /\ UNCHANGED <<pe, fault, committed, reads>>

Next ==
    \/ \E vtw \in WriteVersions : Apply(vtw)
    \/ \E r \in Readers, vtr \in ReadVersions : Read(r, vtr)
    \/ \E r \in Readers : CloseSnapshot(r)

Spec == Init /\ [][Next]_vars

-----------------------------------------------------------------------------

\* The fields keep their types; counters stay within the modelled bound.
TypeOK ==
    /\ pe \in Entry
    /\ open \in [Readers -> Nat]
    /\ fault \in BOOLEAN
    /\ committed \subseteq Nat
    /\ reads \subseteq [at : Nat, got : Nat]

\* The chain is strictly descending and its front is highest_version_written,
\* whatever mix of proposed, promoted, dropped and unversioned writes came in
\* and whatever was trimmed: read() relies on it when it stops at the first
\* number not above the version it reads at.
VersionsDescending ==
    /\ pe.versions # <<>>
    /\ pe.versions[1] = pe.highest_version_written
    /\ \A i, j \in DOMAIN pe.versions : i < j => pe.versions[i] > pe.versions[j]

\* A read that was served from its own past, not by the safe guard.
Exact(rd) == rd.got <= rd.at

\* Once a read at version "at" was served version "got", no write ever commits
\* in between, however late it arrives: highest_version_read promotes it past
\* every version read.  This is what makes a read of several keys at one
\* version a snapshot although the keys are read at different times.
StableReads ==
    \A rd \in reads : Exact(rd) =>
        \A n \in committed : ~(rd.got < n /\ n <= rd.at)

\* Reading again at the same version gives the same version, for as long as
\* the trimming has not unlinked it.
RepeatableReads ==
    \A rd \in reads :
        Exact(rd) /\ rd.got \in Linked(pe) => VersionRead(pe.versions, rd.at) = rd.got

\* The trimming never unlinks a version that a reader has a snapshot open on.
SnapshotsPinned == \A r \in Readers : open[r] # NullVersion => open[r] \in Linked(pe)

\* num_versions, which is counted up and down apart from the list, stays one
\* below the length of the chain, so the chain never outgrows the window by
\* more than the version being applied.
CounterMatchesChain ==
    /\ Len(pe.versions) = pe.num_versions + 1
    /\ pe.num_versions <= MaxVersions

\* Trimming takes versions from the old end only, one write at a time.
GCFromTheOldest ==
    [][ \A n \in Linked(pe) \ Linked(pe)' :
          /\ \A m \in Linked(pe)' : m > n \/ m = 0
          /\ \A m \in Linked(pe) \ Linked(pe)' : m = n ]_vars

\* apply() follows a null pointer in two cases only: the end of the list was
\* never recorded, because no write committed at version 1, or a snapshot is
\* open on the recorded end, so that the trimming took the empty version behind
\* it before and now finds nothing there.
FaultsAreExplained ==
    [][ fault' # fault =>
          \/ pe.last_version = NullVersion
          \/ pe.last_version \in Pinned /\ 0 \notin Linked(pe) ]_vars

-----------------------------------------------------------------------------
(* What a comment in the code says that the code does not do.              *)

\* "safe guard, should not get here": no read at a version the entry has data
\* for takes the fall-back branch of read(), which returns the newest version.
SafeGuardNotReached ==
    \A rd \in reads : (\E n \in committed : n <= rd.at) => Exact(rd)
=============================================================================
