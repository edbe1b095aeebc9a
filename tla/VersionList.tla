---------------------------- MODULE VersionList ----------------------------
(***************************************************************************)
(* The multi-version chain that a partition_entry keeps for one key, as    *)
(* operators on a record with the fields of the C++ class.                 *)
(*                                                                         *)
(* A partition_version is named by its version_number: apply() only links  *)
(* in numbers above every earlier one (theorem VersionsAreDescending), so  *)
(* the name is unique.  "versions" is the anchorless list from the newest  *)
(* (front, partition_entry::_version) to the oldest.  The number 0 names   *)
(* the empty version the entry is constructed with, which carries no data; *)
(* a last_version of 0 is the null pointer.                                *)
(***************************************************************************)
EXTENDS Naturals, Sequences

CONSTANT MaxVersions    \* versions kept before GC starts, 100 in the code

ASSUME MaxVersionsAssumption == MaxVersions \in Nat \ {0}

NullVersion == 0

Entry == [ versions : Seq(Nat),
           highest_version_read : Nat,
           highest_version_written : Nat,
           num_versions : Nat,
           last_version : Nat ]

\* Mutant: the counter starts as if the empty version had been uncounted.
NewEntryUncounted ==
    [ versions |-> <<0>>,
      highest_version_read |-> 0,
      highest_version_written |-> 0,
      num_versions |-> 0 - 1,
      last_version |-> NullVersion ]

\* partition_entry(mutation_partition): one empty version, every counter zero.
NewEntry ==
    [ versions |-> <<0>>,
      highest_version_read |-> 0,
      highest_version_written |-> 0,
      num_versions |-> 0,
      last_version |-> NullVersion ]

\* The version numbers on the chain.
Linked(e) == { e.versions[i] : i \in DOMAIN e.versions }

(***************************************************************************)
(* apply(): what happens to a write proposed at version_to_write = vtw.    *)
(* vtw = 0 is a write of a client that knows nothing of versions.          *)
(***************************************************************************)

\* Mutants: no first-writer-wins rule; the rule with < for <=.
DroppedNever(e, vtw) == FALSE
DroppedBelow(e, vtw) == vtw # 0 /\ vtw < e.highest_version_written

\* First writer wins: a write at or below the newest version is not applied.
Dropped(e, vtw) == vtw # 0 /\ vtw <= e.highest_version_written

\* Mutant: a write is not promoted past the reads.
PromotedNot(e, vtw) == IF vtw = 0 THEN e.highest_version_written + 1 ELSE vtw

\* The version a write that is applied gets: above every version read so far.
Promoted(e, vtw) ==
    IF vtw = 0 THEN e.highest_version_written + 1
    ELSE IF vtw <= e.highest_version_read THEN e.highest_version_read + 1
    ELSE vtw

\* What *commit_version_ptr holds when apply() returns.
CommitVersion(e, vtw) ==
    IF Dropped(e, vtw) THEN e.highest_version_written ELSE Promoted(e, vtw)

\* Mutant: every write, not only one at version 1, records the end of the list.
InsertedAsEnd(e, vtw) ==
    LET n == Promoted(e, vtw)
    IN  [ e EXCEPT !.versions = <<n>> \o @,
                   !.highest_version_written = n,
                   !.num_versions = @ + 1,
                   !.last_version = n ]

\* The new version linked in at the front, before the chain is trimmed.
Inserted(e, vtw) ==
    LET n == Promoted(e, vtw)
    IN  [ e EXCEPT !.versions = <<n>> \o @,
                   !.highest_version_written = n,
                   !.num_versions = @ + 1,
                   !.last_version = IF n = 1 THEN n ELSE @ ]

(***************************************************************************)
(* The trimming at the end of apply().  It runs on the chain that already  *)
(* has the new version.  "pinned" are the versions a snapshot is open on.  *)
(***************************************************************************)

\* num_versions++ >= 100, on the counter after the increment.
NeedsGC(e) == e.num_versions > MaxVersions

Position(s, n) == CHOOSE i \in DOMAIN s : s[i] = n

\* Mutant: the trimming does not look at last_version->_snapshot.
GCPositionUnpinned(e, pinned) == Position(e.versions, e.last_version) - 1

\* Where last_version is after "last_version = last_version->prev()" has been
\* done or, because a snapshot is open on it, skipped.
GCPosition(e, pinned) ==
    LET p == Position(e.versions, e.last_version)
    IN  IF e.last_version \in pinned THEN p ELSE p - 1

\* The trimming dereferences a null pointer: last_version was never set, or
\* there is no version after it to erase.
GCFaults(e, pinned) ==
    \/ e.last_version = NullVersion
    \/ GCPosition(e, pinned) \notin 1 .. (Len(e.versions) - 1)

\* last_version->next()->erase(): the version is unlinked, not freed.
Unlink(s, i) == SubSeq(s, 1, i - 1) \o SubSeq(s, i + 1, Len(s))

\* Mutants: num_versions is not counted down; last_version->erase().
CollectedUncounted(e, pinned) ==
    LET g == GCPosition(e, pinned)
    IN  [ e EXCEPT !.versions = Unlink(@, g + 1), !.last_version = e.versions[g] ]

CollectedNewer(e, pinned) ==
    LET g == GCPosition(e, pinned)
    IN  [ e EXCEPT !.versions = Unlink(@, g),
                   !.last_version = e.versions[g],
                   !.num_versions = @ - 1 ]

Collected(e, pinned) ==
    LET g == GCPosition(e, pinned)
    IN  [ e EXCEPT !.versions = Unlink(@, g + 1),
                   !.last_version = e.versions[g],
                   !.num_versions = @ - 1 ]

\* The whole of apply(), for a write that does not end in the fault above.
Applied(e, vtw, pinned) ==
    IF Dropped(e, vtw) THEN e
    ELSE LET i == Inserted(e, vtw)
         IN  IF NeedsGC(i) THEN Collected(i, pinned) ELSE i

ApplyFaults(e, vtw, pinned) ==
    /\ ~Dropped(e, vtw)
    /\ NeedsGC(Inserted(e, vtw))
    /\ GCFaults(Inserted(e, vtw), pinned)

(***************************************************************************)
(* read(): the version that a read at version_to_read = vtr opens.         *)
(***************************************************************************)

\* Where the scan from the front stops: the first number not above vtr.
ScanStop(s, vtr) ==
    { i \in DOMAIN s : s[i] <= vtr /\ \A j \in 1 .. (i - 1) : s[j] > vtr }

\* A versioned read whose scan fell off the end or stopped at the empty
\* version takes the "safe guard" branch, which returns the newest version.
FallsBack(s, vtr) == vtr > 0 /\ \A i \in ScanStop(s, vtr) : s[i] = 0

VersionRead(s, vtr) ==
    IF vtr = 0 \/ FallsBack(s, vtr)
    THEN s[1]
    ELSE s[CHOOSE i \in DOMAIN s : i \in ScanStop(s, vtr)]

\* Mutant: a read records the version it found.
AfterReadFound(e, vtr) ==
    LET n == VersionRead(e.versions, vtr)
    IN  [ e EXCEPT !.highest_version_read = IF vtr > 0 /\ n > @ THEN n ELSE @ ]

\* A read records the version it reads at, found or not.
AfterRead(e, vtr) ==
    [ e EXCEPT !.highest_version_read = IF vtr > @ THEN vtr ELSE @ ]
=============================================================================
