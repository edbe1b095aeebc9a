----------------------------- MODULE ClientView -----------------------------
(***************************************************************************)
(* The version clock of one client: current_version_to_read, and the view  *)
(* of the most recent version seen in each bucket of keys.  A bucket that  *)
(* is not in the map is 0 here: versions in the view are at least 1.       *)
(***************************************************************************)
EXTENDS Naturals

CONSTANTS Keys,
          Bucket,       \* key -> the bucket key.hashCode() % KEY_BUCKET_SIZE
          VersionCap    \* VERSION_CAP, 10000000 in the code

ASSUME VersionCapAssumption == VersionCap \in Nat /\ VersionCap > 1

Buckets == { Bucket[k] : k \in Keys }

InitialVersion == 1
EmptyView == [b \in Buckets |-> 0]

\* update_view for every key of a result: a bucket keeps the largest version
\* reported for its keys, so the order of the keys does not matter.
UpdateView(view, got) ==
    [b \in Buckets |->
        LET seen == {view[b]} \union {got[k] : k \in {q \in DOMAIN got : Bucket[q] = b}}
        IN  CHOOSE v \in seen : \A u \in seen : u <= v]

\* Mutant: the clock takes any version below the cap.
SetCurrentBack(current, v) == IF v >= VersionCap THEN current ELSE v

\* set_current_version_to_read: forward only, and never to the cap.
SetCurrent(current, v) ==
    IF v >= VersionCap THEN current
    ELSE IF current < v THEN v ELSE current

\* get_version_to_read: the smallest version in the view of the keys, if every
\* one of them has one, moves the clock; the clock is what is read at.
VersionToRead(current, view, ks) ==
    IF \E k \in ks : view[Bucket[k]] = 0 THEN current
    ELSE LET seen == {view[Bucket[k]] : k \in ks}
         IN  SetCurrent(current, CHOOSE v \in seen : \A u \in seen : v <= u)

\* get_current_read_version(isLoading) + 1, what a write proposes.
VersionToWrite(current, isLoading) == (IF isLoading THEN 0 ELSE current) + 1
=============================================================================
