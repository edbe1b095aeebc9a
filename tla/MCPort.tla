------------------------------- MODULE MCPort -------------------------------
(* Port for TLC.                                                           *)
EXTENDS Port, TLC

OwnBuckets == [k \in Keys |-> k]      \* every key has a bucket of its own
MCVersions == 0 .. 4
AllSets == (SUBSET Keys) \ {{}}
WholeSet == {Keys}
Singletons == {{k} : k \in Keys}
NoGarbage == {}                       \* the slot is intact when it is read
GarbageLow == {0}                     \* it was overwritten: below any commit version

Symmetry == Permutations(Clients) \union Permutations(Keys)
=============================================================================
