--------------------------- MODULE MCVersionHeap ---------------------------
(* VersionHeap for TLC: version_to_write and version_to_read values.       *)
EXTENDS VersionHeap, TLC

Symmetry == Permutations(Readers)
MoonWrites == {1, 2, 4}
MoonReads == {0, 1, 3}
=============================================================================
