-------------------------- MODULE MCPartitionEntry --------------------------
(* PartitionEntry for TLC: version_to_write and version_to_read values.    *)
EXTENDS PartitionEntry

MoonWrites == 1 .. 6
MoonReads == 0 .. 4
=============================================================================
