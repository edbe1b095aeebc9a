--------------------------- MODULE MCColumnFamily ---------------------------
(* ColumnFamily for TLC.                                                   *)
EXTENDS ColumnFamily

\* One version per write.  What arrives late, or after a read, is dropped or promoted.
RisingProposals == [w \in Writes |-> {w}]
=============================================================================
