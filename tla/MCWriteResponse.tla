-------------------------- MODULE MCWriteResponse --------------------------
(* WriteResponse for TLC.                                                  *)
EXTENDS WriteResponse, TLC

CONSTANTS w1, w2, w3

MCBatches == {{w1, w2}, {w3}}
MCVersions == [w \in Writes |-> IF w = w1 THEN {1, 3} ELSE {2}]
MCSize == [w \in Writes |-> IF w = w3 THEN 2 ELSE 1]
=============================================================================
