-------------------------------- MODULE MCOcc --------------------------------
(* Occ for TLC.                                                            *)
EXTENDS Occ, TLC

Symmetry == Permutations(Keys)
=============================================================================
