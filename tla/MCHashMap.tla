------------------------------ MODULE MCHashMap -------------------------------
EXTENDS HashMap, TLC

CONSTANTS k1, k2, k3, k4, v1, v2

MCKeys   == {k1, k2, k3, k4}
MCValues == {v1, v2}
(* Collisions at capacity 4 that separate (3, 7) or stay (0) at 8, and     *)
(* chains that wrap around the end of the table.                           *)
MCHashes == {0, 3, 7}
KeySymmetry == Permutations(MCKeys)
=============================================================================
