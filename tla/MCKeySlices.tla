----------------------------- MODULE MCKeySlices -----------------------------
(* Small instances of KeySlices.  Rows are told apart by their keys only,   *)
(* so it is enough to number them in the order of their keys.               *)
EXTENDS KeySlices

MCInit == SlicesInit /\ \A q, r \in Rows : q < r => key[q] <= key[r]

MCSpec == MCInit /\ [][SlicesNext]_slicesVars
=============================================================================
