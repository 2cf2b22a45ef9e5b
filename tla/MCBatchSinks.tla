---------------------------- MODULE MCBatchSinks ----------------------------
(* Small instances of BatchSinks; the instances of the sink are alike. *)
EXTENDS BatchSinks, TLC

MCInit == Init /\ unfit \subseteq {<<1, 1>>, <<1, 3>>}
MCSpec == MCInit /\ [][Next]_vars

(* The runner repeats one attempt in all, of either bundle. *)
OneRetry == tries[1] + tries[2] <= NumBundles + 1

Symmetry == Permutations(Workers)
=============================================================================
