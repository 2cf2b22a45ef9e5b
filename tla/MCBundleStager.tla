--------------------------- MODULE MCBundleStager ---------------------------
(* Small instances of BundleStager; bundles are interchangeable. *)
EXTENDS BundleStager, TLC

Symmetry == Permutations(Bundles)
=============================================================================
