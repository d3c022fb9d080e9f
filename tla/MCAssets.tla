------------------------------ MODULE MCAssets ------------------------------
(* Model values and bounds for the run of AssetStore. *)
EXTENDS AssetStore, TLC

CONSTANTS c1, x1, x2

MCSymmetry == Permutations(Hashes)
=============================================================================
