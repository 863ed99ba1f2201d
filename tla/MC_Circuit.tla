----------------------------- MODULE MC_Circuit -----------------------------
(* Instance of Circuit for TLC: two loaders on the same cache directory;  *)
(* the loaders are interchangeable.                                        *)
EXTENDS Circuit, TLC

LoaderSymmetry == Permutations(Loaders)
=============================================================================
