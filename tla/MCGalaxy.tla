------------------------------ MODULE MCGalaxy ------------------------------
(* Symmetry for checking Galaxy. *)
EXTENDS Galaxy, TLC

\* Sessions are interchangeable (used for safety only).
SessionSymmetry == Permutations(Sessions)
=============================================================================
