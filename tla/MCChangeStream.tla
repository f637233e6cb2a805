--------------------------- MODULE MCChangeStream ---------------------------
(* Model-checking instances of ChangeStream. *)
EXTENDS ChangeStream, TLC

Symmetry == Permutations(Writers) \cup Permutations(Watermarkers)
                \cup Permutations(Sessions)
=============================================================================
