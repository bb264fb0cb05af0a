---------------------------- MODULE MCAutoComment ----------------------------
(* Instances of AutoComment for TLC. *)
EXTENDS AutoComment, TLC

CONSTANTS i1, i2, c1, c2

Symmetry == Permutations({i1, i2}) \cup Permutations({c1, c2})
=============================================================================
