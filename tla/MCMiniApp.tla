------------------------------ MODULE MCMiniApp ------------------------------
(* Two requests under way at a time suffice for one to overtake another. *)
EXTENDS MiniApp

CONSTANTS s1, s2
==============================================================================
