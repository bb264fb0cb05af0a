------------------------- MODULE MCBroadcastCampaign -------------------------
(* BroadcastCampaign on small instances. *)
EXTENDS BroadcastCampaign, TLC

CONSTANTS i1, i2, t1, t2

Symmetry == Permutations(Instance) \cup Permutations(Target)
=============================================================================
