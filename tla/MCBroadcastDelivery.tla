------------------------- MODULE MCBroadcastDelivery -------------------------
(* Instances of BroadcastDelivery for TLC. *)
EXTENDS BroadcastDelivery, TLC

CONSTANTS i1, i2, t1, t2, o1, o2

\* One operation with two targets.
Together == (t1 :> o1) @@ (t2 :> o1)

\* Two operations, of two users sharing the account, with one target each.
Apart == (t1 :> o1) @@ (t2 :> o2)

\* A single target.
Alone == t1 :> o1

Symmetry == Permutations({i1, i2}) \cup Permutations({t1, t2})
=============================================================================
