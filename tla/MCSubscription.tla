--------------------------- MODULE MCSubscription ---------------------------
(* Instances of Subscription for TLC. *)
EXTENDS Subscription, TLC

CONSTANTS o1, o2, r1, r2

\* One package of a day and one of two.
DayAndTwo == (o1 :> 1) @@ (o2 :> 2)
OneDay == o1 :> 1

Symmetry == Permutations({r1, r2})
=============================================================================
