--------------------------- MODULE MCAccountLease ---------------------------
(* Two engine instances, one of which could run the account twice. *)
EXTENDS AccountLease

CONSTANTS i1, i2, a1, a2, b1

MCInstance == {i1, i2}
MCRunner == {a1, a2, b1}
MCHost == [r \in MCRunner |-> IF r = b1 THEN i2 ELSE i1]

\* One run per instance, for the liveness and the counterexample runs.
PairRunner == {a1, b1}
PairHost == [r \in PairRunner |-> IF r = b1 THEN i2 ELSE i1]
=============================================================================
