------------------------ MODULE MCAccountSupervisor ------------------------
(* Two accounts compete for one slot, and one of them fills a listing. *)
EXTENDS AccountSupervisor

CONSTANTS a1, a2

MCAccount == {a1, a2}
=============================================================================
