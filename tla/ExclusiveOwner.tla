--------------------------- MODULE ExclusiveOwner ---------------------------
(***************************************************************************)
(* What the account leases promise, without leases, clocks or tokens: at   *)
(* any moment at most one run owns the Telegram account, ownership is      *)
(* granted in numbered epochs, and the database accepts a run's write only *)
(* while that run is the owner.                                            *)
(***************************************************************************)
EXTENDS Naturals

CONSTANT Runner       \* the runs an engine instance may have in flight

VARIABLES owner,      \* the runs that own the account: none or one
          epoch,      \* how many times ownership has been granted
          written     \* the epoch of the last accepted write, 0 before any

vars == <<owner, epoch, written>>

TypeOK ==
    /\ owner \in SUBSET Runner
    /\ \A r, s \in owner : r = s
    /\ epoch \in Nat
    /\ written \in Nat

Init == owner = {} /\ epoch = 0 /\ written = 0

Grant(r) ==
    /\ owner = {}
    /\ owner' = {r}
    /\ epoch' = epoch + 1
    /\ UNCHANGED written

\* The owner may write, keeping the account or giving it up by that write (a
\* recorded revocation ends the run's own ownership).
Write(r) ==
    /\ owner = {r}
    /\ written' = epoch
    /\ owner' \in {{r}, {}}
    /\ UNCHANGED epoch

Lapse == owner # {} /\ owner' = {} /\ UNCHANGED <<epoch, written>>

Next == Lapse \/ \E r \in Runner : Grant(r) \/ Write(r)

Spec == Init /\ [][Next]_vars
=============================================================================
