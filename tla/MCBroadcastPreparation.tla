------------------------ MODULE MCBroadcastPreparation ------------------------
(***************************************************************************)
(* Instances of BroadcastPreparation for TLC.  An operation of two targets *)
(* meets MaxUpsets mishaps at most; one whose second target is removed     *)
(* before any run began is disturbed in every way, any number of times.    *)
(***************************************************************************)
EXTENDS BroadcastPreparation, TLC

CONSTANTS i1, i2, t1, t2,
          MaxUpsets,    \* bound: mishaps of an operation with two targets
          Unbounded     \* there is no bound

VARIABLE left           \* mishaps still to come

\* An earlier operation prepared the second target.
BoundedInit == Init /\ prep[t2] = "READY" /\ left = MaxUpsets

\* What the runs do, and what must happen for them to go on.
Undisturbed ==
    \/ \E i \in Instance : Run(i) \/ EndRun(i)
    \/ \E t \in Target : BecomesDue(t)
    \/ Renew
    \/ Lapse /\ Unrenewed

\* A run fails, or loses its lease; a target is changed; a group decides, which matters only
\* while its target is open.
Mishap ==
    \/ \E i \in Instance : ValidateError(i) \/ MoveLost(i) \/ Crash(i)
    \/ \E t \in Target : ChangeTarget(t) \/ (delivery[t] \notin Terminal /\ Decide(t))
    \/ Lapse

\* The whole operation is called off, or what entitles to it ends.
CallOff == CancelOperation \/ Withdraw \/ EntitlementExpires \/ DeactivateLapsed

BoundedNext ==
    \/ Undisturbed /\ UNCHANGED left
    \/ Mishap /\ left \in 1..MaxUpsets /\ left' = left - 1
    \/ (Mishap \/ CallOff) /\ left = Unbounded /\ UNCHANGED left
    \/ Init /\ ChangeTarget(t2) /\ left' = Unbounded

BoundedSpec == BoundedInit /\ [][BoundedNext]_<<vars, left>> /\ Fairness

\* Whatever the targets, disturbed in every way.
UnboundedSpec ==
    Init /\ left = Unbounded /\ [][Next /\ UNCHANGED left]_<<vars, left>>

Symmetry == Permutations({i1, i2}) \cup Permutations({t1, t2})
===============================================================================
