---------------------------- MODULE AccountLease ----------------------------
(***************************************************************************)
(* The lease on ONE Telegram (USERBOT) account and the runs that compete   *)
(* for it.                                                                 *)
(*                                                                         *)
(* The row of account_leases is [owner, token, left]: `left' is lease_until*)
(* minus now(), so time is a countdown, and token 0 stands for "no row":   *)
(* acquire_account_lease inserts token 1 exactly where it would otherwise  *)
(* add 1 to the token of an expired row.  A run is one call of             *)
(* runBroadcastAccount, from acquire to release; an instance is one engine *)
(* process, whose identifier is drawn afresh at every start, so a crashed  *)
(* instance never comes back.  Each database function is one atomic step;  *)
(* a step that awaits Telegram is separate from the step that records it.  *)
(***************************************************************************)
EXTENDS Naturals

CONSTANTS Instance,    \* engine processes
          Runner,      \* runs
          Host,        \* Host[r]: the instance the run r executes in
          NoInstance,  \* owner of a lease row that does not exist
          LeaseTerm,   \* lease duration in ticks (policy.leaseSeconds)
          MaxGrants,   \* bound: leases handed to a run over a behaviour
          MaxFaults    \* bound: what goes wrong for a run over a behaviour

ASSUME HostAssumption == Host \in [Runner -> Instance]
ASSUME NoInstanceAssumption == NoInstance \notin Instance
ASSUME LeaseTermAssumption == LeaseTerm \in Nat \ {0}
ASSUME MaxGrantsAssumption == MaxGrants \in Nat
ASSUME MaxFaultsAssumption == MaxFaults \in Nat

VARIABLES lease,    \* [owner, token, left]: the row of account_leases
          account,  \* [status, backoff, recorded]: the row of telegram_accounts;
                    \* `backoff' is a runtime_retry_at in the future, `recorded'
                    \* the later of last_runtime_connected_at/_disconnected_at
          pc,       \* where each run is in runBroadcastAccount
          tok,      \* the fencing token each run was given
          lost,     \* the run's leaseLost flag
          grants,   \* history: leases handed to a run so far
          gen,      \* history: the number of the grant each run works under
          written,  \* history: the grant under which the last fenced write passed
          faults    \* history: what went wrong for a run so far

leaseVars == <<lease, account, pc, tok, lost, grants, gen, written, faults>>

InRun == {"LEASED", "LOADED", "OPEN", "WORKING", "CLOSING", "RELEASING"}
PC == InRun \cup {"IDLE", "DEAD"}
Status == {"READY", "DEGRADED", "REVOKED"}

\* Each part of the state has its type.
TypeOK ==
    /\ lease \in [owner: Instance \cup {NoInstance}, token: Nat, left: 0..LeaseTerm]
    /\ account \in [status: Status, backoff: BOOLEAN,
                    recorded: {"NONE", "CONNECTED", "DISCONNECTED"}]
    /\ pc \in [Runner -> PC]
    /\ tok \in [Runner -> Nat]
    /\ lost \in [Runner -> BOOLEAN]
    /\ grants \in Nat
    /\ gen \in [Runner -> Nat]
    /\ written \in Nat
    /\ faults \in Nat

NoRow == [owner |-> NoInstance, token |-> 0, left |-> 0]

Init ==
    /\ lease = NoRow
    /\ account = [status |-> "READY", backoff |-> FALSE, recorded |-> "NONE"]
    /\ pc = [r \in Runner |-> "IDLE"]
    /\ tok = [r \in Runner |-> 0]
    /\ lost = [r \in Runner |-> FALSE]
    /\ grants = 0
    /\ gen = [r \in Runner |-> 0]
    /\ written = 0
    /\ faults = 0

-----------------------------------------------------------------------------
(* The database's side. *)

\* Mutation: the fencing test forgets the owner.
HeldByToken(i, t) == lease.token = t /\ lease.left > 0

\* The test every fenced function repeats: exact owner, exact token, unexpired.
HeldBy(i, t) == lease.owner = i /\ lease.token = t /\ lease.left > 0

Holds(r) == HeldBy(Host[r], tok[r])

\* Mutation: an unexpired lease is taken over.
AcquirableAlways(i) == TRUE

\* Mutation: an expired lease of another instance is never taken over.
AcquirableOwn(i) == lease.token = 0 \/ lease.owner = i

\* The instance gets the lease unless another instance has it unexpired.
Acquirable(i) == lease.left = 0 \/ lease.owner = i

\* RENEWED keeps the token, TAKEN_OVER and ACQUIRED advance it.
AcquiredToken(i) ==
    IF lease.left > 0 /\ lease.owner = i THEN lease.token ELSE lease.token + 1

GrantTo(i) ==
    lease' = [owner |-> i, token |-> AcquiredToken(i), left |-> LeaseTerm]

\* Mutation: a renewal adds the duration to lease_until instead of to now().
ExtendFromExpiry == lease' = [lease EXCEPT !.left = @ + LeaseTerm]

Extend == lease' = [lease EXCEPT !.left = LeaseTerm]

Expire == lease' = [lease EXCEPT !.left = 0]

Runnable == account.status = "READY" /\ ~account.backoff

\* record_telegram_account_runtime_result, once its lease and status test has
\* passed; recording REVOKED fires the trigger that deletes the lease row.
Recorded(result) ==
    /\ account' =
         CASE result = "CONNECTED" ->
                [account EXCEPT !.backoff = FALSE, !.recorded = "CONNECTED"]
           [] result = "DISCONNECTED" -> [account EXCEPT !.recorded = "DISCONNECTED"]
           [] result = "FAILED_RETRYABLE" -> [account EXCEPT !.backoff = TRUE]
           [] OTHER -> [account EXCEPT !.status = result, !.backoff = FALSE]
    /\ lease' = IF result = "REVOKED" THEN NoRow ELSE lease

\* Mutation: runtime results are recorded without the lease test.
AcceptsUnfenced(r, result) == account.status = "READY" \/ result = "DISCONNECTED"

Accepts(r, result) == Holds(r) /\ (account.status = "READY" \/ result = "DISCONNECTED")

-----------------------------------------------------------------------------
(* One run. *)

\* A call fails, Telegram refuses, a heartbeat stalls, or the user intervenes: what can
\* cost a run its lease or its work.
Fault == faults < MaxFaults /\ faults' = faults + 1

\* Mutation: the supervisor forgets its inFlight set.
CanStartTwice(r) == pc[r] = "IDLE"

\* The supervisor starts no second run of the account while one is in flight.
CanStart(r) ==
    /\ pc[r] = "IDLE"
    /\ \A s \in Runner : Host[s] = Host[r] => pc[s] = "IDLE"

Goto(r, l) == pc' = [pc EXCEPT ![r] = l]

\* The runs of S are over and their local variables with them.
Ended(S, l) ==
    /\ pc' = [r \in Runner |-> IF r \in S THEN l ELSE pc[r]]
    /\ tok' = [r \in Runner |-> IF r \in S THEN 0 ELSE tok[r]]
    /\ gen' = [r \in Runner |-> IF r \in S THEN 0 ELSE gen[r]]
    /\ lost' = [r \in Runner |-> IF r \in S THEN FALSE ELSE lost[r]]

\* runBroadcastAccount begins: the lease is granted and the answer arrives.  The account
\* was listed as due, which it may no longer be.
Acquire(r) ==
    /\ CanStart(r) /\ Acquirable(Host[r]) /\ grants < MaxGrants
    /\ GrantTo(Host[r])
    /\ tok' = [tok EXCEPT ![r] = AcquiredToken(Host[r])]
    /\ grants' = grants + 1
    /\ gen' = [gen EXCEPT ![r] = grants + 1]
    /\ lost' = [lost EXCEPT ![r] = FALSE]
    /\ Goto(r, "LEASED")
    /\ (Runnable /\ UNCHANGED faults) \/ (~Runnable /\ Fault)
    /\ UNCHANGED <<account, written>>

\* LEASE_ACQUIRE_FAILED: the row was written but the answer never came back.
AcquireLost(r) ==
    /\ CanStart(r) /\ Acquirable(Host[r]) /\ lease.token < MaxGrants
    /\ GrantTo(Host[r])
    /\ Fault
    /\ UNCHANGED <<account, pc, tok, lost, grants, gen, written>>

Beating(r) == pc[r] \in InRun \ {"RELEASING"} /\ ~lost[r]

\* The heartbeat renews the exact lease, or learns that it is gone and stops.
Heartbeat(r) ==
    /\ Beating(r)
    /\ IF Holds(r)
         THEN Extend /\ UNCHANGED lost
         ELSE lost' = [lost EXCEPT ![r] = TRUE] /\ UNCHANGED lease
    /\ UNCHANGED <<account, pc, tok, grants, gen, written, faults>>

\* The renewal fails in transit: applied or not, the run counts the lease lost.
HeartbeatError(r) ==
    /\ Beating(r)
    /\ lost' = [lost EXCEPT ![r] = TRUE]
    /\ (Holds(r) /\ Extend) \/ UNCHANGED lease
    /\ Fault
    /\ UNCHANGED <<account, pc, tok, grants, gen, written>>

\* The session is handed out under the lease only, to a runnable account only.
\* A refusal by the lease test sets leaseLost; the call may also fail in transit.
LoadSession(r) ==
    /\ pc[r] = "LEASED"
    /\ \/ Holds(r) /\ Runnable /\ Goto(r, "LOADED") /\ UNCHANGED faults
       \/ ~(Holds(r) /\ Runnable) /\ Goto(r, "RELEASING") /\ UNCHANGED faults
       \/ Goto(r, "RELEASING") /\ Fault
    /\ lost' = [lost EXCEPT ![r] = lost[r] \/ ~Holds(r)]
    /\ UNCHANGED <<lease, account, tok, grants, gen, written>>

\* The Telegram connection opens; nothing is recorded yet.
Connect(r) ==
    /\ pc[r] = "LOADED"
    /\ Goto(r, "OPEN")
    /\ UNCHANGED <<lease, account, tok, lost, grants, gen, written, faults>>

\* persistRuntime: skipped when leaseLost, otherwise accepted or refused.
Persist(r, result) ==
    IF ~lost[r] /\ Accepts(r, result)
      THEN Recorded(result) /\ written' = gen[r]
      ELSE UNCHANGED <<account, lease, written>>

\* ... or the call failed in transit, applied or not.
TryPersist(r, result) == Persist(r, result) \/ UNCHANGED <<account, lease, written>>

\* The connection is recorded and the run starts draining; refused, or without
\* an answer, it closes the connection again.
RecordConnected(r) ==
    /\ pc[r] = "OPEN"
    /\ \/ /\ ~lost[r] /\ Accepts(r, "CONNECTED")
          /\ Persist(r, "CONNECTED")
          /\ Goto(r, "WORKING")
          /\ UNCHANGED faults
       \/ /\ lost[r] \/ ~Accepts(r, "CONNECTED")
          /\ Goto(r, "CLOSING")
          /\ UNCHANGED <<account, lease, written, faults>>
       \/ TryPersist(r, "CONNECTED") /\ Goto(r, "CLOSING") /\ Fault
    /\ UNCHANGED <<tok, lost, grants, gen>>

\* persistFailure: decrypting or connecting failed, or work met a session error.
\* Without an adapter to disconnect the run goes straight to its release.
Fail(r, result) ==
    /\ pc[r] \in {"LOADED", "WORKING"}
    /\ TryPersist(r, result)
    /\ Goto(r, "CLOSING") \/ (pc[r] = "LOADED" /\ Goto(r, "RELEASING"))
    /\ Fault
    /\ UNCHANGED <<tok, lost, grants, gen>>

\* One fenced call of the drain loop (claims, transitions, finishes): accepted
\* only from the holder; a refusal ends the run.
Work(r) ==
    /\ pc[r] = "WORKING" /\ ~lost[r]
    /\ IF Holds(r) THEN written' = gen[r] /\ UNCHANGED pc
                   ELSE Goto(r, "CLOSING") /\ UNCHANGED written
    /\ UNCHANGED <<lease, account, tok, lost, grants, gen, faults>>

\* The drain ends: nothing left, budget spent, told to release, or leaseLost.
EndDrain(r) ==
    /\ pc[r] = "WORKING"
    /\ Goto(r, "CLOSING")
    /\ UNCHANGED <<lease, account, tok, lost, grants, gen, written, faults>>

\* finally: the connection closes, DISCONNECTED is recorded unless the
\* disconnect itself threw, and the heartbeat stops.
Disconnect(r) ==
    /\ pc[r] = "CLOSING"
    /\ TryPersist(r, "DISCONNECTED")
    /\ Goto(r, "RELEASING")
    /\ UNCHANGED <<tok, lost, grants, gen, faults>>

\* The lease is released if it is still exactly this run's; a release that
\* never reaches the database leaves it to expire.
Release(r) ==
    /\ pc[r] = "RELEASING"
    /\ (Holds(r) /\ Expire) \/ UNCHANGED lease
    /\ Ended({r}, "IDLE")
    /\ UNCHANGED <<account, grants, written, faults>>

Run(r) ==
    \/ Acquire(r)
    \/ LoadSession(r)
    \/ Connect(r)
    \/ RecordConnected(r)
    \/ \E result \in {"FAILED_RETRYABLE", "DEGRADED", "REVOKED"} : Fail(r, result)
    \/ Work(r)
    \/ EndDrain(r)
    \/ Disconnect(r)
    \/ Release(r)

-----------------------------------------------------------------------------
(* Everything else that touches the two rows. *)

\* An engine process dies with every run in it; its lease stays behind.
Crash(i) ==
    /\ \E r \in Runner : Host[r] = i /\ pc[r] # "DEAD"
    /\ Ended({r \in Runner : Host[r] = i}, "DEAD")
    /\ UNCHANGED <<lease, account, grants, written, faults>>

\* Time passes.  A lease of a run whose heartbeat runs ends only when it stalls.
Tick ==
    /\ lease.left > 0
    /\ lease' = [lease EXCEPT !.left = @ - 1]
    /\ IF lease.left = 1 /\ \E r \in Runner : Beating(r) /\ Holds(r)
         THEN Fault ELSE UNCHANGED faults
    /\ UNCHANGED <<account, pc, tok, lost, grants, gen, written>>

\* runtime_retry_at is reached.
BackoffElapses ==
    /\ account.backoff
    /\ account' = [account EXCEPT !.backoff = FALSE]
    /\ UNCHANGED <<lease, pc, tok, lost, grants, gen, written, faults>>

\* The user logs the account out: the session goes, and the trigger on the
\* status deletes the lease row, whoever holds it.
Logout ==
    /\ account.status # "REVOKED"
    /\ account' = [account EXCEPT !.status = "REVOKED", !.backoff = FALSE]
    /\ lease' = NoRow
    /\ UNCHANGED <<pc, tok, lost, grants, gen, written, faults>>

\* The user authorizes the account again.  switch_userbot_profile_account
\* expires the account's lease unless the account is still the profile's active
\* one, which a revoked account is not.
Reauthorize ==
    /\ ~Runnable
    /\ account' = [account EXCEPT !.status = "READY", !.backoff = FALSE]
    /\ Expire \/ (account.status # "REVOKED" /\ UNCHANGED lease)
    /\ IF account.status = "READY" THEN Fault ELSE UNCHANGED faults
    /\ UNCHANGED <<pc, tok, lost, grants, gen, written>>

\* The user switches the profile to another account or detaches it: the lease
\* is expired and its token kept.
Detach ==
    /\ lease.left > 0
    /\ Expire
    /\ Fault
    /\ UNCHANGED <<account, pc, tok, lost, grants, gen, written>>

Next ==
    \/ \E r \in Runner :
          Run(r) \/ AcquireLost(r) \/ Heartbeat(r) \/ HeartbeatError(r)
    \/ \E i \in Instance : Crash(i)
    \/ Tick
    \/ BackoffElapses
    \/ Logout
    \/ Reauthorize
    \/ Detach

Spec == Init /\ [][Next]_leaseVars

\* A run in flight takes its next step (its awaits all have time limits), the
\* supervisor keeps starting runs of a due account, and time passes.
Fairness ==
    /\ \A r \in Runner : WF_leaseVars(Run(r))
    /\ WF_leaseVars(Tick)
    /\ WF_leaseVars(BackoffElapses)

FairSpec == Spec /\ Fairness

-----------------------------------------------------------------------------
(* Properties. *)

Holder(r) == pc[r] \in InRun /\ Holds(r)

\* Two runs never both pass the fencing test: one session cannot be claimed by
\* two engines, nor twice by one engine.
OneClaim == \A r, s \in Runner : Holder(r) /\ Holder(s) => r = s

\* Whoever passes the fencing test is the latest run a lease was granted to,
\* although logout deletes the row and so restarts the tokens at 1: no stale
\* run ever shares the (owner, token) pair of a newer grant.
HolderIsLatestGrant == \A r \in Runner : Holder(r) => gen[r] = grants

\* While the holder is draining, the account's last recorded connection event
\* is its own CONNECTED: no late DISCONNECTED of an older run hides it.
WorkingIsRecorded ==
    \A r \in Runner :
        pc[r] = "WORKING" /\ Holds(r) => account.recorded = "CONNECTED"

\* The abstract specification: exclusive ownership in epochs, writes by owners.
Ownership == INSTANCE ExclusiveOwner
                 WITH owner <- {r \in Runner : Holder(r)}, epoch <- grants
OwnershipSpec == Ownership!Spec

\* When the instance holding the lease crashes, the account is not orphaned: a surviving
\* instance gets the lease and works the account again, however often it is set back on
\* the way, unless the account is no longer READY or no instance is left.  The bounds leave
\* room for it: each fault to come costs a run its grant at most, and one more is worked.
CrashedHolder ==
    /\ lease.left > 0 /\ \E r \in Runner : pc[r] = "DEAD" /\ Host[r] = lease.owner
    /\ grants + (MaxFaults - faults) < MaxGrants
Recovered ==
    \/ \E r \in Runner : pc[r] = "WORKING" /\ Holds(r)
    \/ account.status # "READY"
    \/ \A r \in Runner : pc[r] = "DEAD"
CrashIsRecovered == CrashedHolder ~> Recovered

\* FOUNDATION_SPEC.md:52 and :119: a logout waits until the engine has let the
\* session go.
LogoutAfterRelease ==
    [][Logout => \A r \in Runner : pc[r] \notin {"OPEN", "WORKING"}]_leaseVars

\* PROJECT_WORKFLOW.md:348: leases and fencing keep two runs from overlapping
\* on one session.
NoOverlap ==
    \A r, s \in Runner :
        pc[r] \in {"OPEN", "WORKING"} /\ pc[s] \in {"OPEN", "WORKING"} => r = s
=============================================================================
