------------------------ MODULE AccountLease_proofs ------------------------
(***************************************************************************)
(* Proofs about an account: about AccountLease, for any set of instances   *)
(* and runs, any lease duration and any number of grants, and about        *)
(* AccountSession, for any processes, runs and keys.  The key fact of the  *)
(* first is InFlightOnce: with at most one run of the account per          *)
(* instance, (owner, token) identifies the latest grant even though a      *)
(* logout restarts the tokens.                                             *)
(***************************************************************************)
EXTENDS AccountLease, MCAccountSession, TLAPS

\* An instance has at most one run of the account in flight.
InFlightOnce ==
    \A r, s \in Runner :
        pc[r] \in InRun /\ pc[s] \in InRun /\ Host[r] = Host[s] => r = s

\* The inductive invariant: types, one run per instance, and what a run that
\* passes the fencing test may rely on.
LeaseInv ==
    /\ TypeOK
    /\ InFlightOnce
    /\ HolderIsLatestGrant
    /\ WorkingIsRecorded

USE DEF InRun, PC, Status

\* The initial state satisfies the invariant.
LEMMA InitInv == Init => LeaseInv
<1> SUFFICES ASSUME Init PROVE LeaseInv
  OBVIOUS
<1>1. TypeOK
  BY NoInstanceAssumption, LeaseTermAssumption DEF Init, TypeOK, NoRow
<1>2. InFlightOnce /\ HolderIsLatestGrant /\ WorkingIsRecorded
  BY DEF Init, InFlightOnce, HolderIsLatestGrant, WorkingIsRecorded, Holder
<1> QED BY <1>1, <1>2 DEF LeaseInv

\* Recording a runtime result keeps the two rows well typed.
LEMMA RecordedType ==
    ASSUME TypeOK, NEW result \in {"CONNECTED", "DISCONNECTED", "FAILED_RETRYABLE",
                                   "DEGRADED", "REVOKED"},
           Recorded(result)
    PROVE  /\ lease' \in [owner: Instance \cup {NoInstance}, token: Nat, left: 0..LeaseTerm]
           /\ account' \in [status: Status, backoff: BOOLEAN,
                            recorded: {"NONE", "CONNECTED", "DISCONNECTED"}]
<1>1. NoRow \in [owner: Instance \cup {NoInstance}, token: Nat, left: 0..LeaseTerm]
  BY LeaseTermAssumption DEF NoRow
<1>2. lease' \in [owner: Instance \cup {NoInstance}, token: Nat, left: 0..LeaseTerm]
  BY <1>1 DEF TypeOK, Recorded
<1>3. CASE result = "CONNECTED"
  BY <1>2, <1>3 DEF TypeOK, Recorded
<1>4. CASE result = "DISCONNECTED"
  BY <1>2, <1>4 DEF TypeOK, Recorded
<1>5. CASE result = "FAILED_RETRYABLE"
  BY <1>2, <1>5 DEF TypeOK, Recorded
<1>6. CASE result \in {"DEGRADED", "REVOKED"}
  BY <1>2, <1>6 DEF TypeOK, Recorded
<1> QED BY <1>3, <1>4, <1>5, <1>6

\* So does prolonging or expiring the lease.
LEMMA ExtendExpireType ==
    ASSUME TypeOK, Extend \/ Expire \/ lease' = NoRow \/ UNCHANGED lease
    PROVE  lease' \in [owner: Instance \cup {NoInstance}, token: Nat, left: 0..LeaseTerm]
<1>1. 0 \in 0..LeaseTerm /\ LeaseTerm \in 0..LeaseTerm
  BY LeaseTermAssumption
<1> QED BY <1>1 DEF TypeOK, Extend, Expire, NoRow

\* What went wrong so far stays a number.
LEMMA FaultsStep == faults \in Nat /\ [Next]_leaseVars => faults' \in Nat
<1> SUFFICES ASSUME faults \in Nat, [Next]_leaseVars PROVE faults' \in Nat
  OBVIOUS
<1>1. Fault \/ UNCHANGED faults => faults' \in Nat
  BY DEF Fault
<1>2. CASE \E r \in Runner : Run(r)
  BY <1>1, <1>2 DEF Run, Acquire, LoadSession, Connect, RecordConnected, Fail, Work, EndDrain,
                    Disconnect, Release
<1>3. CASE \E r \in Runner : AcquireLost(r) \/ Heartbeat(r) \/ HeartbeatError(r)
  BY <1>1, <1>3 DEF AcquireLost, Heartbeat, HeartbeatError
<1>4. CASE \/ \E i \in Instance : Crash(i)
           \/ Tick \/ BackoffElapses \/ Logout \/ Reauthorize \/ Detach
           \/ UNCHANGED leaseVars
  BY <1>1, <1>4 DEF Crash, Tick, BackoffElapses, Logout, Reauthorize, Detach, leaseVars
<1> QED BY <1>2, <1>3, <1>4 DEF Next

\* Every step keeps the types.
LEMMA TypeStep == TypeOK /\ [Next]_leaseVars => TypeOK'
<1> SUFFICES ASSUME TypeOK, [Next]_leaseVars PROVE TypeOK'
  OBVIOUS
<1>0. faults' \in Nat
  BY FaultsStep DEF TypeOK
<1> USE HostAssumption, LeaseTermAssumption DEF TypeOK
<1>1. ASSUME NEW r \in Runner, Acquire(r) PROVE TypeOK'
  BY <1>0, <1>1 DEF Acquire, GrantTo, AcquiredToken, Goto
<1>2. ASSUME NEW r \in Runner, AcquireLost(r) PROVE TypeOK'
  BY <1>0, <1>2 DEF AcquireLost, GrantTo, AcquiredToken
<1>3. ASSUME NEW r \in Runner, Heartbeat(r) PROVE TypeOK'
  BY <1>0, <1>3, ExtendExpireType DEF Heartbeat
<1>4. ASSUME NEW r \in Runner, HeartbeatError(r) PROVE TypeOK'
  BY <1>0, <1>4, ExtendExpireType DEF HeartbeatError
<1>5. ASSUME NEW r \in Runner, LoadSession(r) PROVE TypeOK'
  BY <1>0, <1>5 DEF LoadSession, Goto, Holds, HeldBy
<1>6. ASSUME NEW r \in Runner, Connect(r) PROVE TypeOK'
  BY <1>0, <1>6 DEF Connect, Goto
<1>7. ASSUME NEW r \in Runner, RecordConnected(r) PROVE TypeOK'
  BY <1>0, <1>7, RecordedType DEF RecordConnected, TryPersist, Persist, Goto
<1>8. ASSUME NEW r \in Runner, NEW result \in {"FAILED_RETRYABLE", "DEGRADED", "REVOKED"},
             Fail(r, result)
      PROVE  TypeOK'
  BY <1>0, <1>8, RecordedType DEF Fail, TryPersist, Persist, Goto
<1>9. ASSUME NEW r \in Runner, Work(r) PROVE TypeOK'
  BY <1>0, <1>9 DEF Work, Goto
<1>10. ASSUME NEW r \in Runner, EndDrain(r) PROVE TypeOK'
  BY <1>0, <1>10 DEF EndDrain, Goto
<1>11. ASSUME NEW r \in Runner, Disconnect(r) PROVE TypeOK'
  BY <1>0, <1>11, RecordedType DEF Disconnect, TryPersist, Persist, Goto
<1>12. ASSUME NEW r \in Runner, Release(r) PROVE TypeOK'
  BY <1>0, <1>12, ExtendExpireType DEF Release, Ended
<1>13. ASSUME NEW i \in Instance, Crash(i) PROVE TypeOK'
  BY <1>0, <1>13 DEF Crash, Ended
<1>14. CASE Tick
  BY <1>0, <1>14 DEF Tick
<1>15. CASE BackoffElapses \/ Logout \/ Reauthorize \/ Detach
  BY <1>0, <1>15, ExtendExpireType DEF BackoffElapses, Logout, Reauthorize, Detach
<1>16. CASE UNCHANGED leaseVars
  BY <1>0, <1>16 DEF leaseVars
<1> QED
  BY <1>1, <1>2, <1>3, <1>4, <1>5, <1>6, <1>7, <1>8, <1>9, <1>10, <1>11, <1>12,
     <1>13, <1>14, <1>15, <1>16 DEF Next, Run

\* A run still in flight after others ended is untouched.
LEMMA EndedOthers ==
    ASSUME NEW r \in Runner, pc'[r] \in InRun,
           (\E q \in Runner : Release(q)) \/ (\E i \in Instance : Crash(i))
    PROVE  pc'[r] = pc[r] /\ tok'[r] = tok[r] /\ gen'[r] = gen[r]
<1>1. ASSUME NEW q \in Runner, Release(q) PROVE pc'[r] = pc[r] /\ tok'[r] = tok[r] /\ gen'[r] = gen[r]
  BY <1>1 DEF Release, Ended
<1>2. ASSUME NEW i \in Instance, Crash(i) PROVE pc'[r] = pc[r] /\ tok'[r] = tok[r] /\ gen'[r] = gen[r]
  <2> DEFINE S == {q \in Runner : Host[q] = i}
  <2>1. Ended(S, "DEAD")
    BY <1>2 DEF Crash
  <2> HIDE DEF S
  <2> QED BY <2>1 DEF Ended
<1> QED BY <1>1, <1>2

\* Every step keeps at most one run per instance in flight: only Acquire starts
\* one, and only when the instance has none.
LEMMA InFlightStep ==
    TypeOK /\ InFlightOnce /\ [Next]_leaseVars => InFlightOnce'
<1> SUFFICES ASSUME TypeOK, InFlightOnce, [Next]_leaseVars,
                    NEW r \in Runner, NEW s \in Runner,
                    pc'[r] \in InRun, pc'[s] \in InRun, Host[r] = Host[s]
             PROVE  r = s
  BY DEF InFlightOnce
<1> USE DEF TypeOK, InFlightOnce
<1>1. CASE \E q \in Runner : Acquire(q)
  BY <1>1 DEF Acquire, CanStart, Goto
<1>2. CASE \E q \in Runner : AcquireLost(q) \/ Heartbeat(q) \/ HeartbeatError(q)
  BY <1>2 DEF AcquireLost, Heartbeat, HeartbeatError
<1>3. CASE \E q \in Runner : LoadSession(q) \/ Connect(q) \/ RecordConnected(q)
  BY <1>3 DEF LoadSession, Connect, RecordConnected, Goto
<1>4. CASE \E q \in Runner : Work(q) \/ EndDrain(q) \/ Disconnect(q)
  BY <1>4 DEF Work, EndDrain, Disconnect, Goto
<1>5. CASE \E q \in Runner, result \in {"FAILED_RETRYABLE", "DEGRADED", "REVOKED"} :
              Fail(q, result)
  BY <1>5 DEF Fail, Goto
<1>6. CASE (\E q \in Runner : Release(q)) \/ (\E i \in Instance : Crash(i))
  BY <1>6, EndedOthers
<1>7. CASE Tick \/ BackoffElapses \/ Logout \/ Reauthorize \/ Detach \/ UNCHANGED leaseVars
  BY <1>7 DEF Tick, BackoffElapses, Logout, Reauthorize, Detach, leaseVars
<1> QED
  BY <1>1, <1>2, <1>3, <1>4, <1>5, <1>6, <1>7 DEF Next, Run

\* One engine never claims the session twice, nor two engines at once
\* (FOUNDATION_SPEC.md:117): the row has one owner, and the owner one run.
LEMMA OneClaimFromInFlight == InFlightOnce => OneClaim
BY DEF InFlightOnce, OneClaim, Holder, Holds, HeldBy

\* The run that is granted the lease passes the fencing test, under the new
\* grant; every other run fails it, before and after.
LEMMA GrantStep ==
    ASSUME TypeOK, InFlightOnce, NEW q \in Runner, Acquire(q)
    PROVE  /\ \A r \in Runner : ~Holder(r)
           /\ \A r \in Runner : Holder(r)' <=> r = q
           /\ gen'[q] = grants' /\ pc'[q] = "LEASED"
<1> USE LeaseTermAssumption DEF TypeOK
<1>1. ASSUME NEW r \in Runner, Holder(r) PROVE FALSE
  BY <1>1 DEF Acquire, CanStart, Acquirable, Holder, Holds, HeldBy
<1>2. gen'[q] = grants' /\ pc'[q] = "LEASED" /\ tok'[q] = AcquiredToken(Host[q])
  BY DEF Acquire, Goto
<1>3. Holder(q)'
  BY <1>2 DEF Acquire, GrantTo, Holder, Holds, HeldBy
<1>4. ASSUME NEW r \in Runner, r # q, Holder(r)' PROVE FALSE
  BY <1>4 DEF Acquire, CanStart, GrantTo, Goto, Holder, Holds, HeldBy
<1> QED BY <1>1, <1>2, <1>3, <1>4

Fails == {"FAILED_RETRYABLE", "DEGRADED", "REVOKED"}

\* No other step lets a run pass the fencing test that did not pass it before.
LEMMA HolderStep ==
    ASSUME TypeOK, InFlightOnce, [Next]_leaseVars,
           \A q \in Runner : ~Acquire(q),
           NEW r \in Runner, Holder(r)'
    PROVE  Holder(r) /\ gen'[r] = gen[r] /\ grants' = grants
<1> USE LeaseTermAssumption DEF TypeOK, Holder, Holds, HeldBy
<1>1. CASE \E q \in Runner : AcquireLost(q)
  BY <1>1 DEF AcquireLost, CanStart, GrantTo
<1>2. CASE \E q \in Runner : Heartbeat(q) \/ HeartbeatError(q)
  BY <1>2 DEF Heartbeat, HeartbeatError, Extend
<1>3. CASE \E q \in Runner : LoadSession(q) \/ Connect(q)
  BY <1>3 DEF LoadSession, Connect, Goto
<1>4. CASE \E q \in Runner : Work(q) \/ EndDrain(q)
  BY <1>4 DEF Work, EndDrain, Goto
<1>5. CASE \E q \in Runner : RecordConnected(q)
  BY <1>5 DEF RecordConnected, TryPersist, Persist, Recorded, Goto, NoRow
<1>6. CASE \E q \in Runner : Disconnect(q)
  BY <1>6 DEF Disconnect, TryPersist, Persist, Recorded, Goto, NoRow
<1>7. CASE \E q \in Runner, result \in Fails : Fail(q, result)
  BY <1>7 DEF Fail, TryPersist, Persist, Recorded, Goto, NoRow
<1>8. CASE (\E q \in Runner : Release(q)) \/ (\E i \in Instance : Crash(i))
  BY <1>8, EndedOthers DEF Release, Crash, Expire
<1>9. CASE Tick \/ BackoffElapses \/ Logout \/ Reauthorize \/ Detach \/ UNCHANGED leaseVars
  BY <1>9 DEF Tick, BackoffElapses, Logout, Reauthorize, Detach, Expire, NoRow, leaseVars
<1> QED
  BY <1>1, <1>2, <1>3, <1>4, <1>5, <1>6, <1>7, <1>8, <1>9 DEF Next, Run, Fails

\* The fencing test keeps admitting the latest grant only.
LEMMA LatestGrantStep ==
    TypeOK /\ InFlightOnce /\ HolderIsLatestGrant /\ [Next]_leaseVars
        => HolderIsLatestGrant'
<1> SUFFICES ASSUME TypeOK, InFlightOnce, HolderIsLatestGrant, [Next]_leaseVars,
                    NEW r \in Runner, Holder(r)'
             PROVE  gen'[r] = grants'
  BY DEF HolderIsLatestGrant
<1>1. CASE \E q \in Runner : Acquire(q)
  BY <1>1, GrantStep
<1>2. CASE \A q \in Runner : ~Acquire(q)
  BY <1>2, HolderStep DEF HolderIsLatestGrant
<1> QED BY <1>1, <1>2

\* A draining holder's CONNECTED stays the last recorded event: any other
\* accepted record would come from a second holder.
LEMMA RecordedStep ==
    TypeOK /\ InFlightOnce /\ WorkingIsRecorded /\ [Next]_leaseVars
        => WorkingIsRecorded'
<1> SUFFICES ASSUME TypeOK, InFlightOnce, WorkingIsRecorded, [Next]_leaseVars,
                    NEW r \in Runner, pc'[r] = "WORKING", Holds(r)'
             PROVE  account'.recorded = "CONNECTED"
  BY DEF WorkingIsRecorded
<1>0. Holder(r)'
  BY DEF Holder
<1>1. CASE \E q \in Runner : Acquire(q)
  BY <1>0, <1>1, GrantStep
<1>2. ASSUME \A q \in Runner : ~Acquire(q)
      PROVE  account'.recorded = "CONNECTED"
  <2>1. Holder(r)
    BY <1>0, <1>2, HolderStep
  <2>2. \A q \in Runner : Holder(q) => q = r
    BY <2>1, OneClaimFromInFlight DEF OneClaim
  <2> USE DEF TypeOK
  <2>3. CASE \E q \in Runner : RecordConnected(q)
    BY <2>1, <2>2, <2>3
       DEF RecordConnected, TryPersist, Persist, Recorded, Accepts, Goto, Holder, WorkingIsRecorded
  <2>4. CASE \E q \in Runner : Disconnect(q)
    BY <2>1, <2>2, <2>4
       DEF Disconnect, TryPersist, Persist, Recorded, Accepts, Goto, Holder, WorkingIsRecorded
  <2>5. CASE \E q \in Runner, result \in Fails : Fail(q, result)
    BY <2>1, <2>2, <2>5
       DEF Fail, Fails, TryPersist, Persist, Recorded, Accepts, Goto, Holder, WorkingIsRecorded
  <2>6. CASE \E q \in Runner : LoadSession(q) \/ Connect(q) \/ Work(q) \/ EndDrain(q)
    BY <2>1, <2>6 DEF LoadSession, Connect, Work, EndDrain, Goto, Holder, WorkingIsRecorded
  <2>7. CASE \E q \in Runner : AcquireLost(q) \/ Heartbeat(q) \/ HeartbeatError(q)
    BY <2>1, <2>7 DEF AcquireLost, Heartbeat, HeartbeatError, Holder, WorkingIsRecorded
  <2>8. CASE (\E q \in Runner : Release(q)) \/ (\E i \in Instance : Crash(i))
    BY <2>1, <2>8, EndedOthers DEF Release, Crash, Holder, WorkingIsRecorded
  <2>9. CASE Tick \/ BackoffElapses \/ Logout \/ Reauthorize \/ Detach \/ UNCHANGED leaseVars
    BY <2>1, <2>9
       DEF Tick, BackoffElapses, Logout, Reauthorize, Detach, leaseVars, Holder, WorkingIsRecorded
  <2> QED
    BY <1>2, <2>3, <2>4, <2>5, <2>6, <2>7, <2>8, <2>9 DEF Next, Run, Fails
<1> QED BY <1>1, <1>2

\* The invariant holds throughout.
THEOREM LeaseInvariant == Spec => []LeaseInv
<1>1. LeaseInv /\ [Next]_leaseVars => LeaseInv'
  BY TypeStep, InFlightStep, LatestGrantStep, RecordedStep DEF LeaseInv
<1> QED BY <1>1, InitInv, PTL DEF Spec

\* Type correctness of the lease model.
THEOREM LeaseTypeOK == Spec => []TypeOK
BY LeaseInvariant, PTL DEF LeaseInv

\* At most one run in the whole fleet ever passes the fencing test.
THEOREM LeaseOneClaim == Spec => []OneClaim
<1>1. LeaseInv => OneClaim
  BY OneClaimFromInFlight DEF LeaseInv
<1> QED BY <1>1, LeaseInvariant, PTL

\* Whoever passes the fencing test holds the latest grant, logouts included.
THEOREM LeaseHolderIsLatestGrant == Spec => []HolderIsLatestGrant
BY LeaseInvariant, PTL DEF LeaseInv

\* A stale run's DISCONNECTED never hides the CONNECTED of the draining holder.
THEOREM LeaseWorkingIsRecorded == Spec => []WorkingIsRecorded
BY LeaseInvariant, PTL DEF LeaseInv

\* Only an acquisition counts as a grant.
LEMMA GrantsStep ==
    ASSUME [Next]_leaseVars, \A q \in Runner : ~Acquire(q)
    PROVE  grants' = grants
<1>1. CASE \E r \in Runner : Run(r)
  BY <1>1 DEF Run, LoadSession, Connect, RecordConnected, Fail, Work, EndDrain,
              Disconnect, Release
<1>2. CASE \E r \in Runner : AcquireLost(r) \/ Heartbeat(r) \/ HeartbeatError(r)
  BY <1>2 DEF AcquireLost, Heartbeat, HeartbeatError
<1>3. CASE \/ \E i \in Instance : Crash(i)
           \/ Tick \/ BackoffElapses \/ Logout \/ Reauthorize \/ Detach
           \/ UNCHANGED leaseVars
  BY <1>3 DEF Crash, Tick, BackoffElapses, Logout, Reauthorize, Detach, leaseVars
<1> QED BY <1>1, <1>2, <1>3 DEF Next

\* Only a run that passes the fencing test writes.
LEMMA WriteStep ==
    ASSUME TypeOK, [Next]_leaseVars, written' # written
    PROVE  \E q \in Runner : Holder(q) /\ written' = gen[q] /\ grants' = grants
<1> USE DEF TypeOK, Holder
<1>1. CASE \E q \in Runner : RecordConnected(q) \/ Disconnect(q)
  BY <1>1 DEF RecordConnected, Disconnect, TryPersist, Persist, Accepts
<1>2. CASE \E q \in Runner, result \in Fails : Fail(q, result)
  BY <1>2 DEF Fail, TryPersist, Persist, Accepts
<1>3. CASE \E q \in Runner : Work(q)
  BY <1>3 DEF Work
<1>4. CASE \E q \in Runner : \/ Acquire(q) \/ AcquireLost(q) \/ Heartbeat(q)
                              \/ HeartbeatError(q) \/ LoadSession(q) \/ Connect(q)
                              \/ EndDrain(q) \/ Release(q)
  BY <1>4 DEF Acquire, AcquireLost, Heartbeat, HeartbeatError, LoadSession, Connect,
              EndDrain, Release
<1>5. CASE \/ \E i \in Instance : Crash(i)
           \/ Tick \/ BackoffElapses \/ Logout \/ Reauthorize \/ Detach
           \/ UNCHANGED leaseVars
  BY <1>5 DEF Crash, Tick, BackoffElapses, Logout, Reauthorize, Detach, leaseVars
<1> QED BY <1>1, <1>2, <1>3, <1>4, <1>5 DEF Next, Run, Fails

\* A step of the lease model is a step of exclusive ownership, or a stutter.
LEMMA OwnershipStep ==
    LeaseInv /\ [Next]_leaseVars => [Ownership!Next]_(Ownership!vars)
<1> SUFFICES ASSUME LeaseInv, [Next]_leaseVars
             PROVE  Ownership!Next \/ UNCHANGED Ownership!vars
  OBVIOUS
<1> DEFINE owners == {r \in Runner : Holder(r)}
<1> USE DEF LeaseInv
<1>1. ASSUME NEW q \in Runner, Acquire(q) PROVE Ownership!Next
  <2>1. owners = {} /\ owners' = {q}
    BY <1>1, GrantStep
  <2>2. grants' = grants + 1 /\ UNCHANGED written
    BY <1>1 DEF Acquire
  <2>3. Ownership!Grant(q)
    BY <2>1, <2>2 DEF Ownership!Grant
  <2> QED BY <2>3 DEF Ownership!Next
<1>2. ASSUME \A q \in Runner : ~Acquire(q), written' # written PROVE Ownership!Next
  <2>1. PICK q \in Runner : Holder(q) /\ written' = gen[q] /\ grants' = grants
    BY <1>2, WriteStep
  <2>2. owners = {q}
    BY <2>1, OneClaimFromInFlight DEF OneClaim
  <2>3. owners' \in {{q}, {}}
    BY <1>2, <2>2, HolderStep
  <2>4. Ownership!Write(q)
    BY <2>1, <2>2, <2>3 DEF Ownership!Write, HolderIsLatestGrant
  <2> QED BY <2>4 DEF Ownership!Next
<1>3. ASSUME \A q \in Runner : ~Acquire(q), written' = written,
             NEW q \in Runner, Holder(q), ~Holder(q)'
      PROVE  Ownership!Next
  <2>1. owners # {} /\ owners' = {}
    BY <1>3, HolderStep, OneClaimFromInFlight DEF OneClaim
  <2>2. grants' = grants
    BY <1>3, GrantsStep
  <2>3. Ownership!Lapse
    BY <1>3, <2>1, <2>2 DEF Ownership!Lapse
  <2> QED BY <2>3 DEF Ownership!Next
<1>4. ASSUME \A q \in Runner : ~Acquire(q), written' = written,
             \A q \in Runner : Holder(q) => Holder(q)'
      PROVE  UNCHANGED Ownership!vars
  <2>1. owners' = owners
    BY <1>4, HolderStep
  <2>2. grants' = grants
    BY <1>4, GrantsStep
  <2> QED BY <1>4, <2>1, <2>2 DEF Ownership!vars
<1> QED BY <1>1, <1>2, <1>3, <1>4

\* The leases implement exclusive ownership in epochs: a write the database
\* accepts always comes from the run the latest epoch was granted to.
THEOREM LeaseRefinesOwnership == Spec => OwnershipSpec
<1>1. Init => Ownership!Init
  BY DEF Init, Ownership!Init, Holder
<1> QED BY <1>1, OwnershipStep, LeaseInvariant, PTL
         DEF Spec, OwnershipSpec, Ownership!Spec

-----------------------------------------------------------------------------
(* The session the lease protects: a state of its own. *)

\* What is assumed of the constants.
KeyBounds ==
    /\ FirstKey \in Key /\ None \notin Api \cup EngineRun \cup Key /\ Api \cap EngineRun = {}
    /\ Type \subseteq {"USERBOT", "JASEB_WORKER", "MONITOR"}
    /\ MaxLogins \in Nat /\ MaxUpsets \in Nat /\ Careful \in BOOLEAN

\* The state of a run's process, of the row, of a login.
Duty == [step : {"", "LOAD", "CONNECT", "RECORD", "WORK", "CLOSE"}, login : 0..MaxLogins,
         up : BOOLEAN, goal : Sessions!Verdict]
Row == [status : {"NONE", "READY", "DEGRADED", "REVOKED"}, session : Sessions!Seal,
        backoff : BOOLEAN]
Flow == [step : {"", "CODE", "COMPLETING"}, at : Api \cup {None},
         state : Sessions!Seal, session : Sessions!Seal]

\* A run that works, or is about to record more than a delay, has asked Telegram.
Asked(d) == d.step = "WORK" \/ (d.step = "RECORD" /\ d.goal # "FAILED_RETRYABLE") => d.up
AskedFirst == \A r \in EngineRun : Asked(run[r])

\* Where no process of the API seals with a key that is removed, the key each seals with is
\* configured; so is that of the row, and a login at its end is sealed by the process that
\* is at it, which is not replaced meanwhile.
SealedIsKept ==
    /\ env.active \in env.keys
    /\ Careful =>
        /\ \A p \in Api : ring[p].active \in env.keys
        /\ row.session.key \in env.keys \cup {None}
        /\ flow.step = "COMPLETING" =>
              flow.at \in Api /\ flow.session.key = ring[flow.at].active

\* A login still to be granted is counted for.
LoginIsCounted == flow.step = "CODE" => logins < MaxLogins

SessionInv == KeyBounds /\ Sessions!TypeOK /\ AskedFirst /\ SealedIsKept /\ LoginIsCounted

\* What TypeOK says of each part.
LEMMA Parts ==
    ASSUME SessionInv
    PROVE  /\ env \in Sessions!Ring /\ ring \in [Sessions!Process -> Sessions!Ring] /\ type \in Type
           /\ row \in Row /\ flow \in Flow /\ run \in [EngineRun -> Duty]
           /\ granted \subseteq Sessions!Login /\ logins \in 0..MaxLogins
           /\ holder \in EngineRun \cup {None} /\ upsets \in 0..MaxUpsets
BY DEF SessionInv, Sessions!TypeOK, Row, Flow, Duty

\* And what makes it.
LEMMA Whole ==
    ASSUME env' \in Sessions!Ring, ring' \in [Sessions!Process -> Sessions!Ring], type' \in Type,
           row' \in Row, flow' \in Flow, run' \in [EngineRun -> Duty],
           granted' \subseteq Sessions!Login, logins' \in 0..MaxLogins,
           holder' \in EngineRun \cup {None}, upsets' \in 0..MaxUpsets
    PROVE  Sessions!TypeOK'
BY DEF Sessions!TypeOK, Row, Flow, Duty, Sessions!Ring, Sessions!Process, Sessions!Seal,
   Sessions!Verdict, Sessions!Login

\* Faults are bounded.
LEMMA UpsetCounts ==
    ASSUME SessionInv, Sessions!Upset
    PROVE  upsets' \in 0..MaxUpsets
BY Parts DEF SessionInv, KeyBounds, Sessions!Upset

\* The operator: what each process seals with stays configured, if he is careful.
LEMMA OperatorKeeps ==
    ASSUME SessionInv, NEW k \in Key, Sessions!AddKey(k) \/ Sessions!Activate(k) \/ Sessions!RemoveKey(k)
    PROVE  SessionInv'
<1>0. UNCHANGED <<ring, type, row, granted, flow, logins, holder, run, upsets>>
  BY DEF Sessions!AddKey, Sessions!Activate, Sessions!RemoveKey
<1>1. env' \in Sessions!Ring /\ env'.active \in env'.keys
  BY Parts DEF SessionInv, SealedIsKept, Sessions!AddKey, Sessions!Activate, Sessions!RemoveKey,
     Sessions!Ring
<1>2. Sessions!TypeOK'
  BY <1>0, <1>1, Parts, Whole
<1>3. Careful => /\ \A p \in Api : ring[p].active \in env'.keys
                 /\ row.session.key \in env'.keys \cup {None}
  BY Parts DEF SessionInv, SealedIsKept, Sessions!AddKey, Sessions!Activate, Sessions!RemoveKey,
     Sessions!Ring
<1> QED
  BY <1>0, <1>1, <1>2, <1>3 DEF SessionInv, KeyBounds, AskedFirst, SealedIsKept, LoginIsCounted

\* A process is replaced by one that reads the environment: its active key is configured.
LEMMA DeployKeeps ==
    ASSUME SessionInv, NEW p \in Sessions!Process, Sessions!Deploy(p), flow.at # p
    PROVE  SessionInv'
<1>1. ring' \in [Sessions!Process -> Sessions!Ring] /\ ring'[p] = env
      /\ \A q \in Sessions!Process \ {p} : ring'[q] = ring[q]
  BY Parts DEF Sessions!Deploy
<1>2. Sessions!TypeOK'
  BY <1>1, Parts, Whole DEF Sessions!Deploy
<1>3. \A q \in Api : q \in Sessions!Process
  BY DEF Sessions!Process
<1>4. SealedIsKept'
  BY <1>1, <1>3 DEF SessionInv, SealedIsKept, Sessions!Deploy
<1> QED
  BY <1>2, <1>4 DEF SessionInv, KeyBounds, AskedFirst, LoginIsCounted, Sessions!Deploy

\* The value a process seals.
LEMMA SealIsTyped ==
    ASSUME SessionInv, NEW p \in Api, NEW l \in 0..MaxLogins
    PROVE  Sessions!Sealed(p, l) \in Sessions!Seal /\ Sessions!Sealed(p, l).key = ring[p].active
           /\ Sessions!NoSeal \in Sessions!Seal
<1>1. ring[p].active \in Key
  BY Parts DEF Sessions!Process, Sessions!Ring
<1> QED
  BY <1>1 DEF Sessions!Sealed, Sessions!Seal, Sessions!NoSeal, SessionInv, KeyBounds

\* The initial values.
LEMMA NothingIsTyped ==
    ASSUME SessionInv
    PROVE  Sessions!NoFlow \in Flow /\ Sessions!NoSeal \in Sessions!Seal /\ Sessions!NoRun \in Duty
BY DEF SessionInv, KeyBounds, Sessions!NoFlow, Flow, Sessions!NoSeal, Sessions!Seal, Sessions!NoRun,
   Duty, Sessions!Verdict

\* The requests of a login before its end.
LEMMA RequestKeeps ==
    ASSUME SessionInv, NEW p,
           (p \in Api /\ (Sessions!RequestCode(p) \/ Sessions!SignIn(p))) \/ Sessions!Abandon
    PROVE  SessionInv'
<1>0. UNCHANGED <<env, ring, type, row, holder, run, upsets>>
  BY DEF Sessions!RequestCode, Sessions!SignIn, Sessions!Abandon
<1>1. /\ flow' \in Flow /\ granted' \subseteq Sessions!Login /\ logins' \in 0..MaxLogins
      /\ flow'.step = "COMPLETING" => flow'.at \in Api /\ flow'.session.key = ring[flow'.at].active
      /\ flow'.step = "CODE" => logins' < MaxLogins
  <2>1. CASE p \in Api /\ Sessions!RequestCode(p)
    <3>1. Sessions!SealedState(p) \in Sessions!Seal
      BY <2>1, SealIsTyped DEF Sessions!SealedState, SessionInv, KeyBounds
    <3>2. flow' = [step |-> "CODE", at |-> None, state |-> Sessions!SealedState(p),
              session |-> Sessions!NoSeal]
      BY <2>1 DEF Sessions!RequestCode, Sessions!NoFlow
    <3> QED
      BY <2>1, <3>1, <3>2, Parts, NothingIsTyped DEF Sessions!RequestCode, Flow
  <2>2. CASE p \in Api /\ Sessions!SignIn(p)
    <3>1. CASE Sessions!StateOpens(p)
      <4>1. logins' = logins + 1 /\ granted' = granted \cup {logins'}
        BY <2>2, <3>1 DEF Sessions!SignIn
      <4>2. flow' = [step |-> "COMPLETING", at |-> p, state |-> Sessions!NoSeal,
                session |-> Sessions!SealedSession(p, logins')]
        BY <2>2, <3>1 DEF Sessions!SignIn, Sessions!NoFlow
      <4>3. logins < MaxLogins /\ logins' \in Sessions!Login
        BY <2>2, <4>1, Parts DEF SessionInv, KeyBounds, LoginIsCounted, Sessions!SignIn,
           Sessions!Login
      <4>4. logins' \in 0..MaxLogins /\ granted' \subseteq Sessions!Login
        BY <4>1, <4>3, Parts DEF Sessions!Login, SessionInv, KeyBounds
      <4>5. Sessions!SealedSession(p, logins') \in Sessions!Seal /\ Sessions!SealedSession(p,
                logins').key = ring[p].active
        BY <2>2, <4>4, SealIsTyped DEF Sessions!SealedSession
      <4>6. PICK v \in Sessions!Seal : v = Sessions!SealedSession(p, logins')
        BY <4>5
      <4>7. flow' = [step |-> "COMPLETING", at |-> p, state |-> Sessions!NoSeal, session |-> v]
        BY <4>2, <4>6
      <4>8. flow' \in Flow
        BY <2>2, <4>7, NothingIsTyped DEF Flow
      <4>9. flow'.step = "COMPLETING" /\ flow'.at = p /\ flow'.session.key = ring[p].active
        BY <2>2, <4>5, <4>6, <4>7
      <4> QED
        BY <2>2, <4>4, <4>8, <4>9
    <3>2. CASE ~Sessions!StateOpens(p)
      <4>1. flow' = Sessions!NoFlow /\ UNCHANGED <<logins, granted>>
        BY <2>2, <3>2 DEF Sessions!SignIn
      <4>2. Sessions!NoFlow \in Flow /\ Sessions!NoFlow.step = ""
        BY NothingIsTyped DEF Sessions!NoFlow
      <4> QED
        BY <4>1, <4>2, Parts
    <3> QED
      BY <3>1, <3>2
  <2>3. CASE Sessions!Abandon
    <3>1. flow' = Sessions!NoFlow /\ UNCHANGED <<logins, granted>>
      BY <2>3 DEF Sessions!Abandon
    <3>2. Sessions!NoFlow \in Flow /\ Sessions!NoFlow.step = ""
      BY NothingIsTyped DEF Sessions!NoFlow
    <3> QED
      BY <3>1, <3>2, Parts
  <2> QED
    BY <2>1, <2>2, <2>3
<1>2. Sessions!TypeOK'
  BY <1>0, <1>1, Parts, Whole
<1> QED
  BY <1>0, <1>1, <1>2 DEF SessionInv, KeyBounds, AskedFirst, SealedIsKept, LoginIsCounted

\* The end of a login: the row holds what the process at it has sealed.
LEMMA CompleteKeeps ==
    ASSUME SessionInv, Sessions!Complete
    PROVE  SessionInv'
<1>1. UNCHANGED <<env, ring, type, granted, logins, run, upsets>> /\ flow' = Sessions!NoFlow
      /\ flow.step = "COMPLETING" /\ holder' \in {holder, None}
  BY DEF Sessions!Complete
<1>2. PICK s \in Sessions!Seal : flow.session = s
  BY Parts DEF Flow
<1>3. row' = [status |-> "READY", session |-> s, backoff |-> FALSE]
  BY <1>2 DEF Sessions!Complete
<1>4. row' \in Row /\ row'.session = flow.session
  BY <1>2, <1>3 DEF Row
<1>5. Sessions!NoFlow \in Flow /\ Sessions!NoFlow.step = ""
  BY NothingIsTyped DEF Sessions!NoFlow
<1>6. Sessions!TypeOK'
  BY <1>1, <1>4, <1>5, Parts, Whole
<1>7. SealedIsKept'
  BY <1>1, <1>4, <1>5 DEF SessionInv, SealedIsKept
<1> QED
  BY <1>1, <1>5, <1>6, <1>7 DEF SessionInv, KeyBounds, AskedFirst, LoginIsCounted

\* A row that stays, or whose session is erased, seals nothing new.
LEMMA RowKeeps ==
    ASSUME SessionInv, UNCHANGED <<env, ring, type, flow, logins>>,
           row' \in Row, row'.session \in {row.session, Sessions!NoSeal},
           run' \in [EngineRun -> Duty],
           \A r \in EngineRun : Asked(run'[r]),
           granted' \subseteq Sessions!Login, holder' \in EngineRun \cup {None},
               upsets' \in 0..MaxUpsets
    PROVE  SessionInv'
<1>1. Sessions!TypeOK'
  BY Parts, Whole
<1>2. Sessions!NoSeal.key = None
  BY DEF Sessions!NoSeal
<1>3. SealedIsKept'
  BY <1>2 DEF SessionInv, SealedIsKept
<1> QED
  BY <1>1, <1>3 DEF SessionInv, KeyBounds, AskedFirst, LoginIsCounted

\* What a logout and a REVOKED make of the row.
LEMMA RevokedRow ==
    ASSUME SessionInv
    PROVE  Sessions!Revoked \in Row /\ Sessions!Revoked.session = Sessions!NoSeal
           /\ Sessions!Unleased \in EngineRun \cup {None}
<1>1. Sessions!NoSeal \in Sessions!Seal /\ row \in Row
  BY Parts, NothingIsTyped
<1>2. Sessions!Revoked \in Row /\ Sessions!Revoked.session = Sessions!NoSeal
  BY <1>1 DEF Sessions!Revoked, Row
<1> QED
  BY <1>2, Parts DEF Sessions!Unleased

\* A logout, a session ended elsewhere, a retry that becomes due.
LEMMA OutsideKeeps ==
    ASSUME SessionInv, Sessions!Logout \/ Sessions!EndElsewhere \/ Sessions!RetryIsDue
    PROVE  SessionInv'
<1>0. UNCHANGED run /\ UNCHANGED <<env, ring, type, flow, logins>>
  BY DEF Sessions!Logout, Sessions!EndElsewhere, Sessions!RetryIsDue
<1>1. \A r \in EngineRun : Asked(run'[r])
  BY <1>0 DEF SessionInv, AskedFirst
<1>2. CASE Sessions!Logout
  BY <1>0, <1>1, <1>2, Parts, RevokedRow, RowKeeps DEF Sessions!Logout
<1>3. CASE Sessions!EndElsewhere
  BY <1>0, <1>1, <1>3, Parts, UpsetCounts, RowKeeps DEF Sessions!EndElsewhere
<1>4. CASE Sessions!RetryIsDue
  <2>1. row' \in Row /\ row'.session = row.session
    BY <1>4, Parts DEF Sessions!RetryIsDue, Row
  <2> QED
    BY <1>0, <1>1, <1>4, <2>1, Parts, RowKeeps DEF Sessions!RetryIsDue
<1> QED
  BY <1>2, <1>3, <1>4

\* A step of one run.
LEMMA DutyKeeps ==
    ASSUME SessionInv, UNCHANGED <<env, ring, type, flow, logins, granted>>,
           row' \in Row, row'.session \in {row.session, Sessions!NoSeal},
           NEW r \in EngineRun, NEW d \in Duty, run' = [run EXCEPT ![r] = d],
           Asked(d),
           holder' \in EngineRun \cup {None}, upsets' \in 0..MaxUpsets
    PROVE  SessionInv'
<1>1. run' \in [EngineRun -> Duty] /\ run'[r] = d /\ \A q \in EngineRun \ {r} : run'[q] = run[q]
  BY Parts
<1>2. \A q \in EngineRun : Asked(run'[q])
  BY <1>1 DEF SessionInv, AskedFirst
<1> QED
  BY <1>1, <1>2, Parts, RowKeeps

\* What is made of an answer.
LEMMA VerdictIsTyped ==
    ASSUME NEW a \in Sessions!Answer
    PROVE  Sessions!VerdictOn(a) \in Sessions!Verdict
BY DEF Sessions!Answer, Sessions!Verdict, Sessions!VerdictOn

\* What Telegram answers.
LEMMA AnswersTyped ==
    ASSUME NEW r \in EngineRun
    PROVE  Sessions!Answers(r) \subseteq Sessions!Answer
BY DEF Sessions!Answers, Sessions!Answer

\* What an answer makes of the run: DEGRADED only by a run that has asked.
LEMMA AnswerKeeps ==
    ASSUME SessionInv, UNCHANGED <<env, ring, type, row, flow, logins, granted, holder>>,
           upsets' \in 0..MaxUpsets, NEW r \in EngineRun, NEW a \in Sessions!Answer,
           run' = [run EXCEPT ![r] = [@ EXCEPT !.step = "RECORD", !.goal = Sessions!VerdictOn(a),
               !.up = TRUE]]
    PROVE  SessionInv'
<1>1. Sessions!VerdictOn(a) \in Sessions!Verdict
  BY VerdictIsTyped
<1>2. PICK d : d = [run[r] EXCEPT !.step = "RECORD", !.goal = Sessions!VerdictOn(a), !.up = TRUE]
  OBVIOUS
<1>3. d \in Duty /\ d.up
  <2>1. run[r] \in Duty
    BY Parts
  <2> QED
    BY <1>1, <1>2, <2>1 DEF Duty
<1>4. run' = [run EXCEPT ![r] = d]
  BY <1>2
<1> QED
  BY <1>3, <1>4, Parts, DutyKeeps DEF Asked

\* A run that ends records nothing more.
LEMMA CloseIsTyped ==
    ASSUME SessionInv, NEW r \in EngineRun
    PROVE  Sessions!Close(r) \in Duty /\ Sessions!Close(r).step = "CLOSE"
<1>1. run[r] \in Duty
  BY Parts
<1> QED
  BY <1>1 DEF Sessions!Close, Duty

\* A run that begins, loads the session or drains.
LEMMA StartKeeps ==
    ASSUME SessionInv, NEW r \in EngineRun,
               Sessions!Acquire(r) \/ Sessions!Load(r) \/ Sessions!Drain(r)
    PROVE  SessionInv'
<1>0. UNCHANGED <<env, ring, type, flow, logins, granted, row, upsets>>
      /\ holder' \in EngineRun \cup {None}
  BY Parts DEF Sessions!Acquire, Sessions!Load, Sessions!Drain
<1>1. \E d \in Duty : run' = [run EXCEPT ![r] = d] /\ Asked(d)
  <2>0. run[r] \in Duty /\ row.session.login \in 0..MaxLogins
    BY Parts DEF Row, Sessions!Seal
  <2>1. CASE Sessions!Acquire(r)
    <3>1. [run[r] EXCEPT !.step = "LOAD"] \in Duty /\ [run[r] EXCEPT !.step = "LOAD"].step = "LOAD"
      BY <2>0 DEF Duty
    <3>2. run' = [run EXCEPT ![r] = [run[r] EXCEPT !.step = "LOAD"]]
      BY <2>1 DEF Sessions!Acquire
    <3> QED
      BY <3>1, <3>2 DEF Asked
  <2>2. CASE Sessions!Load(r)
    <3>1. CASE ~(Sessions!Holds(r) /\ Sessions!Runnable)
      <4>1. run' = [run EXCEPT ![r] = Sessions!Close(r)]
        BY <2>2, <3>1 DEF Sessions!Load
      <4> QED
        BY <4>1, CloseIsTyped DEF Asked
    <3>2. CASE Sessions!Holds(r) /\ Sessions!Runnable /\ Sessions!SessionOpens(r)
      <4>1. run' = [run EXCEPT ![r] = [run[r] EXCEPT !.step = "CONNECT", !.login = row.session.login]]
        BY <2>2, <3>2 DEF Sessions!Load
      <4>2. PICK d : d = [run[r] EXCEPT !.step = "CONNECT", !.login = row.session.login]
        OBVIOUS
      <4>3. d \in Duty /\ d.step = "CONNECT"
        BY <2>0, <4>2 DEF Duty
      <4> QED
        BY <4>1, <4>2, <4>3 DEF Asked
    <3>3. CASE Sessions!Holds(r) /\ Sessions!Runnable /\ ~Sessions!SessionOpens(r)
      <4>1. run' = [run EXCEPT ![r] =
              [run[r] EXCEPT !.step = "RECORD", !.login = row.session.login,
                  !.goal = Sessions!Unopened]]
        BY <2>2, <3>3 DEF Sessions!Load
      <4>2. PICK d : d = [run[r] EXCEPT !.step = "RECORD", !.login = row.session.login,
                     !.goal = Sessions!Unopened]
        OBVIOUS
      <4>3. d \in Duty /\ d.step = "RECORD" /\ d.goal = "FAILED_RETRYABLE"
        BY <2>0, <4>2 DEF Duty, Sessions!Unopened, Sessions!Verdict
      <4> QED
        BY <4>1, <4>2, <4>3 DEF Asked
    <3> QED
      BY <3>1, <3>2, <3>3
  <2>3. CASE Sessions!Drain(r)
    BY <2>3, CloseIsTyped DEF Sessions!Drain, Asked
  <2> QED
    BY <2>1, <2>2, <2>3
<1> QED
  BY <1>0, <1>1, Parts, DutyKeeps

\* Telegram answers, or does not.
LEMMA AskedKeeps ==
    ASSUME SessionInv, NEW r \in EngineRun, Sessions!Connect(r) \/ Sessions!CallFails(r)
    PROVE  SessionInv'
<1>1. UNCHANGED <<env, ring, type, row, flow, logins, granted, holder>> /\ upsets' \in 0..MaxUpsets
  BY Parts, UpsetCounts DEF Sessions!Connect, Sessions!CallFails
<1>2. \E a \in Sessions!Answer :
        run' = [run EXCEPT ![r] = [@ EXCEPT !.step = "RECORD", !.goal = Sessions!VerdictOn(a),
            !.up = TRUE]]
  BY AnswersTyped DEF Sessions!Connect, Sessions!CallFails, Sessions!Answer
<1> QED
  BY <1>1, <1>2, AnswerKeeps

\* Work meets an answer: the run has asked since it connected.
LEMMA WorkKeeps ==
    ASSUME SessionInv, NEW r \in EngineRun, Sessions!Work(r)
    PROVE  SessionInv'
<1>1. UNCHANGED <<env, ring, type, row, flow, logins, granted, holder, upsets>>
  BY DEF Sessions!Work
<1>2. run[r] \in Duty /\ run[r].up
  BY Parts DEF Sessions!Work, SessionInv, AskedFirst, Asked
<1>3. PICK a \in Sessions!Answer :
        run' = [run EXCEPT ![r] = [run[r] EXCEPT !.step = "RECORD", !.goal = Sessions!VerdictOn(a)]]
  BY AnswersTyped DEF Sessions!Work
<1>4. PICK d : d = [run[r] EXCEPT !.step = "RECORD", !.goal = Sessions!VerdictOn(a)]
  OBVIOUS
<1>5. d \in Duty /\ d.up
  BY <1>2, <1>4, VerdictIsTyped DEF Duty
<1> QED
  BY <1>1, <1>3, <1>4, <1>5, Parts, DutyKeeps DEF Asked

\* What is recorded of a row.
LEMMA RecordKeeps ==
    ASSUME SessionInv, NEW r \in EngineRun, Sessions!Record(r)
    PROVE  SessionInv'
<1>1. UNCHANGED <<env, ring, type, flow, logins, granted, upsets>>
  BY DEF Sessions!Record
<1>2. run[r] \in Duty /\ run[r].step = "RECORD" /\ run[r].goal \in Sessions!Verdict
  BY Parts DEF Sessions!Record, Duty
<1>3. row' \in Row /\ row'.session \in {row.session, Sessions!NoSeal}
      /\ holder' \in EngineRun \cup {None}
  <2>1. row' \in {row, [row EXCEPT !.backoff = FALSE], [row EXCEPT !.backoff = TRUE],
                  [row EXCEPT !.status = "DEGRADED", !.backoff = FALSE], Sessions!Revoked}
    BY <1>2 DEF Sessions!Record, Sessions!Verdict
  <2>2. row \in Row /\ [row EXCEPT !.backoff = FALSE] \in Row
        /\ [row EXCEPT !.backoff = TRUE] \in Row
        /\ [row EXCEPT !.status = "DEGRADED", !.backoff = FALSE] \in Row
    BY Parts DEF Row
  <2>3. [row EXCEPT !.backoff = FALSE].session = row.session
        /\ [row EXCEPT !.backoff = TRUE].session = row.session
        /\ [row EXCEPT !.status = "DEGRADED", !.backoff = FALSE].session = row.session
    BY Parts DEF Row
  <2>4. holder' \in {holder, Sessions!Unleased}
    BY DEF Sessions!Record
  <2> QED
    BY <2>1, <2>2, <2>3, <2>4, Parts, RevokedRow
<1>4. PICK d \in Duty : run' = [run EXCEPT ![r] = d] /\ Asked(d)
  <2>1. CASE run[r].goal = "CONNECTED"
    <3>1. run[r].up
      BY <1>2, <2>1 DEF SessionInv, AskedFirst, Asked
    <3>2. PICK d : d = [run[r] EXCEPT !.step = "WORK"]
      OBVIOUS
    <3>3. d \in Duty /\ d.up
      BY <1>2, <3>1, <3>2 DEF Duty
    <3>4. run' = [run EXCEPT ![r] = d] \/ run' = [run EXCEPT ![r] = Sessions!Close(r)]
      BY <3>2 DEF Sessions!Record
    <3> QED
      BY <3>3, <3>4, CloseIsTyped DEF Asked
  <2>2. CASE run[r].goal # "CONNECTED"
    <3>1. run' = [run EXCEPT ![r] = Sessions!Close(r)]
      BY <2>2 DEF Sessions!Record
    <3> QED
      BY <3>1, CloseIsTyped DEF Asked
  <2> QED
    BY <2>1, <2>2
<1> QED
  BY <1>1, <1>3, <1>4, Parts, DutyKeeps

\* A run ends, or its lease lapses.
LEMMA EndKeeps ==
    ASSUME SessionInv, NEW r \in EngineRun, Sessions!Disconnect(r) \/ Sessions!Lapse(r)
    PROVE  SessionInv'
<1>1. UNCHANGED <<env, ring, type, row, flow, logins, granted>>
  BY DEF Sessions!Disconnect, Sessions!Lapse
<1>2. run' = [run EXCEPT ![r] = Sessions!NoRun] \/ UNCHANGED run
  BY DEF Sessions!Disconnect, Sessions!Lapse
<1>3. holder' \in EngineRun \cup {None} /\ upsets' \in 0..MaxUpsets
  BY Parts, UpsetCounts DEF Sessions!Disconnect, Sessions!Lapse, Sessions!Release
<1>4. Asked(Sessions!NoRun) /\ Sessions!NoRun \in Duty
  BY NothingIsTyped DEF Asked, Sessions!NoRun
<1>5. CASE run' = [run EXCEPT ![r] = Sessions!NoRun]
  BY <1>1, <1>3, <1>4, <1>5, Parts, DutyKeeps
<1>6. CASE UNCHANGED run
  <2>1. \A q \in EngineRun : Asked(run'[q])
    BY <1>6 DEF SessionInv, AskedFirst
  <2> QED
    BY <1>1, <1>3, <1>6, <2>1, Parts, RowKeeps
<1> QED
  BY <1>2, <1>5, <1>6

\* The invariant holds at the start.
LEMMA SessionStarts ==
    ASSUME KeyBounds, Sessions!Init
    PROVE  SessionInv
<1>1. env \in Sessions!Ring /\ env.active = FirstKey /\ FirstKey \in env.keys
  BY DEF Sessions!Init, KeyBounds, Sessions!Ring
<1>2. Sessions!NoSeal \in Sessions!Seal /\ Sessions!NoFlow \in Flow /\ Sessions!NoRun \in Duty
  BY DEF KeyBounds, Sessions!NoFlow, Flow, Sessions!NoSeal, Sessions!Seal, Sessions!NoRun, Duty,
     Sessions!Verdict
<1>3. row \in Row /\ row.session = Sessions!NoSeal
  BY <1>2 DEF Sessions!Init, Row
<1>4. ring \in [Sessions!Process -> Sessions!Ring] /\ \A p \in Api : ring[p] = env
  BY <1>1 DEF Sessions!Init, Sessions!Process
<1>5. Sessions!TypeOK
  <2>1. run \in [EngineRun -> Duty] /\ flow \in Flow /\ type \in Type
    BY <1>2 DEF Sessions!Init
  <2>2. /\ granted \subseteq Sessions!Login /\ logins \in 0..MaxLogins
        /\ holder \in EngineRun \cup {None} /\ upsets \in 0..MaxUpsets
    BY DEF Sessions!Init, KeyBounds
  <2> QED
    BY <1>1, <1>3, <1>4, <2>1, <2>2 DEF Sessions!TypeOK, Row, Flow, Duty
<1>6. AskedFirst
  BY DEF Sessions!Init, AskedFirst, Asked, Sessions!NoRun
<1>7. SealedIsKept
  BY <1>1, <1>3, <1>4 DEF Sessions!Init, SealedIsKept, Sessions!NoFlow, Sessions!NoSeal
<1> QED
  BY <1>5, <1>6, <1>7 DEF Sessions!Init, SessionInv, LoginIsCounted, Sessions!NoFlow

\* Every step keeps the invariant.
LEMMA SessionNext ==
    ASSUME SessionInv, [Sessions!Next]_(Sessions!vars)
    PROVE  SessionInv'
<1>1. CASE \E k \in Key : Sessions!AddKey(k) \/ Sessions!Activate(k) \/ Sessions!RemoveKey(k)
  BY <1>1, OperatorKeeps
<1>2. ASSUME NEW p \in Api, Sessions!DeployApi(p)
      PROVE  SessionInv'
  BY <1>2, DeployKeeps DEF Sessions!DeployApi, Sessions!Process
<1>3. ASSUME NEW r \in EngineRun, Sessions!DeployEngine(r)
      PROVE  SessionInv'
  <2>1. CASE flow.at # r
    BY <1>3, <2>1, DeployKeeps DEF Sessions!DeployEngine, Sessions!Process
  <2>2. CASE flow.at = r
    BY <2>2, Parts DEF Flow, SessionInv, KeyBounds
  <2> QED
    BY <2>1, <2>2
<1>4. ASSUME NEW p \in Api, Sessions!RequestCode(p) \/ Sessions!SignIn(p)
      PROVE  SessionInv'
  BY <1>4, RequestKeeps
<1>5. CASE Sessions!Abandon
  BY <1>5, RequestKeeps
<1>6. CASE Sessions!Complete \/ Sessions!Logout \/ Sessions!EndElsewhere \/ Sessions!RetryIsDue
  BY <1>6, CompleteKeeps, OutsideKeeps
<1>7. ASSUME NEW r \in EngineRun,
             Sessions!Acquire(r) \/ Sessions!Step(r) \/ Sessions!CallFails(r) \/ Sessions!Lapse(r)
      PROVE  SessionInv'
  BY <1>7, StartKeeps, AskedKeeps, WorkKeeps, RecordKeeps, EndKeeps DEF Sessions!Step
<1>8. CASE UNCHANGED Sessions!vars
  BY <1>8 DEF Sessions!vars, SessionInv, KeyBounds, Sessions!TypeOK, AskedFirst, SealedIsKept,
     LoginIsCounted
<1> QED
  BY <1>1, <1>2, <1>3, <1>4, <1>5, <1>6, <1>7, <1>8 DEF Sessions!Next

\* The sealed sessions stay such that a process could open them, and every run has asked
\* Telegram before it gives an account up: the inductive invariant.
THEOREM SessionInvariant == SessionSpec => []SessionInv
<1>1. Sessions!Init => SessionInv
  BY SessionStarts, KeyAssumption, TypeAssumption, SessionAssumption DEF KeyBounds
<1>2. SessionInv /\ [Sessions!Next]_(Sessions!vars) => SessionInv'
  BY SessionNext
<1> QED
  BY <1>1, <1>2, PTL DEF SessionSpec, Sessions!Spec

\* Every part of the state of an account's session keeps its type.
THEOREM SessionTypeOK == SessionSpec => []Sessions!TypeOK
<1>1. SessionInv => Sessions!TypeOK
  BY DEF SessionInv
<1> QED
  BY <1>1, SessionInvariant, PTL

\* Only a record takes an account from READY to DEGRADED.
LEMMA OnlyRecorded ==
    ASSUME SessionInv, [Sessions!Next]_(Sessions!vars), row.status = "READY", row'.status = "DEGRADED"
    PROVE  \E r \in EngineRun : run[r].up /\ run[r].step = "RECORD"
<1>0. row \in Row
  BY Parts
<1>1. CASE \E r \in EngineRun : Sessions!Record(r)
  <2>1. PICK r \in EngineRun : Sessions!Record(r)
    BY <1>1
  <2>2. run[r].step = "RECORD" /\ run[r].goal \in Sessions!Verdict
    BY <2>1, Parts DEF Sessions!Record, Duty
  <2>3. run[r].goal # "FAILED_RETRYABLE"
    <3>1. SUFFICES ASSUME run[r].goal = "FAILED_RETRYABLE"
                   PROVE  FALSE
      OBVIOUS
    <3>2. row' = row \/ row' = [row EXCEPT !.backoff = TRUE]
      BY <2>1, <3>1 DEF Sessions!Record
    <3>3. row'.status = row.status
      BY <1>0, <3>2 DEF Row
    <3> QED
      BY <3>3
  <2> QED
    BY <2>2, <2>3 DEF SessionInv, AskedFirst, Asked
<1>2. CASE \A r \in EngineRun : ~Sessions!Record(r)
  <2>1. row' = row \/ Sessions!Complete \/ Sessions!Logout \/ Sessions!RetryIsDue
    BY <1>2 DEF Sessions!Next, Sessions!vars, Sessions!Step, Sessions!AddKey, Sessions!Activate,
       Sessions!RemoveKey, Sessions!DeployApi, Sessions!DeployEngine, Sessions!Deploy,
       Sessions!RequestCode, Sessions!SignIn, Sessions!Abandon, Sessions!EndElsewhere,
       Sessions!Acquire, Sessions!Load, Sessions!Connect, Sessions!Work, Sessions!Drain,
       Sessions!Disconnect, Sessions!CallFails, Sessions!Lapse
  <2>2. CASE Sessions!RetryIsDue
    <3>1. row'.status = row.status
      BY <1>0, <2>2 DEF Sessions!RetryIsDue, Row
    <3> QED
      BY <3>1
  <2>3. CASE Sessions!Logout
    <3>1. row'.status = "REVOKED"
      BY <1>0, <2>3 DEF Sessions!Logout, Sessions!Revoked, Row
    <3> QED
      BY <3>1
  <2>4. CASE Sessions!Complete
    BY <2>4 DEF Sessions!Complete
  <2> QED
    BY <2>1, <2>2, <2>3, <2>4
<1> QED
  BY <1>1, <1>2

\* A rotation only delays an account: no account is given up before Telegram was asked.
THEOREM SessionKeysOnlyDelay == SessionSpec => KeysOnlyDelay
<1>1. SessionInv /\ [Sessions!Next]_(Sessions!vars) =>
        [row.status = "READY" /\ row'.status = "DEGRADED" =>
            \E r \in EngineRun : run[r].up /\ run[r].step = "RECORD"]_(Sessions!vars)
  BY OnlyRecorded
<1> QED
  BY <1>1, SessionInvariant, PTL DEF SessionSpec, Sessions!Spec, KeysOnlyDelay, Sessions!KeysOnlyDelay

\* "Never remove an old version while database rows still reference it" is refuted; with the
\* rule that no process of the API may still seal with it either, the key of the stored
\* session stays configured.
THEOREM SessionStoredKeyIsKept ==
    ASSUME Careful = TRUE
    PROVE  SessionSpec => []Sessions!StoredKeyIsKept
<1>1. SessionInv => Sessions!StoredKeyIsKept
  BY DEF SessionInv, SealedIsKept, Sessions!StoredKeyIsKept
<1> QED
  BY <1>1, SessionInvariant, PTL
=============================================================================
