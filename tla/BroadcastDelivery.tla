-------------------------- MODULE BroadcastDelivery --------------------------
(***************************************************************************)
(* The delivery half of Jasa Sebar: the targets of an account's broadcast  *)
(* operations are claimed, validated, sent to Telegram and finished by the *)
(* runs of AccountLease, while users cancel, accounts become unavailable,  *)
(* entitlements lapse, runs lose their lease and engine processes die.     *)
(*                                                                         *)
(* One Telegram account; its targets have been prepared (READY).  Every    *)
(* database function is one atomic step; a run keeps what it was told      *)
(* (cur, out) across the awaits in between, when it may be stale.  Since   *)
(* an instance has at most one run of the account (proved of               *)
(* AccountLease), the run is named by its instance.  A process that dies   *)
(* is started again under a new identifier: the rows that bear the old     *)
(* one are nobody's from then on.                                          *)
(***************************************************************************)
EXTENDS Integers

CONSTANTS Instance,     \* engine processes
          Target,       \* rows of broadcast_targets
          Operation,    \* rows of workflow_operations (BROADCAST)
          OpOf,         \* OpOf[t]: the operation of target t
          NoInstance,   \* a null lease owner, or one that is no more
          NoTarget,     \* a run holds no target
          MaxAttempts,  \* executor policy maxTransientAttempts
          Interval,     \* interval_seconds, in ticks
          MaxFlood,     \* bound: the longest flood wait, in ticks
          MaxToken      \* bound: fencing tokens told apart

ASSUME OpOfAssumption ==   \* no operation is created without targets
    /\ OpOf \in [Target -> Operation]
    /\ \A o \in Operation : \E t \in Target : OpOf[t] = o
ASSUME NullAssumption == NoInstance \notin Instance /\ NoTarget \notin Target
ASSUME BoundAssumption ==
    /\ MaxAttempts \in Nat \ {0} /\ Interval \in Nat
    /\ MaxFlood \in Nat \ {0} /\ MaxToken \in Nat

VARIABLES lease,      \* [owner, token, live]: the account's row of account_leases
          ready,      \* telegram_accounts.status = 'READY'
          entitled,   \* the user's entitlement, and his profile or worker
                      \* assignment, are active and have not expired
          gate,       \* broadcast_next_eligible_at - now()
          delivery,   \* delivery_status of each target
          attempts,   \* delivery_attempt_count, not told apart above MaxAttempts
          claim,      \* [owner, token, live]: delivery_lease_* of each target
          cancelled,  \* cancel_requested_at is set
          waiting,    \* next_eligible_at is in the future
          status,     \* status of each operation
          pc,         \* where each instance's run is
          tok,        \* its fencing token
          cur,        \* the target it claimed
          out,        \* the outcome it is about to persist
          delivered,  \* history: messages Telegram has posted for each target
          quiet,      \* history: ticks since a success was last recorded
          since       \* history: ticks since Telegram last posted a message

accountVars == <<lease, ready, entitled, gate>>
targetVars == <<delivery, attempts, claim, cancelled, waiting, status>>
runVars == <<pc, tok, cur, out>>
history == <<delivered, quiet, since>>
vars == <<accountVars, targetVars, runVars, history>>

Open == {"PENDING", "FAILED_RETRYABLE"}
Terminal == {"SUCCEEDED", "FAILED_FINAL", "CANCELLED", "SIDE_EFFECT_UNCERTAIN"}
DeliveryStatus == Open \cup {"SENDING"} \cup Terminal
OperationStatus == {"READY", "SENDING", "FAILED_RETRYABLE"} \cup Terminal
Outcome == {"SUCCEEDED", "RETRY", "FLOOD_WAIT", "FAILED_FINAL", "SIDE_EFFECT_UNCERTAIN"}
Busy == {"CLAIMED", "AUTHORIZED", "ANSWERED"}
PC == Busy \cup {"OFF", "LOOP", "CLOSING"}
Lease == [owner: Instance \cup {NoInstance}, token: Nat, live: BOOLEAN]

\* Each part of the state has its type.
TypeOK ==
    /\ lease \in Lease /\ ready \in BOOLEAN /\ entitled \in BOOLEAN
    /\ gate \in Nat
    /\ delivery \in [Target -> DeliveryStatus]
    /\ attempts \in [Target -> 0..MaxAttempts]
    /\ claim \in [Target -> Lease]
    /\ cancelled \in [Target -> BOOLEAN] /\ waiting \in [Target -> BOOLEAN]
    /\ status \in [Operation -> OperationStatus]
    /\ pc \in [Instance -> PC] /\ tok \in [Instance -> Nat]
    /\ cur \in [Instance -> Target \cup {NoTarget}]
    /\ out \in [Instance -> Outcome \cup {"NONE"}]
    /\ delivered \in [Target -> Nat]
    /\ quiet \in 0..Interval /\ since \in 0..Interval

Nobody == [owner |-> NoInstance, token |-> 0, live |-> FALSE]

Init ==
    /\ lease = Nobody /\ ready = TRUE /\ entitled = TRUE /\ gate = 0
    /\ delivery = [t \in Target |-> "PENDING"]
    /\ attempts = [t \in Target |-> 0]
    /\ claim = [t \in Target |-> Nobody]
    /\ cancelled = [t \in Target |-> FALSE]
    /\ waiting = [t \in Target |-> FALSE]
    /\ status = [o \in Operation |-> "READY"]
    /\ pc = [i \in Instance |-> "OFF"]
    /\ tok = [i \in Instance |-> 0]
    /\ cur = [i \in Instance |-> NoTarget]
    /\ out = [i \in Instance |-> "NONE"]
    /\ delivered = [t \in Target |-> 0]
    /\ quiet = Interval /\ since = Interval

-----------------------------------------------------------------------------
(* The status of an operation summarises its targets.                      *)

Has(o, d, s) == \E t \in Target : OpOf[t] = o /\ d[t] = s

\* The part of the summary both writers agree on; `done' when nothing is left.
LiveOr(o, d, done) ==
    IF Has(o, d, "SIDE_EFFECT_UNCERTAIN") THEN "SIDE_EFFECT_UNCERTAIN"
    ELSE IF Has(o, d, "SENDING") THEN "SENDING"
    ELSE IF Has(o, d, "FAILED_RETRYABLE") THEN "FAILED_RETRYABLE"
    ELSE IF Has(o, d, "PENDING") THEN "READY"
    ELSE done

\* finish_broadcast_command: a success outranks a cancellation.
FinishSummary(o, d) ==
    LiveOr(o, d, IF Has(o, d, "FAILED_FINAL") THEN "FAILED_FINAL"
                 ELSE IF Has(o, d, "SUCCEEDED") THEN "SUCCEEDED" ELSE "CANCELLED")

\* recompute_broadcast_operation: a cancellation outranks a success.
RecomputeSummary(o, d) ==
    LiveOr(o, d, IF Has(o, d, "FAILED_FINAL") THEN "FAILED_FINAL"
                 ELSE IF Has(o, d, "CANCELLED") THEN "CANCELLED"
                 ELSE IF Has(o, d, "SUCCEEDED") THEN "SUCCEEDED" ELSE "CANCELLED")

-----------------------------------------------------------------------------
(* Leases and claims. *)

\* The test every fenced function repeats: exact owner, exact token, unexpired.
Holds(i) == lease.owner = i /\ lease.token = tok[i] /\ lease.live

\* The target is SENDING under a claim with exactly this run's identity.
Mine(t, i) ==
    delivery[t] = "SENDING" /\ claim[t].owner = i /\ claim[t].token = tok[i]

\* Mutation: a process recovers the claims of its own runs only.
StaleIfOwn(t, i) ==
    delivery[t] = "SENDING" /\ claim[t].owner = i /\ ~(Mine(t, i) /\ claim[t].live)

\* A claim whose command lease ran out, or made under another account lease.
Stale(t, i) == delivery[t] = "SENDING" /\ ~(Mine(t, i) /\ claim[t].live)

\* Mutation: what a lost run was sending is offered again.
RetriedDelivery(i) ==
    [t \in Target |-> IF Stale(t, i) THEN "PENDING" ELSE delivery[t]]

\* Every claim first gives up on the stale ones: nobody knows whether Telegram
\* posted the message, so the target is never offered again.
RecoveredDelivery(i) ==
    [t \in Target |-> IF Stale(t, i) THEN "SIDE_EFFECT_UNCERTAIN" ELSE delivery[t]]

\* Mutation: recovery leaves the operations alone.
UnrecoveredStatus(i) == status

RecoveredStatus(i) ==
    [o \in Operation |->
        IF status[o] \notin Terminal
           /\ Has(o, RecoveredDelivery(i), "SIDE_EFFECT_UNCERTAIN")
        THEN "SIDE_EFFECT_UNCERTAIN" ELSE status[o]]

\* broadcast_runtime_eligible_operations and the conditions of the claim.
Eligible(t, d, s) ==
    /\ ready /\ entitled /\ gate = 0
    /\ s[OpOf[t]] \notin Terminal
    /\ d[t] \in Open /\ ~cancelled[t] /\ ~waiting[t]

\* The token of a new grant.  acquire_account_lease counts up, and starts over once a logout
\* deleted the row (AccountLease); as tokens are only compared for equality, the least one
\* that no row and no run remembers stands for the next.
Remembered ==
    {lease.token} \cup {tok[i] : i \in Instance} \cup {claim[t].token : t \in Target}
IsNextToken(n) ==
    IF lease.token = 0 THEN n = 1
    ELSE n \notin Remembered /\ \A m \in 1..MaxToken \ Remembered : n <= m

Goto(i, l) == pc' = [pc EXCEPT ![i] = l]

\* The run of i is at l and has let go of its target.
LetGo(i, l) ==
    /\ Goto(i, l)
    /\ cur' = [cur EXCEPT ![i] = NoTarget]
    /\ out' = [out EXCEPT ![i] = "NONE"]

-----------------------------------------------------------------------------
(* One run. *)

\* Lease, session and connection (the steps of AccountLease), up to the drain.
StartRun(i) ==
    /\ pc[i] = "OFF" /\ ready
    /\ \E token \in 1..MaxToken :
          /\ \/ lease.owner = i /\ lease.live /\ token = lease.token
             \/ ~lease.live /\ IsNextToken(token)
          /\ lease' = [owner |-> i, token |-> token, live |-> TRUE]
          /\ tok' = [tok EXCEPT ![i] = token]
    /\ Goto(i, "LOOP")
    /\ UNCHANGED <<ready, entitled, gate, targetVars, cur, out, history>>

\* A claim by a run that lost its lease is refused, and that ends the run.
ClaimRefused(i) ==
    /\ pc[i] = "LOOP" /\ ~Holds(i)
    /\ Goto(i, "CLOSING")
    /\ UNCHANGED <<accountVars, targetVars, tok, cur, out, history>>

\* Nothing to send: the run idles on, or is over.
ClaimNothing(i) ==
    /\ pc[i] = "LOOP" /\ Holds(i)
    /\ delivery' = RecoveredDelivery(i)
    /\ status' = RecoveredStatus(i)
    /\ claim' = [t \in Target |-> IF Stale(t, i) THEN Nobody ELSE claim[t]]
    /\ Goto(i, "LOOP") \/ Goto(i, "CLOSING")
    /\ UNCHANGED <<accountVars, attempts, cancelled, waiting, tok, cur, out, history>>

\* A target is claimed; when the answer is lost the run ends without knowing.
\* Among the eligible ones any may be next: the first may be locked and skipped.
ClaimNext(i, t) ==
    /\ pc[i] = "LOOP" /\ Holds(i)
    /\ Eligible(t, RecoveredDelivery(i), RecoveredStatus(i))
    /\ delivery' = [RecoveredDelivery(i) EXCEPT ![t] = "SENDING"]
    /\ status' = [RecoveredStatus(i) EXCEPT ![OpOf[t]] = "SENDING"]
    /\ claim' = [u \in Target |->
          IF u = t THEN [owner |-> i, token |-> tok[i], live |-> TRUE]
          ELSE IF Stale(u, i) THEN Nobody ELSE claim[u]]
    /\ attempts' = [attempts EXCEPT ![t] = IF @ < MaxAttempts THEN @ + 1 ELSE @]
    /\ \/ Goto(i, "CLAIMED") /\ cur' = [cur EXCEPT ![i] = t]
       \/ Goto(i, "CLOSING") /\ UNCHANGED cur
    /\ UNCHANGED <<accountVars, cancelled, waiting, tok, out, history>>

\* A payload that does not parse is finished without being sent.
RejectPayload(i) ==
    /\ pc[i] = "CLAIMED"
    /\ Goto(i, "ANSWERED")
    /\ out' = [out EXCEPT ![i] = "FAILED_FINAL"]
    /\ UNCHANGED <<accountVars, targetVars, tok, cur, history>>

Executable(t) == ready /\ entitled /\ ~cancelled[t]

\* validate_broadcast_execution, the last look before the side effect.
Authorize(i) ==
    /\ pc[i] = "CLAIMED" /\ Mine(cur[i], i) /\ Holds(i) /\ Executable(cur[i])
    /\ Goto(i, "AUTHORIZED")
    /\ UNCHANGED <<accountVars, targetVars, tok, cur, out, history>>

FencedOut(i) ==
    /\ pc[i] = "CLAIMED" /\ ~(Mine(cur[i], i) /\ Holds(i))
    /\ LetGo(i, "CLOSING")
    /\ UNCHANGED <<accountVars, targetVars, tok, history>>

Unauthorized(i) ==
    /\ pc[i] = "CLAIMED" /\ Mine(cur[i], i) /\ Holds(i) /\ ~Executable(cur[i])
    /\ delivery' = [delivery EXCEPT ![cur[i]] = "CANCELLED"]
    /\ claim' = [claim EXCEPT ![cur[i]] = Nobody]
    /\ cancelled' = [cancelled EXCEPT ![cur[i]] = TRUE]
    /\ status' = [status EXCEPT ![OpOf[cur[i]]] = RecomputeSummary(OpOf[cur[i]], delivery')]
    /\ LetGo(i, "LOOP") \/ LetGo(i, "CLOSING")
    /\ UNCHANGED <<accountVars, attempts, waiting, tok, history>>

\* The validation never answers: the run ends, its target stays SENDING.
ValidateError(i) ==
    /\ pc[i] = "CLAIMED"
    /\ LetGo(i, "CLOSING")
    /\ UNCHANGED <<accountVars, targetVars, tok, history>>

\* mapTeleprotoError: the failures Telegram may answer with, given whether it
\* posted the message.  A timeout leaves that open.
Failures(posted) ==
    IF posted THEN {"UNKNOWN"} ELSE {"UNKNOWN", "FLOOD_WAIT", "TRANSIENT", "FINAL"}

\* The catch block of executeNextBroadcast: what the run makes of a failure.
Conclude(t, failure) ==
    CASE failure = "UNKNOWN" -> "SIDE_EFFECT_UNCERTAIN"
      [] failure = "FLOOD_WAIT" -> "FLOOD_WAIT"
      [] failure = "TRANSIENT" /\ attempts[t] < MaxAttempts -> "RETRY"
      [] OTHER -> "FAILED_FINAL"

Answers(t, posted) ==
    {Conclude(t, failure) : failure \in Failures(posted)}
        \cup IF posted THEN {"SUCCEEDED"} ELSE {}

\* sendText or forwardNative, which looks its source up first.
Send(i) ==
    /\ pc[i] = "AUTHORIZED"
    /\ \E posted \in BOOLEAN :
          /\ \E answer \in Answers(cur[i], posted) : out' = [out EXCEPT ![i] = answer]
          /\ delivered' = [delivered EXCEPT ![cur[i]] = IF posted THEN @ + 1 ELSE @]
          /\ since' = IF posted THEN 0 ELSE since
    /\ Goto(i, "ANSWERED")
    /\ UNCHANGED <<accountVars, targetVars, tok, cur, quiet>>

\* Mutation: the answer is stored as it came.
FinishStatusRaw(answer) == answer

FinishStatus(answer) ==
    IF answer \in {"RETRY", "FLOOD_WAIT"} THEN "FAILED_RETRYABLE" ELSE answer

\* Mutation: the finish only asks whether the run holds the account.
AppliesToAny(i) == Holds(i)

Applies(i) == Mine(cur[i], i) /\ Holds(i)

\* Mutation: a success does not move the account's next send.
GatedByFlood(answer) == IF answer = "FLOOD_WAIT" THEN 1..MaxFlood ELSE {gate}

\* broadcast_next_eligible_at after a finish; the flood wait is Telegram's choice.
GatedBy(answer) ==
    CASE answer = "SUCCEEDED" -> {Interval}
      [] answer = "FLOOD_WAIT" -> 1..MaxFlood
      [] OTHER -> {gate}

\* finish_broadcast_command, when it finds its row.
ApplyFinish(i) ==
    /\ delivery' = [delivery EXCEPT ![cur[i]] = FinishStatus(out[i])]
    /\ claim' = [claim EXCEPT ![cur[i]] = Nobody]
    /\ waiting' = [waiting EXCEPT ![cur[i]] = out[i] \in {"RETRY", "FLOOD_WAIT"}]
    /\ gate' \in GatedBy(out[i])
    /\ quiet' = IF out[i] = "SUCCEEDED" THEN 0 ELSE quiet
    /\ status' = [status EXCEPT ![OpOf[cur[i]]] = FinishSummary(OpOf[cur[i]], delivery')]
    /\ UNCHANGED <<lease, ready, entitled, attempts, cancelled, delivered, since>>

\* The run learns whether its outcome was recorded; "false" fences it out.
\* Only a success or a final failure lets the drain loop go on.
Finish(i) ==
    /\ pc[i] = "ANSWERED"
    /\ \/ /\ Applies(i)
          /\ ApplyFinish(i)
          /\ \/ LetGo(i, "CLOSING")
             \/ out[i] \in {"SUCCEEDED", "FAILED_FINAL"} /\ LetGo(i, "LOOP")
       \/ /\ ~Applies(i)
          /\ LetGo(i, "CLOSING")
          /\ UNCHANGED <<accountVars, targetVars, history>>
    /\ UNCHANGED tok

\* The answer of the finish is lost, applied or not.  A success is then finished
\* a second time, as uncertain; any other outcome ends the run.
FinishLost(i) ==
    /\ pc[i] = "ANSWERED"
    /\ \/ Applies(i) /\ ApplyFinish(i)
       \/ UNCHANGED <<accountVars, targetVars, history>>
    /\ IF out[i] = "SUCCEEDED"
         THEN out' = [out EXCEPT ![i] = "SIDE_EFFECT_UNCERTAIN"] /\ UNCHANGED <<pc, cur>>
         ELSE LetGo(i, "CLOSING")
    /\ UNCHANGED tok

\* leaseLost between two commands: a heartbeat was refused or failed.
EndRun(i) ==
    /\ pc[i] = "LOOP"
    /\ Goto(i, "CLOSING")
    /\ UNCHANGED <<accountVars, targetVars, tok, cur, out, history>>

\* The lease is released if it is still this run's, or the release is lost.
Release(i) ==
    /\ pc[i] = "CLOSING"
    /\ Goto(i, "OFF")
    /\ (Holds(i) /\ lease' = [lease EXCEPT !.live = FALSE]) \/ UNCHANGED lease
    /\ tok' = [tok EXCEPT ![i] = 0]
    /\ UNCHANGED <<ready, entitled, gate, targetVars, cur, out, history>>

Claim(i) == ClaimNothing(i) \/ \E t \in Target : ClaimNext(i, t)

Execute(i) ==
    \/ RejectPayload(i) \/ Authorize(i) \/ FencedOut(i) \/ Unauthorized(i)
    \/ Send(i)
    \/ Finish(i)

Run(i) == StartRun(i) \/ ClaimRefused(i) \/ Claim(i) \/ Execute(i) \/ Release(i)

-----------------------------------------------------------------------------
(* The users, the other functions of the database, failures and time. *)

\* request_broadcast_target_cancellation for every target of T: an open target
\* is CANCELLED, one that is SENDING keeps its state and carries the request.
RequestCancellation(T) ==
    /\ delivery' = [t \in Target |->
          IF t \in T /\ delivery[t] \in Open THEN "CANCELLED" ELSE delivery[t]]
    /\ cancelled' = [t \in Target |->
          cancelled[t] \/ (t \in T /\ delivery[t] \notin Terminal)]

\* cancel_broadcast_operation for every operation of O.
CancelOperations(O) ==
    /\ RequestCancellation({t \in Target : OpOf[t] \in O})
    /\ status' = [o \in Operation |->
          IF o \in O THEN RecomputeSummary(o, delivery') ELSE status[o]]
    /\ UNCHANGED <<attempts, claim, waiting, runVars, history>>

Live(o) == status[o] \notin Terminal

\* The user cancels an operation, in whatever state it is.
CancelOperation(o) == CancelOperations({o}) /\ UNCHANGED accountVars

\* The campaign is stopped, the service or the worker disabled, the material
\* removed: every live operation is cancelled.
StopService ==
    CancelOperations({o \in Operation : Live(o)}) /\ UNCHANGED accountVars

\* The configured target is removed or changed.
ChangeTarget(t) ==
    /\ delivery[t] \notin Terminal
    /\ RequestCancellation({t})
    /\ status' = [status EXCEPT ![OpOf[t]] = RecomputeSummary(OpOf[t], delivery')]
    /\ UNCHANGED <<accountVars, attempts, claim, waiting, runVars, history>>

\* The account leaves READY: every live operation is cancelled, and a logout
\* also deletes the lease row, which starts the tokens over.
AccountUnavailable ==
    /\ ready
    /\ ready' = FALSE
    /\ lease' \in {lease, Nobody}
    /\ CancelOperations({o \in Operation : Live(o)})
    /\ UNCHANGED <<entitled, gate>>

AccountReady ==
    /\ ~ready
    /\ ready' = TRUE
    /\ UNCHANGED <<lease, entitled, gate, targetVars, runVars, history>>

\* expires_at is reached; nothing is written.
EntitlementExpires ==
    /\ entitled
    /\ entitled' = FALSE
    /\ UNCHANGED <<lease, ready, gate, targetVars, runVars, history>>

\* The profile is disconnected or the worker assignment released.
Disconnect ==
    /\ entitled
    /\ entitled' = FALSE
    /\ CancelOperations({o \in Operation : Live(o)})
    /\ UNCHANGED <<lease, ready, gate>>

\* deactivate_lapsed_user_operations: the profile or the assignment goes with
\* its triggers, unless it is gone already, then every open target is cancelled
\* and with it each operation that has nothing left on its way.
DeactivateLapsed(released) ==
    /\ ~entitled
    /\ delivery' = [t \in Target |-> IF delivery[t] \in Open THEN "CANCELLED" ELSE delivery[t]]
    /\ cancelled' = [t \in Target |-> cancelled[t] \/
          (released /\ Live(OpOf[t]) /\ delivery[t] \notin Terminal)]
    /\ status' = [o \in Operation |->
          IF Live(o) /\ released THEN RecomputeSummary(o, delivery')
          ELSE IF Live(o) /\ ~Has(o, delivery', "SENDING") THEN "CANCELLED"
          ELSE status[o]]
    /\ UNCHANGED <<accountVars, attempts, claim, waiting, runVars, history>>

Renew ==
    /\ ~entitled
    /\ entitled' = TRUE
    /\ UNCHANGED <<lease, ready, gate, targetVars, runVars, history>>

\* An engine process dies, at any point, and is started again under a new identifier: the
\* lease that bears the old one is nobody's until it runs out, and so are the claims.
Crash(i) ==
    /\ LetGo(i, "OFF")
    /\ tok' = [tok EXCEPT ![i] = 0]
    /\ lease' = IF lease.owner = i THEN [lease EXCEPT !.owner = NoInstance] ELSE lease
    /\ claim' = [t \in Target |-> IF claim[t].owner = i THEN Nobody ELSE claim[t]]
    /\ UNCHANGED <<ready, entitled, gate, delivery, attempts, cancelled, waiting, status, history>>

\* The account lease runs out (its holder stalls) or is expired by a detach.
Lapse ==
    /\ lease.live
    /\ lease' = [lease EXCEPT !.live = FALSE]
    /\ UNCHANGED <<ready, entitled, gate, targetVars, runVars, history>>

Unrenewed == \A i \in Instance : ~Holds(i)

\* The command lease of a target runs out.
CommandLeaseExpires(t) ==
    /\ delivery[t] = "SENDING" /\ claim[t].live
    /\ claim' = [claim EXCEPT ![t].live = FALSE]
    /\ UNCHANGED <<accountVars, delivery, attempts, cancelled, waiting, status,
                   runVars, history>>

\* next_eligible_at of a target is reached.
WaitElapses(t) ==
    /\ waiting[t]
    /\ waiting' = [waiting EXCEPT ![t] = FALSE]
    /\ UNCHANGED <<accountVars, delivery, attempts, claim, cancelled, status,
                   runVars, history>>

\* One tick of the clock behind the interval.
Tick ==
    /\ gate > 0 \/ quiet < Interval \/ since < Interval
    /\ gate' = IF gate > 0 THEN gate - 1 ELSE 0
    /\ quiet' = IF quiet < Interval THEN quiet + 1 ELSE Interval
    /\ since' = IF since < Interval THEN since + 1 ELSE Interval
    /\ UNCHANGED <<lease, ready, entitled, targetVars, runVars, delivered>>

Next ==
    \/ \E i \in Instance :
          Run(i) \/ ValidateError(i) \/ FinishLost(i) \/ EndRun(i) \/ Crash(i)
    \/ \E o \in Operation : CancelOperation(o)
    \/ \E t \in Target : ChangeTarget(t) \/ CommandLeaseExpires(t) \/ WaitElapses(t)
    \/ \E released \in BOOLEAN : DeactivateLapsed(released)
    \/ StopService \/ AccountUnavailable \/ AccountReady
    \/ EntitlementExpires \/ Disconnect \/ Renew
    \/ Lapse \/ Tick

Spec == Init /\ [][Next]_vars

\* A run takes its next step, a process that died is started again, and not every
\* run is fenced, cut off or killed before it claims; leases nobody renews and
\* command leases run out.
Fairness ==
    /\ \A i \in Instance : WF_vars(Run(i)) /\ SF_vars(Claim(i))
    /\ WF_vars(Lapse /\ Unrenewed)
    /\ \A t \in Target : WF_vars(CommandLeaseExpires(t))

FairSpec == Spec /\ Fairness

-----------------------------------------------------------------------------
(* Properties. *)

\* What a target's status says of Telegram is true, whatever runs were lost or
\* fenced on the way: an open, cancelled or failed target was never posted, a
\* SUCCEEDED one exactly once, and no target ever twice.
StatusTellsTruth ==
    \A t \in Target :
        /\ delivered[t] <= 1
        /\ delivery[t] \in Open \cup {"CANCELLED", "FAILED_FINAL"} => delivered[t] = 0
        /\ delivery[t] = "SUCCEEDED" => delivered[t] = 1

\* s is a status the operation o may show when its targets are as in d.
Summarises(o, d, s) ==
    IF LiveOr(o, d, "DONE") = "DONE"
    THEN s \in {"SUCCEEDED", "FAILED_FINAL", "CANCELLED"}
    ELSE s = LiveOr(o, d, "DONE")

\* The status of an operation, cached by eight writers, summarises its targets:
\* while one is uncertain, on its way or open it says exactly so, and it is over
\* only when they all are.
StatusSummarises == \A o \in Operation : Summarises(o, delivery, status[o])

\* A run that holds the account and is about to send does so at least Interval
\* after the last success recorded for the account, by whichever run.
SendsArePaced ==
    \A i \in Instance :
        pc[i] \in {"CLAIMED", "AUTHORIZED"} /\ Holds(i) => quiet = Interval

\* A target's terminal status never changes: neither a late finish, nor a
\* recovery, nor a cancellation rewrites it.
TerminalIsFinal ==
    [][\A t \in Target : delivery[t] \in Terminal => delivery'[t] = delivery[t]]_vars

\* A target being sent does not stay SENDING for ever, whoever crashes: the process that
\* is started again recovers it, however often it dies, unless the account is unavailable.
SendingIsResolved ==
    \A t \in Target : delivery[t] = "SENDING" ~> delivery[t] # "SENDING" \/ ~ready

\* 20260910160000_automation_lifecycle_guards.sql:690: the account-wide time of
\* the next send preserves the configured interval between posts.
IntervalKept ==
    [][\A t \in Target : delivered'[t] > delivered[t] => since = Interval]_vars

\* EVIDENCE_LEDGER.md:376: the targets of an operation are independent: one that
\* fails leaves no other behind, never to be offered again.
NoTargetStranded ==
    \A t \in Target : delivery[t] \in Open => Live(OpOf[t])

\* 20260910160000_automation_lifecycle_guards.sql:224: a stop cancels every
\* target that was not sent: a cancelled target is settled in the end, whether
\* or not the entitlement runs out and its cleanup sweeps it up.
CancelSettles ==
    \A t \in Target :
        cancelled[t] ~> delivery[t] \in Terminal \/ ~ready \/ ~entitled

\* FOUNDATION_SPEC.md:120: invalid transitions are refused: an operation that is
\* over stays what it is.
OperationIsFinal ==
    [][\A o \in Operation : ~Live(o) => status'[o] = status[o]]_vars
=============================================================================
