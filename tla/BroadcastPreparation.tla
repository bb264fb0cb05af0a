------------------------ MODULE BroadcastPreparation ------------------------
(***************************************************************************)
(* The preparation half of Jasa Sebar: before anything is sent to a target *)
(* the account must be a member of its group.  A run resolves the target,  *)
(* joins it or asks to join, waits for the group's approval and rechecks   *)
(* with a growing delay; only then is the target READY to be delivered.    *)
(*                                                                         *)
(* One Telegram account and one operation with the rows of Target.  Every  *)
(* database function is one atomic step; a run keeps what it was told      *)
(* (cur, prev, goal) across the awaits in between.  What happens between   *)
(* the claim of a delivery and its outcome is BroadcastDelivery; here it   *)
(* is only kept because it writes the same target and operation rows.      *)
(***************************************************************************)
EXTENDS Integers

CONSTANTS Instance,     \* engine processes
          Target,       \* the operation's rows of broadcast_targets
          NoInstance,   \* a null lease owner, or one that is no more
          NoTarget,     \* a run holds no target
          MaxChecks,    \* APPROVAL_RECHECK_MAX_ATTEMPTS
          MaxToken      \* bound: fencing tokens told apart

ASSUME TargetAssumption == Target # {}   \* BROADCAST_TARGETS_REQUIRED
ASSUME NullAssumption == NoInstance \notin Instance /\ NoTarget \notin Target
ASSUME BoundAssumption == MaxChecks \in Nat \ {0} /\ MaxToken \in Nat

VARIABLES lease,      \* [owner, token, live]: the account's row of account_leases
          grant,      \* why the operation may run, or may not any more
          prep,       \* preparation_status of each target
          due,        \* preparation_available_at has come
          asked,      \* preparation_approval_requested_at is set
          tries,      \* preparation_attempt_count, not told apart above MaxChecks
          claim,      \* [owner, token]: preparation_lease_*, then delivery_lease_*
          delivery,   \* delivery_status of each target
          cancelled,  \* cancel_requested_at is set
          status,     \* status of the operation
          pc,         \* where each instance's run is
          tok,        \* its fencing token
          cur,        \* the target it works on
          prev,       \* previous_status of the preparation it claimed
          current,    \* the status it believes the target has
          goal,       \* the status it is about to move the target to
          member,     \* Telegram: the account's membership of each group
          verified    \* history: a run has seen the membership

targetVars == <<prep, due, asked, tries, claim, delivery, cancelled, status>>
runVars == <<pc, tok, cur, prev, current, goal>>
telegram == <<member, verified>>
vars == <<lease, grant, targetVars, runVars, telegram>>

Waiting == {"QUEUED", "WAITING_APPROVAL"}
Working == {"CHECKING", "JOINING"}
Settled == {"READY", "FAILED_FINAL", "CANCELLED"}
Open == {"PENDING", "FAILED_RETRYABLE"}
Over == {"SUCCEEDED", "FAILED_FINAL", "CANCELLED"}
Terminal == Over \cup {"SIDE_EFFECT_UNCERTAIN"}
OperationStatus ==
    {"QUEUED", "CHECKING", "JOINING", "WAITING_APPROVAL", "READY", "SENDING",
     "FAILED_RETRYABLE"} \cup Terminal
Move == {"JOINING", "QUEUED", "WAITING_APPROVAL", "READY", "FAILED_FINAL"}
Preparing == {"CLAIMED", "CHECK", "REVALIDATE", "JOIN", "MOVE", "SETTLE"}
PC == Preparing \cup {"OFF", "LOOP", "DELIVER", "SENDING", "CLOSING"}
Identity == [owner: Instance \cup {NoInstance}, token: Nat]

\* Each part of the state has its type.
TypeOK ==
    /\ lease \in [owner: Instance \cup {NoInstance}, token: Nat, live: BOOLEAN]
    /\ grant \in {"GRANTED", "EXPIRED", "WITHDRAWN"}
    /\ prep \in [Target -> Waiting \cup Working \cup Settled]
    /\ due \in [Target -> BOOLEAN] /\ asked \in [Target -> BOOLEAN]
    /\ tries \in [Target -> 0..MaxChecks]
    /\ claim \in [Target -> Identity]
    /\ delivery \in [Target -> Open \cup {"SENDING"} \cup Terminal]
    /\ cancelled \in [Target -> BOOLEAN]
    /\ status \in OperationStatus
    /\ pc \in [Instance -> PC] /\ tok \in [Instance -> Nat]
    /\ cur \in [Instance -> Target \cup {NoTarget}]
    /\ prev \in [Instance -> Waiting \cup {"NONE"}]
    /\ current \in [Instance -> Working]
    /\ goal \in [Instance -> Move \cup {"NONE"}]
    /\ member \in [Target -> {"OUT", "ASKED", "MEMBER"}]
    /\ verified \in [Target -> BOOLEAN]

Nobody == [owner |-> NoInstance, token |-> 0]

\* create_broadcast_operation inserts the operation as QUEUED; the trigger
\* hydrate_broadcast_target_preparation lets a target start where an earlier
\* operation of the account left it.  The membership may have changed since.
Init ==
    /\ lease = [owner |-> NoInstance, token |-> 0, live |-> FALSE]
    /\ grant = "GRANTED"
    /\ prep \in [Target -> {"QUEUED", "READY", "WAITING_APPROVAL"}]
    /\ due = [t \in Target |-> prep[t] # "WAITING_APPROVAL"]
    /\ asked = [t \in Target |-> prep[t] = "WAITING_APPROVAL"]
    /\ tries = [t \in Target |-> 0]
    /\ claim = [t \in Target |-> Nobody]
    /\ delivery = [t \in Target |-> "PENDING"]
    /\ cancelled = [t \in Target |-> FALSE]
    /\ status = "QUEUED"
    /\ pc = [i \in Instance |-> "OFF"]
    /\ tok = [i \in Instance |-> 0]
    /\ cur = [i \in Instance |-> NoTarget]
    /\ prev = [i \in Instance |-> "NONE"]
    /\ current = [i \in Instance |-> "CHECKING"]
    /\ goal = [i \in Instance |-> "NONE"]
    /\ member = [t \in Target |->
          CASE prep[t] = "READY" -> "MEMBER"
            [] prep[t] = "WAITING_APPROVAL" -> "ASKED"
            [] OTHER -> "OUT"]
    /\ verified = [t \in Target |-> prep[t] = "READY"]

-----------------------------------------------------------------------------
(* Three functions cache what the targets say in the operation's status, each *)
(* with a ranking of its own.                                                 *)

SomeIn(S, f) == \E t \in Target : f[t] \in S

LiveOr(d, pending, done) ==
    IF SomeIn({"SIDE_EFFECT_UNCERTAIN"}, d) THEN "SIDE_EFFECT_UNCERTAIN"
    ELSE IF SomeIn({"SENDING"}, d) THEN "SENDING"
    ELSE IF SomeIn({"FAILED_RETRYABLE"}, d) THEN "FAILED_RETRYABLE"
    ELSE IF SomeIn({"PENDING"}, d) THEN pending
    ELSE done

\* Mutation: a finish does not count the targets that are not prepared yet.
FinishSummaryHasty(d) ==
    IF SomeIn({"SIDE_EFFECT_UNCERTAIN"}, d) THEN "SIDE_EFFECT_UNCERTAIN"
    ELSE IF SomeIn({"SENDING"}, d) THEN "SENDING"
    ELSE IF SomeIn({"FAILED_RETRYABLE"}, d) THEN "FAILED_RETRYABLE"
    ELSE IF SomeIn({"FAILED_FINAL"}, d) THEN "FAILED_FINAL" ELSE "SUCCEEDED"

\* finish_broadcast_command.
FinishSummary(d) ==
    LiveOr(d, "READY",
           IF SomeIn({"FAILED_FINAL"}, d) THEN "FAILED_FINAL"
           ELSE IF SomeIn({"SUCCEEDED"}, d) THEN "SUCCEEDED" ELSE "CANCELLED")

\* recompute_broadcast_operation.
RecomputeSummary(p, d) ==
    LiveOr(d,
           IF SomeIn({"QUEUED"} \cup Working, p) THEN "QUEUED"
           ELSE IF SomeIn({"WAITING_APPROVAL"}, p) THEN "WAITING_APPROVAL" ELSE "READY",
           IF SomeIn({"FAILED_FINAL"}, d) THEN "FAILED_FINAL"
           ELSE IF SomeIn({"CANCELLED"}, d) THEN "CANCELLED"
           ELSE IF SomeIn({"SUCCEEDED"}, d) THEN "SUCCEEDED" ELSE "CANCELLED")

\* transition_broadcast_preparation, which looks at the preparations only.
TransitionSummary(p, s) ==
    IF SomeIn({"QUEUED"}, p) THEN "QUEUED"
    ELSE IF SomeIn(Working, p) THEN IF s = "JOINING" THEN "JOINING" ELSE "CHECKING"
    ELSE IF SomeIn({"WAITING_APPROVAL"}, p) THEN "WAITING_APPROVAL"
    ELSE IF SomeIn({"READY"}, p) THEN "READY" ELSE "FAILED_FINAL"

-----------------------------------------------------------------------------
(* Leases and claims. *)

Holds(i) == lease.owner = i /\ lease.token = tok[i] /\ lease.live

Live == status \notin Terminal

\* The operation is in broadcast_runtime_eligible_operations.
Eligible == grant = "GRANTED" /\ Live

Me(i) == [owner |-> i, token |-> tok[i]]

\* The run's claim of the preparation it works on is still there.
Mine(i) == prep[cur[i]] \in Working /\ claim[cur[i]] = Me(i)

\* The token of a new grant.  acquire_account_lease counts up (AccountLease), but
\* here tokens are only compared for equality: the least one that no row and no
\* run remembers stands for the next.
Remembered ==
    {lease.token} \cup {tok[i] : i \in Instance} \cup {claim[t].token : t \in Target}
IsNextToken(n) == n \notin Remembered /\ \A m \in 1..MaxToken \ Remembered : n <= m

Goto(i, l) == pc' = [pc EXCEPT ![i] = l]

\* The run of i is at l and has let go of its target.
LetGo(i, l) ==
    /\ Goto(i, l)
    /\ cur' = [cur EXCEPT ![i] = NoTarget]
    /\ prev' = [prev EXCEPT ![i] = "NONE"]
    /\ current' = [current EXCEPT ![i] = "CHECKING"]
    /\ goal' = [goal EXCEPT ![i] = "NONE"]

\* The run of i is at l and will then move its target to s.
Plan(i, l, s) ==
    /\ Goto(i, l) /\ goal' = [goal EXCEPT ![i] = s]
    /\ UNCHANGED <<cur, prev, current>>

-----------------------------------------------------------------------------
(* One run: preparation first, then delivery, then again. *)

\* Lease, session and connection (the steps of AccountLease), up to the drain.
StartRun(i) ==
    /\ pc[i] = "OFF" /\ grant # "WITHDRAWN"
    /\ \E token \in 1..MaxToken :
          /\ \/ lease.owner = i /\ lease.live /\ token = lease.token
             \/ ~lease.live /\ IsNextToken(token)
          /\ lease' = [owner |-> i, token |-> token, live |-> TRUE]
          /\ tok' = [tok EXCEPT ![i] = token]
    /\ Goto(i, "LOOP")
    /\ UNCHANGED <<grant, targetVars, cur, prev, current, goal, telegram>>

ClaimRefused(i) ==
    /\ pc[i] \in {"LOOP", "DELIVER"} /\ ~Holds(i)
    /\ Goto(i, "CLOSING")
    /\ UNCHANGED <<lease, grant, targetVars, tok, cur, prev, current, goal, telegram>>

\* Mutation: a process recovers the claims of its own runs only.
AbandonedByOwn(i, t) ==
    prep[t] \in Working /\ claim[t].owner = i /\ claim[t].token # tok[i]

\* A preparation another run, or an earlier run of this instance, left behind.
Abandoned(i, t) == prep[t] \in Working /\ claim[t] # Me(i)

\* claim_next_broadcast_preparation starts those over, at once.
Recovered(i) == [t \in Target |-> IF Abandoned(i, t) THEN "QUEUED" ELSE prep[t]]

DueAgain(i) == [t \in Target |-> due[t] \/ Abandoned(i, t)]

Unclaimed(i) == [t \in Target |-> IF Abandoned(i, t) THEN Nobody ELSE claim[t]]

\* Mutation: an attempt is not counted.
Uncounted(t) == tries

\* preparation_attempt_count after another attempt.
Counted(t) == [tries EXCEPT ![t] = IF @ < MaxChecks THEN @ + 1 ELSE @]

\* A preparation is claimed; when the answer is lost the run ends.
ClaimPreparation(i, t) ==
    /\ pc[i] = "LOOP" /\ Holds(i) /\ Eligible
    /\ Recovered(i)[t] \in Waiting /\ DueAgain(i)[t]
    /\ prep' = [Recovered(i) EXCEPT ![t] = "CHECKING"]
    /\ due' = DueAgain(i)
    /\ claim' = [Unclaimed(i) EXCEPT ![t] = Me(i)]
    /\ tries' = Counted(t)
    /\ \/ /\ Goto(i, "CLAIMED")
          /\ cur' = [cur EXCEPT ![i] = t]
          /\ prev' = [prev EXCEPT ![i] = Recovered(i)[t]]
       \/ Goto(i, "CLOSING") /\ UNCHANGED <<cur, prev>>
    /\ UNCHANGED <<lease, grant, asked, delivery, cancelled, status, tok,
                   current, goal, telegram>>

NothingToPrepare(i) ==
    /\ pc[i] = "LOOP" /\ Holds(i)
    /\ Eligible => \A t \in Target : ~(Recovered(i)[t] \in Waiting /\ DueAgain(i)[t])
    /\ prep' = Recovered(i) /\ due' = DueAgain(i) /\ claim' = Unclaimed(i)
    /\ Goto(i, "DELIVER")
    /\ UNCHANGED <<lease, grant, asked, tries, delivery, cancelled, status, tok,
                   cur, prev, current, goal, telegram>>

Gate == [CLAIMED |-> "CHECK", REVALIDATE |-> "JOIN"]

\* validate_broadcast_preparation, before resolving and again before joining.
Authorize(i) ==
    /\ pc[i] \in DOMAIN Gate /\ Mine(i) /\ Holds(i) /\ Eligible
    /\ Goto(i, Gate[pc[i]])
    /\ UNCHANGED <<lease, grant, targetVars, tok, cur, prev, current, goal, telegram>>

FencedOut(i) ==
    /\ pc[i] \in DOMAIN Gate /\ ~Mine(i)
    /\ LetGo(i, "CLOSING")
    /\ UNCHANGED <<lease, grant, targetVars, tok, telegram>>

\* Whatever the reason, the target is cancelled, and the run ends as fenced.
Unauthorized(i) ==
    /\ pc[i] \in DOMAIN Gate /\ Mine(i) /\ ~(Holds(i) /\ Eligible)
    /\ prep' = [prep EXCEPT ![cur[i]] = "CANCELLED"]
    /\ delivery' = [delivery EXCEPT ![cur[i]] = "CANCELLED"]
    /\ claim' = [claim EXCEPT ![cur[i]] = Nobody]
    /\ cancelled' = [cancelled EXCEPT ![cur[i]] = TRUE]
    /\ status' = RecomputeSummary(prep', delivery')
    /\ LetGo(i, "CLOSING")
    /\ UNCHANGED <<lease, grant, due, asked, tries, tok, telegram>>

\* The validation never answers.  The first time that ends the run, the second
\* time it is taken for an unknown error of Telegram.
ValidateError(i) ==
    /\ \/ pc[i] = "CLAIMED" /\ LetGo(i, "CLOSING")
       \/ pc[i] = "REVALIDATE" /\ Plan(i, "SETTLE", "FAILED_FINAL")
    /\ UNCHANGED <<lease, grant, targetVars, tok, telegram>>

TimedOut(i) == prev[i] = "WAITING_APPROVAL" /\ tries[cur[i]] >= MaxChecks

\* The catch block: where an error of Telegram sends the target.
ErrorMoves(i) ==
    {"FAILED_FINAL"} \cup
    IF current[i] = "JOINING" THEN {"QUEUED", "WAITING_APPROVAL"}
    ELSE IF prev[i] = "WAITING_APPROVAL" THEN {"WAITING_APPROVAL"} ELSE {"QUEUED"}

\* The approval did not come in time, or resolveTarget tells what the target is.
Check(i) ==
    /\ pc[i] = "CHECK"
    /\ \/ TimedOut(i) /\ Plan(i, "SETTLE", "FAILED_FINAL") /\ UNCHANGED verified
       \/ /\ ~TimedOut(i)
          /\ \/ Plan(i, "MOVE", "FAILED_FINAL") /\ UNCHANGED verified   \* a CHANNEL
             \/ /\ member[cur[i]] = "MEMBER"
                /\ Plan(i, "MOVE", "READY")
                /\ verified' = [verified EXCEPT ![cur[i]] = TRUE]
             \/ /\ member[cur[i]] # "MEMBER"
                /\ Plan(i, "MOVE", IF prev[i] = "WAITING_APPROVAL"
                                   THEN "WAITING_APPROVAL" ELSE "JOINING")
                /\ UNCHANGED verified
             \/ /\ \E s \in ErrorMoves(i) : Plan(i, "SETTLE", s)
                /\ UNCHANGED verified
    /\ UNCHANGED <<lease, grant, targetVars, tok, member>>

\* Mutation: a request for approval counts as a membership.
JoinAnswersHasty(m) == {"READY"}

\* Mutation: the answer is stored as it came.
JoinAnswersRaw(m) == {m}

\* What joinPublicTarget answers when it leaves the account as m.
JoinAnswers(m) == IF m = "MEMBER" THEN {"READY"} ELSE {"WAITING_APPROVAL"}

\* joinPublicTarget; an error leaves open whether the request went through.
Join(i) ==
    /\ pc[i] = "JOIN"
    /\ \E m \in {"ASKED", "MEMBER"} \cup {member[cur[i]]} :
          /\ member[cur[i]] = "MEMBER" => m = "MEMBER"
          /\ member' = [member EXCEPT ![cur[i]] = m]
          /\ \/ /\ m # "OUT"
                /\ \E s \in JoinAnswers(m) : Plan(i, "MOVE", s)
                /\ verified' = [verified EXCEPT ![cur[i]] = @ \/ m = "MEMBER"]
             \/ (\E s \in ErrorMoves(i) : Plan(i, "SETTLE", s)) /\ UNCHANGED verified
    /\ UNCHANGED <<lease, grant, targetVars, tok>>

\* Mutation: the transition only asks whether the run holds the account.
AppliesToAny(i) == Holds(i)

\* transition_broadcast_preparation finds its row.
Applies(i) == Holds(i) /\ Mine(i) /\ prep[cur[i]] = current[i]

ApplyMove(i) ==
    LET t == cur[i] s == goal[i] IN
    /\ prep' = [prep EXCEPT ![t] = s]
    /\ due' = [due EXCEPT ![t] = @ /\ s \notin Waiting]
    /\ asked' = [asked EXCEPT ![t] = @ \/ s = "WAITING_APPROVAL"]
    /\ claim' = [claim EXCEPT ![t] = IF s = "JOINING" THEN @ ELSE Nobody]
    /\ delivery' = [delivery EXCEPT ![t] = IF s = "FAILED_FINAL" THEN s ELSE @]
    /\ status' = TransitionSummary(prep', s)
    /\ UNCHANGED <<lease, grant, tries, cancelled, tok, telegram>>

\* A move the service makes outside its try block, or in its catch: the loop
\* goes on, except after a retryable error or the loss of the session.
Settle(i) ==
    /\ pc[i] = "SETTLE"
    /\ \/ Applies(i) /\ ApplyMove(i)
       \/ ~Applies(i) /\ UNCHANGED <<lease, grant, targetVars, tok, telegram>>
    /\ \/ LetGo(i, "CLOSING")
       \/ Applies(i) /\ goal[i] # "QUEUED" /\ LetGo(i, "DELIVER")

\* A move inside the try block.
Proceed(i) ==
    /\ pc[i] = "MOVE"
    /\ \/ /\ Applies(i)
          /\ ApplyMove(i)
          /\ IF goal[i] = "JOINING"
               THEN /\ Goto(i, "REVALIDATE")
                    /\ goal' = [goal EXCEPT ![i] = "NONE"]
                    /\ current' = [current EXCEPT ![i] = "JOINING"]
                    /\ UNCHANGED <<cur, prev>>
               ELSE LetGo(i, "DELIVER") \/ LetGo(i, "CLOSING")
       \/ /\ ~Applies(i)
          /\ LetGo(i, "CLOSING")
          /\ UNCHANGED <<lease, grant, targetVars, tok, telegram>>

\* The answer of a move is lost, applied or not.  In the try block that is taken
\* for an unknown error of Telegram, elsewhere it ends the run.
MoveLost(i) ==
    /\ pc[i] \in {"MOVE", "SETTLE"}
    /\ \/ Applies(i) /\ ApplyMove(i)
       \/ UNCHANGED <<lease, grant, targetVars, tok, telegram>>
    /\ IF pc[i] = "MOVE" THEN Plan(i, "SETTLE", "FAILED_FINAL")
       ELSE LetGo(i, "CLOSING")

\* The outcome of a preparation is left to a later run: leaseLost is set, or
\* the action budget of the run is used up.
EndRun(i) ==
    /\ pc[i] \in {"LOOP", "DELIVER"}
    /\ Goto(i, "CLOSING")
    /\ UNCHANGED <<lease, grant, targetVars, tok, cur, prev, current, goal, telegram>>

\* claim_next_broadcast_command gives up on what earlier runs were sending, and
\* on what this identity was sending once that command lease ran out.
GivenUp(i, expired) ==
    {t \in Target : delivery[t] = "SENDING" /\ (claim[t] # Me(i) \/ expired)}

ClaimDelivery(i) ==
    /\ pc[i] = "DELIVER" /\ Holds(i)
    /\ \E expired \in BOOLEAN :
          LET lost == GivenUp(i, expired)
              d == [t \in Target |-> IF t \in lost THEN "SIDE_EFFECT_UNCERTAIN" ELSE delivery[t]]
              c == [t \in Target |-> IF t \in lost THEN Nobody ELSE claim[t]]
              s == IF Live /\ SomeIn({"SIDE_EFFECT_UNCERTAIN"}, d)
                   THEN "SIDE_EFFECT_UNCERTAIN" ELSE status
          IN \/ \E t \in Target :
                   /\ grant = "GRANTED" /\ s \notin Terminal
                   /\ prep[t] = "READY" /\ d[t] \in Open /\ ~cancelled[t]
                   /\ delivery' = [d EXCEPT ![t] = "SENDING"]
                   /\ claim' = [c EXCEPT ![t] = Me(i)]
                   /\ status' = "SENDING"
                   /\ \/ Goto(i, "SENDING") /\ cur' = [cur EXCEPT ![i] = t]
                      \/ Goto(i, "CLOSING") /\ UNCHANGED cur
             \/ /\ delivery' = d /\ claim' = c /\ status' = s
                /\ Goto(i, "LOOP") \/ Goto(i, "CLOSING")
                /\ UNCHANGED cur
    /\ UNCHANGED <<lease, grant, prep, due, asked, tries, cancelled, tok, prev,
                   current, goal, telegram>>

\* Validation, send and finish of BroadcastDelivery.
Deliver(i) ==
    LET t == cur[i] IN
    /\ pc[i] = "SENDING"
    /\ \/ /\ Holds(i) /\ delivery[t] = "SENDING" /\ claim[t] = Me(i)
          /\ claim' = [claim EXCEPT ![t] = Nobody]
          /\ \/ \E s \in {"SUCCEEDED", "FAILED_FINAL", "FAILED_RETRYABLE",
                         "SIDE_EFFECT_UNCERTAIN"} :
                   /\ delivery' = [delivery EXCEPT ![t] = s]
                   /\ status' = FinishSummary(delivery')
                   /\ \/ LetGo(i, "CLOSING")
                      \/ s \in {"SUCCEEDED", "FAILED_FINAL"} /\ LetGo(i, "LOOP")
                   /\ UNCHANGED cancelled
             \/ /\ grant # "GRANTED" \/ cancelled[t]
                /\ delivery' = [delivery EXCEPT ![t] = "CANCELLED"]
                /\ cancelled' = [cancelled EXCEPT ![t] = TRUE]
                /\ status' = RecomputeSummary(prep, delivery')
                /\ LetGo(i, "LOOP")
       \/ /\ LetGo(i, "CLOSING")      \* fenced, or the answer is lost
          /\ UNCHANGED <<claim, delivery, cancelled, status>>
    /\ UNCHANGED <<lease, grant, prep, due, asked, tries, tok, telegram>>

\* The lease is released if it is still this run's, or the release is lost.
Release(i) ==
    /\ pc[i] = "CLOSING"
    /\ Goto(i, "OFF")
    /\ (Holds(i) /\ lease' = [lease EXCEPT !.live = FALSE]) \/ UNCHANGED lease
    /\ tok' = [tok EXCEPT ![i] = 0]
    /\ UNCHANGED <<grant, targetVars, cur, prev, current, goal, telegram>>

Claim(i) == \E t \in Target : ClaimPreparation(i, t)

Prepare(i) ==
    Authorize(i) \/ FencedOut(i) \/ Unauthorized(i) \/ Check(i) \/ Join(i)
    \/ Proceed(i) \/ Settle(i)

Run(i) ==
    StartRun(i) \/ ClaimRefused(i) \/ Claim(i) \/ NothingToPrepare(i) \/ Prepare(i)
    \/ ClaimDelivery(i) \/ Deliver(i) \/ Release(i)

-----------------------------------------------------------------------------
(* The users, the other functions of the database, Telegram, and failures. *)

\* request_broadcast_target_cancellation for every target of T.
RequestCancellation(T) ==
    LET live == {t \in T : delivery[t] \notin Terminal} IN
    /\ prep' = [t \in Target |->
          IF t \in live /\ prep[t] \in Waiting \cup Working THEN "CANCELLED" ELSE prep[t]]
    /\ claim' = [t \in Target |->
          IF t \in live /\ prep[t] \in Working THEN Nobody ELSE claim[t]]
    /\ delivery' = [t \in Target |->
          IF t \in live /\ delivery[t] \in Open THEN "CANCELLED" ELSE delivery[t]]
    /\ cancelled' = [t \in Target |-> cancelled[t] \/ t \in live]
    /\ UNCHANGED <<due, asked, tries>>

\* The user cancels the operation, in whatever state it is.
CancelOperation ==
    /\ RequestCancellation(Target)
    /\ status' = RecomputeSummary(prep', delivery')
    /\ UNCHANGED <<lease, grant, runVars, telegram>>

\* The configured target is removed or changed.
ChangeTarget(t) ==
    /\ delivery[t] \notin Terminal
    /\ RequestCancellation({t})
    /\ status' = RecomputeSummary(prep', delivery')
    /\ UNCHANGED <<lease, grant, runVars, telegram>>

\* The account becomes unavailable, the profile is disconnected, the worker is
\* released or the service stopped: a live operation is cancelled.
Withdraw ==
    /\ grant # "WITHDRAWN"
    /\ grant' = "WITHDRAWN"
    /\ IF Live THEN RequestCancellation(Target) /\ status' = RecomputeSummary(prep', delivery')
       ELSE UNCHANGED targetVars
    /\ UNCHANGED <<lease, runVars, telegram>>

\* expires_at of the entitlement is reached; nothing is written.
EntitlementExpires ==
    /\ grant = "GRANTED"
    /\ grant' = "EXPIRED"
    /\ UNCHANGED <<lease, targetVars, runVars, telegram>>

\* deactivate_lapsed_user_operations: the profile or the assignment goes with
\* its triggers, unless it is gone already, then every open target is cancelled.
DeactivateLapsed ==
    /\ grant # "GRANTED"
    /\ grant' = "WITHDRAWN"
    /\ IF grant = "EXPIRED" /\ Live
         THEN RequestCancellation(Target) /\ status' = RecomputeSummary(prep', delivery')
         ELSE /\ delivery' = [t \in Target |->
                    IF delivery[t] \in Open THEN "CANCELLED" ELSE delivery[t]]
              /\ status' = IF Live /\ ~SomeIn({"SENDING"}, delivery) THEN "CANCELLED" ELSE status
              /\ UNCHANGED <<prep, due, asked, tries, claim, cancelled>>
    /\ UNCHANGED <<lease, runVars, telegram>>

Renew ==
    /\ grant # "GRANTED"
    /\ grant' = "GRANTED"
    /\ UNCHANGED <<lease, targetVars, runVars, telegram>>

\* preparation_available_at is reached.
BecomesDue(t) ==
    /\ ~due[t]
    /\ due' = [due EXCEPT ![t] = TRUE]
    /\ UNCHANGED <<lease, grant, prep, asked, tries, claim, delivery, cancelled, status,
                   runVars, telegram>>

\* The group lets the account in, turns it down or throws it out.
Decide(t) ==
    /\ \/ member[t] = "ASKED" /\ member' = [member EXCEPT ![t] = "MEMBER"]
       \/ member[t] # "OUT" /\ member' = [member EXCEPT ![t] = "OUT"]
    /\ UNCHANGED <<lease, grant, targetVars, runVars, verified>>

\* An engine process dies, at any point, and is started again under a new identifier: the
\* lease that bears the old one is nobody's until it runs out, and so are the claims.
Crash(i) ==
    /\ LetGo(i, "OFF")
    /\ tok' = [tok EXCEPT ![i] = 0]
    /\ lease' = IF lease.owner = i THEN [lease EXCEPT !.owner = NoInstance] ELSE lease
    /\ claim' = [t \in Target |-> IF claim[t].owner = i THEN Nobody ELSE claim[t]]
    /\ UNCHANGED <<grant, prep, due, asked, tries, delivery, cancelled, status, telegram>>

\* The account lease runs out (its holder stalls) or is expired by a detach.
Lapse ==
    /\ lease.live
    /\ lease' = [lease EXCEPT !.live = FALSE]
    /\ UNCHANGED <<grant, targetVars, runVars, telegram>>

Unrenewed == \A i \in Instance : ~Holds(i)

Next ==
    \/ \E i \in Instance :
          Run(i) \/ ValidateError(i) \/ MoveLost(i) \/ EndRun(i) \/ Crash(i)
    \/ \E t \in Target : ChangeTarget(t) \/ BecomesDue(t) \/ Decide(t)
    \/ CancelOperation \/ Withdraw \/ EntitlementExpires \/ DeactivateLapsed
    \/ Renew \/ Lapse

Spec == Init /\ [][Next]_vars

\* A run takes its next step and ends again and again (maxActionsPerRun,
\* idleDeadlineAt), and a process that died is started again; not every claim's
\* answer is lost, nor every release of a lease; a lease nobody renews runs out,
\* and a recheck falls due.
Fairness ==
    /\ \A i \in Instance :
          /\ WF_vars(Run(i)) /\ SF_vars(EndRun(i))
          /\ SF_vars(Claim(i) /\ pc'[i] = "CLAIMED")
          /\ SF_vars(Release(i) /\ (Holds(i) => lease' # lease))
    /\ \A t \in Target : WF_vars(BecomesDue(t))
    /\ WF_vars(Lapse /\ Unrenewed)

FairSpec == Spec /\ Fairness

-----------------------------------------------------------------------------
(* Properties. *)

\* BROADCAST_MATERIAL_CONTRACT.md:45: a target is only READY, and only then
\* sent to, when some run has seen the account's membership, whatever it
\* believed when it was fenced or lost an answer.
OnlyMembersAreReady ==
    \A t \in Target :
        prep[t] = "READY" \/ delivery[t] \in {"SENDING", "SUCCEEDED"} => verified[t]

\* A preparation that is settled stays so: no late transition of a fenced run
\* revives a cancelled target and no recovery takes it up again.
PreparationIsFinal ==
    [][\A t \in Target : prep[t] \in Settled => prep'[t] = prep[t]]_vars

\* An operation shown as SUCCEEDED, FAILED_FINAL or CANCELLED has no target
\* left that waits, is prepared, sent or retried, by whichever of the three
\* rankings the status was written last.
OverMeansOver ==
    status \in Over => \A t \in Target : delivery[t] \in Terminal

\* A target in CHECKING or JOINING whose run was lost is taken up again, under
\* whatever owner and token it was claimed.
Lost(t) == prep[t] \in Working /\ \A i \in Instance : cur[i] = t => ~Mine(i)
OutOfReach == grant # "GRANTED" \/ ~Live
WorkIsTakenUp == \A t \in Target : Lost(t) ~> ~Lost(t) \/ OutOfReach

\* broadcast-preparation/service.ts:20: the wait for an approval ends: the
\* target gets ready, or reaches a visible terminal state after a bounded
\* number of checks, unless a lost run makes it start over.
WaitIsBounded ==
    \A t \in Target :
        prep[t] = "WAITING_APPROVAL" ~>
            prep[t] \in Settled \cup {"QUEUED"} \/ Lost(t) \/ OutOfReach

\* broadcast-preparation/service.ts:22: once every target has reached a visible
\* terminal state, the run of the operation is over and a new one may start.
EndsWithItsTargets ==
    (\A t \in Target : delivery[t] \in Terminal) => ~Live

\* FOUNDATION_SPEC.md:91: while a target waits for the group's approval no
\* further request to join is sent.
AsksOnce ==
    [][\A i \in Instance :
          Join(i) => ~(asked[cur[i]] /\ member[cur[i]] = "ASKED")]_vars

\* FOUNDATION_SPEC.md:91: the work on a waiting target continues by itself: only
\* someone who withdraws it cancels it.
CancelledOnlyWhenWithdrawn ==
    [][\A i \in Instance : Unauthorized(i) => ~Eligible]_vars
=============================================================================
