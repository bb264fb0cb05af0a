-------------------------- MODULE BroadcastCampaign --------------------------
(***************************************************************************)
(* Recurring campaigns of Jasa Sebar.  A user has at most one active       *)
(* campaign; in every engine process a scheduler folds the outcome of past *)
(* cycles into it, claims the campaigns that are due, and creates one      *)
(* operation per cycle, while the user starts, stops and edits.            *)
(*                                                                         *)
(* One user with one account.  Every database function is one atomic step; *)
(* a scheduler keeps the campaign it claimed (todo) across the awaits in   *)
(* between.  How an operation is prepared and delivered is left to         *)
(* BroadcastPreparation and BroadcastDelivery: here it is open, is sending *)
(* or has ended.                                                           *)
(***************************************************************************)
EXTENDS Integers, FiniteSets

CONSTANTS Instance,       \* engine processes
          Target,         \* the user's rows of broadcast_lpm_targets
          Threshold,      \* p_failure_threshold
          MaxCampaigns,   \* bound: campaigns the user starts
          MaxOperations   \* bound: operations that are created

ASSUME ThresholdAssumption == Threshold \in Nat \ {0}
ASSUME BoundAssumption == MaxCampaigns \in Nat /\ MaxOperations \in Nat

VARIABLES campaign,    \* status of each campaign, ABSENT before it is inserted
          error,       \* error_code
          targets,     \* target_ids
          due,         \* next_cycle_at has come
          failures,    \* consecutive_failures
          last,        \* last_reconciled_operation_id, 0 for null
          operation,   \* status of each operation, ABSENT outside its row's life
          of,          \* campaign_id of the operation, 0 for null
          cancelled,   \* cancel_requested_at of what a running one has left to send
          configured,  \* the active targets
          able,        \* entitlement, material and account allow an operation
          pc,          \* where the scheduler of each instance is
          todo,        \* the campaign it claimed, 0 for none
          off,         \* history: the user switched the service off for good
          halted,      \* history: campaigns the user stopped, and was told so
          folded       \* history: operations counted as consecutive failures

campaignVars == <<campaign, error, targets, due, failures, last, folded>>
operationVars == <<operation, of, cancelled>>
userVars == <<configured, able, off, halted>>
engineVars == <<pc, todo>>
vars == <<campaignVars, operationVars, userVars, engineVars>>

Campaign == 1..MaxCampaigns
Operation == 1..MaxOperations
\* FAILED stands for FAILED_FINAL and SIDE_EFFECT_UNCERTAIN, alike to a campaign.
Terminal == {"SUCCEEDED", "FAILED", "CANCELLED"}
Running == {"OPEN", "SENDING"}
\* CAMPAIGN_CYCLE_FAILED stands for any message a failing cycle ends with.
Reason == {"NONE", "TOO_MANY_CONSECUTIVE_FAILURES", "CAMPAIGN_CYCLE_FAILED", "MATERIAL_INACTIVE"}

\* Each part of the state has its type, and the CHECK constraint on target_ids
\* (broadcast_campaigns_target_ids_check) is respected by every edit.
TypeOK ==
    /\ campaign \in [Campaign -> {"ABSENT", "ACTIVE", "STOPPED"}]
    /\ error \in [Campaign -> Reason]
    /\ targets \in [Campaign -> SUBSET Target]
    /\ \A c \in Campaign : campaign[c] # "ABSENT" => targets[c] # {}
    /\ due \in [Campaign -> BOOLEAN]
    /\ failures \in [Campaign -> 0..Threshold]
    /\ last \in [Campaign -> 0..MaxOperations]
    /\ folded \in [Campaign -> SUBSET Operation]
    /\ operation \in [Operation -> {"ABSENT", "DELETED"} \cup Running \cup Terminal]
    /\ of \in [Operation -> 0..MaxCampaigns]
    /\ cancelled \in [Operation -> BOOLEAN]
    /\ configured \subseteq Target
    /\ able \in BOOLEAN /\ off \in BOOLEAN
    /\ halted \subseteq Campaign
    /\ pc \in [Instance -> {"RECONCILE", "DUE", "CYCLE", "FAIL"}]
    /\ todo \in [Instance -> 0..MaxCampaigns]

Init ==
    /\ campaign = [c \in Campaign |-> "ABSENT"]
    /\ error = [c \in Campaign |-> "NONE"]
    /\ targets = [c \in Campaign |-> {}]
    /\ due = [c \in Campaign |-> FALSE]
    /\ failures = [c \in Campaign |-> 0]
    /\ last = [c \in Campaign |-> 0]
    /\ folded = [c \in Campaign |-> {}]
    /\ operation = [o \in Operation |-> "ABSENT"]
    /\ of = [o \in Operation |-> 0]
    /\ cancelled = [o \in Operation |-> FALSE]
    /\ configured = Target
    /\ able = TRUE
    /\ off = FALSE
    /\ halted = {}
    /\ pc = [i \in Instance |-> "RECONCILE"]
    /\ todo = [i \in Instance |-> 0]

-----------------------------------------------------------------------------
(* Campaigns and operations. *)

Active(c) == campaign[c] = "ACTIVE"

\* Mutation: a failed operation still counts as running.
LiveOrFailed(o) == operation[o] \in Running \cup {"FAILED"}

Live(o) == operation[o] \in Running

\* The user has an operation that guard_overlapping_broadcast_operation and
\* guard_broadcast_campaign_start answer with BROADCAST_BUSY.
Busy == \E o \in Operation : Live(o)

\* x is the next row that is inserted, of campaigns or of operations.
IsNextRow(f, x) == f[x] = "ABSENT" /\ \A y \in DOMAIN f : f[y] = "ABSENT" => x <= y

\* create_broadcast_operation goes through for the targets T.
Creatable(T) == able /\ T # {} /\ T \subseteq configured /\ ~Busy

\* create_broadcast_operation, for campaign c or (0) for a single run.
InsertOperation(c) ==
    /\ \E o \in Operation :
          /\ IsNextRow(operation, o)
          /\ operation' = [operation EXCEPT ![o] = "OPEN"]
          /\ of' = [of EXCEPT ![o] = c]
    /\ UNCHANGED cancelled

\* cancel_broadcast_operation for the operations of S.  A send that has started
\* is not taken back, and a status that is over is computed anew.
CancelAll(S) ==
    /\ \E open \in {"CANCELLED", "FAILED"}, over \in {"CANCELLED", "SUCCEEDED"} :
          operation' = [o \in Operation |->
              CASE o \in S /\ operation[o] = "OPEN" -> open
                [] o \in S /\ operation[o] = "SUCCEEDED" -> over
                [] OTHER -> operation[o]]
    /\ cancelled' = [o \in Operation |->
          IF o \in S THEN operation[o] = "SENDING" ELSE cancelled[o]]
    /\ UNCHANGED of

-----------------------------------------------------------------------------
(* The scheduler of an instance: reconcile, claim what is due, run the cycle, *)
(* and wait at RECONCILE for a notification, a due time or the timer.        *)

Goto(i, l) == pc' = [pc EXCEPT ![i] = l]

\* Mutation: every ended cycle is folded in again.
FreshAgain(c) == {o \in Operation : of[o] = c /\ operation[o] \in Terminal}

\* The ended cycles of c that reconcile_broadcast_campaigns has not folded in.
Fresh(c) ==
    {o \in Operation :
        /\ of[o] = c /\ operation[o] \in Terminal
        /\ last[c] = 0 \/ operation[last[c]] = "DELETED" \/ o > last[c]}

IsLatest(S, o) == o \in S /\ \A x \in S : x <= o

TooMany(n) == n >= Threshold

Fold(c) ==
    \E o \in Operation :
        LET failed == operation[o] # "SUCCEEDED"
            n == IF failed THEN failures[c] + 1 ELSE 0
        IN /\ IsLatest(Fresh(c), o)
           /\ last' = [last EXCEPT ![c] = o]
           /\ failures' = [failures EXCEPT ![c] = n]
           /\ folded' = [folded EXCEPT ![c] = IF failed THEN @ \cup {o} ELSE {}]
           /\ IF failed /\ TooMany(n)
                THEN /\ campaign' = [campaign EXCEPT ![c] = "STOPPED"]
                     /\ error' = [error EXCEPT ![c] = "TOO_MANY_CONSECUTIVE_FAILURES"]
                ELSE UNCHANGED <<campaign, error>>
           /\ UNCHANGED <<targets, due>>

\* reconcile_broadcast_campaigns; an error of it is swallowed.
Reconcile(i) ==
    /\ pc[i] = "RECONCILE"
    /\ \/ \E c \in Campaign : Active(c) /\ Fold(c)
       \/ (\A c \in Campaign : Active(c) => Fresh(c) = {}) /\ UNCHANGED campaignVars
    /\ Goto(i, "DUE")
    /\ UNCHANGED <<operationVars, userVars, todo>>

ReconcileError(i) ==
    /\ pc[i] = "RECONCILE"
    /\ Goto(i, "DUE")
    /\ UNCHANGED <<campaignVars, operationVars, userVars, todo>>

Claimable(c) == Active(c) /\ due[c] /\ ~\E o \in Operation : of[o] = c /\ Live(o)

\* due_broadcast_campaigns sets the next cycle before this one is created.
ClaimDue(i, c) ==
    /\ pc[i] = "DUE" /\ Claimable(c)
    /\ due' = [due EXCEPT ![c] = FALSE]
    /\ todo' = [todo EXCEPT ![i] = c]
    /\ Goto(i, "CYCLE")
    /\ UNCHANGED <<campaign, error, targets, failures, last, folded, operationVars, userVars>>

NothingDue(i) ==
    /\ pc[i] = "DUE" /\ \A c \in Campaign : ~Claimable(c)
    /\ Goto(i, "RECONCILE")
    /\ UNCHANGED <<campaignVars, operationVars, userVars, todo>>

\* The answer is lost, or it never got that far.
DueError(i) ==
    /\ pc[i] = "DUE"
    /\ \/ UNCHANGED due
       \/ \E c \in Campaign : Claimable(c) /\ due' = [due EXCEPT ![c] = FALSE]
    /\ Goto(i, "RECONCILE")
    /\ UNCHANGED <<campaign, error, targets, failures, last, folded, operationVars, userVars, todo>>

\* Mutation: the campaign is not looked at again.
AdmittedUnchecked(c) == ~\E o \in Operation : of[o] = c /\ Live(o)

\* create_broadcast_campaign_cycle goes on to create an operation.
Admitted(c) == Active(c) /\ ~\E o \in Operation : of[o] = c /\ Live(o)

\* The scheduler of i has dealt with its campaign.
Done(i) ==
    /\ Goto(i, "RECONCILE")
    /\ todo' = [todo EXCEPT ![i] = 0]

\* The cycle is created; or the answer is lost, which counts as an error.
RunCycle(i) ==
    /\ pc[i] = "CYCLE" /\ Admitted(todo[i]) /\ Creatable(targets[todo[i]])
    /\ InsertOperation(todo[i])
    /\ Done(i) \/ (Goto(i, "FAIL") /\ UNCHANGED todo)
    /\ UNCHANGED <<campaignVars, userVars>>

\* CAMPAIGN_INACTIVE or ACTIVE_CYCLE_EXISTS.
SkipCycle(i) ==
    /\ pc[i] = "CYCLE" /\ ~Admitted(todo[i])
    /\ Done(i)
    /\ UNCHANGED <<campaignVars, operationVars, userVars>>

\* create_broadcast_operation refuses, as long as another operation runs too.
RefuseCycle(i) ==
    /\ pc[i] = "CYCLE" /\ Admitted(todo[i]) /\ ~Creatable(targets[todo[i]])
    /\ Goto(i, "FAIL")
    /\ UNCHANGED <<campaignVars, operationVars, userVars, todo>>

CycleError(i) ==
    /\ pc[i] = "CYCLE"
    /\ Goto(i, "FAIL")
    /\ UNCHANGED <<campaignVars, operationVars, userVars, todo>>

\* Mutation: a campaign is failed in whatever state it is.
FailsAny(c) == TRUE

Fails(c) == Active(c)

\* Campaign c stops, for the reason r.
StopFor(c, r) ==
    /\ campaign' = [campaign EXCEPT ![c] = "STOPPED"]
    /\ error' = [error EXCEPT ![c] = r]
    /\ UNCHANGED <<targets, due, failures, last, folded>>

\* fail_broadcast_campaign, whose own failure is swallowed.
Fail(i) ==
    /\ pc[i] = "FAIL"
    /\ \/ Fails(todo[i]) /\ StopFor(todo[i], "CAMPAIGN_CYCLE_FAILED")
       \/ ~Fails(todo[i]) /\ UNCHANGED campaignVars
    /\ Done(i)
    /\ UNCHANGED <<operationVars, userVars>>

FailLost(i) ==
    /\ pc[i] = "FAIL"
    /\ Done(i)
    /\ UNCHANGED <<campaignVars, operationVars, userVars>>

Pass(i) ==
    \/ Reconcile(i) \/ (\E c \in Campaign : ClaimDue(i, c)) \/ NothingDue(i)
    \/ RunCycle(i) \/ SkipCycle(i) \/ RefuseCycle(i) \/ Fail(i)

Disturbed(i) == ReconcileError(i) \/ DueError(i) \/ CycleError(i) \/ FailLost(i)

\* The process dies and is started again.
Crash(i) ==
    /\ pc[i] # "RECONCILE"
    /\ Goto(i, "RECONCILE")
    /\ todo' = [todo EXCEPT ![i] = 0]
    /\ UNCHANGED <<campaignVars, operationVars, userVars>>

\* next_cycle_at is reached.
ComesDue(c) ==
    /\ Active(c) /\ ~due[c]
    /\ due' = [due EXCEPT ![c] = TRUE]
    /\ UNCHANGED <<campaign, error, targets, failures, last, folded, operationVars, userVars,
                   engineVars>>

-----------------------------------------------------------------------------
(* The user. *)

\* create_broadcast_campaign for the targets T.
InsertCampaign(T) ==
    /\ able /\ T # {} /\ T \subseteq configured
    /\ \E c \in Campaign :
          /\ IsNextRow(campaign, c)
          /\ campaign' = [campaign EXCEPT ![c] = "ACTIVE"]
          /\ targets' = [targets EXCEPT ![c] = T]
          /\ due' = [due EXCEPT ![c] = TRUE]
    /\ off' = FALSE
    /\ UNCHANGED <<error, failures, last, folded>>

StartCampaign ==
    /\ ~Busy /\ \A c \in Campaign : ~Active(c)
    /\ \E T \in SUBSET configured : InsertCampaign(T)
    /\ UNCHANGED <<operationVars, configured, able, halted, engineVars>>

\* set_broadcast_service_enabled(true): an operation that cannot be cancelled at
\* once makes the whole call fail.
EnableService ==
    /\ \A c \in Campaign : ~Active(c)
    /\ \A o \in Operation : operation[o] # "SENDING"
    /\ CancelAll({o \in Operation : Live(o)})
    /\ \E T \in SUBSET configured : InsertCampaign(T)
    /\ UNCHANGED <<configured, able, halted, engineVars>>

\* set_broadcast_service_enabled(false).
DisableService ==
    /\ campaign' = [c \in Campaign |-> IF Active(c) THEN "STOPPED" ELSE campaign[c]]
    /\ error' = [c \in Campaign |-> IF Active(c) THEN "NONE" ELSE error[c]]
    /\ CancelAll({o \in Operation : Live(o)})
    /\ off' = TRUE
    /\ UNCHANGED <<targets, due, failures, last, folded, configured, able, halted, engineVars>>

\* stop_broadcast_campaign: only an active campaign takes its cycle with it.
StopCampaign(c) ==
    /\ campaign[c] # "ABSENT"
    /\ IF Active(c)
         THEN StopFor(c, "NONE") /\ CancelAll({o \in Operation : of[o] = c /\ Live(o)})
         ELSE UNCHANGED <<campaignVars, operationVars>>
    /\ halted' = halted \cup {c}
    /\ UNCHANGED <<configured, able, off, engineVars>>

\* A single run, which may start between two cycles.
StartSingleRun ==
    /\ Creatable(configured)
    /\ InsertOperation(0)
    /\ off' = FALSE
    /\ UNCHANGED <<campaignVars, configured, able, halted, engineVars>>

CancelOperation(o) ==
    /\ operation[o] \in Running \cup Terminal
    /\ CancelAll({o})
    /\ UNCHANGED <<campaignVars, userVars, engineVars>>

\* Mutation: the last target goes like any other.
RemovableAlways(t) == TRUE

\* target_ids may not become empty (broadcast_campaigns_target_ids_check).
Removable(t) == ~\E c \in Campaign : Active(c) /\ targets[c] = {t}

\* invalidate_broadcast_target_configuration: the active campaign leaves t out,
\* and what waits for t in an open operation is cancelled.
TakeOut(t) ==
    /\ targets' = [c \in Campaign |-> IF Active(c) THEN targets[c] \ {t} ELSE targets[c]]
    /\ \E S \in SUBSET {o \in Operation : operation[o] = "OPEN"} : CancelAll(S)
    /\ UNCHANGED due

\* sync_broadcast_target_to_active_campaign: the active campaign takes t in and
\* is due at once.  A new row is nobody's target yet; an edited one is first
\* taken out of the open operations.
TakeIn(t) ==
    /\ targets' = [c \in Campaign |-> IF Active(c) THEN targets[c] \cup {t} ELSE targets[c]]
    /\ due' = [c \in Campaign |-> due[c] \/ Active(c)]
    /\ \E S \in SUBSET {o \in Operation : operation[o] = "OPEN"} :
          (t \notin configured => S = {}) /\ CancelAll(S)

\* A target is switched off or deleted, and the trigger runs; or it makes the
\* whole update fail.
RemoveTarget(t) ==
    /\ t \in configured /\ Removable(t)
    /\ configured' = configured \ {t}
    /\ TakeOut(t)
    /\ UNCHANGED <<campaign, error, failures, last, folded, able, off, halted, engineVars>>

\* A target is added, switched on or edited, and the trigger runs.  The quota
\* may refuse it.
SetTarget(t) ==
    /\ configured' = configured \cup {t}
    /\ TakeIn(t)
    /\ UNCHANGED <<campaign, error, failures, last, folded, able, off, halted, engineVars>>

\* invalidate_broadcast_material_configuration, of a material that stays: its
\* operations are cancelled, the next cycle is due.
Renew ==
    /\ due' = [c \in Campaign |-> due[c] \/ Active(c)]
    /\ error' = [c \in Campaign |-> IF Active(c) THEN "NONE" ELSE error[c]]
    /\ CancelAll({o \in Operation : Live(o)})

\* The material is edited, and the trigger runs.
ChangeMaterial ==
    /\ Renew
    /\ UNCHANGED <<campaign, targets, failures, last, folded, userVars, engineVars>>

\* The material is switched off or deleted.
DeactivateMaterial ==
    /\ able
    /\ able' = FALSE
    /\ campaign' = [c \in Campaign |-> IF Active(c) THEN "STOPPED" ELSE campaign[c]]
    /\ error' = [c \in Campaign |-> IF Active(c) THEN "MATERIAL_INACTIVE" ELSE error[c]]
    /\ CancelAll({o \in Operation : Live(o)})
    /\ UNCHANGED <<targets, due, failures, last, folded, configured, off, halted, engineVars>>

\* The account or its profile goes, with every operation; or the entitlement
\* expires, whose operations are cancelled when the lapse is processed.  The
\* campaign stays.
Withdraw ==
    /\ able' = FALSE
    /\ CancelAll({o \in Operation : Live(o)}) \/ (able /\ UNCHANGED operationVars)
    /\ UNCHANGED <<campaignVars, configured, off, halted, engineVars>>

Restore ==
    /\ ~able
    /\ able' = TRUE
    /\ UNCHANGED <<campaignVars, operationVars, configured, off, halted, engineVars>>

-----------------------------------------------------------------------------
(* Delivery, seen from here, and the retention job. *)

Send(o) ==
    /\ operation[o] = "OPEN" /\ ~cancelled[o] /\ able
    /\ operation' = [operation EXCEPT ![o] = "SENDING"]
    /\ UNCHANGED <<of, cancelled, campaignVars, userVars, engineVars>>

\* The send is over: a target is left, or it was the last one.
Sent(o) ==
    /\ operation[o] = "SENDING"
    /\ \E s \in Terminal \cup {"OPEN"} :
          /\ operation' = [operation EXCEPT ![o] = s]
          /\ cancelled' = [cancelled EXCEPT ![o] = @ /\ s = "OPEN"]
    /\ UNCHANGED <<of, campaignVars, userVars, engineVars>>

\* No target of the operation could be prepared.
Unprepared(o) ==
    /\ operation[o] = "OPEN"
    /\ operation' = [operation EXCEPT ![o] = "FAILED"]
    /\ UNCHANGED <<of, cancelled, campaignVars, userVars, engineVars>>

\* prune_expired_operational_data takes an operation whose targets are gone;
\* one with a stranded target outlives younger ones.
Prune(o) ==
    /\ operation[o] \in Terminal
    /\ operation' = [operation EXCEPT ![o] = "DELETED"]
    /\ UNCHANGED <<of, cancelled, campaignVars, userVars, engineVars>>

Next ==
    \/ \E i \in Instance : Pass(i) \/ Disturbed(i) \/ Crash(i)
    \/ \E c \in Campaign : ComesDue(c) \/ StopCampaign(c)
    \/ \E o \in Operation : CancelOperation(o) \/ Send(o) \/ Sent(o) \/ Unprepared(o) \/ Prune(o)
    \/ \E t \in Target : RemoveTarget(t) \/ SetTarget(t)
    \/ StartCampaign \/ EnableService \/ DisableService \/ StartSingleRun
    \/ ChangeMaterial \/ DeactivateMaterial \/ Withdraw \/ Restore

Spec == Init /\ [][Next]_vars

\* A scheduler always takes its next step, time passes, and not every call of
\* it fails for ever.
Fairness ==
    /\ \A i \in Instance :
          /\ WF_vars(Pass(i))
          /\ SF_vars(\E c \in Campaign : ClaimDue(i, c))
          /\ SF_vars(RunCycle(i) \/ RefuseCycle(i)) /\ SF_vars(Fail(i))
    /\ \A c \in Campaign : WF_vars(ComesDue(c))

FairSpec == Spec /\ Fairness

-----------------------------------------------------------------------------
(* Properties. *)

\* Once the user has switched the service off, nothing starts to be sent until
\* he starts something again, whatever a scheduler had claimed before.
DisabledStaysQuiet ==
    off => /\ \A c \in Campaign : ~Active(c)
           /\ \A o \in Operation : operation[o] = "OPEN" => cancelled[o]

\* A stopped campaign stays stopped and keeps its reason: a scheduler whose
\* cycle failed late does not blame a campaign the user stopped.
StoppedIsFinal ==
    [][\A c \in Campaign : campaign[c] = "STOPPED" =>
          campaign'[c] = "STOPPED" /\ error'[c] = error[c]]_vars

\* 20260901160000_broadcast_campaign_reconciliation.sql:16: no cycle is counted
\* twice as a consecutive failure, however many schedulers reconcile, ...
CountsAreRight == \A c \in Campaign : failures[c] = Cardinality(folded[c])

\* ... as long as the retention job has deleted none of the user's operations.
RowsKept == \A o \in Operation : operation[o] # "DELETED"
CountedOnce == RowsKept => CountsAreRight

\* 20260901150000_broadcast_campaigns.sql:277: an active campaign is not
\* stranded: it runs its next cycle, or stops.
NotStranded ==
    \A c \in Campaign :
        Active(c) ~> \/ ~Active(c)
                     \/ \E o \in Operation : of[o] = c /\ operation[o] \in Running
                     \/ \A o \in Operation : operation[o] # "ABSENT"

\* 20260910160000_automation_lifecycle_guards.sql:225: once the user has stopped a
\* campaign, whatever of its cycle has not started to be sent is cancelled.
StopCancels ==
    \A o \in Operation : of[o] \in halted => operation[o] # "OPEN" \/ cancelled[o]

\* 20260901160000_broadcast_campaign_reconciliation.sql:6: only repeated failures
\* of the delivery stop a campaign, not what its user cancelled or changed.
FailuresAreReal ==
    \A c \in Campaign : error[c] = "TOO_MANY_CONSECUTIVE_FAILURES" =>
        \E o \in folded[c] : operation[o] # "CANCELLED"

\* 20260910160000_automation_lifecycle_guards.sql:307: a target can be removed
\* at any time; the campaign of which it is the last one stops.
RemovalTakesEffect == \A t \in configured : Removable(t)
=============================================================================
