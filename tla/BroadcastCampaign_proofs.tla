---------------------- MODULE BroadcastCampaign_proofs ----------------------
(***************************************************************************)
(* Proofs about BroadcastCampaign, for every number of engine processes,   *)
(* campaigns, operations and targets and every failure threshold.          *)
(***************************************************************************)
EXTENDS BroadcastCampaign, FiniteSetTheorems, TLAPS

\* An active campaign has failures left, one that does not exist has none.
FailuresBelow ==
    \A c \in Campaign :
        /\ Active(c) => failures[c] < Threshold
        /\ campaign[c] = "ABSENT" => failures[c] = 0

\* With the service off, not even a running send leaves anything to send.
Quiet ==
    off => /\ \A c \in Campaign : ~Active(c)
           /\ \A o \in Operation : Live(o) => cancelled[o]

\* What was counted was counted before the operation that was counted last.
FoldedUpToLast == \A c \in Campaign : \A o \in folded[c] : o <= last[c]

\* A scheduler that is past its claim has one.
Claimed == \A i \in Instance : pc[i] \in {"CYCLE", "FAIL"} => todo[i] \in Campaign

CampaignInv == TypeOK /\ FailuresBelow /\ Quiet /\ Claimed

CountInv == RowsKept => CountsAreRight /\ FoldedUpToLast

\* The status of a campaign takes one of the steps of its life in this step.
Lives(c) ==
    \/ campaign'[c] = campaign[c] /\ (Active(c) \/ error'[c] = error[c])
    \/ campaign[c] = "ABSENT" /\ campaign'[c] = "ACTIVE"
    \/ campaign[c] = "ACTIVE" /\ campaign'[c] = "STOPPED"

-----------------------------------------------------------------------------
(* What the operators that several actions share do. *)

LEMMA CancelAllEffect ==
    ASSUME TypeOK, NEW S \in SUBSET Operation, CancelAll(S)
    PROVE  /\ operation' \in [Operation -> {"ABSENT", "DELETED"} \cup Running \cup Terminal]
           /\ cancelled' \in [Operation -> BOOLEAN]
           /\ of' \in [Operation -> 0..MaxCampaigns]
           /\ \A o \in Operation : operation'[o] \in Running =>
                 operation[o] \in Running /\ (o \in S \/ cancelled[o] => cancelled'[o])
           /\ \A o \in Operation : operation'[o] = "DELETED" <=> operation[o] = "DELETED"
<1> USE DEF TypeOK, CancelAll, Running, Terminal
<1>1. PICK open \in {"CANCELLED", "FAILED"}, over \in {"CANCELLED", "SUCCEEDED"} :
         operation' = [o \in Operation |->
              CASE o \in S /\ operation[o] = "OPEN" -> open
                [] o \in S /\ operation[o] = "SUCCEEDED" -> over
                [] OTHER -> operation[o]]
  OBVIOUS
<1>2. ASSUME NEW o \in Operation
      PROVE  operation'[o] = IF o \in S /\ operation[o] = "OPEN" THEN open
                             ELSE IF o \in S /\ operation[o] = "SUCCEEDED" THEN over
                             ELSE operation[o]
  BY <1>1
<1>3. operation' \in [Operation -> {"ABSENT", "DELETED"} \cup Running \cup Terminal]
  <2>1. \A o \in Operation : operation'[o] \in {"ABSENT", "DELETED"} \cup Running \cup Terminal
    BY <1>2
  <2> QED  BY <2>1, <1>1
<1>4. \A o \in Operation : cancelled'[o] = (IF o \in S THEN operation[o] = "SENDING" ELSE cancelled[o])
  OBVIOUS
<1>5. cancelled' \in [Operation -> BOOLEAN]
  BY <1>4
<1>6. ASSUME NEW o \in Operation, operation'[o] \in Running
      PROVE  operation[o] \in Running /\ (o \in S \/ cancelled[o] => cancelled'[o])
  BY <1>2, <1>4, <1>6
<1>7. \A o \in Operation : operation'[o] = "DELETED" <=> operation[o] = "DELETED"
  BY <1>2
<1> QED  BY <1>3, <1>5, <1>6, <1>7

\* A campaign that is folded once more is counted once more, or from zero.
LEMMA FoldEffect ==
    ASSUME TypeOK, FailuresBelow, NEW c \in Campaign, Active(c), Fold(c)
    PROVE  /\ \E o \in Fresh(c) : o \in Operation
                 /\ last' = [last EXCEPT ![c] = o]
                 /\ \/ /\ failures' = [failures EXCEPT ![c] = failures[c] + 1]
                       /\ folded' = [folded EXCEPT ![c] = folded[c] \cup {o}]
                    \/ failures' = [failures EXCEPT ![c] = 0] /\ folded' = [folded EXCEPT ![c] = {}]
           /\ campaign' \in [Campaign -> {"ABSENT", "ACTIVE", "STOPPED"}] /\ error' \in [Campaign -> Reason]
           /\ failures' \in [Campaign -> 0..Threshold] /\ last' \in [Campaign -> 0..MaxOperations]
           /\ folded' \in [Campaign -> SUBSET Operation]
           /\ FailuresBelow' /\ UNCHANGED <<targets, due>>
           /\ \A d \in Campaign : Lives(d)
           /\ \A d \in Campaign : campaign'[d] # "ABSENT" => targets'[d] # {}
<1> USE ThresholdAssumption, BoundAssumption DEF TypeOK, FailuresBelow, Active, Lives
<1>1. PICK o \in Operation : LET failed == operation[o] # "SUCCEEDED"
            n == IF failed THEN failures[c] + 1 ELSE 0
        IN /\ IsLatest(Fresh(c), o)
           /\ last' = [last EXCEPT ![c] = o]
           /\ failures' = [failures EXCEPT ![c] = n]
           /\ folded' = [folded EXCEPT ![c] = IF failed THEN @ \cup {o} ELSE {}]
           /\ IF failed /\ TooMany(n)
                THEN /\ campaign' = [campaign EXCEPT ![c] = "STOPPED"]
                     /\ error' = [error EXCEPT ![c] = "TOO_MANY_CONSECUTIVE_FAILURES"]
                ELSE UNCHANGED <<campaign, error>>
           /\ UNCHANGED <<targets, due>>
  BY DEF Fold
<1>2. o \in Fresh(c) /\ o \in 1..MaxOperations
  BY <1>1 DEF IsLatest, Operation
<1>3. /\ last' = [last EXCEPT ![c] = o]
      /\ \/ /\ failures' = [failures EXCEPT ![c] = failures[c] + 1]
            /\ folded' = [folded EXCEPT ![c] = folded[c] \cup {o}]
         \/ failures' = [failures EXCEPT ![c] = 0] /\ folded' = [folded EXCEPT ![c] = {}]
  BY <1>1
<1>4. failures[c] + 1 \in 0..Threshold /\ failures[c] \in Nat
  OBVIOUS
<1>5. failures' \in [Campaign -> 0..Threshold]
  BY <1>3, <1>4
<1>6. last' \in [Campaign -> 0..MaxOperations] /\ folded' \in [Campaign -> SUBSET Operation]
  BY <1>2, <1>3
<1>7. campaign' \in [Campaign -> {"ABSENT", "ACTIVE", "STOPPED"}] /\ error' \in [Campaign -> Reason]
  BY <1>1 DEF Reason
<1>8. FailuresBelow'
  BY <1>1, <1>4 DEF TooMany
<1>9. \A d \in Campaign : Lives(d)
  BY <1>1
<1>10. \A d \in Campaign : campaign'[d] # "ABSENT" => targets'[d] # {}
  <2>1. campaign' = [campaign EXCEPT ![c] = "STOPPED"] \/ campaign' = campaign
    BY <1>1
  <2>2. targets' = targets
    BY <1>1
  <2> QED  BY <2>1, <2>2
<1> QED  BY <1>1, <1>2, <1>3, <1>5, <1>6, <1>7, <1>8, <1>9, <1>10

\* StopFor stops an active campaign, for one of the reasons.
LEMMA StopForEffect ==
    ASSUME TypeOK, FailuresBelow, NEW c \in Campaign, Active(c), NEW r \in Reason, StopFor(c, r)
    PROVE  /\ campaign' \in [Campaign -> {"ABSENT", "ACTIVE", "STOPPED"}] /\ error' \in [Campaign -> Reason]
           /\ FailuresBelow' /\ UNCHANGED <<targets, due, failures, last, folded>>
           /\ \A d \in Campaign : Lives(d) /\ (Active(d)' => Active(d))
           /\ \A d \in Campaign : campaign'[d] # "ABSENT" => targets'[d] # {}
BY DEF TypeOK, FailuresBelow, Active, Lives, StopFor

\* The new campaign starts from zero, and switches the service on.
LEMMA InsertCampaignEffect ==
    ASSUME TypeOK, FailuresBelow, NEW T \in SUBSET configured, InsertCampaign(T)
    PROVE  /\ campaign' \in [Campaign -> {"ABSENT", "ACTIVE", "STOPPED"}]
           /\ targets' \in [Campaign -> SUBSET Target] /\ due' \in [Campaign -> BOOLEAN]
           /\ FailuresBelow' /\ UNCHANGED <<error, failures, last, folded>> /\ off' = FALSE
           /\ \A d \in Campaign : Lives(d)
           /\ \A d \in Campaign : campaign'[d] # "ABSENT" => targets'[d] # {}
BY ThresholdAssumption DEF TypeOK, FailuresBelow, Active, Lives, InsertCampaign, IsNextRow

LEMMA InsertOperationEffect ==
    ASSUME TypeOK, NEW c \in 0..MaxCampaigns, InsertOperation(c)
    PROVE  /\ operation' \in [Operation -> {"ABSENT", "DELETED"} \cup Running \cup Terminal]
           /\ of' \in [Operation -> 0..MaxCampaigns] /\ cancelled' = cancelled
           /\ \A o \in Operation : operation'[o] = "DELETED" <=> operation[o] = "DELETED"
<1>1. PICK n \in Operation :
         /\ IsNextRow(operation, n) /\ operation' = [operation EXCEPT ![n] = "OPEN"]
         /\ of' = [of EXCEPT ![n] = c] /\ cancelled' = cancelled
  BY DEF InsertOperation
<1>2. operation[n] = "ABSENT"
  BY <1>1 DEF IsNextRow
<1> QED  BY <1>1, <1>2 DEF TypeOK, Running, Terminal

-----------------------------------------------------------------------------
(* The invariant. *)

LEMMA InitInv == Init => CampaignInv /\ CountInv
<1> SUFFICES ASSUME Init PROVE CampaignInv /\ CountInv
  OBVIOUS
<1> USE ThresholdAssumption, BoundAssumption DEF Init
<1>1. TypeOK
  <2>1. 0 \in 0..Threshold /\ 0 \in 0..MaxOperations /\ 0 \in 0..MaxCampaigns /\ {} \in SUBSET Operation
    OBVIOUS
  <2> QED  BY <2>1 DEF TypeOK, Running, Terminal, Reason
<1>2. FailuresBelow /\ Quiet /\ Claimed /\ FoldedUpToLast /\ RowsKept
  BY DEF FailuresBelow, Quiet, Claimed, FoldedUpToLast, RowsKept, Active
<1>3. CountsAreRight
  BY FS_EmptySet DEF CountsAreRight
<1> QED  BY <1>1, <1>2, <1>3 DEF CampaignInv, CountInv

\* The scheduler of an instance.
LEMMA PassInv ==
    ASSUME CampaignInv, NEW i \in Instance, Pass(i) \/ Disturbed(i) \/ Crash(i)
    PROVE  CampaignInv' /\ \A d \in Campaign : Lives(d)
<1> USE BoundAssumption DEF CampaignInv, campaignVars, operationVars, userVars
<1> DEFINE Still == UNCHANGED <<campaign, error, failures>>
<1>0. ASSUME Still PROVE FailuresBelow' /\ \A d \in Campaign : Lives(d) /\ (Active(d)' => Active(d))
  BY <1>0 DEF FailuresBelow, Active, Lives
<1>1. CASE Reconcile(i)
  <2>1. UNCHANGED <<operationVars, userVars, todo>> /\ Goto(i, "DUE")
    BY <1>1 DEF Reconcile
  <2>2. CASE \E c \in Campaign : Active(c) /\ Fold(c)
    <3>1. PICK c \in Campaign : Active(c) /\ Fold(c)
      BY <2>2
    <3>2. TypeOK' /\ Claimed' /\ FailuresBelow' /\ \A d \in Campaign : Lives(d)
      BY <2>1, <3>1, FoldEffect DEF TypeOK, Goto, Claimed
    <3>3. Quiet'
      BY <2>1, <3>1 DEF Quiet, Live
    <3> QED  BY <3>2, <3>3
  <2>3. CASE UNCHANGED campaignVars
    <3>1. TypeOK' /\ Claimed'
      BY <2>1, <2>3 DEF TypeOK, Goto, Claimed
    <3>2. Quiet'
      BY <2>1, <2>3 DEF Quiet, Live, Active
    <3> QED  BY <1>0, <2>3, <3>1, <3>2
  <2> QED  BY <1>1, <2>2, <2>3 DEF Reconcile
<1>2. CASE ReconcileError(i) \/ NothingDue(i) \/ SkipCycle(i) \/ RefuseCycle(i) \/ CycleError(i) \/ FailLost(i) \/ Crash(i)
  <2>1. UNCHANGED <<campaignVars, operationVars, userVars>> /\ TypeOK' /\ Claimed'
    BY <1>2 DEF TypeOK, Claimed, ReconcileError, NothingDue, SkipCycle, RefuseCycle, CycleError, FailLost, Crash, Done, Goto
  <2>2. Quiet'
    BY <2>1 DEF Quiet, Live, Active
  <2> QED  BY <1>0, <2>1, <2>2
<1>3. CASE (\E c \in Campaign : ClaimDue(i, c)) \/ DueError(i)
  <2>1. UNCHANGED <<campaign, error, targets, failures, last, folded, operationVars, userVars>>
    BY <1>3 DEF ClaimDue, DueError
  <2>2. TypeOK' /\ Claimed'
    <3>1. CASE \E c \in Campaign : ClaimDue(i, c)
      <4>1. PICK c \in Campaign : ClaimDue(i, c)
        BY <3>1
      <4>2. c \in 0..MaxCampaigns
        BY DEF Campaign
      <4> QED  BY <2>1, <4>1, <4>2 DEF TypeOK, Claimed, ClaimDue, Goto
    <3>2. CASE DueError(i)
      BY <2>1, <3>2 DEF TypeOK, Claimed, DueError, Goto
    <3> QED  BY <1>3, <3>1, <3>2
  <2>3. Quiet'
    BY <2>1 DEF Quiet, Live, Active
  <2> QED  BY <1>0, <2>1, <2>2, <2>3
<1>4. CASE RunCycle(i)
  <2>1. todo[i] \in 0..MaxCampaigns /\ InsertOperation(todo[i])
    BY <1>4 DEF RunCycle, TypeOK
  <2>2. TypeOK' /\ Claimed'
    BY <1>4, <2>1, InsertOperationEffect DEF TypeOK, Claimed, RunCycle, Done, Goto
  <2>3. ~off
    <3>1. todo[i] \in Campaign
      BY <1>4 DEF RunCycle, Claimed
    <3> QED  BY <1>4, <3>1 DEF RunCycle, Admitted, Quiet
  <2>4. Quiet'
    BY <1>4, <2>3 DEF RunCycle, Quiet
  <2> QED  BY <1>0, <1>4, <2>2, <2>4 DEF RunCycle
<1>5. CASE Fail(i)
  <2>1. UNCHANGED <<operationVars, userVars>> /\ Done(i)
    BY <1>5 DEF Fail
  <2>2. CASE UNCHANGED campaignVars
    <3>1. TypeOK' /\ Claimed'
      BY <2>1, <2>2 DEF TypeOK, Claimed, Done, Goto
    <3>2. Quiet'
      BY <2>1, <2>2 DEF Quiet, Live, Active
    <3> QED  BY <1>0, <2>2, <3>1, <3>2
  <2>3. CASE Fails(todo[i]) /\ StopFor(todo[i], "CAMPAIGN_CYCLE_FAILED")
    <3>1. todo[i] \in Campaign /\ Active(todo[i])
      BY <1>5, <2>3 DEF Fail, Fails, Claimed
    <3>2. TypeOK' /\ Claimed' /\ FailuresBelow' /\ \A d \in Campaign : Lives(d) /\ (Active(d)' => Active(d))
      BY <2>1, <2>3, <3>1, StopForEffect DEF TypeOK, Claimed, Done, Goto, Reason
    <3>3. Quiet'
      BY <2>1, <3>2 DEF Quiet, Live
    <3> QED  BY <3>2, <3>3
  <2> QED  BY <1>5, <2>2, <2>3 DEF Fail
<1> QED  BY <1>1, <1>2, <1>3, <1>4, <1>5 DEF Pass, Disturbed

\* The user and the clock, as far as they do not insert a campaign.
LEMMA UserInv ==
    ASSUME CampaignInv, UNCHANGED <<failures, last, folded, engineVars>>,
           \/ \E c \in Campaign : ComesDue(c) \/ StopCampaign(c)
           \/ \E t \in Target : RemoveTarget(t) \/ SetTarget(t)
           \/ DisableService \/ ChangeMaterial \/ DeactivateMaterial \/ Withdraw \/ Restore
    PROVE  CampaignInv' /\ \A d \in Campaign : Lives(d)
<1> USE DEF CampaignInv, campaignVars, operationVars, userVars, engineVars
<1> DEFINE Kept == /\ \A d \in Campaign : Lives(d) /\ (Active(d)' => Active(d))
                   /\ \A d \in Campaign : campaign'[d] = "ABSENT" => campaign[d] = "ABSENT"
<1>0. ASSUME TypeOK', Kept, off' = off,
             \A o \in Operation : Live(o)' => Live(o) /\ (cancelled[o] => cancelled'[o])
      PROVE  CampaignInv'
  <2>1. FailuresBelow'
    BY <1>0 DEF FailuresBelow
  <2>2. Quiet'
    BY <1>0 DEF Quiet
  <2>3. Claimed'
    BY DEF Claimed
  <2> QED  BY <1>0, <2>1, <2>2, <2>3
<1>1. ASSUME NEW c \in Campaign, ComesDue(c) PROVE CampaignInv' /\ \A d \in Campaign : Lives(d)
  <2>1. TypeOK' /\ Kept /\ off' = off /\ UNCHANGED <<operation, cancelled>>
    BY <1>1 DEF TypeOK, ComesDue, Lives, Active
  <2> QED  BY <1>0, <2>1 DEF Live
<1>2. ASSUME NEW c \in Campaign, StopCampaign(c) PROVE CampaignInv' /\ \A d \in Campaign : Lives(d)
  <2>1. CASE Active(c)
    <3>1. CancelAll({o \in Operation : of[o] = c /\ Live(o)})
      BY <1>2, <2>1 DEF StopCampaign
    <3>2. TypeOK' /\ Kept /\ off' = off
      BY <1>2, <2>1, <3>1, CancelAllEffect, StopForEffect DEF TypeOK, StopCampaign, StopFor, Lives, Active, Reason
    <3> QED  BY <1>0, <3>1, <3>2, CancelAllEffect DEF Live
  <2>2. CASE ~Active(c)
    <3>1. TypeOK' /\ Kept /\ off' = off /\ UNCHANGED <<operation, cancelled>>
      BY <1>2, <2>2 DEF TypeOK, StopCampaign, Lives, Active
    <3> QED  BY <1>0, <3>1 DEF Live
  <2> QED  BY <2>1, <2>2
<1>3. ASSUME NEW t \in Target, RemoveTarget(t) \/ SetTarget(t) PROVE CampaignInv' /\ \A d \in Campaign : Lives(d)
  <2>1. PICK S \in SUBSET Operation : CancelAll(S)
    BY <1>3 DEF RemoveTarget, SetTarget, TakeOut, TakeIn
  <2>2. UNCHANGED <<campaign, error, able, off, halted>> /\ Kept
    BY <1>3 DEF RemoveTarget, SetTarget, TakeOut, TakeIn, Lives, Active
  <2>3. /\ targets' \in [Campaign -> SUBSET Target] /\ due' \in [Campaign -> BOOLEAN]
        /\ configured' \subseteq Target
        /\ \A d \in Campaign : campaign'[d] # "ABSENT" => targets'[d] # {}
    <3>1. CASE RemoveTarget(t)
      BY <3>1 DEF TypeOK, RemoveTarget, TakeOut, Removable, Active
    <3>2. CASE SetTarget(t)
      BY <3>2 DEF TypeOK, SetTarget, TakeIn
    <3> QED  BY <1>3, <3>1, <3>2
  <2>4. TypeOK'
    BY <2>1, <2>2, <2>3, CancelAllEffect DEF TypeOK
  <2> QED  BY <1>0, <2>1, <2>4, <2>2, <2>3, CancelAllEffect DEF Live
<1>4. CASE ChangeMaterial \/ DeactivateMaterial
  <2>1. CancelAll({o \in Operation : Live(o)})
    BY <1>4 DEF ChangeMaterial, Renew, DeactivateMaterial
  <2>2. CASE ChangeMaterial
    <3>1. Kept /\ off' = off
      BY <2>2 DEF TypeOK, ChangeMaterial, Renew, Lives, Active
    <3>2. /\ due' \in [Campaign -> BOOLEAN] /\ error' \in [Campaign -> Reason]
          /\ UNCHANGED <<campaign, targets, failures, last, folded>>
          /\ UNCHANGED <<configured, able, off, halted, pc, todo>>
      BY <2>2 DEF TypeOK, ChangeMaterial, Renew, Reason
    <3>3. TypeOK'
      <4>1. /\ operation' \in [Operation -> {"ABSENT", "DELETED"} \cup Running \cup Terminal]
            /\ cancelled' \in [Operation -> BOOLEAN] /\ of' \in [Operation -> 0..MaxCampaigns]
        BY <2>1, CancelAllEffect
      <4> QED  BY <3>2, <4>1 DEF TypeOK
    <3> QED  BY <1>0, <2>1, <3>1, <3>3, CancelAllEffect DEF Live
  <2>3. CASE DeactivateMaterial
    <3>1. Kept /\ off' = off
      BY <2>3 DEF TypeOK, DeactivateMaterial, Lives, Active
    <3>2. /\ campaign' \in [Campaign -> {"ABSENT", "ACTIVE", "STOPPED"}] /\ error' \in [Campaign -> Reason]
          /\ \A d \in Campaign : campaign'[d] # "ABSENT" => targets'[d] # {}
          /\ UNCHANGED <<targets, due, configured, off, halted>> /\ able' \in BOOLEAN
      BY <2>3 DEF TypeOK, DeactivateMaterial, Active, Reason
    <3>3. TypeOK'
      <4>1. /\ operation' \in [Operation -> {"ABSENT", "DELETED"} \cup Running \cup Terminal]
            /\ cancelled' \in [Operation -> BOOLEAN] /\ of' \in [Operation -> 0..MaxCampaigns]
        BY <2>1, CancelAllEffect
      <4> QED  BY <3>2, <4>1 DEF TypeOK
    <3> QED  BY <1>0, <2>1, <3>1, <3>3, CancelAllEffect DEF Live
  <2> QED  BY <1>4, <2>2, <2>3
<1>5. CASE DisableService
  <2>1. CancelAll({o \in Operation : Live(o)})
    BY <1>5 DEF DisableService
  <2>2. TypeOK' /\ Kept /\ \A d \in Campaign : ~Active(d)'
    BY <1>5, <2>1, CancelAllEffect DEF TypeOK, DisableService, Lives, Active, Reason
  <2>3. Quiet'
    BY <2>1, <2>2, CancelAllEffect DEF Quiet, Live
  <2>4. FailuresBelow' /\ Claimed'
    BY <2>2 DEF FailuresBelow, Claimed
  <2> QED  BY <2>2, <2>3, <2>4
<1>6. CASE Withdraw
  <2>1. UNCHANGED <<campaignVars, off>> /\ Kept
    BY <1>6 DEF Withdraw, Lives, Active
  <2>2. CASE CancelAll({o \in Operation : Live(o)})
    <3>1. TypeOK'
      BY <1>6, <2>2, CancelAllEffect DEF TypeOK, Withdraw
    <3> QED  BY <1>0, <2>1, <2>2, <3>1, CancelAllEffect DEF Live
  <2>3. CASE UNCHANGED operationVars
    <3>1. TypeOK'
      BY <1>6, <2>3 DEF TypeOK, Withdraw
    <3> QED  BY <1>0, <2>1, <2>3, <3>1 DEF Live
  <2> QED  BY <1>6, <2>2, <2>3 DEF Withdraw
<1>7. CASE Restore
  <2>1. TypeOK' /\ Kept /\ off' = off /\ UNCHANGED <<operation, cancelled>>
    BY <1>7 DEF TypeOK, Restore, Lives, Active
  <2> QED  BY <1>0, <2>1 DEF Live
<1> QED  BY <1>1, <1>2, <1>3, <1>4, <1>5, <1>6, <1>7

\* Whatever starts something, and delivery and retention.
LEMMA WorkInv ==
    ASSUME CampaignInv, UNCHANGED <<failures, last, folded, engineVars>>,
           \/ \E o \in Operation : CancelOperation(o) \/ Send(o) \/ Sent(o) \/ Unprepared(o) \/ Prune(o)
           \/ StartCampaign \/ EnableService \/ StartSingleRun
    PROVE  CampaignInv' /\ \A d \in Campaign : Lives(d)
<1> USE DEF CampaignInv, campaignVars, operationVars, userVars, engineVars
<1>0. Claimed'
  BY DEF Claimed
<1>1. ASSUME NEW o \in Operation, CancelOperation(o) \/ Send(o) \/ Sent(o) \/ Unprepared(o) \/ Prune(o)
      PROVE  CampaignInv' /\ \A d \in Campaign : Lives(d)
  <2>1. UNCHANGED <<campaignVars, userVars>> /\ FailuresBelow' /\ \A d \in Campaign : Lives(d)
    BY <1>1 DEF CancelOperation, Send, Sent, Unprepared, Prune, FailuresBelow, Active, Lives
  <2>2. CASE CancelOperation(o)
    <3>1. CancelAll({o})
      BY <2>2 DEF CancelOperation
    <3>2. TypeOK'
      BY <2>1, <3>1, CancelAllEffect DEF TypeOK
    <3>3. Quiet'
      BY <2>1, <3>1, CancelAllEffect DEF Quiet, Live, Active
    <3> QED  BY <1>0, <2>1, <3>2, <3>3
  <2>3. CASE Send(o)
    <3>1. TypeOK' /\ Quiet'
      BY <2>1, <2>3 DEF Send, TypeOK, Quiet, Live, Active, Running, Terminal
    <3> QED  BY <1>0, <2>1, <3>1
  <2>4. CASE Sent(o)
    <3>1. TypeOK' /\ Quiet'
      BY <2>1, <2>4 DEF Sent, TypeOK, Quiet, Live, Active, Running, Terminal
    <3> QED  BY <1>0, <2>1, <3>1
  <2>5. CASE Unprepared(o) \/ Prune(o)
    <3>1. TypeOK' /\ Quiet'
      BY <2>1, <2>5 DEF Unprepared, Prune, TypeOK, Quiet, Live, Active, Running, Terminal
    <3> QED  BY <1>0, <2>1, <3>1
  <2> QED  BY <1>1, <2>2, <2>3, <2>4, <2>5
<1>2. CASE StartCampaign
  <2>1. PICK T \in SUBSET configured : InsertCampaign(T)
    BY <1>2 DEF StartCampaign
  <2>2. TypeOK' /\ FailuresBelow' /\ \A d \in Campaign : Lives(d)
    BY <1>2, <2>1, InsertCampaignEffect DEF TypeOK, StartCampaign
  <2>3. Quiet'
    BY <2>1, InsertCampaignEffect DEF Quiet
  <2> QED  BY <1>0, <2>2, <2>3
<1>3. CASE EnableService
  <2>1. PICK T \in SUBSET configured : InsertCampaign(T)
    BY <1>3 DEF EnableService
  <2>2. CancelAll({o \in Operation : Live(o)})
    BY <1>3 DEF EnableService
  <2>3. TypeOK' /\ FailuresBelow' /\ \A d \in Campaign : Lives(d)
    BY <1>3, <2>1, <2>2, InsertCampaignEffect, CancelAllEffect DEF TypeOK, EnableService
  <2>4. Quiet'
    BY <2>1, InsertCampaignEffect DEF Quiet
  <2> QED  BY <1>0, <2>3, <2>4
<1>4. CASE StartSingleRun
  <2>1. InsertOperation(0) /\ 0 \in 0..MaxCampaigns
    BY <1>4, BoundAssumption DEF StartSingleRun
  <2>2. TypeOK'
    BY <1>4, <2>1, InsertOperationEffect DEF TypeOK, StartSingleRun
  <2>3. FailuresBelow' /\ Quiet' /\ \A d \in Campaign : Lives(d)
    BY <1>4 DEF StartSingleRun, FailuresBelow, Quiet, Active, Lives
  <2> QED  BY <1>0, <2>2, <2>3
<1> QED  BY <1>1, <1>2, <1>3, <1>4

\* Which steps leave the counters, and the scheduler, alone.
LEMMA StepKinds ==
    ASSUME Next
    PROVE  \/ \E i \in Instance : Pass(i) \/ Disturbed(i) \/ Crash(i)
           \/ /\ UNCHANGED <<failures, last, folded, engineVars>>
              /\ \/ \E c \in Campaign : ComesDue(c) \/ StopCampaign(c)
                 \/ \E t \in Target : RemoveTarget(t) \/ SetTarget(t)
                 \/ DisableService \/ ChangeMaterial \/ DeactivateMaterial \/ Withdraw \/ Restore
           \/ /\ UNCHANGED <<failures, last, folded, engineVars>>
              /\ \/ \E o \in Operation : CancelOperation(o) \/ Send(o) \/ Sent(o) \/ Unprepared(o) \/ Prune(o)
                 \/ StartCampaign \/ EnableService \/ StartSingleRun
<1>1. ASSUME NEW c \in Campaign, ComesDue(c) \/ StopCampaign(c)
      PROVE  UNCHANGED <<failures, last, folded, engineVars>>
  BY <1>1 DEF ComesDue, StopCampaign, StopFor, campaignVars, engineVars
<1>2. ASSUME NEW t \in Target, RemoveTarget(t) \/ SetTarget(t)
      PROVE  UNCHANGED <<failures, last, folded, engineVars>>
  BY <1>2 DEF RemoveTarget, SetTarget, TakeOut, TakeIn
<1>3. ASSUME DisableService \/ ChangeMaterial \/ DeactivateMaterial \/ Withdraw \/ Restore
      PROVE  UNCHANGED <<failures, last, folded, engineVars>>
  BY <1>3 DEF DisableService, ChangeMaterial, Renew, DeactivateMaterial, Withdraw, Restore, campaignVars
<1>4. ASSUME NEW o \in Operation, CancelOperation(o) \/ Send(o) \/ Sent(o) \/ Unprepared(o) \/ Prune(o)
      PROVE  UNCHANGED <<failures, last, folded, engineVars>>
  BY <1>4 DEF CancelOperation, Send, Sent, Unprepared, Prune, campaignVars
<1>5. ASSUME StartCampaign \/ EnableService \/ StartSingleRun
      PROVE  UNCHANGED <<failures, last, folded, engineVars>>
  BY <1>5 DEF StartCampaign, EnableService, StartSingleRun, InsertCampaign, campaignVars
<1> QED  BY <1>1, <1>2, <1>3, <1>4, <1>5 DEF Next

LEMMA StepInv ==
    ASSUME CampaignInv, [Next]_vars
    PROVE  CampaignInv' /\ \A d \in Campaign : Lives(d)
<1>1. CASE Next
  BY <1>1, StepKinds, PassInv, UserInv, WorkInv
<1>2. CASE UNCHANGED vars
  <2>1. TypeOK'
    BY <1>2 DEF CampaignInv, TypeOK, vars, campaignVars, operationVars, userVars, engineVars
  <2>2. FailuresBelow' /\ Quiet' /\ Claimed' /\ \A d \in Campaign : Lives(d)
    BY <1>2 DEF CampaignInv, FailuresBelow, Quiet, Claimed, Active, Live, Lives, vars, campaignVars,
                operationVars, userVars, engineVars
  <2> QED  BY <2>1, <2>2 DEF CampaignInv
<1> QED  BY <1>1, <1>2

-----------------------------------------------------------------------------
(* The theorems. *)

THEOREM CampaignInvariant == Spec => []CampaignInv
<1>1. Init => CampaignInv
  BY InitInv
<1>2. CampaignInv /\ [Next]_vars => CampaignInv'
  BY StepInv
<1> QED  BY <1>1, <1>2, PTL DEF Spec

\* Type correctness, the bound on the failures of a campaign included.
THEOREM CampaignTypeOK == Spec => []TypeOK
<1>1. CampaignInv => TypeOK
  BY DEF CampaignInv
<1> QED  BY <1>1, CampaignInvariant, PTL

\* A service that was switched off sends nothing, whatever was claimed before.
THEOREM CampaignDisabledStaysQuiet == Spec => []DisabledStaysQuiet
<1>1. CampaignInv => DisabledStaysQuiet
  BY DEF CampaignInv, Quiet, DisabledStaysQuiet, Live, Running
<1> QED  BY <1>1, CampaignInvariant, PTL

\* No scheduler and no edit touches a campaign that is stopped.
THEOREM CampaignStoppedIsFinal == Spec => StoppedIsFinal
<1>1. CampaignInv /\ [Next]_vars =>
        [\A c \in Campaign : campaign[c] = "STOPPED" => campaign'[c] = "STOPPED" /\ error'[c] = error[c]]_vars
  <2> SUFFICES ASSUME CampaignInv, [Next]_vars, NEW c \in Campaign, campaign[c] = "STOPPED"
               PROVE  campaign'[c] = "STOPPED" /\ error'[c] = error[c]
    OBVIOUS
  <2> QED  BY StepInv DEF Lives, Active
<1> QED  BY <1>1, CampaignInvariant, PTL DEF Spec, StoppedIsFinal

-----------------------------------------------------------------------------
(* The failure count, when no operation is deleted. *)

\* A row that is deleted does not come back.
LEMMA KeptStep ==
    ASSUME TypeOK, RowsKept', Next
    PROVE  RowsKept
<1> USE DEF RowsKept, campaignVars, operationVars, userVars, engineVars
<1>1. ASSUME NEW i \in Instance, Pass(i) \/ Disturbed(i) \/ Crash(i) PROVE RowsKept
  <2>1. CASE RunCycle(i)
    <3>1. InsertOperation(todo[i]) /\ todo[i] \in 0..MaxCampaigns
      BY <2>1 DEF RunCycle, TypeOK
    <3> QED  BY <3>1, InsertOperationEffect
  <2>2. CASE ~RunCycle(i)
    <3>1. operation' = operation
      BY <1>1, <2>2 DEF Pass, Disturbed, Crash, Reconcile, ReconcileError, ClaimDue, NothingDue, DueError,
                        SkipCycle, RefuseCycle, CycleError, Fail, FailLost
    <3> QED  BY <3>1
  <2> QED  BY <2>1, <2>2
<1>2. ASSUME NEW c \in Campaign, ComesDue(c) \/ StopCampaign(c) PROVE RowsKept
  <2>1. operation' = operation \/ CancelAll({o \in Operation : of[o] = c /\ Live(o)})
    BY <1>2 DEF ComesDue, StopCampaign
  <2> QED  BY <2>1, CancelAllEffect
<1>3. ASSUME NEW o \in Operation, CancelOperation(o) \/ Send(o) \/ Sent(o) \/ Unprepared(o) \/ Prune(o)
      PROVE  RowsKept
  <2>1. CASE CancelOperation(o)
    BY <2>1, CancelAllEffect DEF CancelOperation
  <2>2. CASE Send(o) \/ Sent(o) \/ Unprepared(o)
    BY <2>2 DEF Send, Sent, Unprepared, Terminal, TypeOK
  <2>3. CASE Prune(o)
    BY <2>3 DEF Prune, TypeOK
  <2> QED  BY <1>3, <2>1, <2>2, <2>3
<1>4. ASSUME NEW t \in Target, RemoveTarget(t) \/ SetTarget(t) PROVE RowsKept
  <2>1. PICK S \in SUBSET Operation : CancelAll(S)
    BY <1>4 DEF RemoveTarget, SetTarget, TakeOut, TakeIn
  <2> QED  BY <2>1, CancelAllEffect
<1>5. CASE StartCampaign \/ Restore
  BY <1>5 DEF StartCampaign, Restore
<1>6. CASE EnableService \/ DisableService \/ ChangeMaterial \/ DeactivateMaterial \/ Withdraw
  <2>1. operation' = operation \/ CancelAll({o \in Operation : Live(o)})
    BY <1>6 DEF EnableService, DisableService, ChangeMaterial, Renew, DeactivateMaterial, Withdraw
  <2> QED  BY <2>1, CancelAllEffect
<1>7. CASE StartSingleRun
  <2>1. InsertOperation(0) /\ 0 \in 0..MaxCampaigns
    BY <1>7, BoundAssumption DEF StartSingleRun
  <2> QED  BY <2>1, InsertOperationEffect
<1> QED  BY <1>1, <1>2, <1>3, <1>4, <1>5, <1>6, <1>7 DEF Next

\* A fold counts an operation that is younger than all that were counted.
LEMMA FoldCounts ==
    ASSUME CampaignInv, RowsKept, CountsAreRight, FoldedUpToLast,
           NEW c \in Campaign, Active(c), Fold(c)
    PROVE  CountsAreRight' /\ FoldedUpToLast'
<1> USE BoundAssumption DEF CampaignInv, TypeOK, CountsAreRight, FoldedUpToLast
<1>1. PICK o \in Fresh(c) :
         /\ o \in Operation /\ last' = [last EXCEPT ![c] = o]
         /\ \/ /\ failures' = [failures EXCEPT ![c] = failures[c] + 1]
               /\ folded' = [folded EXCEPT ![c] = folded[c] \cup {o}]
            \/ failures' = [failures EXCEPT ![c] = 0] /\ folded' = [folded EXCEPT ![c] = {}]
  BY FoldEffect
<1>2. o \in Int /\ \A x \in folded[c] : x \in Int /\ x <= last[c] /\ last[c] \in Int /\ x >= 1
  BY <1>1 DEF Operation
<1>3. last[c] = 0 \/ o > last[c]
  <2>1. last[c] = 0 \/ last[c] \in Operation
    BY DEF Operation
  <2> QED  BY <1>1, <2>1 DEF Fresh, RowsKept
<1>4. ASSUME NEW x \in folded[c] PROVE x < o
  <2>1. x \in Int /\ x <= last[c] /\ last[c] \in Int /\ x >= 1
    BY <1>2
  <2> QED  BY <1>2, <1>3, <2>1
<1>5. o \notin folded[c]
  BY <1>2, <1>4
<1>6. FoldedUpToLast'
  <2> SUFFICES ASSUME NEW d \in Campaign, NEW x \in folded'[d] PROVE x <= last'[d]
    OBVIOUS
  <2>1. CASE d # c
    <3>1. folded'[d] = folded[d] /\ last'[d] = last[d]
      BY <1>1, <2>1
    <3> QED  BY <3>1
  <2>2. CASE d = c
    <3>1. last'[c] = o /\ folded'[c] \subseteq folded[c] \cup {o}
      BY <1>1
    <3>2. x < o \/ x = o
      BY <1>4, <2>2, <3>1
    <3> QED  BY <1>2, <2>2, <3>1, <3>2
  <2> QED  BY <2>1, <2>2
<1>7. IsFiniteSet(folded[c])
  <2>1. IsFiniteSet(1..MaxOperations)
    BY FS_Interval
  <2> QED  BY <2>1, FS_Subset DEF Operation
<1>8. Cardinality(folded[c] \cup {o}) = Cardinality(folded[c]) + 1 /\ Cardinality({}) = 0
  <2>1. Cardinality(folded[c] \cup {o}) = Cardinality(folded[c]) + 1
    BY <1>5, <1>7, FS_AddElement
  <2>2. Cardinality({}) = 0
    BY FS_EmptySet
  <2> QED  BY <2>1, <2>2
<1>9. CountsAreRight'
  <2> SUFFICES ASSUME NEW d \in Campaign PROVE failures'[d] = Cardinality(folded'[d])
    OBVIOUS
  <2>1. CASE d # c
    <3>1. failures'[d] = failures[d] /\ folded'[d] = folded[d]
      BY <1>1, <2>1
    <3> QED  BY <3>1
  <2>2. CASE d = c
    <3>1. failures[c] = Cardinality(folded[c])
      OBVIOUS
    <3>2. \/ failures'[c] = failures[c] + 1 /\ folded'[c] = folded[c] \cup {o}
          \/ failures'[c] = 0 /\ folded'[c] = {}
      BY <1>1
    <3> QED  BY <1>8, <2>2, <3>1, <3>2
  <2> QED  BY <2>1, <2>2
<1> QED  BY <1>6, <1>9

LEMMA CountStep ==
    ASSUME CampaignInv, CountInv, [Next]_vars
    PROVE  CountInv'
<1> SUFFICES ASSUME RowsKept' PROVE CountsAreRight' /\ FoldedUpToLast'
  BY DEF CountInv
<1>1. RowsKept
  <2>1. CASE Next
    BY <2>1, KeptStep DEF CampaignInv
  <2>2. CASE UNCHANGED vars
    BY <2>2 DEF RowsKept, vars, operationVars
  <2> QED  BY <2>1, <2>2
<1>2. CASE \E c \in Campaign : Active(c) /\ Fold(c)
  BY <1>1, <1>2, FoldCounts DEF CountInv
<1>3. CASE ~\E c \in Campaign : Active(c) /\ Fold(c)
  <2>1. UNCHANGED <<failures, last, folded>>
    <3>1. ASSUME NEW i \in Instance, Pass(i) \/ Disturbed(i) \/ Crash(i)
          PROVE  UNCHANGED <<failures, last, folded>>
      BY <1>3, <3>1 DEF Pass, Disturbed, Crash, Reconcile, ReconcileError, ClaimDue, NothingDue, DueError,
                        RunCycle, SkipCycle, RefuseCycle, CycleError, Fail, FailLost, StopFor, campaignVars
    <3>2. CASE UNCHANGED vars
      BY <3>2 DEF vars, campaignVars
    <3> QED  BY <3>1, <3>2, StepKinds
  <2> QED  BY <1>1, <2>1 DEF CountInv, CountsAreRight, FoldedUpToLast
<1> QED  BY <1>2, <1>3

\* As long as no operation is deleted, no cycle is counted twice as a failure,
\* however many schedulers reconcile.
THEOREM CampaignCountedOnce == Spec => []CountedOnce
<1>1. Init => CountInv
  BY InitInv
<1>2. CampaignInv /\ CountInv /\ [Next]_vars => CountInv'
  BY CountStep
<1>3. CountInv => CountedOnce
  BY DEF CountInv, CountedOnce
<1> QED  BY <1>1, <1>2, <1>3, CampaignInvariant, PTL DEF Spec
=============================================================================
