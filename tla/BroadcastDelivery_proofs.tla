----------------------- MODULE BroadcastDelivery_proofs -----------------------
(***************************************************************************)
(* Proofs about BroadcastDelivery, for every number of engine processes,   *)
(* targets and operations, every interval and every bound.                 *)
(***************************************************************************)
EXTENDS BroadcastDelivery, TLAPS

\* A busy run: a target is in its hands.
Holding(i) == pc[i] \in Busy

\* A busy run has a target, and no other busy run has the same.
OneRunPerTarget ==
    /\ \A i \in Instance : Holding(i) => cur[i] \in Target
    /\ \A i, j \in Instance : Holding(i) /\ Holding(j) /\ cur[i] = cur[j] => i = j

\* While its target is SENDING, the claim on it is the run's own.
ClaimIsOwn ==
    \A i \in Instance :
        Holding(i) /\ delivery[cur[i]] = "SENDING" => Mine(cur[i], i)

\* What a run is about to do or to report fits what Telegram has seen.
RunTellsTruth ==
    \A i \in Instance :
        /\ pc[i] \in {"CLAIMED", "AUTHORIZED"} =>
              /\ delivery[cur[i]] \in {"SENDING", "SIDE_EFFECT_UNCERTAIN"}
              /\ delivered[cur[i]] = 0
        /\ pc[i] = "ANSWERED" =>
              /\ out[i] \in Outcome
              /\ delivery[cur[i]] \in {"SENDING", "SIDE_EFFECT_UNCERTAIN"}
                 \/ (delivery[cur[i]] = "SUCCEEDED" /\ out[i] = "SIDE_EFFECT_UNCERTAIN")
              /\ out[i] = "SUCCEEDED" => delivered[cur[i]] = 1
              /\ out[i] \in {"RETRY", "FLOOD_WAIT", "FAILED_FINAL"} => delivered[cur[i]] = 0

DeliveryInv ==
    TypeOK /\ OneRunPerTarget /\ ClaimIsOwn /\ RunTellsTruth /\ StatusTellsTruth

\* A run that holds the account and has not yet told of its send claimed it
\* after the interval, and nobody recorded a success since.
Untold(i) == Holding(i) /\ (pc[i] = "ANSWERED" => out[i] # "SIDE_EFFECT_UNCERTAIN")
Paced ==
    /\ gate + quiet >= Interval
    /\ \A i \in Instance : Untold(i) /\ Holds(i) => quiet = Interval

-----------------------------------------------------------------------------
(* Types. *)

\* A summary is a status.
LEMMA SummaryType ==
    ASSUME NEW o, NEW d
    PROVE  FinishSummary(o, d) \in OperationStatus /\ RecomputeSummary(o, d) \in OperationStatus
BY DEF FinishSummary, RecomputeSummary, LiveOr, OperationStatus, Terminal

\* No instance is the null owner.
LEMMA NobodyType == Nobody \in Lease
BY DEF Nobody, Lease

\* Recovery and cancellation keep the types.
LEMMA RecoveryType ==
    ASSUME TypeOK, NEW i \in Instance
    PROVE  /\ RecoveredDelivery(i) \in [Target -> DeliveryStatus]
           /\ RecoveredStatus(i) \in [Operation -> OperationStatus]
BY DEF TypeOK, RecoveredDelivery, RecoveredStatus, DeliveryStatus, OperationStatus, Terminal

LEMMA CancelType ==
    ASSUME TypeOK, NEW O \in SUBSET Operation, CancelOperations(O)
    PROVE  /\ delivery' \in [Target -> DeliveryStatus]
           /\ cancelled' \in [Target -> BOOLEAN]
           /\ status' \in [Operation -> OperationStatus]
BY SummaryType DEF TypeOK, CancelOperations, RequestCancellation, DeliveryStatus, Terminal

\* What a finish writes has the right type.
LEMMA ApplyType ==
    ASSUME TypeOK, NEW i \in Instance, cur[i] \in Target, out[i] \in Outcome, ApplyFinish(i)
    PROVE  /\ delivery' \in [Target -> DeliveryStatus]
           /\ claim' \in [Target -> Lease]
           /\ waiting' \in [Target -> BOOLEAN]
           /\ gate' \in Nat /\ quiet' \in 0..Interval
           /\ status' \in [Operation -> OperationStatus]
<1>1. FinishStatus(out[i]) \in DeliveryStatus
  BY DEF FinishStatus, Outcome, DeliveryStatus, Open, Terminal
<1>2. delivery' \in [Target -> DeliveryStatus]
  BY <1>1 DEF TypeOK, ApplyFinish
<1>3. claim' \in [Target -> Lease] /\ waiting' \in [Target -> BOOLEAN]
  BY NobodyType DEF TypeOK, ApplyFinish
<1>4. gate' \in Nat
  <2>1. GatedBy(out[i]) \in {{Interval}, 1..MaxFlood, {gate}}
    BY DEF GatedBy
  <2> QED  BY <2>1, BoundAssumption DEF TypeOK, ApplyFinish
<1>5. quiet' \in 0..Interval
  BY BoundAssumption DEF TypeOK, ApplyFinish
<1>6. status' \in [Operation -> OperationStatus]
  BY SummaryType DEF TypeOK, ApplyFinish
<1> QED  BY <1>2, <1>3, <1>4, <1>5, <1>6

LEMMA InitDelivery == Init => DeliveryInv
<1> SUFFICES ASSUME Init PROVE DeliveryInv
  OBVIOUS
<1>1. TypeOK
  BY NobodyType, BoundAssumption
     DEF Init, TypeOK, DeliveryStatus, OperationStatus, PC, Busy, Open, Terminal, Nobody, Lease
<1>2. OneRunPerTarget /\ ClaimIsOwn /\ RunTellsTruth
  BY DEF Init, OneRunPerTarget, ClaimIsOwn, RunTellsTruth, Holding, Busy
<1>3. StatusTellsTruth
  BY DEF Init, StatusTellsTruth, Open
<1> QED  BY <1>1, <1>2, <1>3 DEF DeliveryInv

\* Every step keeps the types of a state whose busy runs hold targets.
LEMMA TypeStep ==
    ASSUME DeliveryInv, [Next]_vars
    PROVE  TypeOK'
<1> USE DEF accountVars, targetVars, runVars, history, Goto, LetGo
<1>a. TypeOK /\ \A i \in Instance : Holding(i) => cur[i] \in Target
  BY DEF DeliveryInv, OneRunPerTarget
<1>1. ASSUME NEW i \in Instance, StartRun(i) PROVE TypeOK'
  BY <1>a, <1>1 DEF StartRun, TypeOK, Lease, PC, Busy
<1>2. ASSUME NEW i \in Instance, ClaimRefused(i) \/ EndRun(i) PROVE TypeOK'
  BY <1>a, <1>2 DEF ClaimRefused, EndRun, TypeOK, PC, Busy
<1>3. ASSUME NEW i \in Instance, ClaimNothing(i) PROVE TypeOK'
  BY <1>a, <1>3, RecoveryType, NobodyType DEF ClaimNothing, TypeOK, PC, Busy
<1>4. ASSUME NEW i \in Instance, NEW t \in Target, ClaimNext(i, t) PROVE TypeOK'
  <2>1. /\ delivery' \in [Target -> DeliveryStatus]
        /\ status' \in [Operation -> OperationStatus]
    BY <1>a, <1>4, RecoveryType, OpOfAssumption
       DEF ClaimNext, DeliveryStatus, OperationStatus
  <2>2. claim' \in [Target -> Lease]
    BY <1>a, <1>4, NobodyType DEF ClaimNext, TypeOK, Lease
  <2>3. attempts' \in [Target -> 0..MaxAttempts]
    BY <1>a, <1>4, BoundAssumption DEF ClaimNext, TypeOK
  <2>4. pc' \in [Instance -> PC] /\ cur' \in [Instance -> Target \cup {NoTarget}]
    BY <1>a, <1>4 DEF ClaimNext, TypeOK, PC, Busy
  <2> QED  BY <1>a, <1>4, <2>1, <2>2, <2>3, <2>4 DEF ClaimNext, TypeOK
<1>5. ASSUME NEW i \in Instance, RejectPayload(i) \/ Authorize(i) PROVE TypeOK'
  BY <1>a, <1>5 DEF RejectPayload, Authorize, TypeOK, PC, Busy, Outcome
<1>6. ASSUME NEW i \in Instance, FencedOut(i) \/ ValidateError(i) PROVE TypeOK'
  BY <1>a, <1>6 DEF FencedOut, ValidateError, TypeOK, PC, Busy, Outcome
<1>7. ASSUME NEW i \in Instance, Unauthorized(i) PROVE TypeOK'
  <2>1. cur[i] \in Target /\ OpOf[cur[i]] \in Operation
    BY <1>a, <1>7, OpOfAssumption DEF Unauthorized, Holding, Busy
  <2>2. delivery' \in [Target -> DeliveryStatus] /\ claim' \in [Target -> Lease]
        /\ cancelled' \in [Target -> BOOLEAN]
    BY <1>a, <1>7, <2>1, NobodyType DEF Unauthorized, TypeOK, DeliveryStatus, Terminal
  <2>3. status' \in [Operation -> OperationStatus]
    BY <1>a, <1>7, <2>1, SummaryType DEF Unauthorized, TypeOK
  <2>4. pc' \in [Instance -> PC] /\ cur' \in [Instance -> Target \cup {NoTarget}]
        /\ out' \in [Instance -> Outcome \cup {"NONE"}]
    BY <1>a, <1>7 DEF Unauthorized, TypeOK, PC, Busy
  <2> QED  BY <1>a, <1>7, <2>2, <2>3, <2>4 DEF Unauthorized, TypeOK
<1>8. ASSUME NEW i \in Instance, Send(i) PROVE TypeOK'
  <2>1. cur[i] \in Target
    BY <1>a, <1>8 DEF Send, Holding, Busy
  <2>2. out' \in [Instance -> Outcome \cup {"NONE"}]
    BY <1>a, <1>8 DEF Send, TypeOK, Answers, Failures, Conclude, Outcome
  <2>3. delivered' \in [Target -> Nat] /\ since' \in 0..Interval
    BY <1>a, <1>8, <2>1, BoundAssumption DEF Send, TypeOK
  <2> QED  BY <1>a, <1>8, <2>2, <2>3 DEF Send, TypeOK, PC, Busy
<1>9. ASSUME NEW i \in Instance, Finish(i) \/ FinishLost(i) PROVE TypeOK'
  <2>1. cur[i] \in Target /\ out[i] \in Outcome
    BY <1>a, <1>9 DEF Finish, FinishLost, Holding, Busy, DeliveryInv, RunTellsTruth
  <2>2. pc' \in [Instance -> PC] /\ cur' \in [Instance -> Target \cup {NoTarget}]
        /\ out' \in [Instance -> Outcome \cup {"NONE"}] /\ tok' = tok
    BY <1>a, <1>9 DEF Finish, FinishLost, TypeOK, PC, Busy, Outcome
  <2>3. CASE ApplyFinish(i)
    BY <1>a, <2>1, <2>2, <2>3, ApplyType DEF ApplyFinish, TypeOK
  <2>4. CASE UNCHANGED <<accountVars, targetVars, history>>
    BY <1>a, <2>2, <2>4 DEF TypeOK
  <2> QED  BY <1>9, <2>3, <2>4 DEF Finish, FinishLost
<1>10. ASSUME NEW i \in Instance, Release(i) PROVE TypeOK'
  BY <1>a, <1>10 DEF Release, TypeOK, Lease, PC, Busy
<1>11. ASSUME NEW O \in SUBSET Operation, CancelOperations(O),
              lease' \in {lease, Nobody}, ready' \in BOOLEAN, entitled' \in BOOLEAN, gate' = gate
       PROVE  TypeOK'
  BY <1>a, <1>11, CancelType, NobodyType DEF CancelOperations, TypeOK
<1>12. ASSUME NEW t \in Target, ChangeTarget(t) PROVE TypeOK'
  <2>1. delivery' \in [Target -> DeliveryStatus] /\ cancelled' \in [Target -> BOOLEAN]
    BY <1>a, <1>12 DEF ChangeTarget, RequestCancellation, TypeOK, DeliveryStatus, Terminal
  <2>2. status' \in [Operation -> OperationStatus]
    BY <1>a, <1>12, SummaryType DEF ChangeTarget, TypeOK
  <2> QED  BY <1>a, <1>12, <2>1, <2>2 DEF ChangeTarget, TypeOK
<1>13. ASSUME NEW released \in BOOLEAN, DeactivateLapsed(released) PROVE TypeOK'
  <2>1. delivery' \in [Target -> DeliveryStatus] /\ cancelled' \in [Target -> BOOLEAN]
    BY <1>a, <1>13 DEF DeactivateLapsed, TypeOK, DeliveryStatus, Terminal
  <2>2. status' \in [Operation -> OperationStatus]
    BY <1>a, <1>13, SummaryType DEF DeactivateLapsed, TypeOK, OperationStatus, Terminal
  <2> QED  BY <1>a, <1>13, <2>1, <2>2 DEF DeactivateLapsed, TypeOK
<1>14. ASSUME NEW t \in Target, CommandLeaseExpires(t) \/ WaitElapses(t) PROVE TypeOK'
  <2>1. ASSUME CommandLeaseExpires(t) PROVE claim' \in [Target -> Lease]
    BY <1>a, <2>1 DEF CommandLeaseExpires, TypeOK, Lease
  <2> QED  BY <1>a, <1>14, <2>1 DEF CommandLeaseExpires, WaitElapses, TypeOK
<1>15. ASSUME AccountReady \/ EntitlementExpires \/ Renew \/ Lapse PROVE TypeOK'
  <2>1. ASSUME Lapse PROVE lease' \in Lease
    BY <1>a, <2>1 DEF Lapse, TypeOK, Lease
  <2>2. ASSUME Lapse PROVE TypeOK'
    BY <1>a, <2>1, <2>2 DEF Lapse, TypeOK
  <2>3. ASSUME AccountReady \/ EntitlementExpires \/ Renew PROVE TypeOK'
    BY <1>a, <2>3 DEF AccountReady, EntitlementExpires, Renew, TypeOK
  <2> QED  BY <1>15, <2>2, <2>3
<1>16. ASSUME Tick PROVE TypeOK'
  BY <1>a, <1>16, BoundAssumption DEF Tick, TypeOK
<1>17. CASE UNCHANGED vars
  BY <1>a, <1>17 DEF vars, TypeOK
<1>18. ASSUME NEW o \in Operation, CancelOperation(o) PROVE TypeOK'
  <2>1. {o} \in SUBSET Operation /\ CancelOperations({o})
    BY <1>18 DEF CancelOperation
  <2>2. lease' \in {lease, Nobody} /\ ready' \in BOOLEAN /\ entitled' \in BOOLEAN /\ gate' = gate
    BY <1>a, <1>18 DEF CancelOperation, TypeOK
  <2> QED  BY <2>1, <2>2, <1>11
<1>19. ASSUME StopService \/ AccountUnavailable \/ Disconnect PROVE TypeOK'
  <2> DEFINE O == {o \in Operation : Live(o)}
  <2>1. CancelOperations(O)
    BY <1>19 DEF StopService, AccountUnavailable, Disconnect
  <2>2. lease' \in {lease, Nobody} /\ ready' \in BOOLEAN /\ entitled' \in BOOLEAN /\ gate' = gate
    BY <1>a, <1>19 DEF StopService, AccountUnavailable, Disconnect, TypeOK
  <2> QED  BY <2>1, <2>2, <1>11
<1>20. ASSUME NEW i \in Instance, Crash(i) PROVE TypeOK'
  <2>1. lease' \in Lease /\ claim' \in [Target -> Lease]
    BY <1>a, <1>20, NobodyType DEF Crash, TypeOK, Lease
  <2> QED  BY <1>a, <1>20, <2>1 DEF Crash, TypeOK, PC, Busy
<1> QED
  BY <1>1, <1>2, <1>3, <1>4, <1>5, <1>6, <1>7, <1>8, <1>9, <1>10, <1>12, <1>13,
     <1>14, <1>15, <1>16, <1>17, <1>18, <1>19, <1>20
     DEF Next, Run, Claim, Execute

-----------------------------------------------------------------------------
(* The status of a target tells the truth.                                 *)

\* Steps that touch no run and only cancel open targets.
LEMMA EnvironmentStep ==
    ASSUME DeliveryInv, TypeOK', UNCHANGED <<runVars, delivered>>,
           \A t \in Target : \/ delivery'[t] = delivery[t]
                             \/ delivery[t] \in Open /\ delivery'[t] = "CANCELLED",
           \A t \in Target : claim'[t].owner = claim[t].owner /\ claim'[t].token = claim[t].token
    PROVE  DeliveryInv'
<1> USE DEF DeliveryInv, runVars, Holding, Busy, Open
<1>1. OneRunPerTarget'
  BY DEF OneRunPerTarget
<1>2. ClaimIsOwn'
  BY DEF OneRunPerTarget, ClaimIsOwn, Mine
<1>3. RunTellsTruth'
  BY DEF OneRunPerTarget, RunTellsTruth
<1>4. StatusTellsTruth'
  BY DEF StatusTellsTruth
<1> QED  BY <1>1, <1>2, <1>3, <1>4

\* Steps after which the run of i is not busy, while targets, other runs and their claims
\* stay.
LEMMA IdleStep ==
    ASSUME DeliveryInv, TypeOK', UNCHANGED <<delivery, delivered>>,
           NEW i \in Instance, pc'[i] \notin Busy,
           \A t \in Target : claim'[t] = claim[t] \/ claim[t].owner = i,
           \A j \in Instance \ {i} :
              pc'[j] = pc[j] /\ tok'[j] = tok[j] /\ cur'[j] = cur[j] /\ out'[j] = out[j]
    PROVE  DeliveryInv'
<1> USE DEF DeliveryInv, Holding, Busy
<1>1. OneRunPerTarget'
  BY DEF OneRunPerTarget
<1>2. ClaimIsOwn'
  BY DEF OneRunPerTarget, ClaimIsOwn, Mine
<1>3. RunTellsTruth'
  BY DEF OneRunPerTarget, RunTellsTruth
<1>4. StatusTellsTruth'
  BY DEF StatusTellsTruth
<1> QED  BY <1>1, <1>2, <1>3, <1>4

\* A recovery gives up on nothing but what is SENDING.
LEMMA RecoveryEffect ==
    ASSUME TypeOK, NEW i \in Instance, NEW t \in Target
    PROVE  \/ RecoveredDelivery(i)[t] = delivery[t] /\ ~Stale(t, i)
           \/ delivery[t] = "SENDING" /\ RecoveredDelivery(i)[t] = "SIDE_EFFECT_UNCERTAIN"
BY DEF RecoveredDelivery, Stale

LEMMA ClaimNothingStep ==
    ASSUME DeliveryInv, TypeOK', NEW i \in Instance, ClaimNothing(i)
    PROVE  DeliveryInv'
<1> USE DEF DeliveryInv, Holding, Busy
<1>1. /\ pc[i] = "LOOP" /\ pc'[i] \in {"LOOP", "CLOSING"}
      /\ \A j \in Instance \ {i} : pc'[j] = pc[j]
      /\ UNCHANGED <<tok, cur, out, delivered>>
  BY DEF ClaimNothing, Goto, TypeOK, history
<1>2. \A t \in Target : \/ delivery'[t] = delivery[t] /\ claim'[t] = claim[t]
                        \/ delivery[t] = "SENDING" /\ delivery'[t] = "SIDE_EFFECT_UNCERTAIN"
  BY RecoveryEffect DEF ClaimNothing
<1>3. OneRunPerTarget'
  BY <1>1 DEF OneRunPerTarget
<1>4. ClaimIsOwn'
  BY <1>1, <1>2 DEF OneRunPerTarget, ClaimIsOwn, Mine
<1>5. RunTellsTruth'
  BY <1>1, <1>2 DEF OneRunPerTarget, RunTellsTruth
<1>6. StatusTellsTruth'
  BY <1>1, <1>2 DEF StatusTellsTruth, Open
<1> QED  BY <1>3, <1>4, <1>5, <1>6

LEMMA ClaimNextStep ==
    ASSUME DeliveryInv, TypeOK', NEW i \in Instance, NEW t \in Target, ClaimNext(i, t)
    PROVE  DeliveryInv'
<1> USE DEF DeliveryInv, Holding, Busy
<1>1. /\ pc[i] = "LOOP" /\ pc'[i] \in {"CLAIMED", "CLOSING"}
      /\ pc'[i] = "CLAIMED" => cur'[i] = t
      /\ \A j \in Instance \ {i} : pc'[j] = pc[j] /\ cur'[j] = cur[j]
      /\ UNCHANGED <<tok, out, delivered>>
  BY DEF ClaimNext, Goto, TypeOK, history
<1>2. delivery[t] \in Open
  BY RecoveryEffect DEF ClaimNext, Eligible, Open
<1>3. /\ delivery'[t] = "SENDING" /\ claim'[t].owner = i /\ claim'[t].token = tok[i]
      /\ \A u \in Target \ {t} :
            \/ delivery'[u] = delivery[u] /\ claim'[u] = claim[u]
            \/ delivery[u] = "SENDING" /\ delivery'[u] = "SIDE_EFFECT_UNCERTAIN"
  <2>1. RecoveredDelivery(i) \in [Target -> DeliveryStatus]
    BY RecoveryType
  <2> QED  BY <2>1, RecoveryEffect DEF ClaimNext
<1>4. delivered[t] = 0
  BY <1>2 DEF StatusTellsTruth
<1>5. \A j \in Instance : Holding(j) => cur[j] # t
  BY <1>2 DEF OneRunPerTarget, RunTellsTruth, Open
<1>6. OneRunPerTarget'
  BY <1>1, <1>5 DEF OneRunPerTarget
<1>7. ClaimIsOwn'
  BY <1>1, <1>3, <1>5 DEF OneRunPerTarget, ClaimIsOwn, Mine
<1>8. RunTellsTruth'
  BY <1>1, <1>3, <1>4, <1>5 DEF OneRunPerTarget, RunTellsTruth
<1>9. StatusTellsTruth'
  BY <1>1, <1>3, <1>4 DEF StatusTellsTruth, Open
<1> QED  BY <1>6, <1>7, <1>8, <1>9

LEMMA ExecuteStep ==
    ASSUME DeliveryInv, TypeOK', NEW i \in Instance,
           RejectPayload(i) \/ Authorize(i) \/ Unauthorized(i) \/ Send(i)
    PROVE  DeliveryInv'
<1> USE DEF DeliveryInv, Holding, Busy
<1>0. cur[i] \in Target /\ pc[i] \in {"CLAIMED", "AUTHORIZED"}
  BY DEF OneRunPerTarget, RejectPayload, Authorize, Unauthorized, Send
<1>1. CASE RejectPayload(i) \/ Authorize(i)
  <2>1. /\ UNCHANGED <<delivery, claim, delivered, tok, cur>>
        /\ pc[i] = "CLAIMED"
        /\ pc'[i] = "AUTHORIZED" \/ (pc'[i] = "ANSWERED" /\ out'[i] = "FAILED_FINAL")
        /\ \A j \in Instance \ {i} : pc'[j] = pc[j] /\ out'[j] = out[j]
    BY <1>1 DEF RejectPayload, Authorize, Goto, TypeOK, targetVars, history
  <2>2. OneRunPerTarget' /\ ClaimIsOwn' /\ StatusTellsTruth'
    BY <2>1 DEF OneRunPerTarget, ClaimIsOwn, Mine, StatusTellsTruth
  <2>3. RunTellsTruth'
    BY <2>1 DEF RunTellsTruth, Outcome
  <2> QED  BY <2>2, <2>3
<1>2. CASE Unauthorized(i)
  <2>1. /\ UNCHANGED <<delivered, tok>> /\ pc'[i] \notin Busy
        /\ \A j \in Instance \ {i} : pc'[j] = pc[j] /\ out'[j] = out[j] /\ cur'[j] = cur[j]
    BY <1>2 DEF Unauthorized, LetGo, Goto, TypeOK, history
  <2>2. /\ delivery'[cur[i]] = "CANCELLED"
        /\ \A t \in Target \ {cur[i]} : delivery'[t] = delivery[t] /\ claim'[t] = claim[t]
    BY <1>2, <1>0 DEF Unauthorized, TypeOK
  <2>3. \A j \in Instance \ {i} : Holding(j) => cur[j] # cur[i]
    BY <1>0 DEF OneRunPerTarget
  <2>4. delivered[cur[i]] = 0
    BY <1>0 DEF RunTellsTruth
  <2>5. OneRunPerTarget'
    BY <2>1 DEF OneRunPerTarget
  <2>6. ClaimIsOwn'
    BY <2>1, <2>2, <2>3 DEF OneRunPerTarget, ClaimIsOwn, Mine
  <2>7. RunTellsTruth'
    BY <2>1, <2>2, <2>3 DEF OneRunPerTarget, RunTellsTruth
  <2>8. StatusTellsTruth'
    BY <2>1, <2>2, <2>4, <1>0 DEF StatusTellsTruth, Open
  <2> QED  BY <2>5, <2>6, <2>7, <2>8
<1>3. CASE Send(i)
  <2>0. PICK posted \in BOOLEAN :
          /\ \E answer \in Answers(cur[i], posted) : out' = [out EXCEPT ![i] = answer]
          /\ delivered' = [delivered EXCEPT ![cur[i]] = IF posted THEN @ + 1 ELSE @]
    BY <1>3 DEF Send
  <2>1. /\ UNCHANGED <<delivery, claim, tok, cur>> /\ pc'[i] = "ANSWERED" /\ pc[i] = "AUTHORIZED"
        /\ \A j \in Instance \ {i} : pc'[j] = pc[j] /\ out'[j] = out[j]
    BY <1>3 DEF Send, Goto, TypeOK, targetVars
  <2>2. out'[i] \in Answers(cur[i], posted)
    BY <2>0 DEF TypeOK
  <2>3. delivered[cur[i]] = 0 /\ delivery[cur[i]] \in {"SENDING", "SIDE_EFFECT_UNCERTAIN"}
    BY <1>0 DEF RunTellsTruth
  <2>4. /\ delivered'[cur[i]] = IF posted THEN 1 ELSE 0
        /\ \A t \in Target \ {cur[i]} : delivered'[t] = delivered[t]
    BY <2>0, <2>3, <1>0 DEF TypeOK
  <2>5. /\ out'[i] \in Outcome
        /\ out'[i] = "SUCCEEDED" => posted
        /\ out'[i] \in {"RETRY", "FLOOD_WAIT", "FAILED_FINAL"} => ~posted
    BY <2>2 DEF Answers, Failures, Conclude, Outcome
  <2>6. \A j \in Instance \ {i} : Holding(j) => cur[j] # cur[i]
    BY <1>0 DEF OneRunPerTarget
  <2>7. OneRunPerTarget' /\ ClaimIsOwn'
    BY <2>1 DEF OneRunPerTarget, ClaimIsOwn, Mine
  <2>8. RunTellsTruth'
    BY <2>1, <2>3, <2>4, <2>5, <2>6, <1>0 DEF OneRunPerTarget, RunTellsTruth
  <2>9. StatusTellsTruth'
    BY <2>1, <2>3, <2>4, <1>0 DEF StatusTellsTruth, Open
  <2> QED  BY <2>7, <2>8, <2>9
<1> QED  BY <1>1, <1>2, <1>3

LEMMA FinishStep ==
    ASSUME DeliveryInv, TypeOK', NEW i \in Instance, Finish(i) \/ FinishLost(i)
    PROVE  DeliveryInv'
<1> USE DEF DeliveryInv, Holding, Busy
<1>0. cur[i] \in Target /\ pc[i] = "ANSWERED" /\ out[i] \in Outcome
  BY DEF OneRunPerTarget, RunTellsTruth, Finish, FinishLost
<1>1. /\ UNCHANGED <<tok, delivered>>
      /\ \A j \in Instance \ {i} : pc'[j] = pc[j] /\ out'[j] = out[j] /\ cur'[j] = cur[j]
      /\ \/ pc'[i] \notin Busy
         \/ /\ pc'[i] = pc[i] /\ cur'[i] = cur[i]
            /\ out[i] = "SUCCEEDED" /\ out'[i] = "SIDE_EFFECT_UNCERTAIN"
  BY DEF Finish, FinishLost, LetGo, Goto, TypeOK, ApplyFinish, history
<1>2. \/ UNCHANGED <<delivery, claim>>
      \/ /\ Mine(cur[i], i)
         /\ delivery'[cur[i]] = FinishStatus(out[i])
         /\ \A t \in Target \ {cur[i]} : delivery'[t] = delivery[t] /\ claim'[t] = claim[t]
  BY <1>0 DEF Finish, FinishLost, Applies, ApplyFinish, TypeOK, targetVars
<1>3. \A j \in Instance \ {i} : Holding(j) => cur[j] # cur[i]
  BY <1>0 DEF OneRunPerTarget
<1>4. /\ out[i] = "SUCCEEDED" => delivered[cur[i]] = 1
      /\ out[i] \in {"RETRY", "FLOOD_WAIT", "FAILED_FINAL"} => delivered[cur[i]] = 0
      /\ delivery[cur[i]] \in {"SENDING", "SIDE_EFFECT_UNCERTAIN", "SUCCEEDED"}
  BY <1>0 DEF RunTellsTruth
<1>5. OneRunPerTarget'
  BY <1>1 DEF OneRunPerTarget
<1>6. ClaimIsOwn'
  <2> SUFFICES ASSUME NEW j \in Instance, Holding(j)', delivery'[cur'[j]] = "SENDING"
               PROVE  Mine(cur[j], j)'
    BY DEF ClaimIsOwn
  <2>1. Holding(j) /\ cur'[j] = cur[j] /\ cur[j] \in Target
    BY <1>1, <1>0 DEF OneRunPerTarget
  <2>2. FinishStatus(out[i]) # "SENDING"
    BY <1>0 DEF FinishStatus, Outcome
  <2>3. delivery'[cur[j]] = delivery[cur[j]] /\ claim'[cur[j]] = claim[cur[j]]
    BY <1>2, <2>1, <2>2
  <2> QED  BY <1>1, <2>1, <2>3 DEF ClaimIsOwn, Mine
<1>7. RunTellsTruth'
  <2>1. ASSUME NEW j \in Instance \ {i}, Holding(j)
        PROVE  cur[j] \in Target \ {cur[i]} /\ delivery'[cur[j]] = delivery[cur[j]]
    BY <1>2, <1>3, <2>1 DEF OneRunPerTarget
  <2>2. ASSUME pc'[i] \in Busy
        PROVE  delivery'[cur[i]] \in {"SENDING", "SIDE_EFFECT_UNCERTAIN", "SUCCEEDED"}
    BY <1>1, <1>2, <1>4, <2>2 DEF FinishStatus
  <2> QED  BY <1>0, <1>1, <2>1, <2>2 DEF RunTellsTruth, Outcome
<1>8. StatusTellsTruth'
  <2>1. ASSUME delivery' # delivery
        PROVE  /\ delivery'[cur[i]] \in Open \cup {"CANCELLED", "FAILED_FINAL"} => delivered[cur[i]] = 0
               /\ delivery'[cur[i]] = "SUCCEEDED" => delivered[cur[i]] = 1
    BY <1>0, <1>2, <1>4, <2>1 DEF FinishStatus, Open, Outcome
  <2> QED  BY <1>1, <1>2, <2>1 DEF StatusTellsTruth
<1> QED  BY <1>5, <1>6, <1>7, <1>8

LEMMA DeliveryStep == DeliveryInv /\ [Next]_vars => DeliveryInv'
<1> SUFFICES ASSUME DeliveryInv, [Next]_vars PROVE DeliveryInv'
  OBVIOUS
<1> USE DEF accountVars, targetVars, runVars, history, Goto, LetGo
<1>0. TypeOK /\ TypeOK'
  BY TypeStep DEF DeliveryInv
<1>1. ASSUME NEW i \in Instance,
             StartRun(i) \/ ClaimRefused(i) \/ EndRun(i) \/ Release(i)
             \/ FencedOut(i) \/ ValidateError(i) \/ Crash(i)
      PROVE  DeliveryInv'
  <2>1. UNCHANGED <<delivery, delivered>> /\ pc'[i] \notin Busy
    BY <1>0, <1>1 DEF StartRun, ClaimRefused, EndRun, Release, FencedOut, ValidateError,
                      Crash, TypeOK, Busy
  <2>3. \A t \in Target : claim'[t] = claim[t] \/ claim[t].owner = i
    BY <1>0, <1>1 DEF StartRun, ClaimRefused, EndRun, Release, FencedOut, ValidateError,
                      Crash, TypeOK
  <2>2. \A j \in Instance \ {i} :
           pc'[j] = pc[j] /\ tok'[j] = tok[j] /\ cur'[j] = cur[j] /\ out'[j] = out[j]
    BY <1>0, <1>1 DEF StartRun, ClaimRefused, EndRun, Release, FencedOut, ValidateError,
                      Crash, TypeOK
  <2> QED  BY <1>0, <2>1, <2>2, <2>3, IdleStep
<1>2. ASSUME NEW i \in Instance, Claim(i) PROVE DeliveryInv'
  BY <1>0, <1>2, ClaimNothingStep, ClaimNextStep DEF Claim
<1>3. ASSUME NEW i \in Instance, RejectPayload(i) \/ Authorize(i) \/ Unauthorized(i) \/ Send(i)
      PROVE  DeliveryInv'
  BY <1>0, <1>3, ExecuteStep
<1>4. ASSUME NEW i \in Instance, Finish(i) \/ FinishLost(i) PROVE DeliveryInv'
  BY <1>0, <1>4, FinishStep
<1>5. ASSUME NEW O, CancelOperations(O) PROVE DeliveryInv'
  BY <1>0, <1>5, EnvironmentStep DEF CancelOperations, RequestCancellation, Open, Terminal
<1>6. ASSUME NEW t \in Target, ChangeTarget(t) PROVE DeliveryInv'
  BY <1>0, <1>6, EnvironmentStep DEF ChangeTarget, RequestCancellation, Open, Terminal
<1>7. ASSUME NEW released \in BOOLEAN, DeactivateLapsed(released) PROVE DeliveryInv'
  BY <1>0, <1>7, EnvironmentStep DEF DeactivateLapsed
<1>8. ASSUME NEW t \in Target, CommandLeaseExpires(t) \/ WaitElapses(t) PROVE DeliveryInv'
  <2>1. UNCHANGED <<delivery, delivered, runVars>>
    BY <1>8 DEF CommandLeaseExpires, WaitElapses
  <2>2. \A u \in Target : claim'[u].owner = claim[u].owner /\ claim'[u].token = claim[u].token
    <3>1. CASE CommandLeaseExpires(t)
      BY <1>0, <3>1 DEF CommandLeaseExpires, TypeOK, Lease
    <3>2. CASE WaitElapses(t)
      BY <3>2 DEF WaitElapses
    <3> QED  BY <1>8, <3>1, <3>2
  <2> QED  BY <1>0, <2>1, <2>2, EnvironmentStep
<1>9. ASSUME AccountReady \/ EntitlementExpires \/ Renew \/ Lapse \/ Tick \/ UNCHANGED vars
      PROVE  DeliveryInv'
  BY <1>0, <1>9, EnvironmentStep
     DEF AccountReady, EntitlementExpires, Renew, Lapse, Tick, vars
<1> QED
  BY <1>1, <1>2, <1>3, <1>4, <1>5, <1>6, <1>7, <1>8, <1>9
     DEF Next, Run, Execute, CancelOperation, StopService, AccountUnavailable, Disconnect

\* In every reachable state a busy run's target is its own, and what it and the
\* target's status say of Telegram is true.
THEOREM DeliveryInvariant == Spec => []DeliveryInv
<1>1. Init => DeliveryInv
  BY InitDelivery
<1>2. DeliveryInv /\ [Next]_vars => DeliveryInv'
  BY DeliveryStep
<1> QED  BY <1>1, <1>2, PTL DEF Spec

\* The state keeps its types.
THEOREM DeliveryTypeOK == Spec => []TypeOK
<1>1. DeliveryInv => TypeOK
  BY DEF DeliveryInv
<1> QED  BY <1>1, DeliveryInvariant, PTL

\* No target is ever posted twice, and its status tells whether it was posted.
THEOREM DeliveryTellsTruth == Spec => []StatusTellsTruth
<1>1. DeliveryInv => StatusTellsTruth
  BY DEF DeliveryInv
<1> QED  BY <1>1, DeliveryInvariant, PTL

-----------------------------------------------------------------------------
(* A terminal status is final.                                             *)

LEMMA FinalStep ==
    ASSUME TypeOK, [Next]_vars, NEW t \in Target, delivery[t] \in Terminal
    PROVE  delivery'[t] = delivery[t]
<1> USE DEF accountVars, targetVars, runVars, history, Terminal, Open
<1>1. ASSUME NEW i \in Instance, Claim(i) PROVE delivery'[t] = delivery[t]
  <2>1. RecoveredDelivery(i)[t] = delivery[t]
    BY RecoveryEffect
  <2>2. ASSUME NEW u \in Target, ClaimNext(i, u) PROVE delivery'[t] = delivery[t]
    <3>1. RecoveredDelivery(i)[u] \in Open /\ RecoveredDelivery(i) \in [Target -> DeliveryStatus]
      BY <2>2, RecoveryType DEF ClaimNext, Eligible
    <3> QED  BY <2>1, <2>2, <3>1 DEF ClaimNext
  <2> QED  BY <1>1, <2>1, <2>2 DEF Claim, ClaimNothing
<1>2. ASSUME NEW i \in Instance, Unauthorized(i) PROVE delivery'[t] = delivery[t]
  BY <1>2 DEF Unauthorized, Mine, TypeOK
<1>3. ASSUME NEW i \in Instance, Finish(i) \/ FinishLost(i) PROVE delivery'[t] = delivery[t]
  BY <1>3 DEF Finish, FinishLost, Applies, ApplyFinish, Mine, TypeOK
<1>4. ASSUME NEW i \in Instance,
             StartRun(i) \/ ClaimRefused(i) \/ EndRun(i) \/ Release(i) \/ FencedOut(i)
             \/ ValidateError(i) \/ Crash(i) \/ RejectPayload(i) \/ Authorize(i) \/ Send(i)
      PROVE  delivery' = delivery
  BY <1>4 DEF StartRun, ClaimRefused, EndRun, Release, FencedOut, ValidateError, Crash,
              RejectPayload, Authorize, Send
<1>5. ASSUME NEW T, RequestCancellation(T) PROVE delivery'[t] = delivery[t]
  BY <1>5 DEF RequestCancellation
<1>6. ASSUME NEW released \in BOOLEAN, DeactivateLapsed(released)
      PROVE  delivery'[t] = delivery[t]
  BY <1>6 DEF DeactivateLapsed
<1>7. ASSUME \/ \E u \in Target : CommandLeaseExpires(u) \/ WaitElapses(u)
             \/ AccountReady \/ EntitlementExpires \/ Renew \/ Lapse \/ Tick \/ UNCHANGED vars
      PROVE  delivery' = delivery
  BY <1>7 DEF CommandLeaseExpires, WaitElapses, AccountReady, EntitlementExpires, Renew,
              Lapse, Tick, vars
<1> QED
  BY <1>1, <1>2, <1>3, <1>4, <1>5, <1>6, <1>7
     DEF Next, Run, Execute, CancelOperation, StopService, AccountUnavailable, Disconnect,
         CancelOperations, ChangeTarget

\* Once a target is settled no step settles it differently.
THEOREM DeliveryIsFinal == Spec => TerminalIsFinal
<1>1. TypeOK /\ [Next]_vars =>
        [\A t \in Target : delivery[t] \in Terminal => delivery'[t] = delivery[t]]_vars
  BY FinalStep
<1> QED  BY <1>1, DeliveryTypeOK, PTL DEF Spec, TerminalIsFinal

-----------------------------------------------------------------------------
(* Sends are paced.                                                        *)

\* While a run holds the account it is the only one that does.
LEMMA HolderIsUnique ==
    ASSUME NEW i \in Instance, NEW j \in Instance, Holds(i), Holds(j)
    PROVE  i = j
BY DEF Holds

\* A finish by i of an untold outcome moves the gate by at least the interval,
\* counted from the last success.
LEMMA FinishPaced ==
    ASSUME DeliveryInv, Paced, NEW i \in Instance, Finish(i) \/ FinishLost(i), ApplyFinish(i),
           Holds(i)
    PROVE  gate' + quiet' >= Interval
<1>1. pc[i] = "ANSWERED" /\ out[i] \in Outcome /\ gate \in Nat /\ quiet \in 0..Interval
  BY DEF Finish, FinishLost, DeliveryInv, RunTellsTruth, TypeOK
<1>2. CASE out[i] = "SUCCEEDED"
  BY <1>2, BoundAssumption DEF ApplyFinish, GatedBy
<1>3. CASE out[i] = "FLOOD_WAIT"
  <2>1. quiet = Interval /\ quiet' = quiet
    BY <1>1, <1>3 DEF Paced, Untold, Holding, Busy, ApplyFinish
  <2>2. gate' \in 1..MaxFlood
    BY <1>3 DEF ApplyFinish, GatedBy
  <2>3. Interval \in Nat /\ MaxFlood \in Nat
    BY BoundAssumption
  <2>4. gate' \in Nat /\ quiet' \in Nat /\ quiet' >= Interval
    BY <2>1, <2>2, <2>3
  <2>5. \A g, q, n \in Nat : q >= n => g + q >= n
    OBVIOUS
  <2> QED  BY <2>3, <2>4, <2>5
<1>4. CASE out[i] \notin {"SUCCEEDED", "FLOOD_WAIT"}
  BY <1>4 DEF Paced, ApplyFinish, GatedBy
<1> QED  BY <1>2, <1>3, <1>4

LEMMA PacedStep == DeliveryInv /\ DeliveryInv' /\ Paced /\ [Next]_vars => Paced'
<1> SUFFICES ASSUME DeliveryInv, DeliveryInv', Paced, [Next]_vars PROVE Paced'
  OBVIOUS
<1> USE DEF accountVars, targetVars, runVars, history, Goto, LetGo
<1>0. TypeOK
  BY DEF DeliveryInv
\* Steps that leave the clocks alone and give nobody an untold send or the account.
<1>1. ASSUME UNCHANGED <<gate, quiet>>,
             \A i \in Instance : Untold(i)' /\ Holds(i)' => Untold(i) /\ Holds(i)
      PROVE  Paced'
  BY <1>1 DEF Paced
<1>2. ASSUME NEW i \in Instance, NEW t \in Target, ClaimNext(i, t) PROVE Paced'
  <2>1. quiet = Interval
    BY <1>0, <1>2, BoundAssumption DEF ClaimNext, Eligible, Paced, TypeOK
  <2>2. UNCHANGED <<gate, quiet>>
    BY <1>2 DEF ClaimNext
  <2> QED  BY <2>1, <2>2 DEF Paced
<1>3. ASSUME NEW i \in Instance, Finish(i) \/ FinishLost(i) PROVE Paced'
  <2>1. /\ \A j \in Instance \ {i} : pc'[j] = pc[j] /\ out'[j] = out[j]
        /\ UNCHANGED <<lease, tok>> /\ ~Untold(i)'
    BY <1>0, <1>3 DEF Finish, FinishLost, ApplyFinish, TypeOK, Untold, Holding, Busy
  <2>2. \A j \in Instance : Untold(j)' /\ Holds(j)' => Untold(j) /\ Holds(j) /\ j # i
    BY <2>1 DEF Untold, Holding, Holds
  <2>3. CASE ApplyFinish(i) /\ Holds(i)
    <3>1. \A j \in Instance : ~(Untold(j)' /\ Holds(j)')
      BY <2>2, <2>3, HolderIsUnique
    <3> QED  BY <1>3, <2>3, <3>1, FinishPaced DEF Paced
  <2>4. CASE UNCHANGED <<gate, quiet>>
    BY <2>2, <2>4, <1>1
  <2> QED  BY <1>3, <2>3, <2>4 DEF Finish, FinishLost, Applies
<1>4. ASSUME Tick PROVE Paced'
  <2>1. gate' + quiet' >= Interval /\ (quiet = Interval => quiet' = Interval)
    BY <1>0, <1>4, BoundAssumption DEF Tick, Paced, TypeOK
  <2>2. \A i \in Instance : Untold(i)' /\ Holds(i)' => Untold(i) /\ Holds(i)
    BY <1>4 DEF Tick, Untold, Holding, Holds
  <2> QED  BY <2>1, <2>2 DEF Paced
<1>5. ASSUME NEW i \in Instance, StartRun(i) PROVE Paced'
  <2>1. UNCHANGED <<gate, quiet>> /\ ~Holding(i)'
    BY <1>0, <1>5 DEF StartRun, TypeOK, Holding, Busy
  <2>2. \A j \in Instance \ {i} : ~Holds(j)'
    BY <1>5 DEF StartRun, Holds
  <2> QED  BY <2>1, <2>2, <1>1 DEF Untold
<1>6. ASSUME NEW i \in Instance,
             ClaimRefused(i) \/ ClaimNothing(i) \/ EndRun(i) \/ FencedOut(i)
             \/ Unauthorized(i) \/ ValidateError(i)
      PROVE  Paced'
  <2>1. /\ UNCHANGED <<gate, quiet, lease, tok>> /\ ~Holding(i)'
        /\ \A j \in Instance \ {i} : pc'[j] = pc[j] /\ out'[j] = out[j]
    BY <1>0, <1>6 DEF ClaimRefused, ClaimNothing, EndRun, FencedOut, Unauthorized,
                      ValidateError, TypeOK, Holding, Busy
  <2> QED  BY <2>1, <1>1 DEF Untold, Holding, Holds
<1>7. ASSUME NEW i \in Instance, Release(i) \/ Crash(i) PROVE Paced'
  <2>1. /\ UNCHANGED <<gate, quiet>> /\ ~Holding(i)'
        /\ \A j \in Instance \ {i} : pc'[j] = pc[j] /\ out'[j] = out[j] /\ tok'[j] = tok[j]
    BY <1>0, <1>7 DEF Release, Crash, TypeOK, Holding, Busy
  <2>2. \A j \in Instance \ {i} : Holds(j)' => Holds(j)
    BY <1>0, <1>7, <2>1, NullAssumption DEF Release, Crash, Holds, TypeOK, Lease
  <2> QED  BY <2>1, <2>2, <1>1 DEF Untold, Holding
<1>8. ASSUME NEW i \in Instance, RejectPayload(i) \/ Authorize(i) \/ Send(i) PROVE Paced'
  <2>1. /\ UNCHANGED <<gate, quiet, lease, tok>> /\ Untold(i)
        /\ \A j \in Instance \ {i} : pc'[j] = pc[j] /\ out'[j] = out[j]
    BY <1>0, <1>8 DEF RejectPayload, Authorize, Send, TypeOK, Untold, Holding, Busy
  <2> QED  BY <2>1, <1>1 DEF Untold, Holding, Holds
<1>9. ASSUME NEW O, CancelOperations(O), gate' = gate, lease' \in {lease, Nobody} PROVE Paced'
  <2>1. UNCHANGED <<gate, quiet, runVars>>
    BY <1>9 DEF CancelOperations
  <2>2. \A i \in Instance : Holds(i)' => Holds(i)
    BY <1>9, <2>1, NullAssumption DEF Holds, Nobody
  <2> QED  BY <2>1, <2>2, <1>1 DEF Untold, Holding
<1>10. ASSUME Lapse PROVE Paced'
  <2>1. UNCHANGED <<gate, quiet, runVars>> /\ \A i \in Instance : ~Holds(i)'
    BY <1>0, <1>10 DEF Lapse, Holds, TypeOK, Lease
  <2> QED  BY <2>1, <1>1
<1>11. ASSUME \/ \E t \in Target : ChangeTarget(t) \/ CommandLeaseExpires(t) \/ WaitElapses(t)
              \/ \E released \in BOOLEAN : DeactivateLapsed(released)
              \/ AccountReady \/ EntitlementExpires \/ Renew \/ UNCHANGED vars
       PROVE  Paced'
  <2>1. UNCHANGED <<gate, quiet, lease, runVars>>
    BY <1>11 DEF ChangeTarget, CommandLeaseExpires, WaitElapses, DeactivateLapsed,
                 AccountReady, EntitlementExpires, Renew, vars
  <2> QED  BY <2>1, <1>1 DEF Untold, Holding, Holds
<1>12. ASSUME StopService \/ AccountUnavailable \/ Disconnect
              \/ \E o \in Operation : CancelOperation(o)
       PROVE  Paced'
  BY <1>9, <1>12 DEF StopService, AccountUnavailable, Disconnect, CancelOperation
<1> QED
  BY <1>2, <1>3, <1>4, <1>5, <1>6, <1>7, <1>8, <1>10, <1>11, <1>12
     DEF Next, Run, Claim, Execute

\* Whoever holds the account sends only after the interval since the last
\* recorded success.
THEOREM DeliveryIsPaced == Spec => []SendsArePaced
<1>1. Init => Paced
  BY BoundAssumption DEF Init, Paced, Untold, Holding, Busy
<1>2. Paced => SendsArePaced
  BY DEF Paced, SendsArePaced, Untold, Holding, Busy
<1> QED  BY <1>1, <1>2, PacedStep, DeliveryInvariant, PTL DEF Spec

-----------------------------------------------------------------------------
(* The status of an operation summarises its targets.                      *)

\* The summaries of both writers summarise.
LEMMA SummariesSummarise ==
    ASSUME NEW o, NEW d
    PROVE  Summarises(o, d, FinishSummary(o, d)) /\ Summarises(o, d, RecomputeSummary(o, d))
BY DEF Summarises, FinishSummary, RecomputeSummary, LiveOr

\* An operation whose targets stay as they are is summarised as before.
LEMMA SameSummary ==
    ASSUME NEW o, NEW d, NEW e, NEW s, Summarises(o, d, s),
           \A t \in Target : OpOf[t] = o => e[t] = d[t]
    PROVE  Summarises(o, e, s)
<1>1. \A x : Has(o, e, x) <=> Has(o, d, x)
  BY DEF Has
<1> QED  BY <1>1 DEF Summarises, LiveOr

\* After a recovery the operations are summarised again.
LEMMA RecoverySummarises ==
    ASSUME TypeOK, StatusSummarises, NEW i \in Instance, NEW o \in Operation
    PROVE  Summarises(o, RecoveredDelivery(i), RecoveredStatus(i)[o])
<1> DEFINE U == "SIDE_EFFECT_UNCERTAIN"
<1> DEFINE R == RecoveredDelivery(i)
<1>1. Summarises(o, delivery, status[o])
  BY DEF StatusSummarises
<1>2. CASE Has(o, R, U)
  <2>1. LiveOr(o, R, "DONE") = U
    BY <1>2 DEF LiveOr
  <2>2. status[o] \in Terminal => status[o] = U
    <3>1. Has(o, delivery, U) \/ Has(o, delivery, "SENDING")
      BY <1>2, RecoveryEffect DEF Has
    <3> QED  BY <1>1, <3>1 DEF Summarises, LiveOr, Terminal
  <2> QED  BY <1>2, <2>1, <2>2 DEF Summarises, RecoveredStatus
<1>3. CASE ~Has(o, R, U)
  <2>1. \A t \in Target : OpOf[t] = o => R[t] = delivery[t]
    BY <1>3, RecoveryEffect DEF Has
  <2>2. RecoveredStatus(i)[o] = status[o]
    BY <1>3 DEF RecoveredStatus
  <2> QED  BY <1>1, <2>1, <2>2, SameSummary
<1> QED  BY <1>2, <1>3

LEMMA ClaimSummarises ==
    ASSUME TypeOK, StatusSummarises, NEW i \in Instance, Claim(i)
    PROVE  StatusSummarises'
<1>1. CASE ClaimNothing(i)
  BY <1>1, RecoverySummarises DEF ClaimNothing, StatusSummarises
<1>2. ASSUME NEW t \in Target, ClaimNext(i, t) PROVE StatusSummarises'
  <2> DEFINE R == RecoveredDelivery(i)
  <2>1. /\ R \in [Target -> DeliveryStatus]
        /\ RecoveredStatus(i) \in [Operation -> OperationStatus]
        /\ OpOf[t] \in Operation
    BY RecoveryType, OpOfAssumption
  <2>2. /\ delivery' = [R EXCEPT ![t] = "SENDING"]
        /\ status' = [RecoveredStatus(i) EXCEPT ![OpOf[t]] = "SENDING"]
        /\ RecoveredStatus(i)[OpOf[t]] \notin Terminal
    BY <1>2 DEF ClaimNext, Eligible
  <2>3. ASSUME NEW o \in Operation, o # OpOf[t]
        PROVE  Summarises(o, delivery', status'[o])
    <3>1. \A u \in Target : OpOf[u] = o => delivery'[u] = R[u]
      BY <2>1, <2>2, <2>3
    <3> QED  BY <2>1, <2>2, <2>3, <3>1, RecoverySummarises, SameSummary
  <2>4. Summarises(OpOf[t], delivery', "SENDING")
    <3>1. ~Has(OpOf[t], R, "SIDE_EFFECT_UNCERTAIN")
      BY <2>1, <2>2, RecoverySummarises DEF Summarises, LiveOr, Terminal
    <3>2. ~Has(OpOf[t], delivery', "SIDE_EFFECT_UNCERTAIN") /\ Has(OpOf[t], delivery', "SENDING")
      BY <2>1, <2>2, <3>1 DEF Has
    <3> QED  BY <3>2 DEF Summarises, LiveOr
  <2>5. status'[OpOf[t]] = "SENDING"
    BY <2>1, <2>2
  <2> QED  BY <2>3, <2>4, <2>5 DEF StatusSummarises
<1> QED  BY <1>1, <1>2 DEF Claim

\* A step that changes one target and writes its operation's summary.
LEMMA OneTargetSummarises ==
    ASSUME TypeOK, StatusSummarises, NEW t \in Target, NEW s,
           \A u \in Target \ {t} : delivery'[u] = delivery[u],
           Summarises(OpOf[t], delivery', s),
           status' = [status EXCEPT ![OpOf[t]] = s]
    PROVE  StatusSummarises'
<1>1. OpOf[t] \in Operation /\ status \in [Operation -> OperationStatus]
  BY OpOfAssumption DEF TypeOK
<1>2. ASSUME NEW o \in Operation, o # OpOf[t] PROVE Summarises(o, delivery', status'[o])
  <2>1. \A u \in Target : OpOf[u] = o => delivery'[u] = delivery[u]
    BY <1>2
  <2>2. status'[o] = status[o] /\ Summarises(o, delivery, status[o])
    BY <1>1, <1>2 DEF StatusSummarises
  <2> QED  BY <2>1, <2>2, SameSummary
<1>3. Summarises(OpOf[t], delivery', status'[OpOf[t]])
  BY <1>1
<1> QED  BY <1>2, <1>3 DEF StatusSummarises

LEMMA CancelSummarises ==
    ASSUME TypeOK, StatusSummarises, NEW O, CancelOperations(O)
    PROVE  StatusSummarises'
<1> SUFFICES ASSUME NEW o \in Operation PROVE Summarises(o, delivery', status'[o])
  BY DEF StatusSummarises
<1>1. CASE o \in O
  BY <1>1, SummariesSummarise DEF CancelOperations
<1>2. CASE o \notin O
  <2>1. \A t \in Target : OpOf[t] = o => delivery'[t] = delivery[t]
    BY <1>2 DEF CancelOperations, RequestCancellation
  <2>2. status'[o] = status[o]
    BY <1>2 DEF CancelOperations
  <2> QED  BY <2>1, <2>2, SameSummary DEF StatusSummarises
<1> QED  BY <1>1, <1>2

LEMMA LapseSummarises ==
    ASSUME TypeOK, StatusSummarises, NEW released \in BOOLEAN, DeactivateLapsed(released)
    PROVE  StatusSummarises'
<1> SUFFICES ASSUME NEW o \in Operation PROVE Summarises(o, delivery', status'[o])
  BY DEF StatusSummarises
<1> DEFINE U == "SIDE_EFFECT_UNCERTAIN"
<1>0. /\ Summarises(o, delivery, status[o])
      /\ Has(o, delivery', U) <=> Has(o, delivery, U)
      /\ Has(o, delivery', "SENDING") <=> Has(o, delivery, "SENDING")
      /\ ~Has(o, delivery', "PENDING") /\ ~Has(o, delivery', "FAILED_RETRYABLE")
  BY DEF StatusSummarises, DeactivateLapsed, Has, Open
<1>1. CASE Live(o) /\ released
  BY <1>1, SummariesSummarise DEF DeactivateLapsed
<1>2. CASE Live(o) /\ ~released
  <2>1. ~Has(o, delivery', U)
    BY <1>0, <1>2 DEF Live, Summarises, LiveOr, Terminal
  <2>2. status'[o] = IF Has(o, delivery', "SENDING") THEN status[o] ELSE "CANCELLED"
    BY <1>2 DEF DeactivateLapsed
  <2> QED  BY <1>0, <2>1, <2>2 DEF Summarises, LiveOr
<1>3. CASE ~Live(o)
  <2>1. status'[o] = status[o]
    BY <1>3 DEF DeactivateLapsed
  <2> QED  BY <1>0, <1>3, <2>1 DEF Live, Summarises, LiveOr, Terminal
<1> QED  BY <1>1, <1>2, <1>3

LEMMA SummaryStep ==
    DeliveryInv /\ StatusSummarises /\ [Next]_vars => StatusSummarises'
<1> SUFFICES ASSUME DeliveryInv, StatusSummarises, [Next]_vars PROVE StatusSummarises'
  OBVIOUS
<1> USE DEF accountVars, targetVars, runVars, history
<1>0. TypeOK /\ \A i \in Instance : Holding(i) => cur[i] \in Target
  BY DEF DeliveryInv, OneRunPerTarget
<1>1. CASE UNCHANGED <<delivery, status>>
  BY <1>1 DEF StatusSummarises, Summarises, LiveOr, Has
<1>2. ASSUME NEW i \in Instance, Unauthorized(i) PROVE StatusSummarises'
  <2>1. cur[i] \in Target
    BY <1>0, <1>2 DEF Unauthorized, Holding, Busy
  <2>2. \A t \in Target \ {cur[i]} : delivery'[t] = delivery[t]
    BY <1>0, <1>2 DEF Unauthorized, TypeOK
  <2> QED  BY <1>0, <1>2, <2>1, <2>2, OneTargetSummarises, SummariesSummarise DEF Unauthorized
<1>3. ASSUME NEW i \in Instance, Finish(i) \/ FinishLost(i) PROVE StatusSummarises'
  <2>1. cur[i] \in Target
    BY <1>0, <1>3 DEF Finish, FinishLost, Holding, Busy
  <2>2. CASE ApplyFinish(i)
    <3>1. \A t \in Target \ {cur[i]} : delivery'[t] = delivery[t]
      BY <1>0, <2>2 DEF ApplyFinish, TypeOK
    <3>2. status' = [status EXCEPT ![OpOf[cur[i]]] = FinishSummary(OpOf[cur[i]], delivery')]
      BY <2>2 DEF ApplyFinish
    <3>3. Summarises(OpOf[cur[i]], delivery', FinishSummary(OpOf[cur[i]], delivery'))
      BY SummariesSummarise
    <3> QED  BY <1>0, <2>1, <3>1, <3>2, <3>3, OneTargetSummarises
  <2>3. CASE UNCHANGED targetVars
    BY <1>1, <2>3
  <2>4. ApplyFinish(i) \/ UNCHANGED targetVars
    BY <1>3 DEF Finish, FinishLost
  <2> QED  BY <2>2, <2>3, <2>4
<1>4. ASSUME NEW t \in Target, ChangeTarget(t) PROVE StatusSummarises'
  <2>1. \A u \in Target \ {t} : delivery'[u] = delivery[u]
    BY <1>4 DEF ChangeTarget, RequestCancellation
  <2> QED  BY <1>0, <1>4, <2>1, OneTargetSummarises, SummariesSummarise DEF ChangeTarget
<1>5. ASSUME \E i \in Instance :
                StartRun(i) \/ ClaimRefused(i) \/ EndRun(i) \/ Release(i) \/ FencedOut(i)
                \/ ValidateError(i) \/ Crash(i) \/ RejectPayload(i) \/ Authorize(i) \/ Send(i)
      PROVE  UNCHANGED <<delivery, status>>
  BY <1>5 DEF StartRun, ClaimRefused, EndRun, Release, FencedOut, ValidateError, Crash,
              RejectPayload, Authorize, Send
<1>6. ASSUME \/ \E t \in Target : CommandLeaseExpires(t) \/ WaitElapses(t)
             \/ AccountReady \/ EntitlementExpires \/ Renew \/ Lapse \/ Tick \/ UNCHANGED vars
      PROVE  UNCHANGED <<delivery, status>>
  BY <1>6 DEF CommandLeaseExpires, WaitElapses, AccountReady, EntitlementExpires, Renew,
              Lapse, Tick, vars
<1>7. ASSUME StopService \/ AccountUnavailable \/ Disconnect
             \/ \E o \in Operation : CancelOperation(o)
      PROVE  StatusSummarises'
  BY <1>0, <1>7, CancelSummarises
     DEF StopService, AccountUnavailable, Disconnect, CancelOperation
<1> QED
  <2>1. ASSUME NEW i \in Instance,
               Run(i) \/ ValidateError(i) \/ FinishLost(i) \/ EndRun(i) \/ Crash(i)
        PROVE  StatusSummarises'
    <3>1. CASE Claim(i)
      BY <1>0, <3>1, ClaimSummarises
    <3> QED  BY <1>1, <1>2, <1>3, <1>5, <2>1, <3>1 DEF Run, Execute
  <2>2. ASSUME NEW released \in BOOLEAN, DeactivateLapsed(released) PROVE StatusSummarises'
    BY <1>0, <2>2, LapseSummarises
  <2> QED  BY <1>1, <1>4, <1>6, <1>7, <2>1, <2>2 DEF Next

\* The status of every operation always summarises the statuses of its targets.
THEOREM DeliverySummarises == Spec => []StatusSummarises
<1>1. Init => StatusSummarises
  BY OpOfAssumption DEF Init, StatusSummarises, Summarises, LiveOr, Has
<1> QED  BY <1>1, SummaryStep, DeliveryInvariant, PTL DEF Spec
=============================================================================
