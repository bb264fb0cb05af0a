-------------------------- MODULE AutoComment_proofs --------------------------
(***************************************************************************)
(* Proofs about Auto Komen: about AutoComment, for every number of engine  *)
(* processes and candidates and every bound on the fencing tokens; and     *)
(* about an instance of CentralMonitor, which creates the candidates, for  *)
(* every number of sessions, divisions, posts and upsets.                  *)
(***************************************************************************)
EXTENDS AutoComment, MCCentralMonitor, TLAPS, WellFoundedInduction

\* A run that has a command in its hands.
Holding(i) == pc[i] \in {"CLAIMED", "AUTHORIZED", "ANSWERED"}

\* A candidate still to be decided, or decided without a comment, has no command.
CommandComesLast ==
    \A c \in Candidate : cand[c] \in {"ABSENT", "PENDING_REVIEW", "OOT"} => cmd[c] = "ABSENT"

\* A notification is on its way at most once, before any decision.
AskedInOrder ==
    \A c \in Candidate :
        /\ cand[c] = "ABSENT" => ~asking[c] /\ asked[c] = 0
        /\ asking[c] => asked[c] = 0 /\ cmd[c] = "ABSENT"

\* A busy run has a command, and no other busy run has the same.
OneRunPerCommand ==
    /\ \A i \in Instance : Holding(i) => cur[i] \in Candidate
    /\ \A i, j \in Instance : Holding(i) /\ Holding(j) /\ cur[i] = cur[j] => i = j

\* While its command is CLAIMED, the claim on it is the run's own.
ClaimIsOwn ==
    \A i \in Instance : Holding(i) /\ cmd[cur[i]] = "CLAIMED" => Mine(cur[i], i)

\* What a run is about to do or to report fits what Telegram has seen.
RunTellsTruth ==
    \A i \in Instance :
        /\ pc[i] \in {"CLAIMED", "AUTHORIZED"} =>
              cmd[cur[i]] \in {"CLAIMED", "SIDE_EFFECT_UNCERTAIN"} /\ posted[cur[i]] = 0
        /\ pc[i] = "ANSWERED" =>
              /\ out[i] \in Outcome
              /\ \/ cmd[cur[i]] \in {"CLAIMED", "SIDE_EFFECT_UNCERTAIN"}
                 \/ cmd[cur[i]] = "SUCCEEDED" /\ out[i] = "SIDE_EFFECT_UNCERTAIN"
              /\ out[i] = "SUCCEEDED" => posted[cur[i]] = 1
              /\ out[i] \in {"FAILED_RETRYABLE", "FAILED_FINAL"} => posted[cur[i]] = 0

\* A run that still may finish its command finds the candidate queued or withdrawn.
FinishIsExpected ==
    \A i \in Instance :
        Holding(i) /\ Holds(i) /\ cmd[cur[i]] = "CLAIMED" =>
            cand[cur[i]] \in {"COMMENT_QUEUED", "REJECTED"}

CommentInv ==
    /\ TypeOK /\ CommandComesLast /\ AskedInOrder /\ AskedOnce /\ CommentTellsTruth
    /\ OneRunPerCommand /\ ClaimIsOwn /\ RunTellsTruth /\ FinishIsExpected

\* Every run but i is where it was.
OthersWait(i) ==
    \A j \in Instance \ {i} :
        pc'[j] = pc[j] /\ tok'[j] = tok[j] /\ cur'[j] = cur[j] /\ out'[j] = out[j]

\* What a step can do to a command: nothing takes one back that is over.
CommandMoves ==
    \A c \in Candidate :
        \/ cmd'[c] = cmd[c]
        \/ cmd[c] = "ABSENT" /\ cmd'[c] = "PENDING"
        \/ cmd[c] \in Open /\ cmd'[c] \in {"CLAIMED", "CANCELLED", "FAILED_FINAL"}
        \/ cmd[c] = "CLAIMED" /\ cmd'[c] \in Terminal \cup {"FAILED_RETRYABLE"}

-----------------------------------------------------------------------------
(* Types. *)

\* Nobody holds a lease that is nobody's.
LEMMA NobodyType == Nobody \in Lease
BY DEF Nobody, Lease

\* Recovery keeps the types.
LEMMA RecoveredType ==
    ASSUME TypeOK, NEW i \in Instance
    PROVE  /\ Recovered(i) \in [Candidate -> Open \cup Terminal \cup {"ABSENT", "CLAIMED"}]
           /\ Unleased(i) \in [Candidate -> Lease]
<1>1. Recovered(i) \in [Candidate -> Open \cup Terminal \cup {"ABSENT", "CLAIMED"}]
  <2>1. \A c \in Candidate : cmd[c] \in Open \cup Terminal \cup {"ABSENT", "CLAIMED"}
    BY DEF TypeOK
  <2> QED
    BY <2>1 DEF Recovered, Terminal
<1>2. \A c \in Candidate : [claim[c] EXCEPT !.live = FALSE] \in Lease /\ claim[c] \in Lease
  <2>1. \A c \in Candidate : claim[c] \in Lease
    BY DEF TypeOK
  <2> QED
    BY <2>1 DEF Lease
<1> QED
  BY <1>1, <1>2 DEF Unleased

\* So does a cancellation.
LEMMA CancelType ==
    ASSUME TypeOK, CancelCandidates
    PROVE  /\ cmd' \in [Candidate -> Open \cup Terminal \cup {"ABSENT", "CLAIMED"}]
           /\ op' \in [Candidate -> Terminal \cup {"ABSENT", "QUEUED", "FAILED_RETRYABLE"}]
           /\ cand' \in [Candidate -> CandidateStatus]
           /\ stopped' \in [Candidate -> BOOLEAN]
BY DEF TypeOK, CancelCandidates, Open, Terminal, CandidateStatus, Undecided

\* And what a run reports.
LEMMA FinishType ==
    ASSUME TypeOK, NEW i \in Instance, cur[i] \in Candidate, out[i] \in Outcome, ApplyFinish(i)
    PROVE  /\ cmd' \in [Candidate -> Open \cup Terminal \cup {"ABSENT", "CLAIMED"}]
           /\ op' \in [Candidate -> Terminal \cup {"ABSENT", "QUEUED", "FAILED_RETRYABLE"}]
           /\ cand' \in [Candidate -> CandidateStatus]
           /\ claim' \in [Candidate -> Lease]
           /\ waiting' \in [Candidate -> BOOLEAN] /\ stopped' = stopped
<1>1. \A s \in CandidateStatus : CandidateAfter(s, out[i]) \in CandidateStatus
  BY DEF CandidateAfter, CandidateStatus, Undecided
<1>2. out[i] \in Open \cup Terminal /\ out[i] \in Terminal \cup {"FAILED_RETRYABLE"}
  BY DEF Outcome, Open, Terminal
<1> QED
  BY <1>1, <1>2, NobodyType DEF TypeOK, ApplyFinish

\* Every step keeps the types.
LEMMA TypeStep ==
    ASSUME CommentInv, [Next]_vars
    PROVE  TypeOK'
<1> USE DEF accountVars, candVars, cmdVars, runVars, history, Goto, LetGo, PC
<1>0. TypeOK /\ \A i \in Instance : Holding(i) => cur[i] \in Candidate
  BY DEF CommentInv, OneRunPerCommand
<1>1. ASSUME NEW c \in Candidate, Create(c) PROVE TypeOK'
  <2>1. UNCHANGED <<accountVars, review, asked, claim, stopped, waiting, runVars, history>>
    BY <1>1 DEF Create
  <2>2. CASE QueueComment(c) /\ UNCHANGED asking
    BY <1>0, <2>1, <2>2 DEF TypeOK, QueueComment, CandidateStatus, Undecided, Open
  <2>3. CASE cand' = [cand EXCEPT ![c] = "PENDING_REVIEW"] /\ asking' = [asking EXCEPT ![c] = TRUE]
             /\ UNCHANGED <<cmd, op>>
    BY <1>0, <2>1, <2>3 DEF TypeOK, CandidateStatus, Undecided
  <2> QED
    BY <1>1, <2>2, <2>3 DEF Create
<1>2. ASSUME NEW c \in Candidate, CreateAgain(c) PROVE TypeOK'
  BY <1>0, <1>2 DEF TypeOK, CreateAgain, vars
<1>3. ASSUME NEW c \in Candidate, Notify(c) PROVE TypeOK'
  BY <1>0, <1>3 DEF TypeOK, Notify
<1>4. ASSUME NEW c \in Candidate, NEW d \in {"TEPAT", "OOT"}, Decide(c, d) PROVE TypeOK'
  <2>1. /\ cand' \in [Candidate -> CandidateStatus]
        /\ review' \in [Candidate -> {"NONE", "TEPAT", "OOT"}]
        /\ cmd' \in [Candidate -> Open \cup Terminal \cup {"ABSENT", "CLAIMED"}]
        /\ op' \in [Candidate -> Terminal \cup {"ABSENT", "QUEUED", "FAILED_RETRYABLE"}]
    BY <1>0, <1>4 DEF TypeOK, Decide, QueueComment, CandidateStatus, Undecided, Open, Terminal
  <2>2. UNCHANGED <<accountVars, asking, asked, claim, stopped, waiting, runVars, history>>
    BY <1>4 DEF Decide
  <2> QED
    BY <1>0, <2>1, <2>2 DEF TypeOK
<1>5. ASSUME NEW c \in Candidate, CommandLeaseExpires(c) PROVE TypeOK'
  <2>1. [claim[c] EXCEPT !.live = FALSE] \in Lease
    <3>1. claim[c] \in Lease
      BY <1>0 DEF TypeOK
    <3> QED
      BY <3>1 DEF Lease
  <2>2. claim' = [claim EXCEPT ![c] = [claim[c] EXCEPT !.live = FALSE]]
    BY <1>5 DEF CommandLeaseExpires
  <2> QED
    BY <1>0, <1>5, <2>1, <2>2 DEF TypeOK, CommandLeaseExpires
<1>6. ASSUME NEW c \in Candidate, WaitElapses(c) PROVE TypeOK'
  BY <1>0, <1>6 DEF TypeOK, WaitElapses
<1>7. ASSUME NEW i \in Instance, StartRun(i) PROVE TypeOK'
  <2>1. PICK token \in 1..MaxToken :
           lease' = [owner |-> i, token |-> token, live |-> TRUE] /\ tok' = [tok EXCEPT ![i] = token]
    BY <1>7 DEF StartRun
  <2>2. token \in Nat /\ lease' \in Lease
    BY <2>1, BoundAssumption DEF Lease
  <2> QED
    BY <1>0, <1>7, <2>1, <2>2 DEF TypeOK, StartRun
<1>8. ASSUME NEW i \in Instance, EndRun(i) \/ Crash(i) PROVE TypeOK'
  <2>1. CASE EndRun(i)
    BY <1>0, <2>1 DEF TypeOK, EndRun
  <2>2. CASE Crash(i)
    <3>1. asking \in [Candidate -> BOOLEAN] /\ [c \in Candidate |-> FALSE] \in [Candidate -> BOOLEAN]
      BY <1>0 DEF TypeOK
    <3>2. asking' \in [Candidate -> BOOLEAN]
      BY <2>2, <3>1, Zenon DEF Crash
    <3> QED
      BY <1>0, <2>2, <3>2 DEF TypeOK, Crash
  <2> QED
    BY <1>8, <2>1, <2>2
<1>9. ASSUME NEW i \in Instance, ClaimNothing(i) PROVE TypeOK'
  BY <1>0, <1>9, RecoveredType DEF TypeOK, ClaimNothing
<1>10. ASSUME NEW i \in Instance, NEW c \in Candidate, ClaimNext(i, c) PROVE TypeOK'
  <2>1. [owner |-> i, token |-> tok[i], live |-> TRUE] \in Lease
    BY <1>0 DEF TypeOK, Lease
  <2> QED
    <3>1. cmd' \in [Candidate -> Open \cup Terminal \cup {"ABSENT", "CLAIMED"}] /\ claim' \in [Candidate -> Lease]
      BY <1>0, <1>10, <2>1, RecoveredType DEF ClaimNext
    <3>2. pc' \in [Instance -> PC] /\ cur' \in [Instance -> Candidate \cup {NoCandidate}]
      BY <1>0, <1>10 DEF TypeOK, ClaimNext
    <3> QED
      BY <1>0, <1>10, <3>1, <3>2 DEF TypeOK, ClaimNext
<1>11. ASSUME NEW i \in Instance, RejectPayload(i) PROVE TypeOK'
  BY <1>0, <1>11 DEF TypeOK, RejectPayload, Outcome
<1>12. ASSUME NEW i \in Instance, Validate(i) PROVE TypeOK'
  <2>1. cur[i] \in Candidate
    BY <1>0, <1>12 DEF Validate, Holding
  <2>2. CASE UNCHANGED <<cand, cmdVars>>
    BY <1>0, <1>12, <2>2 DEF TypeOK, Validate
  <2>3. CASE /\ cmd' = [cmd EXCEPT ![cur[i]] = "CANCELLED"]
             /\ claim' = [claim EXCEPT ![cur[i]] = Nobody]
             /\ stopped' = [stopped EXCEPT ![cur[i]] = TRUE]
             /\ op' = [op EXCEPT ![cur[i]] = "CANCELLED"]
             /\ cand' = [cand EXCEPT ![cur[i]] = IF @ \in Undecided THEN "REJECTED" ELSE @]
             /\ LetGo(i, "LOOP") /\ UNCHANGED waiting
    BY <1>0, <1>12, <2>1, <2>3, NobodyType DEF TypeOK, Validate, CandidateStatus, Undecided, Terminal
  <2> QED
    BY <1>12, <2>2, <2>3 DEF Validate
<1>13. ASSUME NEW i \in Instance, Send(i) PROVE TypeOK'
  <2>1. cur[i] \in Candidate
    BY <1>0, <1>13 DEF Send, Holding
  <2>2. \A s \in BOOLEAN : Answers(cur[i], s) \subseteq Outcome
    BY DEF Answers, Outcome
  <2>3. out' \in [Instance -> Outcome \cup {"NONE"}] /\ posted' \in [Candidate -> Nat]
    BY <1>0, <1>13, <2>1, <2>2 DEF TypeOK, Send
  <2> QED
    BY <1>0, <1>13, <2>3 DEF TypeOK, Send
<1>14. ASSUME NEW i \in Instance, Finish(i) \/ FinishLost(i) PROVE TypeOK'
  <2>1. cur[i] \in Candidate /\ out[i] \in Outcome
    BY <1>0, <1>14 DEF CommentInv, RunTellsTruth, Finish, FinishLost, Holding
  <2>2. /\ cmd' \in [Candidate -> Open \cup Terminal \cup {"ABSENT", "CLAIMED"}]
        /\ op' \in [Candidate -> Terminal \cup {"ABSENT", "QUEUED", "FAILED_RETRYABLE"}]
        /\ cand' \in [Candidate -> CandidateStatus] /\ claim' \in [Candidate -> Lease]
        /\ waiting' \in [Candidate -> BOOLEAN] /\ stopped' = stopped
    <3>1. ApplyFinish(i) \/ UNCHANGED <<cand, cmdVars>>
      BY <1>14 DEF Finish, FinishLost
    <3>2. CASE UNCHANGED <<cand, cmdVars>>
      BY <1>0, <3>2 DEF TypeOK
    <3> QED
      BY <1>0, <2>1, <3>1, <3>2, FinishType
  <2>3. /\ pc' \in [Instance -> PC] /\ cur' \in [Instance -> Candidate \cup {NoCandidate}]
        /\ out' \in [Instance -> Outcome \cup {"NONE"}]
    BY <1>0, <1>14 DEF TypeOK, Finish, FinishLost, Outcome
  <2> QED
    BY <1>0, <1>14, <2>2, <2>3 DEF TypeOK, Finish, FinishLost
<1>15. ASSUME NEW i \in Instance, Release(i) PROVE TypeOK'
  BY <1>0, <1>15 DEF TypeOK, Release, Lease
<1>16. ASSUME NEW i \in Instance, PreparationFails(i) PROVE TypeOK'
  BY <1>0, <1>16 DEF TypeOK, PreparationFails, CandidateStatus, Open, Terminal, Undecided
<1>17. ASSUME SwitchOff \/ Edit PROVE TypeOK'
  <2>1. /\ cmd' \in [Candidate -> Open \cup Terminal \cup {"ABSENT", "CLAIMED"}]
        /\ op' \in [Candidate -> Terminal \cup {"ABSENT", "QUEUED", "FAILED_RETRYABLE"}]
        /\ cand' \in [Candidate -> CandidateStatus] /\ stopped' \in [Candidate -> BOOLEAN]
    BY <1>0, <1>17, CancelType DEF SwitchOff, Edit
  <2>2. /\ UNCHANGED <<lease, fit, review, asking, asked, claim, waiting, runVars, posted>>
        /\ on' \in BOOLEAN /\ withdrawn' \in SUBSET Candidate
    BY <1>0, <1>17 DEF TypeOK, SwitchOff, Edit, CancelCandidates
  <2> QED
    BY <1>0, <2>1, <2>2 DEF TypeOK
<1>18. ASSUME SwitchOn \/ FitChanges \/ Lapse PROVE TypeOK'
  <2>1. lease' \in Lease /\ on' \in BOOLEAN /\ fit' \in BOOLEAN
    <3>1. lease \in Lease /\ on \in BOOLEAN /\ fit \in BOOLEAN
      BY <1>0 DEF TypeOK
    <3>2. [lease EXCEPT !.live = FALSE] \in Lease
      BY <3>1 DEF Lease
    <3> QED
      BY <1>18, <3>1, <3>2 DEF SwitchOn, FitChanges, Lapse
  <2>2. UNCHANGED <<candVars, cmdVars, runVars, history>>
    BY <1>18 DEF SwitchOn, FitChanges, Lapse
  <2> QED
    BY <1>0, <2>1, <2>2 DEF TypeOK
<1>19. CASE UNCHANGED vars
  BY <1>0, <1>19 DEF TypeOK, vars
<1> QED
  BY <1>1, <1>2, <1>3, <1>4, <1>5, <1>6, <1>7, <1>8, <1>9, <1>10, <1>11, <1>12, <1>13, <1>14, <1>15,
     <1>16, <1>17, <1>18, <1>19 DEF Next, Run, Claim

-----------------------------------------------------------------------------
(* The invariant. *)

\* It holds at the start.
LEMMA CommentInit == Init => CommentInv
<1> SUFFICES ASSUME Init PROVE CommentInv
  OBVIOUS
<1>1. TypeOK
  BY NobodyType DEF Init, TypeOK, CandidateStatus, Open, Terminal, PC
<1>2. CommandComesLast /\ AskedInOrder /\ AskedOnce /\ CommentTellsTruth
  BY DEF Init, CommandComesLast, AskedInOrder, AskedOnce, CommentTellsTruth
<1>3. OneRunPerCommand /\ ClaimIsOwn /\ RunTellsTruth /\ FinishIsExpected
  BY DEF Init, OneRunPerCommand, ClaimIsOwn, RunTellsTruth, FinishIsExpected, Holding
<1> QED
  BY <1>1, <1>2, <1>3 DEF CommentInv

\* Only a match or a decision makes a command, and only a match announces a candidate:
\* whatever makes neither keeps what holds of the owner's questions.
LEMMA AskedKept ==
    ASSUME CommentInv, UNCHANGED <<review, asked>>,
           \A c \in Candidate :
              /\ cmd'[c] = "ABSENT" <=> cmd[c] = "ABSENT"
              /\ cand'[c] \in {"ABSENT", "PENDING_REVIEW", "OOT"} => cand'[c] = cand[c],
           \A c \in Candidate : asking'[c] => asking[c]
    PROVE  CommandComesLast' /\ AskedInOrder' /\ AskedOnce'
BY DEF CommentInv, CommandComesLast, AskedInOrder, AskedOnce

\* A step of the user or of time: it makes a command, ends an open one, or changes what
\* a candidate shows, and leaves the claims and what is under way alone.
LEMMA EnvironmentStep ==
    ASSUME CommentInv, TypeOK', UNCHANGED <<runVars, posted>>,
           CommandComesLast' /\ AskedInOrder' /\ AskedOnce',
           \A i \in Instance : Holds(i)' => Holds(i),
           \A c \in Candidate :
              /\ claim'[c].owner = claim[c].owner /\ claim'[c].token = claim[c].token
              /\ \/ cmd'[c] = cmd[c]
                 \/ cmd[c] = "ABSENT" /\ cmd'[c] = "PENDING"
                 \/ cmd[c] \in Open /\ cmd'[c] \in {"CANCELLED", "FAILED_FINAL"}
              /\ \/ cand'[c] = cand[c]
                 \/ cmd[c] = "ABSENT" /\ cand'[c] # "COMMENT_SENT"
                 \/ cand'[c] = "REJECTED"
                 \/ /\ cand'[c] = "COMMENT_FAILED"
                    /\ \A i \in Instance : Holding(i) => ~Holds(i)'
    PROVE  CommentInv' /\ CommandMoves
<1> USE DEF runVars, history
<1>1. \A i \in Instance : Holding(i)' => Holding(i) /\ cur'[i] = cur[i] /\ cur[i] \in Candidate
  BY DEF CommentInv, OneRunPerCommand, Holding
<1>2. \A i \in Instance : Holding(i) => cmd[cur[i]] \notin Open \cup {"ABSENT"} /\ cmd'[cur[i]] = cmd[cur[i]]
  <2>1. \A i \in Instance : Holding(i) => cmd[cur[i]] \notin Open \cup {"ABSENT"}
    BY DEF CommentInv, RunTellsTruth, Holding, Open
  <2> QED
    BY <1>1, <2>1 DEF Holding
<1>3. OneRunPerCommand'
  BY <1>1 DEF CommentInv, OneRunPerCommand, Holding
<1>4. ClaimIsOwn'
  BY <1>1, <1>2 DEF CommentInv, ClaimIsOwn, Mine, Holding
<1>5. RunTellsTruth'
  BY <1>1, <1>2 DEF CommentInv, RunTellsTruth, Holding
<1>6. FinishIsExpected'
  BY <1>1, <1>2 DEF CommentInv, FinishIsExpected, Holding
<1>7. CommentTellsTruth'
  <2>1. ASSUME NEW c \in Candidate, cand'[c] = "COMMENT_SENT" PROVE cmd'[c] = "SUCCEEDED"
    BY <2>1 DEF CommentInv, CommentTellsTruth, Open
  <2>2. ASSUME NEW c \in Candidate
        PROVE  /\ posted'[c] <= 1
               /\ cmd'[c] \in Open \cup {"ABSENT", "CANCELLED", "FAILED_FINAL"} => posted'[c] = 0
               /\ cmd'[c] = "SUCCEEDED" => posted'[c] = 1
    BY DEF CommentInv, CommentTellsTruth, Open
  <2> QED
    BY <2>1, <2>2 DEF CommentTellsTruth
<1>8. CommandMoves
  BY DEF CommandMoves
<1> QED
  BY <1>3, <1>4, <1>5, <1>6, <1>7, <1>8 DEF CommentInv

\* A run that starts, or leaves what it has in hands, and time running out on leases.
LEMMA IdleStep ==
    ASSUME CommentInv, TypeOK', NEW i \in Instance, OthersWait(i), ~Holding(i)',
           UNCHANGED <<cand, review, asked, cmd, claim, posted>>,
           \A c \in Candidate : asking'[c] => asking[c],
           \A j \in Instance \ {i} : Holds(j)' => Holds(j)
    PROVE  CommentInv' /\ CommandMoves
<1>1. \A j \in Instance : Holding(j)' => j # i /\ Holding(j) /\ cur'[j] = cur[j] /\ tok'[j] = tok[j] /\ out'[j] = out[j]
                                         /\ pc'[j] = pc[j]
  BY DEF OthersWait, Holding
<1>2. OneRunPerCommand' /\ ClaimIsOwn' /\ FinishIsExpected'
  BY <1>1 DEF CommentInv, OneRunPerCommand, ClaimIsOwn, FinishIsExpected, Mine
<1>3. RunTellsTruth'
  BY <1>1 DEF CommentInv, RunTellsTruth, Holding
<1>4. CommentTellsTruth' /\ CommandMoves
  BY DEF CommentInv, CommentTellsTruth, CommandMoves
<1>5. CommandComesLast' /\ AskedInOrder' /\ AskedOnce'
  BY AskedKept
<1> QED
  BY <1>2, <1>3, <1>4, <1>5 DEF CommentInv

\* What a claim does to the commands it recovers: those of other runs, or out of time.
LEMMA RecoveryEffect ==
    ASSUME CommentInv, NEW i \in Instance, ~Holding(i), NEW c \in Candidate
    PROVE  /\ Recovered(i)[c] = cmd[c] \/ (cmd[c] = "CLAIMED" /\ Recovered(i)[c] = "SIDE_EFFECT_UNCERTAIN")
           /\ Unleased(i)[c].owner = claim[c].owner /\ Unleased(i)[c].token = claim[c].token
           /\ \A j \in Instance : Holding(j) /\ cur[j] = c => Recovered(i)[c] # "CLAIMED"
<1>1. Recovered(i)[c] = IF Stale(c, i) THEN "SIDE_EFFECT_UNCERTAIN" ELSE cmd[c]
  BY DEF Recovered
<1>2. Unleased(i)[c] = claim[c] \/ Unleased(i)[c] = [claim[c] EXCEPT !.live = FALSE]
  BY DEF Unleased
<1>3. claim[c] \in Lease
  BY DEF CommentInv, TypeOK
<1>4. ASSUME NEW j \in Instance, Holding(j), cur[j] = c, cmd[c] = "CLAIMED" PROVE Stale(c, i)
  <2>1. Mine(c, j) /\ j # i
    BY <1>4 DEF CommentInv, ClaimIsOwn
  <2> QED
    BY <1>4, <2>1 DEF Mine, Stale
<1> QED
  BY <1>1, <1>2, <1>3, <1>4 DEF Stale, Lease

\* Nothing was left to claim.
LEMMA ClaimNothingStep ==
    ASSUME CommentInv, TypeOK', NEW i \in Instance, ClaimNothing(i)
    PROVE  CommentInv' /\ CommandMoves
<1>1. /\ pc[i] = "LOOP" /\ cmd' = Recovered(i) /\ claim' = Unleased(i) /\ pc' = [pc EXCEPT ![i] = "CLOSING"]
      /\ UNCHANGED <<lease, cand, review, asking, asked, tok, cur, out, posted>>
  BY DEF ClaimNothing, Goto, accountVars, candVars, history
<1>2. \A c \in Candidate :
         /\ cmd'[c] = cmd[c] \/ (cmd[c] = "CLAIMED" /\ cmd'[c] = "SIDE_EFFECT_UNCERTAIN")
         /\ claim'[c].owner = claim[c].owner /\ claim'[c].token = claim[c].token
         /\ \A j \in Instance : Holding(j) /\ cur[j] = c => cmd'[c] # "CLAIMED"
  BY <1>1, RecoveryEffect DEF Holding
<1>3. \A j \in Instance : Holding(j)' => Holding(j) /\ pc'[j] = pc[j] /\ cur[j] \in Candidate
  BY <1>1 DEF CommentInv, TypeOK, OneRunPerCommand, Holding
<1>4. OneRunPerCommand' /\ ClaimIsOwn' /\ FinishIsExpected'
  BY <1>1, <1>2, <1>3 DEF CommentInv, OneRunPerCommand, ClaimIsOwn, FinishIsExpected
<1>5. RunTellsTruth'
  BY <1>1, <1>2, <1>3 DEF CommentInv, RunTellsTruth, Holding
<1>6. CommentTellsTruth' /\ CommandMoves
  BY <1>1, <1>2 DEF CommentInv, CommentTellsTruth, CommandMoves, Open, Terminal
<1>7. CommandComesLast' /\ AskedInOrder' /\ AskedOnce'
  BY <1>1, <1>2, AskedKept
<1> QED
  BY <1>4, <1>5, <1>6, <1>7 DEF CommentInv

\* A command is claimed: it was open, so no other run has it.
LEMMA ClaimNextStep ==
    ASSUME CommentInv, TypeOK', NEW i \in Instance, NEW c \in Candidate, ClaimNext(i, c)
    PROVE  CommentInv' /\ CommandMoves
<1>1. /\ pc[i] = "LOOP" /\ Claimable(c, i)
      /\ cmd' = [Recovered(i) EXCEPT ![c] = "CLAIMED"]
      /\ claim' = [Unleased(i) EXCEPT ![c] = [owner |-> i, token |-> tok[i], live |-> TRUE]]
      /\ \/ pc' = [pc EXCEPT ![i] = "CLAIMED"] /\ cur' = [cur EXCEPT ![i] = c]
         \/ pc' = [pc EXCEPT ![i] = "CLOSING"] /\ cur' = cur
      /\ UNCHANGED <<lease, cand, review, asking, asked, tok, out, posted>>
  BY DEF ClaimNext, Goto, accountVars, candVars, history
<1>2. /\ cmd'[c] = "CLAIMED" /\ claim'[c].owner = i /\ claim'[c].token = tok[i]
      /\ cmd[c] \in Open /\ cand[c] = "COMMENT_QUEUED" /\ posted[c] = 0
  BY <1>1, RecoveredType DEF CommentInv, CommentTellsTruth, Claimable
<1>3. \A d \in Candidate \ {c} :
         /\ cmd'[d] = cmd[d] \/ (cmd[d] = "CLAIMED" /\ cmd'[d] = "SIDE_EFFECT_UNCERTAIN")
         /\ claim'[d].owner = claim[d].owner /\ claim'[d].token = claim[d].token
         /\ \A j \in Instance : Holding(j) /\ cur[j] = d => cmd'[d] # "CLAIMED"
  <2>1. \A d \in Candidate \ {c} : cmd'[d] = Recovered(i)[d] /\ claim'[d] = Unleased(i)[d]
    BY <1>1, RecoveredType DEF CommentInv
  <2> QED
    BY <1>1, <2>1, RecoveryEffect DEF Holding
<1>4. \A j \in Instance : Holding(j) => cur[j] \in Candidate \ {c} /\ j # i
  BY <1>1, <1>2 DEF CommentInv, OneRunPerCommand, RunTellsTruth, Holding, Open
<1>5. \A j \in Instance \ {i} : pc'[j] = pc[j] /\ cur'[j] = cur[j]
  BY <1>1 DEF CommentInv, TypeOK
<1>6. Holding(i)' => pc'[i] = "CLAIMED" /\ cur'[i] = c
  BY <1>1 DEF CommentInv, TypeOK, Holding
<1>7. OneRunPerCommand'
  BY <1>4, <1>5, <1>6 DEF CommentInv, OneRunPerCommand, Holding
<1>8. ClaimIsOwn'
  BY <1>1, <1>2, <1>3, <1>4, <1>5, <1>6 DEF CommentInv, ClaimIsOwn, Holding, Mine
<1>9. FinishIsExpected'
  BY <1>1, <1>2, <1>3, <1>4, <1>5, <1>6 DEF CommentInv, FinishIsExpected, Holding
<1>10. RunTellsTruth'
  BY <1>1, <1>2, <1>3, <1>4, <1>5, <1>6 DEF CommentInv, RunTellsTruth, Holding
<1>11. CommentTellsTruth' /\ CommandMoves
  BY <1>1, <1>2, <1>3 DEF CommentInv, CommentTellsTruth, CommandMoves, Open, Terminal
<1>12. CommandComesLast' /\ AskedInOrder' /\ AskedOnce'
  BY <1>1, <1>2, <1>3, AskedKept DEF Open
<1> QED
  BY <1>7, <1>8, <1>9, <1>10, <1>11, <1>12 DEF CommentInv

\* A run that goes on with its command without touching the rows: it gives up on the
\* payload, is let to send, or sends.
LEMMA ExecuteStep ==
    ASSUME CommentInv, TypeOK', NEW i \in Instance,
           \/ RejectPayload(i) \/ Send(i)
           \/ pc[i] = "CLAIMED" /\ Goto(i, "AUTHORIZED") /\ UNCHANGED <<cur, out, tok, posted>>,
           UNCHANGED <<accountVars, candVars, cmdVars>>
    PROVE  CommentInv' /\ CommandMoves
<1> USE DEF accountVars, candVars, cmdVars, history
<1>0. Holding(i) /\ cur[i] \in Candidate /\ pc[i] \in {"CLAIMED", "AUTHORIZED"}
  BY DEF RejectPayload, Send, Holding, CommentInv, OneRunPerCommand
<1>1. posted[cur[i]] = 0 /\ cmd[cur[i]] \in {"CLAIMED", "SIDE_EFFECT_UNCERTAIN"}
  BY <1>0 DEF CommentInv, RunTellsTruth
<1>2. /\ OthersWait(i) /\ tok' = tok /\ cur' = cur
      /\ \A c \in Candidate \ {cur[i]} : posted'[c] = posted[c]
      /\ posted'[cur[i]] \in {0, 1}
      /\ \/ pc'[i] = "AUTHORIZED" /\ posted'[cur[i]] = 0
         \/ /\ pc'[i] = "ANSWERED" /\ out'[i] \in Outcome
            /\ out'[i] = "SUCCEEDED" => posted'[cur[i]] = 1
            /\ out'[i] \in {"FAILED_RETRYABLE", "FAILED_FINAL"} => posted'[cur[i]] = 0
  <2>1. CASE pc[i] = "CLAIMED" /\ Goto(i, "AUTHORIZED") /\ UNCHANGED <<cur, out, tok, posted>>
    BY <1>1, <2>1 DEF Goto, CommentInv, TypeOK, OthersWait
  <2>2. CASE RejectPayload(i)
    BY <1>1, <2>2 DEF RejectPayload, Goto, CommentInv, TypeOK, OthersWait, Outcome
  <2>3. CASE Send(i)
    <3>1. PICK sent \in BOOLEAN :
             /\ \E answer \in Answers(cur[i], sent) : out' = [out EXCEPT ![i] = answer]
             /\ posted' = [posted EXCEPT ![cur[i]] = IF sent THEN @ + 1 ELSE @]
      BY <2>3 DEF Send
    <3>2. PICK answer \in Answers(cur[i], sent) : out' = [out EXCEPT ![i] = answer]
      BY <3>1
    <3>3. /\ answer \in Outcome /\ (answer = "SUCCEEDED" => sent)
          /\ answer \in {"FAILED_RETRYABLE", "FAILED_FINAL"} => ~sent
      BY DEF Answers, Outcome
    <3> QED
      BY <1>0, <1>1, <2>3, <3>1, <3>2, <3>3 DEF Send, Goto, CommentInv, TypeOK, OthersWait
  <2> QED
    BY <2>1, <2>2, <2>3
<1>3. \A j \in Instance : /\ Holding(j)' <=> Holding(j)
                          /\ Holding(j) /\ j # i => cur[j] \in Candidate \ {cur[i]}
  BY <1>0, <1>2 DEF Holding, OthersWait, CommentInv, OneRunPerCommand
<1>4. OneRunPerCommand' /\ ClaimIsOwn' /\ FinishIsExpected'
  BY <1>2, <1>3 DEF CommentInv, OneRunPerCommand, ClaimIsOwn, FinishIsExpected, Mine, Holds
<1>5. RunTellsTruth'
  <2>1. ASSUME NEW j \in Instance, j # i, Holding(j) PROVE posted'[cur[j]] = posted[cur[j]]
    BY <1>2, <1>3, <2>1
  <2> QED
    BY <1>1, <1>2, <2>1 DEF CommentInv, RunTellsTruth, OthersWait, Holding
<1>6. CommentTellsTruth' /\ CommandMoves
  BY <1>1, <1>2 DEF CommentInv, CommentTellsTruth, CommandMoves, Open
<1>7. CommandComesLast' /\ AskedInOrder' /\ AskedOnce'
  BY AskedKept
<1> QED
  BY <1>4, <1>5, <1>6, <1>7 DEF CommentInv

\* The last look: the run is fenced, is let to send, or finds that it must not.
LEMMA ValidateStep ==
    ASSUME CommentInv, TypeOK', NEW i \in Instance, Validate(i)
    PROVE  CommentInv' /\ CommandMoves
<1> USE DEF accountVars, candVars, cmdVars, history
<1>0. /\ pc[i] = "CLAIMED" /\ UNCHANGED <<lease, on, fit, review, asking, asked, tok, posted>>
      /\ cur[i] \in Candidate /\ posted[cur[i]] = 0
  BY DEF Validate, CommentInv, OneRunPerCommand, RunTellsTruth, Holding
<1>1. CASE LetGo(i, "CLOSING") /\ UNCHANGED <<cand, cmdVars>>
  BY <1>0, <1>1, IdleStep DEF LetGo, Goto, CommentInv, TypeOK, OthersWait, Holding, Holds
<1>2. CASE Goto(i, "AUTHORIZED") /\ UNCHANGED <<cand, cmdVars, cur, out>>
  BY <1>0, <1>2, ExecuteStep
<1>3. CASE /\ Mine(cur[i], i) /\ LetGo(i, "LOOP") /\ UNCHANGED waiting
           /\ cmd' = [cmd EXCEPT ![cur[i]] = "CANCELLED"]
           /\ claim' = [claim EXCEPT ![cur[i]] = Nobody]
           /\ cand' = [cand EXCEPT ![cur[i]] = IF @ \in Undecided THEN "REJECTED" ELSE @]
  <2>1. /\ cmd[cur[i]] = "CLAIMED" /\ cmd'[cur[i]] = "CANCELLED"
        /\ \A c \in Candidate \ {cur[i]} : cmd'[c] = cmd[c] /\ claim'[c] = claim[c] /\ cand'[c] = cand[c]
        /\ cand'[cur[i]] = IF cand[cur[i]] \in Undecided THEN "REJECTED" ELSE cand[cur[i]]
    BY <1>0, <1>3 DEF Mine, CommentInv, TypeOK
  <2>2. OthersWait(i) /\ pc'[i] = "LOOP"
    BY <1>3, <1>0 DEF LetGo, Goto, CommentInv, TypeOK, OthersWait
  <2>3. \A j \in Instance : Holding(j)' => /\ j # i /\ Holding(j) /\ cur'[j] = cur[j] /\ pc'[j] = pc[j]
                                           /\ cur[j] \in Candidate \ {cur[i]}
    BY <1>0, <2>2 DEF OthersWait, Holding, CommentInv, OneRunPerCommand
  <2>4. OneRunPerCommand' /\ ClaimIsOwn'
    BY <1>0, <2>1, <2>2, <2>3 DEF CommentInv, OneRunPerCommand, ClaimIsOwn, Mine
  <2>5. FinishIsExpected'
    BY <1>0, <2>1, <2>2, <2>3 DEF CommentInv, FinishIsExpected, Holds
  <2>6. RunTellsTruth'
    BY <1>0, <2>1, <2>2, <2>3 DEF CommentInv, RunTellsTruth, Holding, OthersWait
  <2>7. CommentTellsTruth' /\ CommandMoves
    BY <1>0, <2>1 DEF CommentInv, CommentTellsTruth, CommandMoves, Open, Terminal
  <2>8. CommandComesLast' /\ AskedInOrder' /\ AskedOnce'
    BY <1>0, <2>1, AskedKept
  <2> QED
    BY <2>4, <2>5, <2>6, <2>7, <2>8 DEF CommentInv
<1> QED
  BY <1>1, <1>2, <1>3 DEF Validate

\* The report of a run is applied if the claim and the account are still its own.
LEMMA FinishStep ==
    ASSUME CommentInv, TypeOK', NEW i \in Instance, Finish(i) \/ FinishLost(i)
    PROVE  CommentInv' /\ CommandMoves
<1> USE DEF accountVars, candVars, cmdVars, history
<1>0. /\ pc[i] = "ANSWERED" /\ UNCHANGED <<lease, on, fit, review, asking, asked, tok, posted>>
      /\ cur[i] \in Candidate /\ out[i] \in Outcome
  BY DEF Finish, FinishLost, CommentInv, OneRunPerCommand, RunTellsTruth, Holding
<1>1. /\ OthersWait(i)
      /\ \/ ~Holding(i)'
         \/ pc' = pc /\ cur' = cur /\ out[i] = "SUCCEEDED" /\ out'[i] = "SIDE_EFFECT_UNCERTAIN"
  BY <1>0 DEF Finish, FinishLost, LetGo, Goto, CommentInv, TypeOK, OthersWait, Holding
<1>2. \A j \in Instance : Holding(j)' => /\ Holding(j) /\ cur'[j] = cur[j] /\ pc'[j] = pc[j] /\ cur[j] \in Candidate
                                         /\ j # i => cur[j] # cur[i]
  BY <1>0, <1>1 DEF OthersWait, Holding, CommentInv, OneRunPerCommand
<1>3. CASE UNCHANGED <<cand, cmdVars>>
  <2>1. OneRunPerCommand' /\ ClaimIsOwn' /\ FinishIsExpected'
    BY <1>0, <1>2, <1>3 DEF CommentInv, OneRunPerCommand, ClaimIsOwn, FinishIsExpected, Mine, Holds
  <2>2. RunTellsTruth'
    BY <1>0, <1>1, <1>2, <1>3 DEF CommentInv, RunTellsTruth, Holding, OthersWait, Outcome
  <2>3. CommentTellsTruth' /\ CommandMoves
    BY <1>0, <1>3 DEF CommentInv, CommentTellsTruth, CommandMoves
  <2>4. CommandComesLast' /\ AskedInOrder' /\ AskedOnce'
    BY <1>0, <1>3, AskedKept
  <2> QED
    BY <2>1, <2>2, <2>3, <2>4 DEF CommentInv
<1>4. CASE Applies(i) /\ ApplyFinish(i)
  <2>1. /\ cmd[cur[i]] = "CLAIMED" /\ cmd'[cur[i]] = out[i] /\ cand'[cur[i]] = CandidateAfter(cand[cur[i]], out[i])
        /\ \A c \in Candidate \ {cur[i]} : cmd'[c] = cmd[c] /\ claim'[c] = claim[c] /\ cand'[c] = cand[c]
    BY <1>0, <1>4 DEF Applies, ApplyFinish, Mine, CommentInv, TypeOK
  <2>2. /\ out[i] = "SUCCEEDED" => posted[cur[i]] = 1 /\ cand'[cur[i]] = "COMMENT_SENT"
        /\ out[i] \in {"FAILED_RETRYABLE", "FAILED_FINAL"} => posted[cur[i]] = 0
        /\ cand'[cur[i]] = "COMMENT_SENT" => out[i] = "SUCCEEDED"
        /\ cand'[cur[i]] \in {"ABSENT", "PENDING_REVIEW", "OOT"} => cand'[cur[i]] = cand[cur[i]]
        /\ posted[cur[i]] <= 1
    BY <1>0, <2>1 DEF CandidateAfter, CommentInv, RunTellsTruth, CommentTellsTruth, Outcome
  <2>3. OneRunPerCommand'
    BY <1>2 DEF CommentInv, OneRunPerCommand
  <2>4. ClaimIsOwn' /\ FinishIsExpected'
    BY <1>0, <1>1, <1>2, <2>1 DEF CommentInv, ClaimIsOwn, FinishIsExpected, Mine, Holds, OthersWait, Outcome
  <2>5. RunTellsTruth'
    BY <1>0, <1>1, <1>2, <2>1, <2>2 DEF CommentInv, RunTellsTruth, Holding, OthersWait, Outcome
  <2>6. CommentTellsTruth' /\ CommandMoves
    BY <1>0, <2>1, <2>2 DEF CommentInv, CommentTellsTruth, CommandMoves, Open, Terminal, Outcome
  <2>7. CommandComesLast' /\ AskedInOrder' /\ AskedOnce'
    BY <1>0, <2>1, <2>2, AskedKept DEF Outcome
  <2> QED
    BY <2>3, <2>4, <2>5, <2>6, <2>7 DEF CommentInv
<1> QED
  BY <1>3, <1>4 DEF Finish, FinishLost

\* A match, its notification and its decision.
LEMMA MatchStep ==
    ASSUME CommentInv, TypeOK', NEW c \in Candidate,
           Create(c) \/ Notify(c) \/ Decide(c, "TEPAT") \/ Decide(c, "OOT")
    PROVE  CommentInv' /\ CommandMoves
<1> USE DEF accountVars, candVars, cmdVars, history
<1>0. /\ UNCHANGED <<accountVars, runVars, posted, claim>>
      /\ \A d \in Candidate \ {c} : /\ cand'[d] = cand[d] /\ cmd'[d] = cmd[d] /\ review'[d] = review[d]
                                    /\ asking'[d] = asking[d] /\ asked'[d] = asked[d]
  BY DEF Create, Notify, Decide, QueueComment, CommentInv, TypeOK
<1>1. /\ \/ cmd'[c] = cmd[c]
         \/ cmd[c] = "ABSENT" /\ cmd'[c] = "PENDING"
      /\ \/ cand'[c] = cand[c]
         \/ cmd[c] = "ABSENT" /\ cand'[c] # "COMMENT_SENT"
      /\ cand'[c] \in {"ABSENT", "PENDING_REVIEW", "OOT"} => cmd'[c] = "ABSENT"
      /\ cand'[c] = "ABSENT" => ~asking'[c] /\ asked'[c] = 0
      /\ asking'[c] => asked'[c] = 0 /\ cmd'[c] = "ABSENT"
      /\ asked'[c] <= 1
      /\ asked'[c] = 1 => cmd'[c] = "ABSENT" \/ review'[c] = "TEPAT"
  <2>0. /\ cand[c] \in {"ABSENT", "PENDING_REVIEW", "OOT"} => cmd[c] = "ABSENT"
        /\ cand[c] = "ABSENT" => ~asking[c] /\ asked[c] = 0
        /\ asking[c] => asked[c] = 0 /\ cmd[c] = "ABSENT"
        /\ asked[c] <= 1 /\ asked[c] \in Nat
        /\ asked[c] = 1 => cmd[c] = "ABSENT" \/ review[c] = "TEPAT"
    BY DEF CommentInv, TypeOK, CommandComesLast, AskedInOrder, AskedOnce
  <2>1. CASE Create(c)
    BY <2>0, <2>1 DEF Create, QueueComment, CommentInv, TypeOK
  <2>2. CASE Notify(c)
    BY <2>0, <2>2 DEF Notify, CommentInv, TypeOK
  <2>3. ASSUME NEW d \in {"TEPAT", "OOT"}, Decide(c, d) PROVE <1>1!:
    BY <2>0, <2>3 DEF Decide, Decidable, QueueComment, CommentInv, TypeOK
  <2> QED
    BY <2>1, <2>2, <2>3
<1>2. CommandComesLast' /\ AskedInOrder' /\ AskedOnce'
  BY <1>0, <1>1 DEF CommentInv, CommandComesLast, AskedInOrder, AskedOnce
<1> QED
  BY <1>0, <1>1, <1>2, EnvironmentStep DEF Holds, runVars

\* The user withdraws what is open, or a run finds the channel cannot be commented in.
LEMMA WithdrawStep ==
    ASSUME CommentInv, TypeOK', SwitchOff \/ Edit \/ (\E i \in Instance : PreparationFails(i))
    PROVE  CommentInv' /\ CommandMoves
<1> USE DEF accountVars, candVars, cmdVars, history
<1>0. UNCHANGED <<lease, runVars, posted, claim, review, asked, asking>>
  BY DEF SwitchOff, Edit, PreparationFails
<1>1. \A c \in Candidate :
         /\ cmd'[c] = cmd[c] \/ (cmd[c] \in Open /\ cmd'[c] \in {"CANCELLED", "FAILED_FINAL"})
         /\ \/ cand'[c] = cand[c]
            \/ cand'[c] = "REJECTED"
            \/ /\ cand'[c] = "COMMENT_FAILED"
               /\ \A i \in Instance : Holding(i) => ~Holds(i)
  <2>1. CASE CancelCandidates
    BY <2>1 DEF CancelCandidates
  <2>2. ASSUME NEW i \in Instance, PreparationFails(i) PROVE <1>1!:
    <3>1. \A j \in Instance : Holding(j) => ~Holds(j)
      BY <2>2 DEF PreparationFails, Holding, Holds
    <3> QED
      BY <2>2, <3>1 DEF PreparationFails
  <2> QED
    BY <2>1, <2>2 DEF SwitchOff, Edit
<1>2. CommandComesLast' /\ AskedInOrder' /\ AskedOnce'
  BY <1>0, <1>1, AskedKept DEF Open
<1> QED
  BY <1>0, <1>1, <1>2, EnvironmentStep DEF Holds, runVars

\* A run starts, or lets go of what it has: it ends, closes or dies.
LEMMA ComeAndGoStep ==
    ASSUME CommentInv, TypeOK', NEW i \in Instance,
           StartRun(i) \/ EndRun(i) \/ Release(i) \/ Crash(i)
    PROVE  CommentInv' /\ CommandMoves
<1> USE DEF accountVars, candVars, cmdVars, history
<1>0. /\ UNCHANGED <<cand, review, asked, cmd, claim, posted>>
      /\ OthersWait(i) /\ ~Holding(i)'
  BY DEF StartRun, EndRun, Release, Crash, LetGo, Goto, OthersWait, Holding, CommentInv, TypeOK
<1>1. \A c \in Candidate : asking'[c] => asking[c]
  <2>1. asking' = asking \/ asking' = [c \in Candidate |-> FALSE]
    BY DEF StartRun, EndRun, Release, Crash
  <2> QED
    BY <2>1
<1>2. \A j \in Instance \ {i} : Holds(j)' => Holds(j)
  <2>1. CASE StartRun(i)
    BY <2>1 DEF StartRun, Holds
  <2>2. CASE ~StartRun(i)
    <3>1. lease' = lease \/ ~lease'.live
      BY <2>2 DEF EndRun, Release, Crash, CommentInv, TypeOK, Lease
    <3> QED
      BY <1>0, <3>1 DEF Holds, OthersWait
  <2> QED
    BY <2>1, <2>2
<1> QED
  BY <1>0, <1>1, <1>2, IdleStep

\* Time: leases and waits run out, and the rest of the world comes and goes.
LEMMA TimeStep ==
    ASSUME CommentInv, TypeOK',
           \/ \E c \in Candidate : CreateAgain(c) \/ CommandLeaseExpires(c) \/ WaitElapses(c)
           \/ SwitchOn \/ FitChanges \/ Lapse \/ UNCHANGED vars
    PROVE  CommentInv' /\ CommandMoves
<1> USE DEF accountVars, candVars, cmdVars, history
<1>0. UNCHANGED <<cand, review, asked, asking, cmd, posted, runVars>>
  BY DEF CreateAgain, CommandLeaseExpires, WaitElapses, SwitchOn, FitChanges, Lapse, vars
<1>1. \A c \in Candidate : claim'[c].owner = claim[c].owner /\ claim'[c].token = claim[c].token
  <2>1. claim' = claim \/ \E c \in Candidate : claim' = [claim EXCEPT ![c].live = FALSE]
    BY DEF CreateAgain, CommandLeaseExpires, WaitElapses, SwitchOn, FitChanges, Lapse, vars
  <2> QED
    BY <2>1 DEF CommentInv, TypeOK, Lease
<1>2. \A i \in Instance : Holds(i)' => Holds(i)
  <2>1. lease' = lease \/ ~lease'.live
    BY DEF CreateAgain, CommandLeaseExpires, WaitElapses, SwitchOn, FitChanges, Lapse, vars, CommentInv, TypeOK, Lease
  <2> QED
    BY <1>0, <2>1 DEF Holds, runVars
<1>3. CommandComesLast' /\ AskedInOrder' /\ AskedOnce'
  BY <1>0, AskedKept
<1> QED
  BY <1>0, <1>1, <1>2, <1>3, EnvironmentStep

\* Every step keeps the invariant and takes no command back.
LEMMA CommentStep == CommentInv /\ [Next]_vars => CommentInv' /\ CommandMoves
<1> SUFFICES ASSUME CommentInv, [Next]_vars PROVE CommentInv' /\ CommandMoves
  OBVIOUS
<1>1. TypeOK'
  BY TypeStep
<1> QED
  BY <1>1, MatchStep, WithdrawStep, ComeAndGoStep, TimeStep, ClaimNothingStep, ClaimNextStep, ExecuteStep,
     ValidateStep, FinishStep DEF Next, Run, Claim, RejectPayload, Send

-----------------------------------------------------------------------------
(* The theorems. *)

\* Whatever the runs, the owner and time do, the invariant holds.
THEOREM CommentInvariant == Spec => []CommentInv
<1>1. CommentInv /\ [Next]_vars => CommentInv'
  BY CommentStep
<1> QED
  BY CommentInit, <1>1, PTL DEF Spec

\* Each part of the state always has its type.
THEOREM CommentTypeOK == Spec => []TypeOK
<1>1. CommentInv => TypeOK
  BY DEF CommentInv
<1> QED
  BY CommentInvariant, <1>1, PTL

\* What a command says of Telegram is true: no post is commented on twice, an open,
\* cancelled or failed command never was, one that succeeded was exactly once.
THEOREM CommentsAreTrue == Spec => []CommentTellsTruth
<1>1. CommentInv => CommentTellsTruth
  BY DEF CommentInv
<1> QED
  BY CommentInvariant, <1>1, PTL

\* The owner is asked at most once about a candidate, and only about one he decides.
THEOREM CommentAskedOnce == Spec => []AskedOnce
<1>1. CommentInv => AskedOnce
  BY DEF CommentInv
<1> QED
  BY CommentInvariant, <1>1, PTL

\* A command that is over is never taken back, by a late finish or anything else.
THEOREM CommentCommandIsFinal == Spec => CommandIsFinal
<1>1. CommandMoves => \A c \in Candidate : cmd[c] \in Terminal => cmd'[c] = cmd[c]
  BY DEF CommandMoves, Open, Terminal
<1>2. CommentInv /\ [Next]_vars => [\A c \in Candidate : cmd[c] \in Terminal => cmd'[c] = cmd[c]]_vars
  BY <1>1, CommentStep
<1> QED
  BY CommentInvariant, <1>2, PTL DEF Spec, CommandIsFinal

\* A candidate withdrawn in time: nobody is about to send it, no run can be let through
\* with its command, and it can never be claimed anew.
QuietInv ==
    \A c \in withdrawn :
        /\ posted[c] = 0 /\ cand[c] \notin Undecided \cup {"ABSENT"}
        /\ cmd[c] = "CLAIMED" => stopped[c]
        /\ \A i \in Instance : pc[i] = "AUTHORIZED" => cur[i] # c

\* What no step but a cancellation does to a withdrawn candidate.
StaysQuiet(c) ==
    /\ cand'[c] \notin Undecided \cup {"ABSENT"}
    /\ cmd'[c] = "CLAIMED" => cmd[c] = "CLAIMED"
    /\ stopped[c] => stopped'[c]

\* Only the last look lets a run send, and it never lets it send a stopped command.
LEMMA AuthorizedByValidate ==
    ASSUME CommentInv, [Next]_vars, NEW i \in Instance, pc[i] # "AUTHORIZED", pc'[i] = "AUTHORIZED"
    PROVE  cur'[i] = cur[i] /\ cmd[cur[i]] = "CLAIMED" /\ ~stopped[cur[i]]
<1> USE DEF Goto, LetGo, accountVars, candVars, cmdVars, runVars, history
<1>0. pc \in [Instance -> PC]
  BY DEF CommentInv, TypeOK
<1>1. ASSUME pc' = pc PROVE FALSE
  BY <1>1
<1>2. ASSUME NEW j \in Instance, NEW l \in PC \ {"AUTHORIZED"}, pc' = [pc EXCEPT ![j] = l] PROVE FALSE
  BY <1>0, <1>2
<1>3. ASSUME NEW j \in Instance, Validate(j)
      PROVE  cur'[i] = cur[i] /\ cmd[cur[i]] = "CLAIMED" /\ ~stopped[cur[i]]
  <2>1. \/ LetGo(j, "CLOSING") \/ LetGo(j, "LOOP")
        \/ Executable(cur[j]) /\ Mine(cur[j], j) /\ pc' = [pc EXCEPT ![j] = "AUTHORIZED"] /\ cur' = cur
    BY <1>3 DEF Validate
  <2>2. CASE LetGo(j, "CLOSING") \/ LetGo(j, "LOOP")
    BY <1>2, <2>2 DEF PC
  <2>3. CASE Executable(cur[j]) /\ Mine(cur[j], j) /\ pc' = [pc EXCEPT ![j] = "AUTHORIZED"] /\ cur' = cur
    BY <1>0, <2>3 DEF Executable, Mine
  <2> QED
    BY <2>1, <2>2, <2>3
<1>4. ASSUME NEW j \in Instance,
             \/ StartRun(j) \/ EndRun(j) \/ Claim(j) \/ RejectPayload(j) \/ Send(j) \/ Finish(j)
             \/ Release(j) \/ FinishLost(j) \/ PreparationFails(j) \/ Crash(j)
      PROVE  FALSE
  <2>1. pc' = pc \/ \E l \in PC \ {"AUTHORIZED"} : pc' = [pc EXCEPT ![j] = l]
    BY <1>4 DEF StartRun, EndRun, Claim, ClaimNothing, ClaimNext, RejectPayload, Send, Finish, Release,
                FinishLost, PreparationFails, Crash, PC
  <2> QED
    BY <1>1, <1>2, <2>1
<1>5. ASSUME \/ SwitchOff \/ SwitchOn \/ Edit \/ FitChanges \/ Lapse \/ UNCHANGED vars
             \/ \E c \in Candidate : \/ Create(c) \/ CreateAgain(c) \/ Notify(c) \/ CommandLeaseExpires(c)
                                     \/ WaitElapses(c) \/ \E d \in {"TEPAT", "OOT"} : Decide(c, d)
      PROVE  FALSE
  <2>1. pc' = pc
    BY <1>5 DEF SwitchOff, SwitchOn, Edit, FitChanges, Lapse, vars, Create, CreateAgain, Notify,
                CommandLeaseExpires, WaitElapses, Decide
  <2> QED
    BY <1>1, <2>1
<1> QED
  BY <1>3, <1>4, <1>5 DEF Next, Run

\* A run that is still about to send what it was let through with.
LEMMA AuthorizedKept ==
    ASSUME CommentInv, [Next]_vars, NEW i \in Instance, pc[i] = "AUTHORIZED", pc'[i] = "AUTHORIZED"
    PROVE  cur'[i] = cur[i]
<1> USE DEF Goto, LetGo, accountVars, candVars, cmdVars, runVars, history
<1>0. cur \in [Instance -> Candidate \cup {NoCandidate}] /\ pc \in [Instance -> PC]
  BY DEF CommentInv, TypeOK
<1>1. CASE cur' = cur
  BY <1>1
<1>2. ASSUME NEW j \in Instance, NEW x, cur' = [cur EXCEPT ![j] = x], j # i PROVE cur'[i] = cur[i]
  BY <1>0, <1>2
<1>3. ASSUME NEW j \in Instance,
             \/ EndRun(j) \/ Claim(j) \/ Validate(j) \/ Finish(j) \/ FinishLost(j) \/ Crash(j)
      PROVE  cur'[i] = cur[i]
  <2>1. CASE j = i
    <3>1. ~Crash(i)
      BY <1>0 DEF Crash
    <3> QED
      BY <1>3, <2>1, <3>1 DEF EndRun, Claim, ClaimNothing, ClaimNext, Validate, Finish, FinishLost
  <2>2. cur' = cur \/ \E x : cur' = [cur EXCEPT ![j] = x]
    BY <1>3 DEF EndRun, Claim, ClaimNothing, ClaimNext, Validate, Finish, FinishLost, Crash
  <2> QED
    BY <1>1, <1>2, <2>1, <2>2
<1>4. ASSUME NEW j \in Instance,
             StartRun(j) \/ RejectPayload(j) \/ Send(j) \/ Release(j) \/ PreparationFails(j)
      PROVE  cur' = cur
  BY <1>4 DEF StartRun, RejectPayload, Send, Release, PreparationFails
<1>5. ASSUME \/ SwitchOff \/ SwitchOn \/ Edit \/ FitChanges \/ Lapse \/ UNCHANGED vars
             \/ \E c \in Candidate : \/ Create(c) \/ CreateAgain(c) \/ Notify(c) \/ CommandLeaseExpires(c)
                                     \/ WaitElapses(c) \/ \E d \in {"TEPAT", "OOT"} : Decide(c, d)
      PROVE  cur' = cur
  BY <1>5 DEF SwitchOff, SwitchOn, Edit, FitChanges, Lapse, vars, Create, CreateAgain, Notify,
              CommandLeaseExpires, WaitElapses, Decide
<1> QED
  BY <1>1, <1>3, <1>4, <1>5 DEF Next, Run

\* Nothing brings a withdrawn candidate back, and its command is not claimed again.
LEMMA QuietStep ==
    ASSUME CommentInv, [Next]_vars, NEW c \in Candidate, cand[c] \notin Undecided \cup {"ABSENT"}
    PROVE  StaysQuiet(c)
<1> USE DEF Goto, LetGo, accountVars, candVars, cmdVars, runVars, history, StaysQuiet
<1>0. /\ cand \in [Candidate -> CandidateStatus] /\ stopped \in [Candidate -> BOOLEAN]
      /\ cmd \in [Candidate -> Open \cup Terminal \cup {"ABSENT", "CLAIMED"}]
  BY DEF CommentInv, TypeOK
<1>1. CASE UNCHANGED <<cand, cmd, stopped>>
  BY <1>1
<1>2. ASSUME NEW d \in Candidate, Create(d) \/ \E e \in {"TEPAT", "OOT"} : Decide(d, e)
      PROVE  StaysQuiet(c)
  <2>1. d # c /\ stopped' = stopped
    BY <1>2 DEF Create, Decide, Decidable, Undecided
  <2>2. cand'[c] = cand[c] /\ cmd'[c] = cmd[c]
    BY <1>0, <1>2, <2>1 DEF Create, Decide, QueueComment
  <2> QED
    BY <2>1, <2>2
<1>3. ASSUME NEW i \in Instance, Claim(i) PROVE StaysQuiet(c)
  <2>1. UNCHANGED <<cand, stopped>>
    BY <1>3 DEF Claim, ClaimNothing, ClaimNext
  <2>2. Recovered(i)[c] = "CLAIMED" => cmd[c] = "CLAIMED"
    BY DEF Recovered
  <2>3. CASE ClaimNothing(i)
    BY <2>1, <2>2, <2>3 DEF ClaimNothing
  <2>4. ASSUME NEW d \in Candidate, ClaimNext(i, d) PROVE StaysQuiet(c)
    <3>1. d # c
      BY <2>4 DEF ClaimNext, Claimable, Undecided
    <3>2. cmd'[c] = Recovered(i)[c]
      BY <2>4, <3>1 DEF ClaimNext, Recovered
    <3> QED
      BY <2>1, <2>2, <3>2
  <2> QED
    BY <1>3, <2>3, <2>4 DEF Claim
<1>4. ASSUME NEW i \in Instance, Validate(i) PROVE StaysQuiet(c)
  <2>1. CASE UNCHANGED <<cand, cmdVars>>
    BY <1>1, <2>1
  <2>2. CASE /\ cmd' = [cmd EXCEPT ![cur[i]] = "CANCELLED"]
             /\ stopped' = [stopped EXCEPT ![cur[i]] = TRUE]
             /\ cand' = [cand EXCEPT ![cur[i]] = IF @ \in Undecided THEN "REJECTED" ELSE @]
    BY <1>0, <2>2 DEF Undecided
  <2> QED
    BY <1>4, <2>1, <2>2 DEF Validate
<1>5. ASSUME NEW i \in Instance, Finish(i) \/ FinishLost(i) PROVE StaysQuiet(c)
  <2>1. out[i] \in Outcome /\ cur[i] \in Candidate
    BY <1>5 DEF CommentInv, RunTellsTruth, OneRunPerCommand, Holding, Finish, FinishLost
  <2>2. CASE ApplyFinish(i)
    <3>1. cmd'[c] = cmd[c] \/ cmd'[c] # "CLAIMED"
      BY <1>0, <2>1, <2>2 DEF ApplyFinish, Outcome
    <3>2. cand'[c] = IF c = cur[i] THEN CandidateAfter(cand[c], out[i]) ELSE cand[c]
      BY <1>0, <2>1, <2>2 DEF ApplyFinish
    <3>3. CandidateAfter(cand[c], out[i]) \notin Undecided \cup {"ABSENT"}
      BY DEF CandidateAfter, Undecided
    <3> QED
      BY <2>2, <3>1, <3>2, <3>3 DEF ApplyFinish
  <2>3. CASE UNCHANGED <<cand, cmdVars>>
    BY <1>1, <2>3
  <2> QED
    BY <1>5, <2>2, <2>3 DEF Finish, FinishLost
<1>6. ASSUME NEW i \in Instance, PreparationFails(i) PROVE StaysQuiet(c)
  BY <1>0, <1>6 DEF PreparationFails, Undecided
<1>7. ASSUME SwitchOff \/ Edit PROVE StaysQuiet(c)
  BY <1>7 DEF SwitchOff, Edit, CancelCandidates
<1>8. ASSUME NEW i \in Instance,
             StartRun(i) \/ EndRun(i) \/ RejectPayload(i) \/ Send(i) \/ Release(i) \/ Crash(i)
      PROVE  StaysQuiet(c)
  BY <1>1, <1>8 DEF StartRun, EndRun, RejectPayload, Send, Release, Crash
<1>9. ASSUME \/ SwitchOn \/ FitChanges \/ Lapse \/ UNCHANGED vars
             \/ \E d \in Candidate : CreateAgain(d) \/ Notify(d) \/ CommandLeaseExpires(d) \/ WaitElapses(d)
      PROVE  StaysQuiet(c)
  BY <1>1, <1>9 DEF SwitchOn, FitChanges, Lapse, vars, CreateAgain, Notify, CommandLeaseExpires, WaitElapses
<1> QED
  BY <1>2, <1>3, <1>4, <1>5, <1>6, <1>7, <1>8, <1>9 DEF Next, Run

\* Only a run that was let through posts, and only a cancellation withdraws.
LEMMA PostedByAuthorized ==
    ASSUME CommentInv, [Next]_vars
    PROVE  /\ \A c \in Candidate :
                 posted'[c] = posted[c] \/ \E i \in Instance : pc[i] = "AUTHORIZED" /\ cur[i] = c
           /\ withdrawn' = withdrawn \/ (CancelCandidates /\ UNCHANGED <<runVars, posted>>)
<1> USE DEF Goto, LetGo, accountVars, candVars, cmdVars, runVars, history
<1>1. ASSUME NEW i \in Instance, Send(i)
      PROVE  /\ \A c \in Candidate : posted'[c] = posted[c] \/ (pc[i] = "AUTHORIZED" /\ cur[i] = c)
             /\ withdrawn' = withdrawn
  <2>1. posted \in [Candidate -> Nat]
    BY DEF CommentInv, TypeOK
  <2> QED
    BY <1>1, <2>1 DEF Send
<1>2. ASSUME SwitchOff \/ Edit PROVE CancelCandidates /\ UNCHANGED <<runVars, posted>>
  BY <1>2 DEF SwitchOff, Edit
<1>3. ASSUME NEW i \in Instance,
             \/ StartRun(i) \/ EndRun(i) \/ Claim(i) \/ RejectPayload(i) \/ Validate(i) \/ Finish(i)
             \/ Release(i) \/ FinishLost(i) \/ PreparationFails(i) \/ Crash(i)
      PROVE  UNCHANGED history
  BY <1>3 DEF StartRun, EndRun, Claim, ClaimNothing, ClaimNext, RejectPayload, Validate, Finish, Release,
              FinishLost, PreparationFails, Crash
<1>4. ASSUME \/ SwitchOn \/ FitChanges \/ Lapse \/ UNCHANGED vars
             \/ \E c \in Candidate : \/ Create(c) \/ CreateAgain(c) \/ Notify(c) \/ CommandLeaseExpires(c)
                                     \/ WaitElapses(c) \/ \E d \in {"TEPAT", "OOT"} : Decide(c, d)
      PROVE  UNCHANGED history
  BY <1>4 DEF SwitchOn, FitChanges, Lapse, vars, Create, CreateAgain, Notify, CommandLeaseExpires,
              WaitElapses, Decide
<1> QED
  BY <1>1, <1>2, <1>3, <1>4 DEF Next, Run

\* What is withdrawn in time stays quiet.
LEMMA QuietKept ==
    ASSUME CommentInv, QuietInv, [Next]_vars
    PROVE  QuietInv'
<1>0. withdrawn \subseteq Candidate /\ cand \in [Candidate -> CandidateStatus]
  BY DEF CommentInv, TypeOK
<1>1. ASSUME NEW c \in withdrawn
      PROVE  /\ posted'[c] = 0 /\ cand'[c] \notin Undecided \cup {"ABSENT"}
             /\ cmd'[c] = "CLAIMED" => stopped'[c]
             /\ \A i \in Instance : pc'[i] = "AUTHORIZED" => cur'[i] # c
  <2>1. c \in Candidate /\ StaysQuiet(c) /\ posted'[c] = 0
    BY <1>0, <1>1, QuietStep, PostedByAuthorized DEF QuietInv
  <2>2. ASSUME NEW i \in Instance, pc'[i] = "AUTHORIZED" PROVE cur'[i] # c
    BY <2>1, <2>2, AuthorizedByValidate, AuthorizedKept DEF QuietInv
  <2> QED
    BY <2>1, <2>2 DEF QuietInv, StaysQuiet
<1>2. ASSUME NEW c \in withdrawn', c \notin withdrawn
      PROVE  /\ posted'[c] = 0 /\ cand'[c] \notin Undecided \cup {"ABSENT"}
             /\ cmd'[c] = "CLAIMED" => stopped'[c]
             /\ \A i \in Instance : pc'[i] = "AUTHORIZED" => cur'[i] # c
  <2>1. CancelCandidates /\ UNCHANGED <<runVars, posted>>
    BY <1>2, PostedByAuthorized
  <2>2. c \in Candidate /\ Unsent(c)
    BY <1>2, <2>1 DEF CancelCandidates
  <2>3. cand'[c] \notin Undecided \cup {"ABSENT"}
    BY <2>1, <2>2 DEF CancelCandidates, Unsent, Undecided
  <2>4. cmd'[c] = "CLAIMED" => stopped'[c]
    BY <2>1, <2>2 DEF CancelCandidates, Marked
  <2> QED
    BY <2>1, <2>2, <2>3, <2>4 DEF Unsent, runVars
<1> QED
  BY <1>1, <1>2 DEF QuietInv

\* A candidate withdrawn before a run was let through to send it is never commented on,
\* whatever becomes of its claim, of the switch and of the runs.
THEOREM CommentWithdrawnStaysQuiet == Spec => []WithdrawnStaysQuiet
<1>1. Init => QuietInv
  BY DEF Init, QuietInv
<1>2. CommentInv /\ QuietInv /\ [Next]_vars => QuietInv'
  BY QuietKept
<1>3. QuietInv => WithdrawnStaysQuiet
  BY DEF QuietInv, WithdrawnStaysQuiet
<1> QED
  BY CommentInvariant, <1>1, <1>2, <1>3, PTL DEF Spec

-----------------------------------------------------------------------------
(* The candidates live as the domain contract says. *)

\* A step that leaves status and decision alone and makes no command is a stutter.
LEMMA ContractStutter ==
    ASSUME UNCHANGED <<cand, review>>,
           \A c \in Candidate : cmd'[c] = "ABSENT" <=> cmd[c] = "ABSENT"
    PROVE  [Contract!Next]_(Contract!vars)
BY DEF Contract!vars

\* Several candidates withdrawn at once, by the user or by the last look of a run.
LEMMA ContractWithdraw ==
    ASSUME CommentInv, TypeOK', UNCHANGED review,
           \A c \in Candidate : /\ cmd'[c] = "ABSENT" <=> cmd[c] = "ABSENT"
                                /\ cand'[c] # cand[c] => cand[c] \in Undecided
                                /\ cand'[c] \in {cand[c], "REJECTED"}
    PROVE  [Contract!Next]_(Contract!vars)
<1> DEFINE C == {c \in Candidate : cand'[c] # cand[c]}
<1>1. C \in SUBSET Candidate /\ \A c \in C : cand[c] \in {"PENDING_REVIEW", "COMMENT_QUEUED"}
  BY DEF Undecided
<1>2. cand' = [c \in Candidate |-> IF c \in C THEN "REJECTED" ELSE cand[c]]
  BY DEF TypeOK
<1>3. Contract!Withdraw(C)
  BY <1>1, <1>2 DEF Contract!Withdraw
<1> QED
  BY <1>1, <1>3 DEF Contract!Next

\* The channel of all the candidates still queued turned out to have no discussion.
LEMMA ContractFail ==
    ASSUME CommentInv, NEW i \in Instance, PreparationFails(i)
    PROVE  [Contract!Next]_(Contract!vars)
<1> DEFINE C == {c \in Candidate : cand[c] = "COMMENT_QUEUED"}
<1>1. /\ review' = review
      /\ \A c \in Candidate : cmd'[c] = "ABSENT" <=> cmd[c] = "ABSENT"
      /\ cand' = [c \in Candidate |-> IF c \in C THEN "COMMENT_FAILED" ELSE cand[c]]
  BY DEF PreparationFails, Open
<1>2. Contract!Fail(C)
  BY <1>1 DEF Contract!Fail
<1> QED
  BY <1>2 DEF Contract!Next

\* A run finishes its command: its candidate is settled, or queued again.
LEMMA ContractFinish ==
    ASSUME CommentInv, TypeOK', NEW i \in Instance, Finish(i) \/ FinishLost(i)
    PROVE  [Contract!Next]_(Contract!vars)
<1> USE DEF accountVars, candVars, cmdVars, history
<1>0. /\ pc[i] = "ANSWERED" /\ Holding(i) /\ cur[i] \in Candidate /\ out[i] \in Outcome /\ review' = review
  BY DEF Finish, FinishLost, CommentInv, OneRunPerCommand, RunTellsTruth, Holding
<1>1. CASE UNCHANGED <<cand, cmdVars>>
  BY <1>0, <1>1, ContractStutter
<1>2. CASE Applies(i) /\ ApplyFinish(i)
  <2>1. /\ cmd[cur[i]] = "CLAIMED" /\ cand[cur[i]] \in {"COMMENT_QUEUED", "REJECTED"}
    BY <1>0, <1>2 DEF Applies, Mine, CommentInv, FinishIsExpected
  <2>2. /\ cmd' = [cmd EXCEPT ![cur[i]] = out[i]]
        /\ cand' = [cand EXCEPT ![cur[i]] = CandidateAfter(cand[cur[i]], out[i])]
    BY <1>2 DEF ApplyFinish
  <2>3. \A c \in Candidate : cmd'[c] = "ABSENT" <=> cmd[c] = "ABSENT"
    BY <1>0, <2>1, <2>2 DEF CommentInv, TypeOK, Outcome
  <2>4. CASE out[i] = "FAILED_RETRYABLE"
    <3>1. cand' = cand
      BY <2>2, <2>4 DEF CandidateAfter, CommentInv, TypeOK
    <3> QED
      BY <1>0, <2>3, <3>1, ContractStutter
  <2>5. CASE out[i] # "FAILED_RETRYABLE"
    <3>1. CandidateAfter(cand[cur[i]], out[i]) \in Contract!Settled
      BY <1>0, <2>5 DEF CandidateAfter, Outcome, Contract!Settled
    <3>2. Contract!Settle(cur[i])
      BY <1>0, <2>1, <2>2, <2>3, <3>1 DEF Contract!Settle
    <3> QED
      BY <1>0, <3>2 DEF Contract!Next
  <2> QED
    BY <2>4, <2>5
<1> QED
  BY <1>1, <1>2 DEF Finish, FinishLost

\* A match creates its candidate, in either mode of the division; the owner decides once.
LEMMA ContractMatch ==
    ASSUME CommentInv, TypeOK', NEW c \in Candidate,
           Create(c) \/ Notify(c) \/ Decide(c, "TEPAT") \/ Decide(c, "OOT")
    PROVE  [Contract!Next]_(Contract!vars)
<1> USE DEF accountVars, candVars, cmdVars, history
<1> DEFINE made == [d \in Candidate |-> cmd[d] # "ABSENT"]
<1>1. CASE Notify(c)
  BY <1>1, ContractStutter DEF Notify
<1>2. ASSUME QueueComment(c)
      PROVE  [d \in Candidate |-> cmd'[d] # "ABSENT"] = [made EXCEPT ![c] = TRUE]
  BY <1>2 DEF QueueComment, CommentInv, TypeOK
<1>3. CASE Create(c)
  <2>1. CASE QueueComment(c)
    <3>1. Contract!Create(c)
      BY <1>2, <1>3, <2>1 DEF Create, QueueComment, Contract!Create
    <3> QED
      BY <3>1 DEF Contract!Next
  <2>2. CASE cand' = [cand EXCEPT ![c] = "PENDING_REVIEW"] /\ UNCHANGED cmd
    <3>1. Contract!Create(c)
      BY <1>3, <2>2 DEF Create, Contract!Create
    <3> QED
      BY <3>1 DEF Contract!Next
  <2> QED
    BY <1>3, <2>1, <2>2 DEF Create
<1>4. ASSUME NEW d \in {"TEPAT", "OOT"}, Decide(c, d) PROVE [Contract!Next]_(Contract!vars)
  <2>0. cand[c] = "PENDING_REVIEW"
    BY <1>4 DEF Decide, Decidable
  <2>1. CASE d = "OOT"
    <3>1. Contract!Decide(c)
      BY <1>4, <2>0, <2>1 DEF Decide, Contract!Decide
    <3> QED
      BY <3>1 DEF Contract!Next
  <2>2. CASE d = "TEPAT" /\ Current
    <3>1. Contract!Decide(c)
      BY <1>2, <1>4, <2>0, <2>2 DEF Decide, QueueComment, Contract!Decide
    <3> QED
      BY <3>1 DEF Contract!Next
  <2>3. CASE d = "TEPAT" /\ ~Current
    <3>1. UNCHANGED <<review, cmd>> /\ cand' = [cand EXCEPT ![c] = "REJECTED"]
      BY <1>4, <2>3 DEF Decide
    <3>2. \A e \in Candidate : cand'[e] = cand[e] \/ (e = c /\ cand'[e] = "REJECTED")
      BY <3>1 DEF CommentInv, TypeOK
    <3> QED
      BY <2>0, <3>1, <3>2, ContractWithdraw DEF Undecided
  <2> QED
    BY <2>1, <2>2, <2>3
<1> QED
  BY <1>1, <1>3, <1>4

\* A run claims, looks, sends or comes and goes: the candidate is at most withdrawn.
LEMMA ContractRun ==
    ASSUME CommentInv, TypeOK', NEW i \in Instance,
           \/ StartRun(i) \/ EndRun(i) \/ Claim(i) \/ RejectPayload(i) \/ Validate(i)
           \/ Send(i) \/ Release(i) \/ Crash(i)
    PROVE  [Contract!Next]_(Contract!vars)
<1> USE DEF accountVars, candVars, cmdVars, history
<1>1. CASE StartRun(i) \/ EndRun(i) \/ RejectPayload(i) \/ Send(i) \/ Release(i) \/ Crash(i)
  <2>1. UNCHANGED <<cand, review, cmd>>
    BY <1>1 DEF StartRun, EndRun, RejectPayload, Send, Release, Crash
  <2> QED
    BY <2>1, ContractStutter
<1>2. CASE ClaimNothing(i)
  <2>1. UNCHANGED <<cand, review>> /\ cmd' = Recovered(i)
    BY <1>2 DEF ClaimNothing
  <2>2. \A c \in Candidate : cmd'[c] = "ABSENT" <=> cmd[c] = "ABSENT"
    BY <2>1 DEF Recovered, Stale
  <2> QED
    BY <2>1, <2>2, ContractStutter
<1>3. ASSUME NEW c \in Candidate, ClaimNext(i, c) PROVE [Contract!Next]_(Contract!vars)
  <2>1. UNCHANGED <<cand, review>> /\ cmd' = [Recovered(i) EXCEPT ![c] = "CLAIMED"] /\ cmd[c] \in Open
    BY <1>3 DEF ClaimNext, Claimable
  <2>2. \A d \in Candidate : cmd'[d] = "ABSENT" <=> cmd[d] = "ABSENT"
    BY <2>1 DEF Recovered, Stale, Open
  <2> QED
    BY <2>1, <2>2, ContractStutter
<1>4. CASE Validate(i)
  <2>0. cur[i] \in Candidate /\ review' = review
    BY <1>4 DEF Validate, CommentInv, OneRunPerCommand, Holding
  <2>1. CASE UNCHANGED <<cand, cmdVars>>
    BY <2>0, <2>1, ContractStutter
  <2>2. CASE /\ cmd[cur[i]] = "CLAIMED" /\ cmd' = [cmd EXCEPT ![cur[i]] = "CANCELLED"]
             /\ cand' = [cand EXCEPT ![cur[i]] = IF @ \in Undecided THEN "REJECTED" ELSE @]
    <3>1. \A c \in Candidate :
             /\ cmd'[c] = "ABSENT" <=> cmd[c] = "ABSENT"
             /\ cand'[c] # cand[c] => cand[c] \in Undecided
             /\ cand'[c] \in {cand[c], "REJECTED"}
      BY <2>0, <2>2 DEF CommentInv, TypeOK
    <3> QED
      BY <2>0, <3>1, ContractWithdraw
  <2> QED
    BY <1>4, <2>1, <2>2 DEF Validate, Mine
<1> QED
  BY <1>1, <1>2, <1>3, <1>4 DEF Claim

\* Every step of the program is a step of the contract, or changes nothing it speaks of.
LEMMA ContractStep == CommentInv /\ [Next]_vars => [Contract!Next]_(Contract!vars)
<1> SUFFICES ASSUME CommentInv, [Next]_vars PROVE [Contract!Next]_(Contract!vars)
  OBVIOUS
<1>0. TypeOK'
  BY TypeStep
<1>1. CASE SwitchOff \/ Edit
  <2>1. CancelCandidates /\ review' = review
    BY <1>1 DEF SwitchOff, Edit
  <2>2. \A c \in Candidate :
           /\ cmd'[c] = "ABSENT" <=> cmd[c] = "ABSENT"
           /\ cand'[c] # cand[c] => cand[c] \in Undecided
           /\ cand'[c] \in {cand[c], "REJECTED"}
    BY <2>1 DEF CancelCandidates, Open
  <2> QED
    BY <1>0, <2>1, <2>2, ContractWithdraw
<1>2. CASE \/ \E c \in Candidate : CreateAgain(c) \/ CommandLeaseExpires(c) \/ WaitElapses(c)
           \/ SwitchOn \/ FitChanges \/ Lapse \/ UNCHANGED vars
  <2>1. UNCHANGED <<cand, review, cmd>>
    BY <1>2 DEF CreateAgain, CommandLeaseExpires, WaitElapses, SwitchOn, FitChanges, Lapse, vars,
                candVars, cmdVars
  <2> QED
    BY <2>1, ContractStutter
<1> QED
  BY <1>0, <1>1, <1>2, ContractMatch, ContractRun, ContractFinish, ContractFail DEF Next, Run

\* The program implements the contract: a candidate is decided once, gets its one command
\* with the decision, and is settled only by it.
THEOREM CommentImplementsContract == Spec => ContractSpec
<1>1. ASSUME Init PROVE Contract!Init
  <2>1. \A c \in Candidate : (cmd[c] # "ABSENT") = FALSE
    BY <1>1 DEF Init
  <2>2. [c \in Candidate |-> cmd[c] # "ABSENT"] = [c \in Candidate |-> FALSE]
    BY <2>1, Zenon
  <2> QED
    BY <1>1, <2>2 DEF Init, Contract!Init
<1> QED
  BY <1>1, CommentInvariant, ContractStep, PTL DEF Spec, ContractSpec, Contract!Spec

-----------------------------------------------------------------------------
(* The central monitor, which creates the candidates: a state of its own. *)

\* What is assumed of the constants.
Bounds == MaxPost \in Nat /\ MaxUpsets \in Nat /\ NoSession \notin Session

\* The rules by which a session takes no post a division has not asked it for: one that is
\* not there takes none.
Rule(s) == {R \in [Division -> 0..MaxPost] :
    \A d \in Division : R[d] >= bound[s][d] /\ (conf[d] = "NONE" => R[d] = MaxPost)}

\* The posts with an event.
Inbox == {p \in Monitor!Post : ev[p] # "ABSENT"}

\* What a refresh may have read, and what a task may be processing.
Planned(s) == {x \in Monitor!Posted \X SUBSET Division : x[2] \subseteq Monitor!Wanted(s, x[1])}
AnyJob == [post : 0..MaxPost, todo : SUBSET Division, begun : BOOLEAN]
Job(s) == {j \in AnyJob : j.post \in Inbox /\ j.todo \subseteq Monitor!Wanted(s, j.post)}
              \cup {Monitor!Idle}

\* What all sessions have found, use and process.
Findings ==
    {f \in [Session -> [Monitor!Refresher -> [mark : 0..top, rules : [Division -> 0..MaxPost]]]] :
        \A s \in Session, t \in Monitor!Refresher : f[s][t].rules \in Rule(s)}
RulesInUse ==
    {f \in [Session -> [Division -> 0..MaxPost]] : \A s \in Session : f[s] \in Rule(s)}
Jobs == {f \in [Session -> [Monitor!Task -> AnyJob]] :
            \A s \in Session, k \in Monitor!Task : f[s][k] \in Job(s)}

\* Posts to come hit nobody; the checkpoint is of a post there is; an activation moves on
\* while sessions run.
SourceInv ==
    /\ top \in 0..MaxPost /\ hits \in [Monitor!Post -> SUBSET Division]
    /\ conf \in [Division -> {"NONE", "PREPARING", "READY", "OFF", "PAUSED"}]
    /\ since \in [Division -> 0..MaxPost] /\ start \in [Division -> 0..MaxPost]
    /\ bound \in [Session -> [Division -> 0..MaxPost]]
    /\ lastPost \in 0..top
    /\ \A p \in Monitor!Post : p > top => hits[p] = {}
    /\ \A s \in Session, d \in Division : bound[s][d] <= since[d]

\* An event is of a post there is.
InboxInv ==
    /\ ev \in [Monitor!Post -> {"ABSENT", "PENDING", "EMPTY", "PROCESSED"}]
    /\ candidates \subseteq Monitor!Post \X Division
    /\ Inbox \subseteq Monitor!Posted

Places ==
    [Session -> [Monitor!Refresher ->
        {"OFF", "REFRESH", "PREPARE", "HISTORY", "BACKFILL", "INGEST", "RECOVER"}]]
Plans == [Session -> [Monitor!Refresher -> SUBSET (Monitor!Post \X SUBSET Division)]]

\* A refresh loads rules that are sound; it has a plan once it has read, of posts with the
\* divisions that want them, and of events when it recovers them.
RefreshInv ==
    /\ place \in Places /\ plan \in Plans /\ found \in Findings
    /\ \A s \in Session, t \in Monitor!Refresher :
          /\ place[s][t] \notin {"INGEST", "RECOVER"} => plan[s][t] = {}
          /\ place[s][t] = "INGEST" => plan[s][t] \subseteq Planned(s)
          /\ place[s]["first"] = "OFF" => place[s][t] = "OFF"
          /\ place[s][t] = "RECOVER" => plan[s][t] \subseteq Inbox \X SUBSET Division

\* What is live: the rules in use are sound, and what is heard is posted.
LiveInv ==
    /\ watched \in [Session -> BOOLEAN] /\ dirty \in [Session -> BOOLEAN]
    /\ rules \in RulesInUse
    /\ queue \in [Session -> SUBSET Monitor!Posted] /\ heard \in [Session -> 0..top]

\* An event in process is in the inbox, for divisions that want it.
JobInv == job \in Jobs

\* A session that has ended leaves nothing to the next one.
CleanInv ==
    \A s \in Session : ~Monitor!Running(s) =>
        /\ rules[s] = Monitor!NoRules /\ queue[s] = {}
        /\ \A t \in Monitor!Refresher : found[s][t] = Monitor!Nothing
        /\ \A k \in Monitor!Task : job[s][k] = Monitor!Idle

RestInv == owner \in Session \cup {NoSession} /\ upsets \in 0..MaxUpsets

MonitorInv ==
    /\ Bounds /\ SourceInv /\ InboxInv /\ RefreshInv /\ LiveInv /\ JobInv /\ CleanInv
    /\ RestInv

\* What OnlyWanted says of a step.
Answered ==
    /\ \A p \in Monitor!Post : ev[p] = "ABSENT" /\ ev'[p] # "ABSENT" =>
          \E s \in Session : Monitor!Running(s) /\ Monitor!Wanted(s, p) # {}
    /\ \A x \in candidates' \ candidates :
          \E s \in Session : Monitor!Running(s) /\ x[2] \in Monitor!Wanted(s, x[1])

\* What is to be shown of every step.
Kept == MonitorInv' /\ lastPost' >= lastPost /\ Answered

-----------------------------------------------------------------------------
(* Least and greatest. *)

\* Among some numbers there is a least one.
LEMMA LeastExists ==
    ASSUME NEW S \in SUBSET Nat, S # {}
    PROVE  \E n \in S : \A m \in S : n <= m
<1> DEFINE Less == {x \in Nat \X Nat : x[1] < x[2]}
<1>1. IsWellFoundedOn(Less, Nat)
  BY NatLessThanWellFounded DEF OpToRel
<1>2. \E n \in S : \A m \in S : ~(<<m, n>> \in Less)
  <2>1. S \subseteq Nat
    OBVIOUS
  <2> HIDE DEF Less
  <2> QED
    BY <1>1, <2>1, WFMin
<1>3. \A m, n \in Nat : <<m, n>> \notin Less => n <= m
  OBVIOUS
<1> HIDE DEF Less
<1> QED
  BY <1>2, <1>3

\* So Min picks one of them.
LEMMA MinIsMember ==
    ASSUME NEW S \in SUBSET Nat, S # {}
    PROVE  Monitor!Min(S) \in S
BY LeastExists DEF Monitor!Min

\* The greater of two numbers.
LEMMA MaxOfTwo ==
    ASSUME NEW a \in Nat, NEW b \in Nat
    PROVE  Monitor!Max({a, b}) \in {a, b} /\ Monitor!Max({a, b}) >= a /\ Monitor!Max({a, b}) >= b
<1>1. \E x \in {a, b} : \A y \in {a, b} : x >= y
  <2>1. CASE a >= b
    BY <2>1
  <2>2. CASE b >= a
    BY <2>2
  <2> QED
    BY <2>1, <2>2
<1> QED
  BY <1>1 DEF Monitor!Max

\* The first of some planned posts is one of them.
LEMMA FirstIsMember ==
    ASSUME NEW P \in SUBSET (Monitor!Post \X SUBSET Division), P # {}, Bounds
    PROVE  Monitor!First(P) \in P
<1> DEFINE N == {x[1] : x \in P}
<1>1. N \in SUBSET Nat /\ N # {}
  BY DEF Bounds, Monitor!Post
<1>2. PICK n \in N : \A m \in N : n <= m
  <2> HIDE DEF N
  <2> QED
    BY <1>1, LeastExists
<1>3. \E x \in P : \A y \in P : x[1] <= y[1]
  BY <1>2
<1> QED
  BY <1>3 DEF Monitor!First

-----------------------------------------------------------------------------
(* What the parts of a step keep. *)

Configuration == <<Monitor!channelVars, Monitor!configVars>>

\* What depends on the channel and its configuration only.
LEMMA Frame ==
    ASSUME UNCHANGED Configuration
    PROVE  /\ top' = top /\ Monitor!Posted' = Monitor!Posted
           /\ \A s \in Session : Rule(s)' = Rule(s) /\ Planned(s)' = Planned(s)
           /\ \A s \in Session, p \in Monitor!Post : Monitor!Wanted(s, p)' = Monitor!Wanted(s, p)
           /\ Findings' = Findings /\ RulesInUse' = RulesInUse
<1>1. top' = top /\ hits' = hits /\ conf' = conf /\ since' = since /\ bound' = bound
  BY DEF Configuration, Monitor!channelVars, Monitor!configVars
<1>2. Monitor!Posted' = Monitor!Posted
  BY <1>1 DEF Monitor!Posted
<1>3. ASSUME NEW s \in Session PROVE Rule(s)' = Rule(s) /\ Planned(s)' = Planned(s)
  BY <1>1, <1>2 DEF Rule, Planned, Monitor!Wanted
<1>4. ASSUME NEW s \in Session, NEW p \in Monitor!Post
      PROVE  Monitor!Wanted(s, p)' = Monitor!Wanted(s, p)
  BY <1>1 DEF Monitor!Wanted
<1>5. Findings' = Findings /\ RulesInUse' = RulesInUse
  BY <1>1, <1>3 DEF Findings, RulesInUse
<1> QED
  BY <1>1, <1>2, <1>3, <1>4, <1>5

\* Jobs stay what they are in an inbox that grows.
LEMMA JobFrame ==
    ASSUME UNCHANGED Configuration, Inbox \subseteq Inbox', NEW s \in Session
    PROVE  Job(s) \subseteq Job(s)'
<1>1. hits' = hits /\ conf' = conf /\ bound' = bound
  BY DEF Configuration, Monitor!channelVars, Monitor!configVars
<1>2. SUFFICES ASSUME NEW j \in AnyJob, j.post \in Inbox, j.todo \subseteq Monitor!Wanted(s, j.post)
               PROVE  j.post \in Inbox' /\ j.todo \subseteq Monitor!Wanted(s, j.post)'
  BY DEF Job, AnyJob
<1> QED
  BY <1>1, <1>2 DEF Monitor!Wanted

\* Only a post there is can be wanted, and by divisions.
LEMMA WantedIsPosted ==
    ASSUME Bounds, SourceInv, NEW s \in Session, NEW p \in Monitor!Post
    PROVE  /\ Monitor!Wanted(s, p) # {} => p \in Monitor!Posted
           /\ Monitor!Wanted(s, p) \subseteq Division
BY DEF Bounds, SourceInv, Monitor!Wanted, Monitor!Post, Monitor!Posted

\* What matches by sound rules is wanted.
LEMMA MatchingIsWanted ==
    ASSUME Bounds, SourceInv, NEW s \in Session, NEW R \in Rule(s), NEW p \in Monitor!Post
    PROVE  Monitor!Matching(p, R) \subseteq Monitor!Wanted(s, p)
BY DEF Bounds, SourceInv, Monitor!Wanted, Rule, Monitor!Matching, Monitor!Post

\* The rules loadSources makes are sound, and so is having none.
LEMMA RulesAreSound ==
    ASSUME Bounds, SourceInv, NEW s \in Session
    PROVE  Monitor!LoadedRules \in Rule(s) /\ Monitor!NoRules \in Rule(s)
<1>1. Monitor!NoRules \in Rule(s)
  BY DEF Bounds, SourceInv, Rule, Monitor!NoRules
<1>2. ASSUME NEW d \in Division
      PROVE  /\ Monitor!LoadedRules[d] \in 0..MaxPost /\ Monitor!LoadedRules[d] >= bound[s][d]
             /\ conf[d] = "NONE" => Monitor!LoadedRules[d] = MaxPost
  <2>1. /\ start[d] \in Nat /\ since[d] \in Nat /\ start[d] <= MaxPost /\ since[d] <= MaxPost
        /\ bound[s][d] \in Nat /\ bound[s][d] <= since[d]
    BY DEF Bounds, SourceInv
  <2>2. /\ Monitor!Max({start[d], since[d]}) \in {start[d], since[d]}
        /\ Monitor!Max({start[d], since[d]}) >= since[d]
    BY <2>1, MaxOfTwo
  <2>3. Monitor!LoadedRules[d] =
            IF conf[d] = "READY" THEN Monitor!Max({start[d], since[d]}) ELSE MaxPost
    BY DEF Monitor!LoadedRules
  <2> QED
    BY <2>1, <2>2, <2>3 DEF Bounds
<1>3. Monitor!LoadedRules \in [Division -> 0..MaxPost]
  BY <1>2 DEF Monitor!LoadedRules
<1> QED
  BY <1>1, <1>2, <1>3 DEF Rule

\* advanceCheckpoint never goes back, nor beyond the newest post.
LEMMA AdvanceIsSound ==
    ASSUME Bounds, SourceInv, NEW p \in 0..top, Monitor!Advance(p)
    PROVE  /\ start' \in [Division -> 0..MaxPost] /\ lastPost' \in 0..top
           /\ lastPost' >= lastPost
<1>1. p \in Nat /\ lastPost \in Nat /\ p <= top /\ lastPost <= top /\ top \in Nat /\ top <= MaxPost
  BY DEF Bounds, SourceInv
<1>2. Monitor!Max({lastPost, p}) \in {lastPost, p} /\ Monitor!Max({lastPost, p}) >= lastPost
  BY <1>1, MaxOfTwo
<1>3. lastPost' \in 0..top /\ lastPost' >= lastPost
  BY <1>1, <1>2 DEF Monitor!Advance
<1>4. start' \in [Division -> 0..MaxPost]
  <2>1. p \in 0..MaxPost /\ start \in [Division -> 0..MaxPost]
    BY <1>1 DEF Bounds, SourceInv
  <2> QED
    BY <2>1 DEF Monitor!Advance
<1> QED
  BY <1>3, <1>4

\* The checkpoint moves to a post there is, or not at all.
SourceMoves == UNCHANGED Monitor!sourceVars \/ \E p \in 0..top : Monitor!Advance(p)

\* What such a move keeps.
LEMMA SourceStep ==
    ASSUME Bounds, SourceInv, UNCHANGED Configuration, SourceMoves
    PROVE  SourceInv' /\ lastPost' >= lastPost
<1>1. start' \in [Division -> 0..MaxPost] /\ lastPost' \in 0..top /\ lastPost' >= lastPost
  <2>1. CASE UNCHANGED Monitor!sourceVars
    BY <2>1 DEF SourceInv, Monitor!sourceVars, Bounds
  <2>2. CASE \E p \in 0..top : Monitor!Advance(p)
    BY <2>2, AdvanceIsSound
  <2> QED
    BY <2>1, <2>2 DEF SourceMoves
<1> QED
  BY <1>1 DEF SourceInv, Configuration, Monitor!channelVars, Monitor!configVars

\* Events stay, and those that come are wanted; so are the candidates that come.
InboxMoves ==
    /\ ev' \in [Monitor!Post -> {"ABSENT", "PENDING", "EMPTY", "PROCESSED"}]
    /\ \A p \in Monitor!Post : ev[p] # "ABSENT" => ev'[p] # "ABSENT"
    /\ candidates' \subseteq Monitor!Post \X Division
    /\ Answered

\* What they keep.
LEMMA InboxStep ==
    ASSUME Bounds, SourceInv, InboxInv, UNCHANGED Configuration, InboxMoves
    PROVE  InboxInv' /\ Inbox \subseteq Inbox' /\ Answered
<1>1. Inbox \subseteq Inbox' /\ Answered
  BY DEF InboxMoves, Inbox
<1>2. Monitor!Posted' = Monitor!Posted
  BY Frame
<1>3. ASSUME NEW p \in Inbox' PROVE p \in Monitor!Posted
  <2>1. p \in Monitor!Post /\ ev'[p] # "ABSENT"
    BY DEF Inbox
  <2>2. CASE ev[p] # "ABSENT"
    BY <2>1, <2>2 DEF InboxInv, Inbox
  <2>3. CASE ev[p] = "ABSENT"
    BY <2>1, <2>3, WantedIsPosted DEF InboxMoves, Answered
  <2> QED
    BY <2>2, <2>3
<1> QED
  BY <1>1, <1>2, <1>3 DEF InboxInv, InboxMoves

\* A step of something else leaves the inbox alone.
LEMMA InboxRests ==
    ASSUME InboxInv, UNCHANGED top, UNCHANGED <<ev, candidates>>
    PROVE  InboxInv' /\ Inbox \subseteq Inbox' /\ Answered
BY DEF InboxInv, Inbox, Answered, Monitor!Posted

\* The other refreshes stay where they are.
OthersRead(s, t) ==
    \A r \in Session, u \in Monitor!Refresher :
        <<r, u>> # <<s, t>> => place'[r][u] = place[r][u] /\ plan'[r][u] = plan[r][u]

\* What a refresh has read fits what it does next.
PlanFits(s, l, P) ==
    /\ l \in {"REFRESH", "PREPARE", "HISTORY", "BACKFILL", "INGEST", "RECOVER"}
    /\ l \notin {"INGEST", "RECOVER"} => P = {}
    /\ l = "INGEST" => P \subseteq Planned(s)
    /\ l = "RECOVER" => P \subseteq Inbox' \X SUBSET Division

\* A refresh moves on, which is not off.
LEMMA RefreshStep ==
    ASSUME RefreshInv, UNCHANGED Configuration, Inbox \subseteq Inbox',
           NEW s \in Session, NEW t \in Monitor!Refresher, OthersRead(s, t), place[s][t] # "OFF",
           place' \in Places, plan' \in Plans, found' \in Findings,
           PlanFits(s, place'[s][t], plan'[s][t])
    PROVE  RefreshInv'
<1>1. Findings' = Findings /\ \A r \in Session : Planned(r)' = Planned(r)
  BY Frame
<1>2. found' \in Findings'
  BY <1>1
<1>3. ASSUME NEW r \in Session, NEW u \in Monitor!Refresher
      PROVE  /\ place'[r][u] \notin {"INGEST", "RECOVER"} => plan'[r][u] = {}
             /\ place'[r][u] = "INGEST" => plan'[r][u] \subseteq Planned(r)
             /\ place'[r][u] = "RECOVER" => plan'[r][u] \subseteq Inbox' \X SUBSET Division
  <2>1. CASE <<r, u>> = <<s, t>>
    BY <2>1 DEF PlanFits
  <2>2. CASE <<r, u>> # <<s, t>>
    <3>1. place'[r][u] = place[r][u] /\ plan'[r][u] = plan[r][u]
      BY <2>2 DEF OthersRead
    <3>2. /\ place[r][u] \notin {"INGEST", "RECOVER"} => plan[r][u] = {}
          /\ place[r][u] = "INGEST" => plan[r][u] \subseteq Planned(r)
          /\ place[r][u] = "RECOVER" => plan[r][u] \subseteq Inbox \X SUBSET Division
      BY DEF RefreshInv
    <3> QED
      BY <3>1, <3>2
  <2> QED
    BY <2>1, <2>2
<1>4. ASSUME NEW r \in Session, NEW u \in Monitor!Refresher, place'[r]["first"] = "OFF"
      PROVE  place'[r][u] = "OFF"
  <2>1. "first" \in Monitor!Refresher
    BY DEF Monitor!Refresher
  <2>2. place[s]["first"] # "OFF" /\ place'[s][t] # "OFF"
    BY DEF RefreshInv, PlanFits
  <2>3. r # s
    BY <1>4, <2>1, <2>2 DEF OthersRead
  <2> QED
    BY <1>4, <2>1, <2>3 DEF OthersRead, RefreshInv
<1> QED
  BY <1>1, <1>2, <1>3, <1>4 DEF RefreshInv, Places, Plans

\* A step of something else leaves refreshes alone.
LEMMA RefreshRests ==
    ASSUME RefreshInv, UNCHANGED Configuration, Inbox \subseteq Inbox', UNCHANGED Monitor!refreshVars
    PROVE  RefreshInv'
<1>1. Findings' = Findings /\ \A r \in Session : Planned(r)' = Planned(r)
  BY Frame
<1>2. place' = place /\ found' = found /\ plan' = plan
  BY DEF Monitor!refreshVars
<1>3. ASSUME NEW r \in Session, NEW u \in Monitor!Refresher
      PROVE  place[r][u] = "RECOVER" => plan[r][u] \subseteq Inbox' \X SUBSET Division
  BY DEF RefreshInv
<1> QED
  BY <1>1, <1>2, <1>3 DEF RefreshInv, Places, Plans

\* The rest of a session keeps its kind.
LiveKept ==
    /\ watched' \in [Session -> BOOLEAN] /\ dirty' \in [Session -> BOOLEAN]
    /\ rules' \in RulesInUse
    /\ queue' \in [Session -> SUBSET Monitor!Posted] /\ heard' \in [Session -> 0..top]

\* What that keeps.
LEMMA LiveStep ==
    ASSUME UNCHANGED Configuration, LiveKept
    PROVE  LiveInv'
<1>1. RulesInUse' = RulesInUse /\ Monitor!Posted' = Monitor!Posted /\ top' = top
  BY Frame
<1> QED
  BY <1>1 DEF LiveInv, LiveKept

\* A job goes on in an inbox that grows.
LEMMA JobRests ==
    ASSUME UNCHANGED Configuration, Inbox \subseteq Inbox', JobInv, UNCHANGED job
    PROVE  JobInv'
<1>1. \A s \in Session : Job(s) \subseteq Job(s)'
  BY JobFrame
<1> QED
  BY <1>1 DEF JobInv, Jobs, AnyJob

\* A task takes a job, or ends one.
LEMMA JobMoves ==
    ASSUME UNCHANGED Configuration, Inbox \subseteq Inbox', JobInv, NEW s \in Session,
           NEW k \in Monitor!Task, NEW j \in AnyJob, j \in Job(s)',
           job' = [job EXCEPT ![s][k] = j]
    PROVE  JobInv'
<1>1. \A r \in Session : Job(r) \subseteq Job(r)'
  BY JobFrame
<1>2. job' \in [Session -> [Monitor!Task -> AnyJob]]
  BY DEF JobInv, Jobs
<1>3. ASSUME NEW r \in Session, NEW l \in Monitor!Task PROVE job'[r][l] \in Job(r)'
  BY <1>1 DEF JobInv, Jobs
<1> QED
  BY <1>2, <1>3 DEF JobInv, Jobs, AnyJob

\* A task may have nothing to do.
LEMMA IdleIsJob ==
    ASSUME Bounds, NEW s \in Session
    PROVE  Monitor!Idle \in AnyJob /\ Monitor!Idle \in Job(s) /\ Monitor!Idle \in Job(s)'
BY DEF Bounds, AnyJob, Job, Monitor!Idle

\* A step of something else leaves the live posts alone.
LEMMA LiveRests ==
    ASSUME LiveInv, UNCHANGED Configuration, UNCHANGED <<Monitor!mapVars, dirty, Monitor!liveVars>>
    PROVE  LiveInv'
BY LiveStep DEF LiveInv, LiveKept, Monitor!mapVars, Monitor!liveVars

\* Sessions other than this one stay as they are.
OthersKept(s) ==
    \A r \in Session \ {s} :
        /\ place'[r] = place[r] /\ found'[r] = found[r] /\ rules'[r] = rules[r]
        /\ queue'[r] = queue[r] /\ job'[r] = job[r]

\* What a session that runs may do.
LEMMA CleanStep ==
    ASSUME CleanInv, NEW s \in Session, place'[s]["first"] # "OFF", OthersKept(s)
    PROVE  CleanInv'
BY DEF CleanInv, OthersKept, Monitor!Running

\* A session with something to do runs.
LEMMA BusyRuns ==
    ASSUME RefreshInv, CleanInv, NEW s \in Session,
           \/ queue[s] # {} \/ (\E k \in Monitor!Task : job[s][k] # Monitor!Idle)
           \/ \E t \in Monitor!Refresher : place[s][t] # "OFF"
    PROVE  Monitor!Running(s) /\ place[s]["first"] # "OFF"
BY DEF RefreshInv, CleanInv, Monitor!Running

\* A post that is taken in: an event for the divisions that want it, or a checkpoint.
LEMMA IngestKeeps ==
    ASSUME MonitorInv, NEW s \in Session, NEW k \in Monitor!Task, NEW p \in Monitor!Posted,
           NEW D \in SUBSET Monitor!Wanted(s, p), Monitor!Running(s), Monitor!Ingest(s, k, p, D),
           UNCHANGED Configuration, UNCHANGED candidates
    PROVE  /\ SourceInv' /\ InboxInv' /\ JobInv' /\ Inbox \subseteq Inbox' /\ Answered
           /\ lastPost' >= lastPost
           /\ \A r \in Session \ {s} : job'[r] = job[r]
<1>1. p \in Monitor!Post /\ p \in 0..top /\ p \in 0..MaxPost /\ D \subseteq Division
  BY WantedIsPosted DEF MonitorInv, Bounds, SourceInv, Monitor!Posted, Monitor!Post
<1>2. CASE D # {} /\ ev[p] = "ABSENT"
  <2> DEFINE j == [post |-> p, todo |-> D, begun |-> FALSE]
  <2>1. Monitor!Enqueue(p) /\ job' = [job EXCEPT ![s][k] = j] /\ UNCHANGED Monitor!sourceVars
    BY <1>2 DEF Monitor!Ingest
  <2>2. InboxMoves
    <3>1. Answered
      BY <1>1, <1>2, <2>1 DEF Answered, Monitor!Enqueue, MonitorInv, InboxInv
    <3> QED
      BY <1>1, <1>2, <2>1, <3>1 DEF InboxMoves, Monitor!Enqueue, MonitorInv, InboxInv
  <2>3. InboxInv' /\ Inbox \subseteq Inbox' /\ Answered
    BY <2>2, InboxStep DEF MonitorInv
  <2>4. j \in AnyJob /\ j \in Job(s)'
    <3>1. p \in Inbox'
      BY <1>1, <2>1 DEF Inbox, Monitor!Enqueue, MonitorInv, InboxInv
    <3>2. Monitor!Wanted(s, p)' = Monitor!Wanted(s, p)
      BY <1>1, Frame
    <3>3. j \in AnyJob
      BY <1>1 DEF AnyJob
    <3> QED
      BY <1>1, <3>1, <3>2, <3>3 DEF Job, AnyJob
  <2>5. JobInv'
    <3> HIDE DEF j
    <3> QED
      BY <2>1, <2>3, <2>4, JobMoves DEF MonitorInv
  <2>6. SourceInv' /\ lastPost' >= lastPost
    BY <2>1, SourceStep DEF SourceMoves, MonitorInv
  <2>7. \A r \in Session \ {s} : job'[r] = job[r]
    BY <2>1 DEF MonitorInv, JobInv, Jobs
  <2> QED
    BY <2>3, <2>5, <2>6, <2>7
<1>3. CASE ~(D # {} /\ ev[p] = "ABSENT")
  <2>1. Monitor!Advance(p) /\ UNCHANGED <<ev, job>>
    BY <1>3 DEF Monitor!Ingest
  <2>2. InboxInv' /\ Inbox \subseteq Inbox' /\ Answered
    BY <2>1, InboxRests DEF MonitorInv, Configuration, Monitor!channelVars
  <2>3. JobInv'
    BY <2>1, <2>2, JobRests DEF MonitorInv
  <2>4. SourceInv' /\ lastPost' >= lastPost
    BY <1>1, <2>1, SourceStep DEF SourceMoves, MonitorInv
  <2> QED
    BY <2>1, <2>2, <2>3, <2>4
<1> QED
  BY <1>2, <1>3

\* An event of the inbox is of a post there is.
LEMMA InboxIsPosted ==
    ASSUME MonitorInv, NEW p \in Inbox
    PROVE  p \in Monitor!Post /\ p \in Monitor!Posted /\ p \in 0..top /\ p \in 0..MaxPost
<1>1. p \in Monitor!Post /\ p \in Monitor!Posted
  BY DEF MonitorInv, InboxInv, Inbox
<1> QED
  BY <1>1 DEF MonitorInv, SourceInv, Bounds, Monitor!Post, Monitor!Posted

\* What a job is about; its session runs.
LEMMA JobIsOfInbox ==
    ASSUME MonitorInv, NEW s \in Session, NEW k \in Monitor!Task, job[s][k] # Monitor!Idle
    PROVE  /\ job[s][k] \in AnyJob /\ job[s][k].post \in Inbox
           /\ job[s][k].todo \subseteq Monitor!Wanted(s, job[s][k].post)
           /\ Monitor!Running(s) /\ place[s]["first"] # "OFF"
BY BusyRuns DEF MonitorInv, JobInv, Jobs, Job

\* A step of one of a session's tasks that only moves its job.
LEMMA JobStepIsClean ==
    ASSUME MonitorInv, NEW s \in Session, NEW k \in Monitor!Task, place[s]["first"] # "OFF",
           NEW j, job' = [job EXCEPT ![s][k] = j],
           UNCHANGED <<Monitor!refreshVars, Monitor!mapVars, Monitor!liveVars>>
    PROVE  CleanInv'
<1>1. \A r \in Session \ {s} : job'[r] = job[r]
  BY DEF MonitorInv, JobInv, Jobs
<1> QED
  BY <1>1, CleanStep DEF MonitorInv, OthersKept, Monitor!refreshVars, Monitor!mapVars,
     Monitor!liveVars

-----------------------------------------------------------------------------
(* The steps of the processing of events. *)

\* A candidate is created for one of the divisions a job is for.
LEMMA CreateCandidateKeeps ==
    ASSUME MonitorInv, NEW s \in Session, NEW k \in Monitor!Task, Monitor!CreateCandidate(s, k)
    PROVE  Kept
<1> PICK p, D : p = job[s][k].post /\ D = job[s][k].todo
  OBVIOUS
<1>1. UNCHANGED Configuration
      /\ UNCHANGED <<Monitor!sourceVars, ev, owner, Monitor!refreshVars, Monitor!mapVars, dirty,
                     Monitor!liveVars, upsets>>
  BY DEF Monitor!CreateCandidate, Configuration
<1>2. PICK d \in D :
          /\ candidates' = candidates \cup {<<p, d>>}
          /\ job' = [job EXCEPT ![s][k] = [post |-> p, todo |-> D \ {d}, begun |-> TRUE]]
  BY DEF Monitor!CreateCandidate
<1>3. job[s][k] # Monitor!Idle
  BY <1>2 DEF Monitor!Idle
<1>4. /\ job[s][k] \in AnyJob /\ p \in Inbox /\ D \subseteq Monitor!Wanted(s, p)
      /\ Monitor!Running(s) /\ place[s]["first"] # "OFF"
  BY <1>3, JobIsOfInbox
<1>5. p \in Monitor!Post /\ p \in 0..MaxPost /\ D \subseteq Division
  BY <1>4, InboxIsPosted DEF AnyJob
<1>6. InboxMoves
  <2>1. Answered
    BY <1>1, <1>2, <1>4, <1>5 DEF Answered
  <2> QED
    BY <1>1, <1>2, <1>4, <1>5, <2>1 DEF InboxMoves, MonitorInv, InboxInv
<1>7. InboxInv' /\ Inbox \subseteq Inbox' /\ Answered
  BY <1>1, <1>6, InboxStep DEF MonitorInv
<1> DEFINE j == [post |-> p, todo |-> D \ {d}, begun |-> TRUE]
<1>8. JobInv'
  <2>1. Monitor!Wanted(s, p)' = Monitor!Wanted(s, p) /\ p \in Inbox'
    BY <1>1, <1>4, <1>5, <1>7, Frame
  <2>2. j \in AnyJob
    BY <1>5 DEF AnyJob
  <2>3. j \in Job(s)'
    BY <1>4, <2>1, <2>2 DEF Job, AnyJob
  <2> HIDE DEF j
  <2> QED
    BY <1>1, <1>2, <1>7, <2>2, <2>3, JobMoves DEF MonitorInv, j
<1>9. SourceInv' /\ lastPost' >= lastPost
  BY <1>1, SourceStep DEF SourceMoves, MonitorInv
<1>10. RefreshInv' /\ LiveInv'
  BY <1>1, <1>7, RefreshRests, LiveRests DEF MonitorInv
<1>11. CleanInv'
  BY <1>1, <1>2, <1>4, JobStepIsClean
<1> QED
  BY <1>1, <1>7, <1>8, <1>9, <1>10, <1>11 DEF Kept, MonitorInv, RestInv, Bounds

\* A job that fails puts its event back, if that works.
LEMMA FailKeeps ==
    ASSUME MonitorInv, NEW s \in Session, NEW k \in Monitor!Task, job[s][k] # Monitor!Idle,
           Monitor!Fail(s, k), UNCHANGED Configuration,
           UNCHANGED <<owner, Monitor!refreshVars, Monitor!mapVars, Monitor!liveVars>>,
           upsets' \in 0..MaxUpsets
    PROVE  Kept
<1>1. job[s][k].post \in Inbox /\ place[s]["first"] # "OFF"
  BY JobIsOfInbox
<1>2. job' = [job EXCEPT ![s][k] = Monitor!Idle] /\ UNCHANGED candidates
      /\ UNCHANGED Monitor!sourceVars /\ Monitor!Dirty(s)
      /\ (Monitor!Unfinish(job[s][k].post) \/ UNCHANGED ev)
  BY DEF Monitor!Fail
<1>3. InboxMoves
  <2>1. ev' \in [Monitor!Post -> {"ABSENT", "PENDING", "EMPTY", "PROCESSED"}]
        /\ \A p \in Monitor!Post : ev[p] # "ABSENT" <=> ev'[p] # "ABSENT"
    BY <1>1, <1>2 DEF Monitor!Unfinish, Inbox, MonitorInv, InboxInv
  <2> QED
    BY <1>2, <2>1 DEF InboxMoves, Answered, MonitorInv, InboxInv
<1>4. InboxInv' /\ Inbox \subseteq Inbox' /\ Answered
  BY <1>3, InboxStep DEF MonitorInv
<1>5. JobInv'
  BY <1>2, <1>4, IdleIsJob, JobMoves DEF MonitorInv
<1>6. SourceInv' /\ lastPost' >= lastPost
  BY <1>2, SourceStep DEF SourceMoves, MonitorInv
<1>7. RefreshInv'
  BY <1>4, RefreshRests DEF MonitorInv
<1>8. LiveInv'
  BY <1>2, LiveStep DEF LiveKept, MonitorInv, LiveInv, Monitor!Dirty, Monitor!mapVars,
     Monitor!liveVars
<1>9. CleanInv'
  BY <1>1, <1>2, JobStepIsClean
<1> QED
  BY <1>4, <1>5, <1>6, <1>7, <1>8, <1>9 DEF Kept, MonitorInv, RestInv, Bounds

\* A division is no longer in force.
LEMMA CandidateRefusedKeeps ==
    ASSUME MonitorInv, NEW s \in Session, NEW k \in Monitor!Task, Monitor!CandidateRefused(s, k)
    PROVE  Kept
<1>1. job[s][k] # Monitor!Idle
  BY DEF Monitor!CandidateRefused, Monitor!Idle
<1> QED
  BY <1>1, FailKeeps DEF Monitor!CandidateRefused, Configuration, MonitorInv, RestInv

\* An event that is done stays in the inbox; the checkpoint is at its post or further.
LEMMA DoneKeeps ==
    ASSUME MonitorInv, NEW p \in Inbox, NEW e \in {"EMPTY", "PROCESSED"},
           ev' = [ev EXCEPT ![p] = e], Monitor!Advance(p), UNCHANGED Configuration,
           UNCHANGED candidates
    PROVE  SourceInv' /\ InboxInv' /\ Inbox \subseteq Inbox' /\ Answered /\ lastPost' >= lastPost
<1>1. p \in Monitor!Post /\ p \in 0..top
  BY InboxIsPosted
<1>2. InboxMoves
  <2>1. ev' \in [Monitor!Post -> {"ABSENT", "PENDING", "EMPTY", "PROCESSED"}]
        /\ \A q \in Monitor!Post : ev[q] # "ABSENT" <=> ev'[q] # "ABSENT"
    BY <1>1 DEF Inbox, MonitorInv, InboxInv
  <2> QED
    BY <2>1 DEF InboxMoves, Answered, MonitorInv, InboxInv
<1> QED
  BY <1>1, <1>2, InboxStep, SourceStep DEF MonitorInv, SourceMoves

\* A job is done.
LEMMA DoneJobKeeps ==
    ASSUME MonitorInv, NEW s \in Session, NEW k \in Monitor!Task, job[s][k] # Monitor!Idle,
           NEW e \in {"EMPTY", "PROCESSED"}, ev' = [ev EXCEPT ![job[s][k].post] = e],
           Monitor!Advance(job[s][k].post), job' = [job EXCEPT ![s][k] = Monitor!Idle],
           UNCHANGED Configuration, dirty' \in [Session -> BOOLEAN], upsets' \in 0..MaxUpsets,
           UNCHANGED <<candidates, owner, Monitor!refreshVars, Monitor!mapVars, Monitor!liveVars>>
    PROVE  Kept
<1>1. job[s][k].post \in Inbox /\ place[s]["first"] # "OFF"
  BY JobIsOfInbox
<1>2. SourceInv' /\ InboxInv' /\ Inbox \subseteq Inbox' /\ Answered /\ lastPost' >= lastPost
  BY <1>1, DoneKeeps
<1>3. JobInv'
  BY <1>2, IdleIsJob, JobMoves DEF MonitorInv
<1>4. RefreshInv'
  BY <1>2, RefreshRests DEF MonitorInv
<1>5. LiveInv'
  BY LiveStep DEF LiveKept, MonitorInv, LiveInv, Monitor!mapVars, Monitor!liveVars
<1>6. CleanInv'
  BY <1>1, JobStepIsClean
<1> QED
  BY <1>2, <1>3, <1>4, <1>5, <1>6 DEF Kept, MonitorInv, RestInv, Bounds

\* Its candidates are there, or its source is not.
LEMMA FinishJobKeeps ==
    ASSUME MonitorInv, NEW s \in Session, NEW k \in Monitor!Task,
           Monitor!FinishJob(s, k) \/ Monitor!Abandon(s, k)
    PROVE  Kept
<1>1. job[s][k] # Monitor!Idle /\ Monitor!Complete(job[s][k].post)
      /\ job' = [job EXCEPT ![s][k] = Monitor!Idle]
      /\ UNCHANGED Configuration
      /\ UNCHANGED <<candidates, owner, Monitor!refreshVars, Monitor!mapVars, dirty,
                     Monitor!liveVars, upsets>>
  BY DEF Monitor!FinishJob, Monitor!Abandon, Monitor!SourceGone, Configuration
<1> QED
  BY <1>1, DoneJobKeeps DEF Monitor!Complete, MonitorInv, LiveInv, RestInv

\* Upsets are counted.
LEMMA UpsetIsBounded ==
    ASSUME MonitorInv, Monitor!Upset \/ Monitor!Upsets(2)
    PROVE  upsets' \in 0..MaxUpsets
BY DEF MonitorInv, RestInv, Bounds, Monitor!Upset, Monitor!Upsets

\* A call of a job throws, applied or not.
LEMMA JobFailsKeeps ==
    ASSUME MonitorInv, NEW s \in Session, NEW k \in Monitor!Task, Monitor!JobFails(s, k)
    PROVE  Kept
<1>1. UNCHANGED Configuration
      /\ UNCHANGED <<owner, Monitor!refreshVars, Monitor!mapVars, Monitor!liveVars>>
  BY DEF Monitor!JobFails, Configuration
<1>2. upsets' \in 0..MaxUpsets /\ job[s][k] # Monitor!Idle
  BY UpsetIsBounded DEF Monitor!JobFails
<1>3. CASE Monitor!Fail(s, k)
  BY <1>1, <1>2, <1>3, FailKeeps
<1>4. CASE ~Monitor!Fail(s, k)
  <2>1. PICK e \in {"EMPTY", "PROCESSED"} : ev' = [ev EXCEPT ![job[s][k].post] = e]
    BY <1>4 DEF Monitor!JobFails
  <2>2. Monitor!Advance(job[s][k].post) /\ job' = [job EXCEPT ![s][k] = Monitor!Idle]
        /\ Monitor!Dirty(s) /\ UNCHANGED candidates
    BY <1>4 DEF Monitor!JobFails
  <2>3. dirty' \in [Session -> BOOLEAN]
    BY <2>2 DEF Monitor!Dirty, MonitorInv, LiveInv
  <2> QED
    BY <1>1, <1>2, <2>1, <2>2, <2>3, DoneJobKeeps
<1> QED
  BY <1>3, <1>4

-----------------------------------------------------------------------------
(* The steps of live posts. *)

\* The client delivers a post.
LEMMA DeliverKeeps ==
    ASSUME MonitorInv, NEW s \in Session, Monitor!Deliver(s)
    PROVE  Kept
<1>1. UNCHANGED Configuration
      /\ UNCHANGED <<Monitor!sourceVars, ev, candidates, owner, Monitor!refreshVars,
                     Monitor!mapVars, dirty, job, upsets>>
  BY DEF Monitor!Deliver, Configuration
<1>2. heard' \in [Session -> 0..top] /\ heard'[s] \in Monitor!Posted
  BY DEF Monitor!Deliver, MonitorInv, LiveInv, Bounds, SourceInv, Monitor!Posted
<1>3. queue' \in [Session -> SUBSET Monitor!Posted] /\ \A r \in Session \ {s} : queue'[r] = queue[r]
  BY <1>2 DEF Monitor!Deliver, Monitor!Accepted, MonitorInv, LiveInv
<1>4. LiveInv'
  BY <1>1, <1>2, <1>3, LiveStep DEF LiveKept, MonitorInv, LiveInv, Monitor!mapVars
<1>5. InboxInv' /\ Inbox \subseteq Inbox' /\ Answered
  BY <1>1, InboxRests DEF MonitorInv, Configuration, Monitor!channelVars
<1>6. SourceInv' /\ lastPost' >= lastPost
  BY <1>1, SourceStep DEF SourceMoves, MonitorInv
<1>7. RefreshInv' /\ JobInv'
  BY <1>1, <1>5, RefreshRests, JobRests DEF MonitorInv
<1>8. CleanInv'
  <2>1. place[s]["first"] # "OFF"
    BY DEF Monitor!Deliver, Monitor!Running
  <2> QED
    BY <1>1, <1>3, <2>1, CleanStep DEF MonitorInv, OthersKept, Monitor!refreshVars, Monitor!mapVars
<1> QED
  BY <1>1, <1>4, <1>5, <1>6, <1>7, <1>8 DEF Kept, MonitorInv, RestInv, Bounds

\* The post a session takes next.
LEMMA NextLive ==
    ASSUME MonitorInv, NEW s \in Session, queue[s] # {}
    PROVE  /\ Monitor!Min(queue[s]) \in queue[s] /\ Monitor!Min(queue[s]) \in Monitor!Posted
           /\ Monitor!Min(queue[s]) \in Monitor!Post
           /\ Monitor!Matching(Monitor!Min(queue[s]), rules[s])
                  \in SUBSET Monitor!Wanted(s, Monitor!Min(queue[s]))
           /\ Monitor!Running(s) /\ place[s]["first"] # "OFF"
<1>1. queue[s] \in SUBSET Monitor!Posted /\ Monitor!Posted \subseteq Monitor!Post
      /\ Monitor!Post \subseteq Nat
  BY DEF MonitorInv, LiveInv, Bounds, SourceInv, Monitor!Posted, Monitor!Post
<1>2. Monitor!Min(queue[s]) \in queue[s]
  BY <1>1, MinIsMember
<1>3. rules[s] \in Rule(s)
  BY DEF MonitorInv, LiveInv, RulesInUse
<1>4. Monitor!Matching(Monitor!Min(queue[s]), rules[s])
          \subseteq Monitor!Wanted(s, Monitor!Min(queue[s]))
  BY <1>1, <1>2, <1>3, MatchingIsWanted DEF MonitorInv
<1>5. Monitor!Running(s) /\ place[s]["first"] # "OFF"
  BY BusyRuns DEF MonitorInv
<1> QED
  BY <1>1, <1>2, <1>4, <1>5

\* A live post is taken.
LEMMA TakeLiveKeeps ==
    ASSUME MonitorInv, NEW s \in Session, Monitor!TakeLive(s)
    PROVE  Kept
<1> DEFINE p == Monitor!Min(queue[s])
           D == Monitor!Matching(p, rules[s])
<1>1. UNCHANGED Configuration
      /\ UNCHANGED <<candidates, owner, Monitor!refreshVars, Monitor!mapVars, dirty, heard, upsets>>
  BY DEF Monitor!TakeLive, Configuration
<1>2. queue' = [queue EXCEPT ![s] = @ \ {p}]
      /\ IF watched[s] THEN Monitor!Ingest(s, "drain", p, D)
         ELSE UNCHANGED <<ev, Monitor!sourceVars, job>>
  BY DEF Monitor!TakeLive
<1>3. p \in Monitor!Posted /\ D \in SUBSET Monitor!Wanted(s, p) /\ Monitor!Running(s)
      /\ place[s]["first"] # "OFF"
  BY NextLive DEF Monitor!TakeLive
<1> HIDE DEF p, D
<1>4. LiveInv' /\ \A r \in Session \ {s} : queue'[r] = queue[r]
  <2>1. queue' \in [Session -> SUBSET Monitor!Posted]
        /\ \A r \in Session \ {s} : queue'[r] = queue[r]
    BY <1>2 DEF MonitorInv, LiveInv
  <2> QED
    BY <1>1, <2>1, LiveStep DEF LiveKept, MonitorInv, LiveInv, Monitor!mapVars
<1>5. /\ SourceInv' /\ InboxInv' /\ JobInv' /\ Inbox \subseteq Inbox' /\ Answered
      /\ lastPost' >= lastPost /\ \A r \in Session \ {s} : job'[r] = job[r]
  <2>1. CASE watched[s]
    <3>1. "drain" \in Monitor!Task /\ Monitor!Ingest(s, "drain", p, D)
      BY <1>2, <2>1 DEF Monitor!Task
    <3> QED
      BY <1>1, <1>3, <3>1, IngestKeeps
  <2>2. CASE ~watched[s]
    <3>1. UNCHANGED <<ev, Monitor!sourceVars, job>>
      BY <1>2, <2>2
    <3>2. InboxInv' /\ Inbox \subseteq Inbox' /\ Answered
      BY <1>1, <3>1, InboxRests DEF MonitorInv, Configuration, Monitor!channelVars
    <3> QED
      BY <1>1, <3>1, <3>2, SourceStep, JobRests DEF SourceMoves, MonitorInv
  <2> QED
    BY <2>1, <2>2
<1>6. RefreshInv'
  BY <1>1, <1>5, RefreshRests DEF MonitorInv
<1>7. CleanInv'
  BY <1>1, <1>3, <1>4, <1>5, CleanStep DEF MonitorInv, OthersKept, Monitor!refreshVars,
     Monitor!mapVars
<1> QED
  BY <1>1, <1>4, <1>5, <1>6, <1>7 DEF Kept, MonitorInv, RestInv, Bounds

\* A live post goes back to the queue, its event possibly there.
LEMMA LiveFailsKeeps ==
    ASSUME MonitorInv, NEW s \in Session, Monitor!LiveFails(s)
    PROVE  Kept
<1> DEFINE p == Monitor!Min(queue[s])
           D == Monitor!Matching(p, rules[s])
<1>1. UNCHANGED Configuration
      /\ UNCHANGED <<Monitor!sourceVars, candidates, owner, Monitor!refreshVars, Monitor!mapVars,
                     dirty, Monitor!liveVars, job>>
  BY DEF Monitor!LiveFails, Configuration, Monitor!sessionVars
<1>2. D # {} /\ Monitor!Enqueue(p) /\ upsets' \in 0..MaxUpsets
  BY UpsetIsBounded DEF Monitor!LiveFails
<1>3. p \in Monitor!Post /\ D \in SUBSET Monitor!Wanted(s, p) /\ Monitor!Running(s)
      /\ place[s]["first"] # "OFF"
  BY NextLive DEF Monitor!LiveFails
<1> HIDE DEF p, D
<1>4. InboxMoves
  <2>1. Answered
    BY <1>1, <1>2, <1>3 DEF Answered, Monitor!Enqueue, MonitorInv, InboxInv
  <2> QED
    BY <1>1, <1>2, <1>3, <2>1 DEF InboxMoves, Monitor!Enqueue, MonitorInv, InboxInv
<1>5. InboxInv' /\ Inbox \subseteq Inbox' /\ Answered
  BY <1>1, <1>4, InboxStep DEF MonitorInv
<1>6. SourceInv' /\ lastPost' >= lastPost
  BY <1>1, SourceStep DEF SourceMoves, MonitorInv
<1>7. RefreshInv' /\ JobInv' /\ LiveInv'
  BY <1>1, <1>5, RefreshRests, JobRests, LiveRests DEF MonitorInv
<1>8. CleanInv'
  BY <1>1, <1>3, CleanStep DEF MonitorInv, OthersKept, Monitor!refreshVars, Monitor!mapVars,
     Monitor!liveVars
<1> QED
  BY <1>1, <1>2, <1>5, <1>6, <1>7, <1>8 DEF Kept, MonitorInv, RestInv, Bounds

-----------------------------------------------------------------------------
(* The steps of refreshes. *)

Place == {"REFRESH", "PREPARE", "HISTORY", "BACKFILL", "INGEST", "RECOVER"}

\* What a session may have found, where the others found what they did.
FoundBy(s) == {f \in Findings : \A r \in Session \ {s} : f[r] = found[r]}

\* Its refreshes are where they may be.
RefreshMoved(s) ==
    /\ RefreshInv' /\ place'[s]["first"] # "OFF"
    /\ \A r \in Session \ {s} : place'[r] = place[r] /\ found'[r] = found[r]

\* A refresh at work that goes to another place, or stays, with something read or not.
LEMMA RefreshGoes ==
    ASSUME MonitorInv, UNCHANGED Configuration, Inbox \subseteq Inbox',
           NEW s \in Session, NEW t \in Monitor!Refresher, place[s][t] # "OFF",
           NEW l \in Place, place' = [place EXCEPT ![s][t] = l],
           NEW P \in SUBSET (Monitor!Post \X SUBSET Division), plan' = [plan EXCEPT ![s][t] = P],
           PlanFits(s, l, P), found' \in FoundBy(s)
    PROVE  RefreshMoved(s)
<1>1. place \in Places /\ plan \in Plans
  BY DEF MonitorInv, RefreshInv
<1>2. place' \in Places /\ place'[s][t] = l
  BY <1>1 DEF Places, Place
<1>3. plan' \in Plans /\ plan'[s][t] = P
  BY <1>1 DEF Plans
<1>4. OthersRead(s, t)
  BY <1>1 DEF OthersRead, Places, Plans
<1>5. RefreshInv'
  BY <1>2, <1>3, <1>4, RefreshStep DEF MonitorInv, FoundBy
<1>6. place'[s]["first"] # "OFF"
  <2>1. place[s]["first"] # "OFF"
    BY DEF MonitorInv, RefreshInv
  <2> QED
    BY <1>1, <2>1 DEF Places, Place
<1>7. \A r \in Session \ {s} : place'[r] = place[r]
  BY <1>1 DEF Places
<1> QED
  BY <1>5, <1>6, <1>7 DEF RefreshMoved, FoundBy

\* What one refresh has read.
LEMMA PlanIsTyped ==
    ASSUME MonitorInv, NEW s \in Session, NEW t \in Monitor!Refresher
    PROVE  /\ plan[s][t] \in SUBSET (Monitor!Post \X SUBSET Division)
           /\ plan = [plan EXCEPT ![s][t] = plan[s][t]]
           /\ place = [place EXCEPT ![s][t] = place[s][t]]
           /\ found \in FoundBy(s)
           /\ found[s][t].mark \in 0..top /\ found[s][t].rules \in Rule(s)
           /\ place[s][t] \notin {"INGEST", "RECOVER"} => plan[s][t] = {}
           /\ place[s][t] = "INGEST" => plan[s][t] \subseteq Planned(s)
           /\ place[s][t] = "RECOVER" => plan[s][t] \subseteq Inbox \X SUBSET Division
BY DEF MonitorInv, RefreshInv, Places, Plans, Findings, FoundBy

\* A refresh notes the checkpoint and rules.
LEMMA FindingIsSound ==
    ASSUME MonitorInv, NEW s \in Session, NEW t \in Monitor!Refresher, NEW m \in 0..top,
           NEW R \in Rule(s)
    PROVE  [found EXCEPT ![s][t] = [mark |-> m, rules |-> R]] \in FoundBy(s)
<1> DEFINE f == [found EXCEPT ![s][t] = [mark |-> m, rules |-> R]]
<1>1. found \in [Session -> [Monitor!Refresher -> [mark : 0..top, rules : [Division -> 0..MaxPost]]]]
      /\ \A r \in Session, u \in Monitor!Refresher : found[r][u].rules \in Rule(r)
  BY DEF MonitorInv, RefreshInv, Findings
<1>2. R \in [Division -> 0..MaxPost]
  BY DEF Rule
<1>3. f \in [Session -> [Monitor!Refresher -> [mark : 0..top, rules : [Division -> 0..MaxPost]]]]
  BY <1>1, <1>2
<1>4. \A r \in Session, u \in Monitor!Refresher : f[r][u].rules \in Rule(r)
  BY <1>1
<1>5. \A r \in Session \ {s} : f[r] = found[r]
  BY <1>1
<1> HIDE DEF f
<1> QED
  BY <1>3, <1>4, <1>5 DEF Findings, FoundBy, f

\* It forgets what it has found.
LEMMA NothingIsFound ==
    ASSUME MonitorInv, NEW s \in Session, NEW t \in Monitor!Refresher
    PROVE  [found EXCEPT ![s][t] = Monitor!Nothing] \in FoundBy(s)
<1>1. Monitor!NoRules \in Rule(s) /\ 0 \in 0..top
  BY RulesAreSound DEF MonitorInv, SourceInv, Bounds
<1> QED
  BY <1>1, FindingIsSound DEF Monitor!Nothing

\* A step of a refresh that leaves the rest of its session as it is, or the other sessions.
LEMMA RefreshIsClean ==
    ASSUME MonitorInv, NEW s \in Session, RefreshMoved(s),
           \A r \in Session \ {s} : rules'[r] = rules[r] /\ queue'[r] = queue[r] /\ job'[r] = job[r]
    PROVE  CleanInv'
BY CleanStep DEF MonitorInv, RefreshMoved, OthersKept

\* refreshSources.
LEMMA RefreshKeeps ==
    ASSUME MonitorInv, NEW s \in Session, NEW t \in Monitor!Refresher, Monitor!Refresh(s, t)
    PROVE  Kept
<1>1. UNCHANGED Configuration
      /\ UNCHANGED <<Monitor!sourceVars, ev, candidates, owner, plan, Monitor!liveVars, job, upsets>>
  BY DEF Monitor!Refresh, Configuration
<1>2. plan[s][t] = {} /\ place[s][t] # "OFF"
  BY PlanIsTyped DEF Monitor!Refresh, Monitor!RefreshAsked, Monitor!At, Monitor!AtEnd
<1>3. InboxInv' /\ Inbox \subseteq Inbox' /\ Answered
  BY <1>1, InboxRests DEF MonitorInv, Configuration, Monitor!channelVars
<1>4. RefreshMoved(s)
  <2>1. PICK l \in Place : l # "RECOVER" /\ place' = [place EXCEPT ![s][t] = l]
    BY DEF Monitor!Refresh, Monitor!Goto, Place
  <2>2. found' \in FoundBy(s)
    <3>1. lastPost \in 0..top /\ Monitor!LoadedRules \in Rule(s)
      BY RulesAreSound DEF MonitorInv, SourceInv
    <3>2. CASE found' = found
      BY <3>2, PlanIsTyped
    <3>3. CASE found' = [found EXCEPT ![s][t] = [mark |-> lastPost, rules |-> Monitor!LoadedRules]]
      BY <3>1, <3>3, FindingIsSound
    <3> QED
      BY <3>2, <3>3 DEF Monitor!Refresh
  <2>3. plan' = [plan EXCEPT ![s][t] = {}]
    BY <1>1, <1>2, PlanIsTyped
  <2>4. PlanFits(s, l, {})
    BY <2>1 DEF PlanFits, Place
  <2> QED
    BY <1>1, <1>2, <1>3, <2>1, <2>2, <2>3, <2>4, RefreshGoes
<1>5. LiveInv' /\ \A r \in Session \ {s} : rules'[r] = rules[r]
  <2>1. Monitor!LoadedRules \in Rule(s) /\ Monitor!NoRules \in Rule(s)
    BY RulesAreSound DEF MonitorInv
  <2>2. dirty' \in [Session -> BOOLEAN]
    BY DEF Monitor!Refresh, Monitor!RefreshAsked, MonitorInv, LiveInv
  <2>3. watched' \in [Session -> BOOLEAN]
    BY DEF Monitor!Refresh, MonitorInv, LiveInv, Monitor!Listed
  <2>4. PICK R \in Rule(s) : rules' = [rules EXCEPT ![s] = R]
    BY <2>1 DEF Monitor!Refresh
  <2>5. rules' \in RulesInUse /\ \A r \in Session \ {s} : rules'[r] = rules[r]
    BY <2>4 DEF MonitorInv, LiveInv, RulesInUse, Rule
  <2> QED
    BY <1>1, <2>2, <2>3, <2>5, LiveStep DEF LiveKept, MonitorInv, LiveInv, Monitor!liveVars
<1>6. SourceInv' /\ lastPost' >= lastPost
  BY <1>1, SourceStep DEF SourceMoves, MonitorInv
<1>7. JobInv'
  BY <1>1, <1>3, JobRests DEF MonitorInv
<1>8. CleanInv'
  BY <1>1, <1>4, <1>5, RefreshIsClean DEF Monitor!liveVars
<1> QED
  BY <1>1, <1>3, <1>4, <1>5, <1>6, <1>7, <1>8 DEF Kept, MonitorInv, RestInv, Bounds, RefreshMoved

\* The source is joined.
LEMMA PrepareKeeps ==
    ASSUME MonitorInv, NEW s \in Session, NEW t \in Monitor!Refresher, Monitor!Prepare(s, t)
    PROVE  Kept
<1>1. UNCHANGED Configuration
      /\ UNCHANGED <<Monitor!sourceVars, ev, candidates, owner, plan, dirty, Monitor!liveVars, job,
                     upsets>>
  BY DEF Monitor!Prepare, Configuration
<1>2. plan[s][t] = {} /\ place[s][t] # "OFF"
  BY PlanIsTyped DEF Monitor!Prepare, Monitor!At
<1>3. InboxInv' /\ Inbox \subseteq Inbox' /\ Answered
  BY <1>1, InboxRests DEF MonitorInv, Configuration, Monitor!channelVars
<1>4. RefreshMoved(s)
  <2>1. PICK l \in Place : l # "RECOVER" /\ place' = [place EXCEPT ![s][t] = l]
    BY DEF Monitor!Prepare, Monitor!Goto, Place
  <2>2. found' \in FoundBy(s)
    <3>1. Monitor!Latest \in 0..top /\ found[s][t].rules \in Rule(s)
      BY PlanIsTyped DEF MonitorInv, SourceInv, Bounds, Monitor!Latest
    <3>2. CASE found' = found
      BY <3>2, PlanIsTyped
    <3>3. CASE found' = [found EXCEPT ![s][t] =
                            [mark |-> Monitor!Latest, rules |-> found[s][t].rules]]
      BY <3>1, <3>3, FindingIsSound
    <3> QED
      BY <3>2, <3>3 DEF Monitor!Prepare
  <2>3. plan' = [plan EXCEPT ![s][t] = {}]
    BY <1>1, <1>2, PlanIsTyped
  <2>4. PlanFits(s, l, {})
    BY <2>1 DEF PlanFits, Place
  <2> QED
    BY <1>1, <1>2, <1>3, <2>1, <2>2, <2>3, <2>4, RefreshGoes
<1>5. LiveInv' /\ \A r \in Session \ {s} : rules'[r] = rules[r]
  <2>1. PICK R \in Rule(s) : rules' = [rules EXCEPT ![s] = R]
    BY PlanIsTyped DEF Monitor!Prepare
  <2>2. rules' \in RulesInUse /\ \A r \in Session \ {s} : rules'[r] = rules[r]
    BY <2>1 DEF MonitorInv, LiveInv, RulesInUse, Rule
  <2> QED
    BY <1>1, <2>2, LiveStep DEF LiveKept, MonitorInv, LiveInv, Monitor!liveVars, Monitor!Prepare
<1>6. SourceInv' /\ lastPost' >= lastPost
  BY <1>1, SourceStep DEF SourceMoves, MonitorInv
<1>7. JobInv'
  BY <1>1, <1>3, JobRests DEF MonitorInv
<1>8. CleanInv'
  BY <1>1, <1>4, <1>5, RefreshIsClean DEF Monitor!liveVars
<1> QED
  BY <1>1, <1>3, <1>4, <1>5, <1>6, <1>7, <1>8 DEF Kept, MonitorInv, RestInv, Bounds, RefreshMoved

\* What is read of posts there are, by rules that are sound, is wanted.
LEMMA ReadIsPlanned ==
    ASSUME MonitorInv, NEW s \in Session, NEW R \in Rule(s), NEW W \in SUBSET Monitor!Posted
    PROVE  /\ {<<p, Monitor!Matching(p, R)>> : p \in W} \in SUBSET (Monitor!Post \X SUBSET Division)
           /\ {<<p, Monitor!Matching(p, R)>> : p \in W} \subseteq Planned(s)
<1>1. Monitor!Posted \subseteq Monitor!Post
  BY DEF MonitorInv, Bounds, SourceInv, Monitor!Posted, Monitor!Post
<1>2. ASSUME NEW p \in W
      PROVE  /\ Monitor!Matching(p, R) \in SUBSET Division
             /\ Monitor!Matching(p, R) \subseteq Monitor!Wanted(s, p)
  BY <1>1, MatchingIsWanted, WantedIsPosted DEF MonitorInv
<1> QED
  BY <1>1, <1>2 DEF Planned

\* A refresh has read the source: it goes on to take in what it has read.
LEMMA ListingKeeps ==
    ASSUME MonitorInv, NEW s \in Session, NEW t \in Monitor!Refresher, place[s][t] # "OFF",
           NEW W \in SUBSET Monitor!Posted, Monitor!PlanOf(s, t, W), SourceMoves,
           found' = [found EXCEPT ![s][t] = Monitor!Nothing], Monitor!Goto(s, t, "INGEST"),
           UNCHANGED Configuration,
           UNCHANGED <<ev, candidates, owner, Monitor!mapVars, dirty, Monitor!liveVars, job, upsets>>
    PROVE  Kept
<1> DEFINE P == {<<p, Monitor!Matching(p, found[s][t].rules)>> : p \in W}
<1>1. P \in SUBSET (Monitor!Post \X SUBSET Division) /\ P \subseteq Planned(s)
  BY PlanIsTyped, ReadIsPlanned
<1>2. InboxInv' /\ Inbox \subseteq Inbox' /\ Answered
  BY InboxRests DEF MonitorInv, Configuration, Monitor!channelVars
<1>3. RefreshMoved(s)
  <2>1. PlanFits(s, "INGEST", P) /\ "INGEST" \in Place
    BY <1>1 DEF PlanFits, Place
  <2>2. found' \in FoundBy(s)
    BY NothingIsFound
  <2>3. place' = [place EXCEPT ![s][t] = "INGEST"] /\ plan' = [plan EXCEPT ![s][t] = P]
    BY DEF Monitor!Goto, Monitor!PlanOf
  <2> HIDE DEF P
  <2> QED
    BY <1>1, <1>2, <2>1, <2>2, <2>3, RefreshGoes
<1>4. SourceInv' /\ lastPost' >= lastPost
  BY SourceStep DEF MonitorInv
<1>5. LiveInv' /\ JobInv'
  BY <1>2, LiveRests, JobRests DEF MonitorInv
<1>6. CleanInv'
  BY <1>3, RefreshIsClean DEF Monitor!liveVars, Monitor!mapVars
<1> QED
  BY <1>2, <1>3, <1>4, <1>5, <1>6 DEF Kept, MonitorInv, RestInv, Bounds, RefreshMoved

\* Recent posts are read.
LEMMA ListHistoryKeeps ==
    ASSUME MonitorInv, NEW s \in Session, NEW t \in Monitor!Refresher, Monitor!ListHistory(s, t)
    PROVE  Kept
<1> DEFINE W == {p \in Monitor!Posted : \E d \in Division : p > found[s][t].rules[d]}
<1>1. W \in SUBSET Monitor!Posted /\ Monitor!PlanOf(s, t, W) /\ place[s][t] # "OFF"
  BY DEF Monitor!ListHistory, Monitor!At
<1>2. SourceMoves
  <2>1. found[s][t].mark \in 0..top
    BY PlanIsTyped
  <2> QED
    BY <2>1 DEF Monitor!ListHistory, SourceMoves
<1> HIDE DEF W
<1> QED
  BY <1>1, <1>2, ListingKeeps DEF Monitor!ListHistory, Configuration

\* Posts after the checkpoint are read.
LEMMA ListBackfillKeeps ==
    ASSUME MonitorInv, NEW s \in Session, NEW t \in Monitor!Refresher, Monitor!ListBackfill(s, t)
    PROVE  Kept
<1> DEFINE W == {p \in Monitor!Posted : p > found[s][t].mark}
<1>1. W \in SUBSET Monitor!Posted /\ Monitor!PlanOf(s, t, W) /\ place[s][t] # "OFF"
  BY DEF Monitor!ListBackfill, Monitor!At
<1> HIDE DEF W
<1> QED
  BY <1>1, ListingKeeps DEF Monitor!ListBackfill, Configuration, SourceMoves

\* The post a refresh takes next.
LEMMA NextPlanned ==
    ASSUME MonitorInv, NEW s \in Session, NEW t \in Monitor!Refresher, plan[s][t] # {},
           place[s][t] # "RECOVER"
    PROVE  /\ place[s][t] = "INGEST" /\ Monitor!First(plan[s][t]) \in plan[s][t]
           /\ Monitor!First(plan[s][t])[1] \in Monitor!Posted
           /\ Monitor!First(plan[s][t])[1] \in Monitor!Post
           /\ Monitor!First(plan[s][t])[2]
                  \in SUBSET Monitor!Wanted(s, Monitor!First(plan[s][t])[1])
<1>1. Monitor!First(plan[s][t]) \in plan[s][t]
  BY PlanIsTyped, FirstIsMember DEF MonitorInv
<1>2. place[s][t] = "INGEST" /\ plan[s][t] \subseteq Planned(s)
  BY PlanIsTyped
<1>3. Monitor!Posted \subseteq Monitor!Post
  BY DEF MonitorInv, Bounds, SourceInv, Monitor!Posted, Monitor!Post
<1> QED
  BY <1>1, <1>2, <1>3 DEF Planned

\* A post that was read is taken in.
LEMMA TakePlannedKeeps ==
    ASSUME MonitorInv, NEW s \in Session, NEW t \in Monitor!Refresher, Monitor!TakePlanned(s, t)
    PROVE  Kept
<1> DEFINE x == Monitor!First(plan[s][t])
<1>1. UNCHANGED Configuration
      /\ UNCHANGED <<candidates, owner, place, found, Monitor!mapVars, dirty, Monitor!liveVars,
                     upsets>>
  BY DEF Monitor!TakePlanned, Configuration
<1>2. place[s][t] = "INGEST" /\ plan[s][t] # {}
  BY DEF Monitor!TakePlanned, Monitor!At
<1>3. plan' = [plan EXCEPT ![s][t] = plan[s][t] \ {x}] /\ Monitor!Ingest(s, t, x[1], x[2])
  BY DEF Monitor!TakePlanned
<1>4. x[1] \in Monitor!Posted /\ x[2] \in SUBSET Monitor!Wanted(s, x[1]) /\ Monitor!Running(s)
  BY <1>2, NextPlanned, BusyRuns DEF MonitorInv
<1>5. /\ SourceInv' /\ InboxInv' /\ JobInv' /\ Inbox \subseteq Inbox' /\ Answered
      /\ lastPost' >= lastPost /\ \A r \in Session \ {s} : job'[r] = job[r]
  <2>1. t \in Monitor!Task
    BY DEF Monitor!Task
  <2> HIDE DEF x
  <2> QED
    BY <1>1, <1>3, <1>4, <2>1, IngestKeeps
<1>6. RefreshMoved(s)
  <2> DEFINE P == plan[s][t] \ {x}
  <2>1. P \in SUBSET (Monitor!Post \X SUBSET Division) /\ P \subseteq Planned(s)
    BY <1>2, PlanIsTyped
  <2>2. PlanFits(s, "INGEST", P) /\ "INGEST" \in Place
    BY <2>1 DEF PlanFits, Place
  <2>3. found' \in FoundBy(s)
    BY <1>1, PlanIsTyped
  <2>4. place' = [place EXCEPT ![s][t] = "INGEST"]
    BY <1>1, <1>2, PlanIsTyped
  <2>5. plan' = [plan EXCEPT ![s][t] = P] /\ place[s][t] # "OFF"
    BY <1>2, <1>3
  <2> HIDE DEF P
  <2> QED
    BY <1>1, <1>5, <2>1, <2>2, <2>3, <2>4, <2>5, RefreshGoes
<1>7. LiveInv'
  BY <1>1, LiveRests DEF MonitorInv
<1>8. CleanInv'
  BY <1>1, <1>5, <1>6, RefreshIsClean DEF Monitor!liveVars, Monitor!mapVars
<1> QED
  BY <1>1, <1>5, <1>6, <1>7, <1>8 DEF Kept, MonitorInv, RestInv, Bounds, RefreshMoved

\* A refresh gives up what it has read and found.
LEMMA GivingUpKeeps ==
    ASSUME MonitorInv, NEW s \in Session, NEW t \in Monitor!Refresher, place[s][t] # "OFF",
           NEW l \in {"INGEST", "RECOVER"}, Monitor!Goto(s, t, l),
           plan' = [plan EXCEPT ![s][t] = {}], found' = [found EXCEPT ![s][t] = Monitor!Nothing],
           Monitor!Dirty(s) \/ UNCHANGED dirty, Monitor!Upset, InboxMoves,
           UNCHANGED Configuration,
           UNCHANGED <<Monitor!sourceVars, candidates, owner, Monitor!mapVars, Monitor!liveVars, job>>
    PROVE  Kept
<1>1. InboxInv' /\ Inbox \subseteq Inbox' /\ Answered
  BY InboxStep DEF MonitorInv
<1>2. RefreshMoved(s)
  <2>1. PlanFits(s, l, {}) /\ l \in Place
    BY DEF PlanFits, Place
  <2>2. found' \in FoundBy(s)
    BY NothingIsFound
  <2> QED
    BY <1>1, <2>1, <2>2, RefreshGoes DEF Monitor!Goto
<1>3. SourceInv' /\ lastPost' >= lastPost
  BY SourceStep DEF SourceMoves, MonitorInv
<1>4. LiveInv'
  BY LiveStep DEF LiveKept, MonitorInv, LiveInv, Monitor!Dirty, Monitor!mapVars, Monitor!liveVars
<1>5. JobInv'
  BY <1>1, JobRests DEF MonitorInv
<1>6. RestInv'
  BY UpsetIsBounded DEF MonitorInv, RestInv
<1>7. CleanInv'
  BY <1>2, RefreshIsClean DEF Monitor!liveVars, Monitor!mapVars
<1> QED
  BY <1>1, <1>2, <1>3, <1>4, <1>5, <1>6, <1>7 DEF Kept, MonitorInv, Bounds, RefreshMoved

\* The preparation of a source fails.
LEMMA PreparationFailsKeeps ==
    ASSUME MonitorInv, NEW s \in Session, NEW t \in Monitor!Refresher, Monitor!PreparationFails(s, t)
    PROVE  Kept
<1>1. place[s][t] \notin {"OFF", "RECOVER"}
  BY DEF Monitor!PreparationFails, Monitor!At
<1>2. InboxMoves
  <2>1. CASE UNCHANGED ev
    BY <2>1 DEF Monitor!PreparationFails, InboxMoves, Answered, MonitorInv, InboxInv
  <2>2. CASE /\ plan[s][t] # {} /\ Monitor!First(plan[s][t])[2] # {}
             /\ Monitor!Enqueue(Monitor!First(plan[s][t])[1])
    <3> DEFINE p == Monitor!First(plan[s][t])[1]
    <3>1. p \in Monitor!Post /\ Monitor!Wanted(s, p) # {} /\ Monitor!Running(s)
      BY <1>1, <2>2, NextPlanned, BusyRuns DEF MonitorInv
    <3>2. candidates' = candidates /\ ev' = [ev EXCEPT ![p] = "PENDING"]
      BY <2>2 DEF Monitor!PreparationFails, Monitor!Enqueue
    <3> HIDE DEF p
    <3>3. Answered
      BY <3>1, <3>2 DEF Answered, MonitorInv, InboxInv
    <3> QED
      BY <3>1, <3>2, <3>3 DEF InboxMoves, MonitorInv, InboxInv
  <2> QED
    BY <2>1, <2>2 DEF Monitor!PreparationFails
<1> QED
  BY <1>1, <1>2, GivingUpKeeps DEF Monitor!PreparationFails, Configuration

\* A later refresh fails.
LEMMA RefreshFailsKeeps ==
    ASSUME MonitorInv, NEW s \in Session, Monitor!RefreshFails(s)
    PROVE  Kept
<1>1. place[s]["later"] # "OFF" /\ "later" \in Monitor!Refresher
  BY DEF Monitor!RefreshFails, Monitor!At, Monitor!AtEnd, Monitor!Refresher
<1>2. InboxMoves
  BY DEF Monitor!RefreshFails, InboxMoves, Answered, MonitorInv, InboxInv
<1> QED
  BY <1>1, <1>2, GivingUpKeeps DEF Monitor!RefreshFails, Configuration

\* An event whose source is gone cannot be completed.
LEMMA AbandonFailsKeeps ==
    ASSUME MonitorInv, NEW s \in Session, NEW k \in Monitor!Task, Monitor!AbandonFails(s, k)
    PROVE  Kept
<1> DEFINE p == job[s][k].post
<1>1. /\ UNCHANGED Configuration
      /\ UNCHANGED <<candidates, owner, place, found, Monitor!mapVars, heard>>
      /\ job' = [job EXCEPT ![s][k] = Monitor!Idle] /\ job[s][k] # Monitor!Idle
      /\ upsets' \in 0..MaxUpsets
  BY UpsetIsBounded DEF Monitor!AbandonFails, Monitor!SourceGone, Configuration
<1>2. p \in Inbox /\ Monitor!Running(s) /\ place[s]["first"] # "OFF"
  BY <1>1, JobIsOfInbox
<1> HIDE DEF p
<1>3. SourceInv' /\ InboxInv' /\ Inbox \subseteq Inbox' /\ Answered /\ lastPost' >= lastPost
  <2>1. CASE Monitor!Complete(p)
    BY <1>1, <1>2, <2>1, DoneKeeps DEF Monitor!Complete
  <2>2. CASE UNCHANGED <<ev, Monitor!sourceVars>>
    BY <1>1, <2>2, InboxRests, SourceStep
       DEF SourceMoves, MonitorInv, Configuration, Monitor!channelVars
  <2> QED
    BY <2>1, <2>2 DEF Monitor!AbandonFails, p
<1>4. JobInv' /\ \A r \in Session \ {s} : job'[r] = job[r]
  BY <1>1, <1>3, IdleIsJob, JobMoves DEF MonitorInv, JobInv, Jobs
<1>5. CASE k = "drain"
  <2>1. queue' = [queue EXCEPT ![s] = @ \cup {p}] /\ UNCHANGED <<plan, dirty>>
    BY <1>5 DEF Monitor!AbandonFails, p
  <2>2. queue' \in [Session -> SUBSET Monitor!Posted]
        /\ \A r \in Session \ {s} : queue'[r] = queue[r]
    BY <1>2, <2>1, InboxIsPosted DEF MonitorInv, LiveInv
  <2>3. LiveInv'
    BY <1>1, <2>1, <2>2, LiveStep DEF LiveKept, MonitorInv, LiveInv, Monitor!mapVars
  <2>4. RefreshInv'
    BY <1>1, <1>3, <2>1, RefreshRests DEF MonitorInv, Monitor!refreshVars
  <2>5. CleanInv'
    BY <1>1, <1>2, <1>4, <2>2, CleanStep DEF MonitorInv, OthersKept, Monitor!mapVars
  <2> QED
    BY <1>1, <1>3, <1>4, <2>3, <2>4, <2>5 DEF Kept, MonitorInv, RestInv, Bounds
<1>6. CASE k # "drain"
  <2>1. k \in Monitor!Refresher
    BY <1>6 DEF Monitor!Task, Monitor!Refresher
  <2>2. plan' = [plan EXCEPT ![s][k] = {}] /\ Monitor!Dirty(s) /\ UNCHANGED queue
    BY <1>6 DEF Monitor!AbandonFails
  <2>3. LiveInv'
    BY <1>1, <2>2, LiveStep
       DEF LiveKept, MonitorInv, LiveInv, Monitor!mapVars, Monitor!Dirty
  <2>4. RefreshInv'
    <3>1. Findings' = Findings /\ \A r \in Session : Planned(r)' = Planned(r)
      BY <1>1, Frame
    <3>2. plan' \in Plans
          /\ \A r \in Session, u \in Monitor!Refresher : plan'[r][u] \in {plan[r][u], {}}
      BY <2>1, <2>2 DEF MonitorInv, RefreshInv, Plans
    <3>3. ASSUME NEW r \in Session, NEW u \in Monitor!Refresher
          PROVE  /\ place[r][u] \notin {"INGEST", "RECOVER"} => plan'[r][u] = {}
                 /\ place[r][u] = "INGEST" => plan'[r][u] \subseteq Planned(r)
                 /\ place[r][u] = "RECOVER" => plan'[r][u] \subseteq Inbox' \X SUBSET Division
      <4>1. plan'[r][u] \subseteq plan[r][u]
        BY <3>2
      <4> QED
        BY <1>3, <4>1, PlanIsTyped
    <3> QED
      BY <1>1, <3>1, <3>2, <3>3 DEF MonitorInv, RefreshInv, Places
  <2>5. CleanInv'
    BY <1>1, <1>2, <1>4, <2>2, CleanStep DEF MonitorInv, OthersKept, Monitor!mapVars
  <2> QED
    BY <1>1, <1>3, <1>4, <2>3, <2>4, <2>5 DEF Kept, MonitorInv, RestInv, Bounds
<1> QED
  BY <1>5, <1>6

\* Pending events are listed.
LEMMA ListPendingKeeps ==
    ASSUME MonitorInv, NEW s \in Session, NEW t \in Monitor!Refresher, Monitor!ListPending(s, t)
    PROVE  Kept
<1> DEFINE P == {<<p, IF ev[p] = "PENDING" THEN Division ELSE {}>> :
                    p \in {q \in Monitor!Post : Monitor!Pending(q)}}
<1>1. UNCHANGED Configuration
      /\ UNCHANGED <<Monitor!sourceVars, ev, candidates, owner, Monitor!mapVars, dirty,
                     Monitor!liveVars, job, upsets>>
  BY DEF Monitor!ListPending, Configuration
<1>2. InboxInv' /\ Inbox \subseteq Inbox' /\ Answered
  BY <1>1, InboxRests DEF MonitorInv, Configuration, Monitor!channelVars
<1>3. P \in SUBSET (Monitor!Post \X SUBSET Division) /\ P \subseteq Inbox \X SUBSET Division
  BY DEF Monitor!Pending, Inbox
<1>4. place[s][t] # "OFF" /\ plan' = [plan EXCEPT ![s][t] = P]
  BY DEF Monitor!ListPending, Monitor!AtEnd, Monitor!At
<1>5. RefreshMoved(s)
  <2> HIDE DEF P
  <2>1. PlanFits(s, "RECOVER", P) /\ "RECOVER" \in Place
    BY <1>2, <1>3 DEF PlanFits, Place
  <2>2. found' \in FoundBy(s)
    BY NothingIsFound DEF Monitor!ListPending
  <2> QED
    BY <1>1, <1>2, <1>3, <1>4, <2>1, <2>2, RefreshGoes DEF Monitor!ListPending, Monitor!Goto
<1>6. SourceInv' /\ lastPost' >= lastPost
  BY <1>1, SourceStep DEF SourceMoves, MonitorInv
<1>7. LiveInv' /\ JobInv'
  BY <1>1, <1>2, LiveRests, JobRests DEF MonitorInv
<1>8. CleanInv'
  BY <1>1, <1>5, RefreshIsClean DEF Monitor!liveVars, Monitor!mapVars
<1> QED
  BY <1>1, <1>2, <1>5, <1>6, <1>7, <1>8 DEF Kept, MonitorInv, RestInv, Bounds, RefreshMoved

\* One of them is taken up, or completed if its source is not known.
LEMMA RecoverKeeps ==
    ASSUME MonitorInv, NEW s \in Session, NEW t \in Monitor!Refresher, Monitor!Recover(s, t)
    PROVE  Kept
<1>1. UNCHANGED Configuration
      /\ UNCHANGED <<candidates, owner, place, found, Monitor!mapVars, dirty, Monitor!liveVars,
                     upsets>>
  BY DEF Monitor!Recover, Configuration
<1>2. place[s][t] = "RECOVER"
  BY DEF Monitor!Recover, Monitor!At
<1>3. PICK x \in plan[s][t] :
          /\ plan' = [plan EXCEPT ![s][t] = @ \ {x}]
          /\ IF watched[s]
               THEN /\ job' = [job EXCEPT ![s][t] =
                          [post |-> x[1], todo |-> x[2] \cap Monitor!Matching(x[1], rules[s]),
                           begun |-> FALSE]]
                    /\ UNCHANGED <<ev, Monitor!sourceVars>>
               ELSE Monitor!Complete(x[1]) /\ UNCHANGED job
  BY DEF Monitor!Recover
<1>4. x[1] \in Inbox /\ x[2] \subseteq Division
  BY <1>2, PlanIsTyped
<1>5. /\ SourceInv' /\ InboxInv' /\ JobInv' /\ Inbox \subseteq Inbox' /\ Answered
      /\ lastPost' >= lastPost /\ \A r \in Session \ {s} : job'[r] = job[r]
  <2>1. CASE watched[s]
    <3> DEFINE D == x[2] \cap Monitor!Matching(x[1], rules[s])
               j == [post |-> x[1], todo |-> D, begun |-> FALSE]
    <3>1. UNCHANGED <<ev, Monitor!sourceVars>> /\ job' = [job EXCEPT ![s][t] = j]
          /\ t \in Monitor!Task
      BY <1>3, <2>1 DEF Monitor!Task
    <3>2. InboxInv' /\ Inbox \subseteq Inbox' /\ Answered
      BY <1>1, <3>1, InboxRests DEF MonitorInv, Configuration, Monitor!channelVars
    <3>3. SourceInv' /\ lastPost' >= lastPost
      BY <1>1, <3>1, SourceStep DEF SourceMoves, MonitorInv
    <3>4. x[1] \in Monitor!Post /\ x[1] \in 0..MaxPost /\ D \subseteq Monitor!Wanted(s, x[1])
      <4>1. rules[s] \in Rule(s) /\ x[1] \in Monitor!Post /\ x[1] \in 0..MaxPost
        BY <1>4, InboxIsPosted DEF MonitorInv, LiveInv, RulesInUse
      <4> QED
        BY <4>1, MatchingIsWanted DEF MonitorInv
    <3>5. j \in AnyJob /\ j \in Job(s)'
      <4>1. Monitor!Wanted(s, x[1])' = Monitor!Wanted(s, x[1]) /\ x[1] \in Inbox'
            /\ D \subseteq Division
        BY <1>1, <1>4, <3>2, <3>4, Frame
      <4> HIDE DEF D
      <4>2. j \in AnyJob
        BY <3>4, <4>1 DEF AnyJob
      <4> QED
        BY <3>4, <4>1, <4>2 DEF Job, AnyJob
    <3> HIDE DEF D, j
    <3>6. JobInv' /\ \A r \in Session \ {s} : job'[r] = job[r]
      BY <1>1, <3>1, <3>2, <3>5, JobMoves DEF MonitorInv, JobInv, Jobs
    <3> QED
      BY <3>2, <3>3, <3>6
  <2>2. CASE ~watched[s]
    <3>1. Monitor!Complete(x[1]) /\ UNCHANGED job
      BY <1>3, <2>2
    <3>2. SourceInv' /\ InboxInv' /\ Inbox \subseteq Inbox' /\ Answered /\ lastPost' >= lastPost
      BY <1>1, <1>4, <3>1, DoneKeeps DEF Monitor!Complete
    <3> QED
      BY <1>1, <3>1, <3>2, JobRests DEF MonitorInv
  <2> QED
    BY <2>1, <2>2
<1>6. RefreshMoved(s)
  <2> DEFINE P == plan[s][t] \ {x}
  <2>1. P \in SUBSET (Monitor!Post \X SUBSET Division) /\ P \subseteq Inbox \X SUBSET Division
    BY <1>2, PlanIsTyped
  <2>2. plan' = [plan EXCEPT ![s][t] = P]
    BY <1>3
  <2> HIDE DEF P
  <2>3. PlanFits(s, "RECOVER", P) /\ "RECOVER" \in Place
    BY <1>5, <2>1 DEF PlanFits, Place
  <2>4. found' \in FoundBy(s)
    BY <1>1, PlanIsTyped
  <2>5. place' = [place EXCEPT ![s][t] = "RECOVER"] /\ place[s][t] # "OFF"
    BY <1>1, <1>2, PlanIsTyped
  <2> QED
    BY <1>1, <1>5, <2>1, <2>2, <2>3, <2>4, <2>5, RefreshGoes
<1>7. LiveInv'
  BY <1>1, LiveRests DEF MonitorInv
<1>8. CleanInv'
  BY <1>1, <1>5, <1>6, RefreshIsClean DEF Monitor!liveVars, Monitor!mapVars
<1> QED
  BY <1>1, <1>5, <1>6, <1>7, <1>8 DEF Kept, MonitorInv, RestInv, Bounds, RefreshMoved

-----------------------------------------------------------------------------
(* The start and the end of sessions. *)

\* A session starts, with nothing of the one before it; from here on it is bound to the
\* activations in force.
LEMMA StartKeeps ==
    ASSUME MonitorInv, NEW s \in Session, Monitor!Start(s)
    PROVE  Kept
<1>1. /\ top' = top /\ hits' = hits /\ conf' = conf /\ since' = since
      /\ bound' = [bound EXCEPT ![s] = since]
      /\ UNCHANGED <<Monitor!sourceVars, ev, candidates, found, plan, Monitor!mapVars, dirty, queue,
                     job, upsets>>
  BY DEF Monitor!Start, Monitor!channelVars
<1>2. /\ rules[s] = Monitor!NoRules /\ queue[s] = {}
      /\ \A t \in Monitor!Refresher :
            found[s][t] = Monitor!Nothing /\ place[s][t] = "OFF" /\ plan[s][t] = {}
      /\ \A k \in Monitor!Task : job[s][k] = Monitor!Idle
  BY PlanIsTyped DEF Monitor!Start, MonitorInv, CleanInv, RefreshInv, Monitor!Running
<1>3. SourceInv' /\ lastPost' >= lastPost
  BY <1>1 DEF MonitorInv, SourceInv, Bounds, Monitor!sourceVars
<1>4. InboxInv' /\ Inbox' = Inbox /\ Answered
  BY <1>1, InboxRests DEF MonitorInv, Inbox
<1>5. Monitor!NoRules \in Rule(s)'
  BY <1>3 DEF MonitorInv, Bounds, SourceInv, Rule, Monitor!NoRules
<1>6. ASSUME NEW r \in Session \ {s}
      PROVE  Rule(r)' = Rule(r) /\ Planned(r)' = Planned(r) /\ Job(r)' = Job(r)
  <2>1. bound'[r] = bound[r]
    BY <1>1 DEF MonitorInv, SourceInv
  <2>2. \A p \in Monitor!Post : Monitor!Wanted(r, p)' = Monitor!Wanted(r, p)
    BY <1>1, <2>1 DEF Monitor!Wanted
  <2>3. Rule(r)' = Rule(r)
    BY <1>1, <2>1 DEF Rule
  <2>4. Monitor!Posted' = Monitor!Posted /\ Monitor!Posted \subseteq Monitor!Post
    BY <1>1 DEF Monitor!Posted, Monitor!Post, MonitorInv, SourceInv, Bounds
  <2>5. Planned(r)' = Planned(r)
    BY <2>2, <2>4 DEF Planned
  <2>6. Inbox \subseteq Monitor!Post
    BY DEF Inbox
  <2>7. Job(r)' = Job(r)
    BY <1>4, <2>2, <2>6 DEF Job, AnyJob
  <2> QED
    BY <2>3, <2>5, <2>7
<1>7. RefreshInv'
  <2>1. place' = [place EXCEPT ![s] = [first |-> "REFRESH", later |-> "RECOVER"]]
    BY DEF Monitor!Start
  <2>2. place' \in Places
    BY <2>1 DEF MonitorInv, RefreshInv, Places, Monitor!Refresher
  <2>3. found' \in Findings'
    <3>1. \A r \in Session, t \in Monitor!Refresher : found[r][t].rules \in Rule(r)'
      BY <1>2, <1>5, <1>6 DEF MonitorInv, RefreshInv, Findings, Monitor!Nothing
    <3> QED
      BY <1>1, <3>1 DEF MonitorInv, RefreshInv, Findings
  <2>4. ASSUME NEW r \in Session, NEW u \in Monitor!Refresher
        PROVE  /\ place'[r][u] \notin {"INGEST", "RECOVER"} => plan[r][u] = {}
               /\ place'[r][u] = "INGEST" => plan[r][u] \subseteq Planned(r)'
               /\ place'[r]["first"] = "OFF" => place'[r][u] = "OFF"
               /\ place'[r][u] = "RECOVER" => plan[r][u] \subseteq Inbox' \X SUBSET Division
    <3>1. CASE r = s
      <4>1. place'[s]["first"] = "REFRESH" /\ plan[s][u] = {}
        BY <1>2, <2>1 DEF MonitorInv, RefreshInv, Places
      <4> QED
        BY <3>1, <4>1
    <3>2. CASE r # s
      <4>1. place'[r] = place[r]
        BY <2>1, <3>2 DEF MonitorInv, RefreshInv, Places
      <4> QED
        BY <1>4, <1>6, <3>2, <4>1 DEF MonitorInv, RefreshInv
    <3> QED
      BY <3>1, <3>2
  <2> QED
    BY <1>1, <2>2, <2>3, <2>4 DEF MonitorInv, RefreshInv, Places, Plans
<1>8. LiveInv'
  <2>1. heard' \in [Session -> 0..top']
    BY <1>1 DEF Monitor!Start, MonitorInv, LiveInv, SourceInv, Bounds
  <2>2. rules' \in RulesInUse'
    BY <1>1, <1>2, <1>5, <1>6 DEF Monitor!mapVars, MonitorInv, LiveInv, RulesInUse
  <2> QED
    BY <1>1, <2>1, <2>2 DEF MonitorInv, LiveInv, Monitor!mapVars, Monitor!Posted
<1>9. JobInv'
  <2>1. \A r \in Session, k \in Monitor!Task : job[r][k] \in Job(r)'
    BY <1>2, <1>6, IdleIsJob DEF MonitorInv, JobInv, Jobs
  <2> QED
    BY <1>1, <2>1 DEF MonitorInv, JobInv, Jobs, AnyJob
<1>10. CleanInv'
  <2>1. place'[s]["first"] # "OFF" /\ \A r \in Session \ {s} : place'[r] = place[r]
    BY DEF Monitor!Start, MonitorInv, RefreshInv, Places
  <2> QED
    BY <1>1, <2>1, CleanStep DEF MonitorInv, OthersKept, Monitor!mapVars
<1> QED
  BY <1>1, <1>3, <1>4, <1>7, <1>8, <1>9, <1>10 DEF Kept, MonitorInv, RestInv, Bounds, Monitor!Start

\* A session ends.
LEMMA EndKeeps ==
    ASSUME MonitorInv, NEW s \in Session, Monitor!End(s)
    PROVE  Kept
<1>1. UNCHANGED Configuration /\ UNCHANGED <<Monitor!sourceVars, ev, candidates>>
  BY DEF Monitor!End, Configuration
<1>2. InboxInv' /\ Inbox \subseteq Inbox' /\ Answered
  BY <1>1, InboxRests DEF MonitorInv, Configuration, Monitor!channelVars
<1>3. /\ place' = [place EXCEPT ![s] = [t \in Monitor!Refresher |-> "OFF"]]
      /\ found' = [found EXCEPT ![s] = [t \in Monitor!Refresher |-> Monitor!Nothing]]
      /\ plan' = [plan EXCEPT ![s] = [t \in Monitor!Refresher |-> {}]]
      /\ rules' = [rules EXCEPT ![s] = Monitor!NoRules] /\ queue' = [queue EXCEPT ![s] = {}]
      /\ job' = [job EXCEPT ![s] = [k \in Monitor!Task |-> Monitor!Idle]]
  BY DEF Monitor!End
<1>4. Monitor!NoRules \in Rule(s) /\ 0 \in 0..top
  BY RulesAreSound DEF MonitorInv, SourceInv, Bounds
<1>5. RefreshInv'
  <2>1. place' \in Places /\ plan' \in Plans
    BY <1>3 DEF MonitorInv, RefreshInv, Places, Plans
  <2>2. found' \in Findings
    <3>1. Monitor!Nothing \in [mark : 0..top, rules : [Division -> 0..MaxPost]]
          /\ Monitor!Nothing.rules \in Rule(s)
      BY <1>4 DEF Monitor!Nothing, Rule
    <3> QED
      BY <1>3, <3>1 DEF MonitorInv, RefreshInv, Findings
  <2>3. Findings' = Findings /\ \A r \in Session : Planned(r)' = Planned(r)
    BY <1>1, Frame
  <2>4. ASSUME NEW r \in Session, NEW u \in Monitor!Refresher
        PROVE  /\ place'[r][u] \notin {"INGEST", "RECOVER"} => plan'[r][u] = {}
               /\ place'[r][u] = "INGEST" => plan'[r][u] \subseteq Planned(r)
               /\ place'[r]["first"] = "OFF" => place'[r][u] = "OFF"
               /\ place'[r][u] = "RECOVER" => plan'[r][u] \subseteq Inbox' \X SUBSET Division
    <3>1. CASE r = s
      BY <1>3, <3>1 DEF MonitorInv, RefreshInv, Places, Plans
    <3>2. CASE r # s
      <4>1. place'[r] = place[r] /\ plan'[r] = plan[r]
        BY <1>3, <3>2 DEF MonitorInv, RefreshInv, Places, Plans
      <4> QED
        BY <1>2, <4>1 DEF MonitorInv, RefreshInv
    <3> QED
      BY <3>1, <3>2
  <2> QED
    BY <2>1, <2>2, <2>3, <2>4 DEF RefreshInv, Places, Plans
<1>6. LiveInv'
  <2>1. rules' \in RulesInUse
    BY <1>3, <1>4 DEF MonitorInv, LiveInv, RulesInUse, Rule
  <2> QED
    BY <1>1, <1>4, <2>1, LiveStep DEF LiveKept, MonitorInv, LiveInv, Monitor!End
<1>7. SourceInv' /\ lastPost' >= lastPost
  BY <1>1, SourceStep DEF SourceMoves, MonitorInv
<1>8. JobInv'
  <2>1. \A r \in Session : Monitor!Idle \in AnyJob /\ Monitor!Idle \in Job(r)'
           /\ Job(r) \subseteq Job(r)'
    BY <1>1, <1>2, IdleIsJob, JobFrame DEF MonitorInv
  <2> QED
    BY <1>3, <2>1 DEF MonitorInv, JobInv, Jobs, AnyJob
<1>9. RestInv'
  BY UpsetIsBounded DEF MonitorInv, RestInv, Monitor!End
<1>10. CleanInv'
  <2>1. ASSUME NEW r \in Session, r # s
        PROVE  /\ place'[r] = place[r] /\ rules'[r] = rules[r] /\ queue'[r] = queue[r]
               /\ found'[r] = found[r] /\ job'[r] = job[r]
    BY <1>3, <2>1 DEF MonitorInv, RefreshInv, LiveInv, JobInv, Places, Findings, RulesInUse, Jobs
  <2>2. /\ rules'[s] = Monitor!NoRules /\ queue'[s] = {}
        /\ found'[s] = [t \in Monitor!Refresher |-> Monitor!Nothing]
        /\ job'[s] = [k \in Monitor!Task |-> Monitor!Idle]
    BY <1>3 DEF MonitorInv, RefreshInv, LiveInv, JobInv, Findings, RulesInUse, Jobs
  <2> QED
    BY <2>1, <2>2 DEF MonitorInv, CleanInv, Monitor!Running
<1> QED
  BY <1>2, <1>5, <1>6, <1>7, <1>8, <1>9, <1>10 DEF Kept, MonitorInv, Bounds

\* A lease runs out.
LEMMA LapseKeeps ==
    ASSUME MonitorInv, Monitor!Lapse
    PROVE  Kept
<1>1. UNCHANGED Configuration
      /\ UNCHANGED <<Monitor!sourceVars, ev, candidates, Monitor!refreshVars, Monitor!mapVars, dirty,
                     Monitor!liveVars, job, upsets>>
  BY DEF Monitor!Lapse, Configuration
<1>2. InboxInv' /\ Inbox \subseteq Inbox' /\ Answered
  BY <1>1, InboxRests DEF MonitorInv, Configuration, Monitor!channelVars
<1>3. SourceInv' /\ lastPost' >= lastPost
  BY <1>1, SourceStep DEF SourceMoves, MonitorInv
<1>4. RefreshInv' /\ LiveInv' /\ JobInv'
  BY <1>1, <1>2, RefreshRests, LiveRests, JobRests DEF MonitorInv
<1>5. CleanInv'
  BY <1>1 DEF MonitorInv, CleanInv, Monitor!Running, Monitor!refreshVars, Monitor!mapVars,
     Monitor!liveVars
<1> QED
  BY <1>1, <1>2, <1>3, <1>4, <1>5 DEF Kept, MonitorInv, RestInv, Bounds, Monitor!Lapse

-----------------------------------------------------------------------------
(* The steps of the channel and of its buyers. *)

\* Posts and divisions come, or change: what was wanted stays so, and rules stay sound.
WantedGrows ==
    /\ top <= top'
    /\ \A s \in Session, p \in Monitor!Post : Monitor!Wanted(s, p) \subseteq Monitor!Wanted(s, p)'
    /\ \A s \in Session : Rule(s) \subseteq Rule(s)'

\* What that keeps.
LEMMA GrowthKeeps ==
    ASSUME MonitorInv, SourceInv', WantedGrows, lastPost' = lastPost,
           UNCHANGED <<ev, candidates, owner, Monitor!refreshVars, Monitor!mapVars, Monitor!liveVars,
                       job>>,
           dirty' \in [Session -> BOOLEAN], upsets' \in 0..MaxUpsets
    PROVE  Kept
<1>1. Inbox' = Inbox /\ Monitor!Posted \subseteq Monitor!Posted' /\ 0..top \subseteq 0..top'
  BY DEF Inbox, Monitor!Posted, WantedGrows, MonitorInv, SourceInv, Bounds
<1>2. Monitor!Posted \subseteq Monitor!Post /\ Inbox \subseteq Monitor!Post
  BY DEF MonitorInv, SourceInv, Bounds, Monitor!Posted, Monitor!Post, Inbox
<1>3. ASSUME NEW s \in Session PROVE Planned(s) \subseteq Planned(s)' /\ Job(s) \subseteq Job(s)'
  <2>1. Planned(s) \subseteq Planned(s)'
    BY <1>1, <1>2 DEF Planned, WantedGrows
  <2>2. Job(s) \subseteq Job(s)'
    BY <1>1, <1>2 DEF Job, AnyJob, WantedGrows
  <2> QED
    BY <2>1, <2>2
<1>4. InboxInv' /\ Answered
  BY <1>1 DEF MonitorInv, InboxInv, Answered
<1>5. RefreshInv'
  <2>1. found \in Findings'
    <3>1. \A s \in Session, t \in Monitor!Refresher : found[s][t].rules \in Rule(s)'
      BY DEF MonitorInv, RefreshInv, Findings, WantedGrows
    <3> QED
      BY <1>1, <3>1 DEF MonitorInv, RefreshInv, Findings
  <2>2. \A r \in Session, u \in Monitor!Refresher :
            place[r][u] = "INGEST" => plan[r][u] \subseteq Planned(r)'
    BY <1>3 DEF MonitorInv, RefreshInv
  <2> QED
    BY <1>1, <2>1, <2>2 DEF MonitorInv, RefreshInv, Monitor!refreshVars, Places, Plans
<1>6. LiveInv'
  <2>1. rules \in RulesInUse'
    BY DEF MonitorInv, LiveInv, RulesInUse, WantedGrows
  <2> QED
    BY <1>1, <2>1 DEF MonitorInv, LiveInv, Monitor!mapVars, Monitor!liveVars
<1>7. JobInv'
  BY <1>3 DEF MonitorInv, JobInv, Jobs, AnyJob
<1>8. CleanInv'
  BY DEF MonitorInv, CleanInv, Monitor!Running, Monitor!refreshVars, Monitor!mapVars,
     Monitor!liveVars
<1>9. lastPost' >= lastPost
  BY DEF MonitorInv, SourceInv, Bounds
<1> QED
  BY <1>4, <1>5, <1>6, <1>7, <1>8, <1>9 DEF Kept, MonitorInv, RestInv, Bounds

\* Sessions are notified, or not.
LEMMA NotifiedIsKept ==
    ASSUME MonitorInv, Monitor!Notified
    PROVE  dirty' \in [Session -> BOOLEAN]
BY DEF MonitorInv, LiveInv, Monitor!Notified, Monitor!Running

\* A post comes.
LEMMA NewPostKeeps ==
    ASSUME MonitorInv, Monitor!NewPost
    PROVE  Kept
<1>1. top' = top + 1 /\ top' \in Monitor!Post /\ top' \in 0..MaxPost
  BY DEF Monitor!NewPost, MonitorInv, SourceInv, Bounds, Monitor!Post
<1>2. PICK D \in SUBSET Division : hits' = [hits EXCEPT ![top'] = D]
  BY DEF Monitor!NewPost
<1>3. conf' = conf /\ since' = since /\ bound' = bound /\ start' = start /\ lastPost' = lastPost
  BY DEF Monitor!NewPost, Monitor!configVars, Monitor!sourceVars
<1>4. SourceInv'
  <2>1. hits' \in [Monitor!Post -> SUBSET Division]
    BY <1>1, <1>2 DEF MonitorInv, SourceInv
  <2>2. \A p \in Monitor!Post : p > top' => hits'[p] = {}
    BY <1>1, <1>2 DEF MonitorInv, SourceInv, Bounds, Monitor!Post
  <2>3. lastPost \in 0..top'
    BY <1>1 DEF MonitorInv, SourceInv, Bounds
  <2> QED
    BY <1>1, <1>3, <2>1, <2>2, <2>3 DEF MonitorInv, SourceInv
<1>5. WantedGrows
  <2>1. \A s \in Session : Rule(s)' = Rule(s)
    BY <1>3 DEF Rule
  <2>2. ASSUME NEW p \in Monitor!Post PROVE hits[p] \subseteq hits'[p]
    <3>1. CASE p = top'
      <4>1. hits[p] = {}
        BY <1>1, <3>1 DEF MonitorInv, SourceInv, Bounds, Monitor!Post
      <4> QED
        BY <4>1
    <3>2. CASE p # top'
      BY <1>2, <3>2 DEF MonitorInv, SourceInv
    <3> QED
      BY <3>1, <3>2
  <2>3. \A s \in Session, p \in Monitor!Post :
            Monitor!Wanted(s, p) \subseteq Monitor!Wanted(s, p)'
    BY <1>3, <2>2 DEF Monitor!Wanted
  <2>4. top <= top'
    BY <1>1 DEF MonitorInv, SourceInv, Bounds
  <2> QED
    BY <2>1, <2>3, <2>4 DEF WantedGrows
<1>6. dirty' \in [Session -> BOOLEAN] /\ upsets' \in 0..MaxUpsets
  BY DEF Monitor!NewPost, Monitor!sessionVars, MonitorInv, LiveInv, RestInv
<1>7. UNCHANGED <<ev, candidates, owner, Monitor!refreshVars, Monitor!mapVars, Monitor!liveVars, job>>
  BY DEF Monitor!NewPost, Monitor!sessionVars
<1> QED
  BY <1>3, <1>4, <1>5, <1>6, <1>7, GrowthKeeps

\* The configuration of a division changes; sessions are bound to what it was, unless it is
\* new.
LEMMA ConfigurationKeeps ==
    ASSUME MonitorInv, SourceInv', Monitor!Notified, upsets' \in 0..MaxUpsets,
           \A d \in Division : conf[d] # "NONE" =>
               conf'[d] # "NONE" /\ \A s \in Session : bound'[s][d] = bound[s][d],
           UNCHANGED <<Monitor!channelVars, lastPost, ev, candidates, owner, Monitor!refreshVars,
                       Monitor!mapVars, Monitor!liveVars, job>>
    PROVE  Kept
<1>1. top' = top /\ hits' = hits
  BY DEF Monitor!channelVars
<1>2. \A p \in Monitor!Post : hits[p] \subseteq Division
  BY DEF MonitorInv, SourceInv
<1>3. \A s \in Session, p \in Monitor!Post : Monitor!Wanted(s, p) \subseteq Monitor!Wanted(s, p)'
  BY <1>1, <1>2 DEF Monitor!Wanted
<1>4. ASSUME NEW s \in Session, NEW R \in Rule(s) PROVE R \in Rule(s)'
  <2>1. ASSUME NEW d \in Division
        PROVE  R[d] >= bound'[s][d] /\ (conf'[d] = "NONE" => R[d] = MaxPost)
    <3>1. CASE conf[d] = "NONE"
      BY <3>1 DEF Rule, SourceInv, MonitorInv, Bounds
    <3>2. CASE conf[d] # "NONE"
      BY <3>2 DEF Rule
    <3> QED
      BY <3>1, <3>2
  <2> QED
    BY <2>1 DEF Rule
<1>5. WantedGrows
  BY <1>1, <1>3, <1>4 DEF WantedGrows, MonitorInv, SourceInv, Bounds
<1>6. dirty' \in [Session -> BOOLEAN]
  BY NotifiedIsKept
<1> QED
  BY <1>5, <1>6, GrowthKeeps

\* An activation moves on, up to the newest post.
LEMMA ActivationMovesOn ==
    ASSUME MonitorInv, NEW d \in Division, Monitor!Activate(d)
    PROVE  /\ \E b \in 0..MaxPost : b >= since[d] /\ since' = [since EXCEPT ![d] = b]
           /\ start' \in [Division -> 0..MaxPost]
<1>1. PICK b \in Monitor!Max({since[d], top - 1})..top : since' = [since EXCEPT ![d] = b]
  BY DEF Monitor!Activate
<1>2. since[d] \in Nat /\ top \in Nat /\ top <= MaxPost /\ lastPost \in 0..MaxPost
  BY DEF MonitorInv, SourceInv, Bounds
<1>3. b \in 0..MaxPost /\ b >= since[d]
  <2>1. CASE top = 0
    <3>1. \E x \in {since[d], top - 1} : \A y \in {since[d], top - 1} : x >= y
      BY <1>2, <2>1
    <3>2. Monitor!Max({since[d], top - 1}) = since[d]
      BY <1>2, <2>1, <3>1 DEF Monitor!Max
    <3> QED
      BY <1>2, <3>2 DEF MonitorInv, Bounds
  <2>2. CASE top # 0
    <3>1. top - 1 \in Nat
      BY <1>2, <2>2
    <3>2. Monitor!Max({since[d], top - 1}) \in Nat
          /\ Monitor!Max({since[d], top - 1}) >= since[d]
      BY <1>2, <3>1, MaxOfTwo
    <3> QED
      BY <1>2, <3>2 DEF MonitorInv, Bounds
  <2> QED
    BY <2>1, <2>2
<1>4. start' \in [Division -> 0..MaxPost]
  BY <1>2 DEF Monitor!Activate, MonitorInv, SourceInv
<1> QED
  BY <1>1, <1>3, <1>4

\* A division comes: it wants nothing yet, and no rules speak of it.
LEMMA SubscribeKeeps ==
    ASSUME MonitorInv, NEW d \in Division, Monitor!Subscribe(d)
    PROVE  Kept
<1>1. /\ conf[d] = "NONE" /\ conf' = [conf EXCEPT ![d] = "PREPARING"] /\ lastPost' = lastPost
      /\ top' = top /\ hits' = hits /\ upsets' \in 0..MaxUpsets
      /\ bound' = [s \in Session |-> [bound[s] EXCEPT ![d] = since'[d]]]
  BY DEF Monitor!Subscribe, Monitor!Configured, Monitor!channelVars, MonitorInv, RestInv
<1>2. PICK b \in 0..MaxPost : b >= since[d] /\ since' = [since EXCEPT ![d] = b]
  BY ActivationMovesOn DEF Monitor!Subscribe
<1>3. start' \in [Division -> 0..MaxPost]
  BY ActivationMovesOn DEF Monitor!Subscribe
<1>4. SourceInv'
  <2>1. since' \in [Division -> 0..MaxPost] /\ since'[d] = b
        /\ \A e \in Division \ {d} : since'[e] = since[e]
    BY <1>2 DEF MonitorInv, SourceInv
  <2>2. bound' \in [Session -> [Division -> 0..MaxPost]]
    BY <1>1, <2>1 DEF MonitorInv, SourceInv
  <2>3. \A s \in Session, e \in Division : bound'[s][e] <= since'[e]
    BY <1>1, <2>1, <2>2 DEF MonitorInv, SourceInv, Bounds
  <2> QED
    BY <1>1, <1>3, <2>1, <2>2, <2>3 DEF MonitorInv, SourceInv
<1>5. ASSUME NEW e \in Division, conf[e] # "NONE"
      PROVE  conf'[e] # "NONE" /\ \A s \in Session : bound'[s][e] = bound[s][e]
  BY <1>1, <1>5 DEF MonitorInv, SourceInv
<1> QED
  BY <1>1, <1>4, <1>5, ConfigurationKeeps DEF Monitor!Subscribe, Monitor!Configured

\* A division that is there is configured anew: what it is comes to, its activation moves on
\* or stays, and its start is anything.
LEMMA ReconfigureKeeps ==
    ASSUME MonitorInv, NEW d \in Division, conf[d] # "NONE",
           NEW c \in {"PREPARING", "READY", "OFF", "PAUSED"}, conf' = [conf EXCEPT ![d] = c],
           \/ since' = since
           \/ \E b \in 0..MaxPost : b >= since[d] /\ since' = [since EXCEPT ![d] = b],
           start' \in [Division -> 0..MaxPost], bound' = bound, Monitor!Notified,
           upsets' \in 0..MaxUpsets,
           UNCHANGED <<Monitor!channelVars, lastPost, ev, candidates, owner, Monitor!refreshVars,
                       Monitor!mapVars, Monitor!liveVars, job>>
    PROVE  Kept
<1>1. since' \in [Division -> 0..MaxPost] /\ \A e \in Division : since'[e] >= since[e]
  BY DEF MonitorInv, SourceInv, Bounds
<1>2. SourceInv'
  <2>1. ASSUME NEW s \in Session, NEW e \in Division PROVE bound[s][e] <= since'[e]
    <3>1. bound[s] \in [Division -> 0..MaxPost] /\ bound[s][e] <= since[e]
      BY DEF MonitorInv, SourceInv
    <3>2. bound[s][e] \in 0..MaxPost /\ since[e] \in 0..MaxPost /\ since'[e] \in 0..MaxPost
      BY <1>1, <3>1 DEF MonitorInv, SourceInv
    <3>3. since'[e] >= since[e] /\ MaxPost \in Nat
      BY <1>1 DEF MonitorInv, Bounds
    <3> QED
      BY <3>1, <3>2, <3>3
  <2> QED
    BY <1>1, <2>1 DEF MonitorInv, SourceInv, Monitor!channelVars
<1>3. \A e \in Division : conf[e] # "NONE" =>
          conf'[e] # "NONE" /\ \A s \in Session : bound'[s][e] = bound[s][e]
  BY DEF MonitorInv, SourceInv
<1> QED
  BY <1>2, <1>3, ConfigurationKeeps

\* It is paused, edited, switched on or off.
LEMMA SwitchKeeps ==
    ASSUME MonitorInv, NEW d \in Division,
           Monitor!Pause(d) \/ Monitor!Edit(d) \/ Monitor!BecomesReady(d) \/ Monitor!SwitchOff(d)
    PROVE  Kept
<1>1. conf[d] # "NONE" /\ upsets' \in 0..MaxUpsets
  BY UpsetIsBounded
     DEF Monitor!Pause, Monitor!Edit, Monitor!BecomesReady, Monitor!SwitchOff, MonitorInv, RestInv
<1>2. start' \in [Division -> 0..MaxPost]
  <2>1. lastPost \in 0..MaxPost
    BY DEF MonitorInv, SourceInv, Bounds
  <2> QED
    BY <2>1 DEF Monitor!Pause, Monitor!Edit, Monitor!BecomesReady, Monitor!SwitchOff,
       Monitor!sourceVars, MonitorInv, SourceInv
<1>3. /\ \E c \in {"PREPARING", "READY", "OFF", "PAUSED"} : conf' = [conf EXCEPT ![d] = c]
      /\ UNCHANGED <<since, bound>> /\ Monitor!Notified
      /\ UNCHANGED <<Monitor!channelVars, lastPost, ev, candidates, owner, Monitor!refreshVars,
                     Monitor!mapVars, Monitor!liveVars, job>>
  BY DEF Monitor!Pause, Monitor!Edit, Monitor!BecomesReady, Monitor!SwitchOff, Monitor!Configured,
     Monitor!sourceVars
<1> QED
  BY <1>1, <1>2, <1>3, ReconfigureKeeps

\* It is activated again.
LEMMA ResumeKeeps ==
    ASSUME MonitorInv, NEW d \in Division, Monitor!Resume(d)
    PROVE  Kept
<1>1. conf[d] # "NONE" /\ upsets' \in 0..MaxUpsets /\ Monitor!Activate(d)
  BY DEF Monitor!Resume, MonitorInv, RestInv
<1>2. /\ conf' = [conf EXCEPT ![d] = "PREPARING"] /\ bound' = bound /\ Monitor!Notified
      /\ UNCHANGED <<Monitor!channelVars, lastPost, ev, candidates, owner, Monitor!refreshVars,
                     Monitor!mapVars, Monitor!liveVars, job>>
  BY DEF Monitor!Resume, Monitor!Configured
<1> QED
  BY <1>1, <1>2, ActivationMovesOn, ReconfigureKeeps

-----------------------------------------------------------------------------
(* Theorems. *)

\* The invariant holds at the start.
LEMMA MonitorInit ==
    ASSUME Bounds, Monitor!Init
    PROVE  MonitorInv
<1>1. SourceInv
  BY DEF Bounds, Monitor!Init, SourceInv, Monitor!Post
<1>2. InboxInv
  BY DEF Monitor!Init, InboxInv, Inbox
<1>3. \A s \in Session : Monitor!NoRules \in Rule(s) /\ Monitor!NoRules \in [Division -> 0..MaxPost]
  BY <1>1, RulesAreSound DEF Rule
<1>4. RefreshInv
  <2>1. found \in Findings
    <3>1. \A s \in Session, t \in Monitor!Refresher : found[s][t] = Monitor!Nothing
          /\ Monitor!Nothing \in [mark : 0..top, rules : [Division -> 0..MaxPost]]
          /\ Monitor!Nothing.rules \in Rule(s)
      BY <1>3 DEF Monitor!Init, Monitor!Nothing
    <3> QED
      BY <3>1 DEF Monitor!Init, Findings
  <2> QED
    BY <2>1 DEF Monitor!Init, RefreshInv, Places, Plans
<1>5. LiveInv
  BY <1>3 DEF Monitor!Init, LiveInv, RulesInUse
<1>6. JobInv
  BY IdleIsJob DEF Monitor!Init, JobInv, Jobs
<1>7. CleanInv
  BY DEF Monitor!Init, CleanInv
<1> QED
  BY <1>1, <1>2, <1>4, <1>5, <1>6, <1>7 DEF MonitorInv, RestInv, Bounds, Monitor!Init

\* A step of a refresh.
LEMMA RefresherKeeps ==
    ASSUME MonitorInv, NEW s \in Session, NEW t \in Monitor!Refresher, Monitor!Step(s, t)
    PROVE  Kept
BY RefreshKeeps, PrepareKeeps, ListHistoryKeeps, ListBackfillKeeps, TakePlannedKeeps,
   ListPendingKeeps, RecoverKeeps DEF Monitor!Step

\* A step of a session.
LEMMA SessionKeeps ==
    ASSUME MonitorInv, NEW s \in Session,
           \/ Monitor!Start(s) \/ Monitor!Deliver(s) \/ Monitor!TakeLive(s) \/ Monitor!LiveFails(s)
           \/ Monitor!RefreshFails(s) \/ Monitor!End(s)
           \/ \E t \in Monitor!Refresher : Monitor!Step(s, t) \/ Monitor!PreparationFails(s, t)
           \/ \E k \in Monitor!Task :
                 Monitor!Process(s, k) \/ Monitor!JobFails(s, k) \/ Monitor!AbandonFails(s, k)
    PROVE  Kept
<1>1. CASE Monitor!Start(s) \/ Monitor!Deliver(s) \/ Monitor!TakeLive(s) \/ Monitor!LiveFails(s)
  BY <1>1, StartKeeps, DeliverKeeps, TakeLiveKeeps, LiveFailsKeeps
<1>2. CASE Monitor!RefreshFails(s) \/ Monitor!End(s)
  BY <1>2, RefreshFailsKeeps, EndKeeps
<1>3. CASE \E t \in Monitor!Refresher : Monitor!Step(s, t) \/ Monitor!PreparationFails(s, t)
  BY <1>3, RefresherKeeps, PreparationFailsKeeps
<1>4. CASE \E k \in Monitor!Task :
              Monitor!Process(s, k) \/ Monitor!JobFails(s, k) \/ Monitor!AbandonFails(s, k)
  BY <1>4, CreateCandidateKeeps, CandidateRefusedKeeps, FinishJobKeeps, JobFailsKeeps,
     AbandonFailsKeeps DEF Monitor!Process
<1> QED
  BY <1>1, <1>2, <1>3, <1>4

\* Every step keeps the invariant, and the checkpoint advances.
LEMMA MonitorStep ==
    ASSUME MonitorInv, [Monitor!Next]_(Monitor!vars)
    PROVE  Kept
<1>1. CASE Monitor!Next
  BY <1>1, NewPostKeeps, LapseKeeps, SubscribeKeeps, SwitchKeeps, ResumeKeeps, SessionKeeps
     DEF Monitor!Next
<1>2. CASE UNCHANGED Monitor!vars
  <2>1. UNCHANGED Configuration
        /\ UNCHANGED <<Monitor!sourceVars, ev, candidates, owner, Monitor!refreshVars,
                       Monitor!mapVars, dirty, Monitor!liveVars, job, upsets>>
    BY <1>2 DEF Monitor!vars, Monitor!sessionVars, Configuration
  <2>2. InboxInv' /\ Inbox \subseteq Inbox' /\ Answered
    BY <2>1, InboxRests DEF MonitorInv, Configuration, Monitor!channelVars
  <2>3. SourceInv' /\ lastPost' >= lastPost
    BY <2>1, SourceStep DEF SourceMoves, MonitorInv
  <2>4. RefreshInv' /\ LiveInv' /\ JobInv'
    BY <2>1, <2>2, RefreshRests, LiveRests, JobRests DEF MonitorInv
  <2>5. CleanInv'
    BY <2>1 DEF MonitorInv, CleanInv, Monitor!Running, Monitor!refreshVars, Monitor!mapVars,
       Monitor!liveVars
  <2> QED
    BY <2>1, <2>2, <2>3, <2>4, <2>5 DEF Kept, MonitorInv, RestInv, Bounds
<1> QED
  BY <1>1, <1>2

\* The invariant says what the type invariant says.
LEMMA MonitorIsTyped ==
    ASSUME MonitorInv
    PROVE  Monitor!TypeOK
<1>1. 0..top \subseteq 0..MaxPost /\ Monitor!Posted \subseteq Monitor!Post
  BY DEF MonitorInv, Bounds, SourceInv, Monitor!Posted, Monitor!Post
<1>2. found \in [Session -> [Monitor!Refresher -> [mark : 0..MaxPost,
          rules : [Division -> 0..MaxPost]]]]
  BY <1>1 DEF MonitorInv, RefreshInv, Findings
<1>3. job \in [Session -> [Monitor!Task ->
          [post : 0..MaxPost, todo : SUBSET Division, begun : BOOLEAN]]]
  BY DEF MonitorInv, JobInv, Jobs, AnyJob
<1>4. rules \in [Session -> [Division -> 0..MaxPost]] /\ queue \in [Session -> SUBSET Monitor!Post]
      /\ heard \in [Session -> 0..MaxPost]
  BY <1>1 DEF MonitorInv, LiveInv, RulesInUse
<1> QED
  BY <1>2, <1>3, <1>4 DEF Monitor!TypeOK, MonitorInv, SourceInv, InboxInv, RefreshInv, LiveInv,
     RestInv, Places, Plans

\* What the central monitor has in hand is wanted: what sessions have read, queued and are
\* processing, however they overlap, fail and die, and divisions change.
THEOREM MonitorInvariant == MonitorSpec => []MonitorInv
<1>1. Monitor!Init => MonitorInv
  BY MonitorInit, MonitorAssumption DEF Bounds
<1>2. MonitorInv /\ [Monitor!Next]_(Monitor!vars) => MonitorInv'
  BY MonitorStep DEF Kept
<1> QED
  BY <1>1, <1>2, PTL DEF MonitorSpec, Monitor!Spec

\* Whatever path a post takes (history, backfill, live, recovery), however sessions overlap
\* and however often divisions are paused, activated again and edited, a session makes an event
\* or a candidate only of a post newer than the activation its division had when the session
\* began.
THEOREM MonitorOnlyWanted == MonitorSpec => OnlyWanted
<1>1. MonitorInv /\ [Monitor!Next]_(Monitor!vars) => [Answered]_(Monitor!vars)
  BY MonitorStep DEF Kept
<1>2. MonitorSpec => [][Answered]_(Monitor!vars)
  BY <1>1, MonitorInvariant, PTL DEF MonitorSpec, Monitor!Spec
<1> QED
  BY <1>2 DEF OnlyWanted, Monitor!OnlyWanted, Answered

\* Every part of the state of the central monitor keeps its type.
THEOREM MonitorTypeOK == MonitorSpec => []Monitor!TypeOK
<1>1. MonitorInv => Monitor!TypeOK
  BY MonitorIsTyped
<1> QED
  BY <1>1, MonitorInvariant, PTL

\* The checkpoint of a source never goes back, in whatever order tasks and sessions handle old
\* and new posts.
THEOREM MonitorCheckpointAdvances == MonitorSpec => Monitor!CheckpointAdvances
<1>1. MonitorInv /\ [Monitor!Next]_(Monitor!vars) => [lastPost' >= lastPost]_(Monitor!vars)
  BY MonitorStep DEF Kept
<1> QED
  BY <1>1, MonitorInvariant, PTL DEF MonitorSpec, Monitor!Spec, Monitor!CheckpointAdvances
=============================================================================
