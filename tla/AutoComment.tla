----------------------------- MODULE AutoComment -----------------------------
(***************************************************************************)
(* Auto Komen: posts that match a division become candidates; the owner is *)
(* asked (Tepat / OOT) or the division comments by itself; the comment is  *)
(* a command that the runs of the division's account claim, validate, send *)
(* and finish, while the service is switched off and on, divisions are     *)
(* edited, entitlements expire, runs lose their lease and processes die.   *)
(*                                                                         *)
(* One user with one account.  Every database function is one atomic step. *)
(* A run keeps what it was told (cur, out) across the awaits in between.   *)
(***************************************************************************)
EXTENDS Integers

CONSTANTS Instance,     \* engine processes
          Candidate,    \* matches of a post with a division
          NoInstance,   \* a null lease owner
          NoCandidate,  \* a run holds no command
          MaxToken      \* bound: fencing tokens handed out

ASSUME NullAssumption == NoInstance \notin Instance /\ NoCandidate \notin Candidate
ASSUME BoundAssumption == MaxToken \in Nat

VARIABLES lease,     \* [owner, token, live]: the account's row of account_leases
          on,        \* switch, division, template, profile, account and mapping
                     \* are in force: their loss cancels what is under way
          fit,       \* the channel is READY and the entitlement has not expired:
                     \* their loss is only noticed by the next look
          cand,      \* auto_comment_candidates.status, or ABSENT
          review,    \* auto_comment_reviews.decision
          cmd,       \* workflow_commands.status, or ABSENT
          op,        \* workflow_operations.status, or ABSENT
          claim,     \* [owner, token, live]: the command's lease
          stopped,   \* cancel_requested_at of the command is set
          waiting,   \* available_at of the command is in the future
          asking,    \* a process has created it and is about to notify the owner
          asked,     \* history: notifications sent to the owner
          pc, tok, cur, out,  \* each instance's run: place, token, command, answer
          posted,    \* history: comments Telegram has posted for the candidate
          withdrawn  \* history: candidates cancelled before any run's last look let
                     \* them through

accountVars == <<lease, on, fit>>
candVars == <<cand, review, asking, asked>>
cmdVars == <<cmd, op, claim, stopped, waiting>>
runVars == <<pc, tok, cur, out>>
history == <<posted, withdrawn>>
vars == <<accountVars, candVars, cmdVars, runVars, history>>

Open == {"PENDING", "FAILED_RETRYABLE"}
Terminal == {"SUCCEEDED", "FAILED_FINAL", "CANCELLED", "SIDE_EFFECT_UNCERTAIN"}
Undecided == {"PENDING_REVIEW", "COMMENT_QUEUED"}
CandidateStatus ==
    Undecided \cup {"ABSENT", "OOT", "REJECTED", "COMMENT_SENT", "COMMENT_FAILED",
                    "SIDE_EFFECT_UNCERTAIN"}
Outcome == {"SUCCEEDED", "FAILED_RETRYABLE", "FAILED_FINAL", "SIDE_EFFECT_UNCERTAIN"}
PC == {"OFF", "LOOP", "CLAIMED", "AUTHORIZED", "ANSWERED", "CLOSING", "DEAD"}
Lease == [owner: Instance \cup {NoInstance}, token: Nat, live: BOOLEAN]

\* Each part of the state has its type.
TypeOK ==
    /\ lease \in Lease /\ on \in BOOLEAN /\ fit \in BOOLEAN
    /\ cand \in [Candidate -> CandidateStatus]
    /\ review \in [Candidate -> {"NONE", "TEPAT", "OOT"}]
    /\ cmd \in [Candidate -> Open \cup Terminal \cup {"ABSENT", "CLAIMED"}]
    /\ op \in [Candidate -> Terminal \cup {"ABSENT", "QUEUED", "FAILED_RETRYABLE"}]
    /\ claim \in [Candidate -> Lease]
    /\ stopped \in [Candidate -> BOOLEAN] /\ waiting \in [Candidate -> BOOLEAN]
    /\ asking \in [Candidate -> BOOLEAN] /\ asked \in [Candidate -> Nat]
    /\ pc \in [Instance -> PC] /\ tok \in [Instance -> Nat]
    /\ cur \in [Instance -> Candidate \cup {NoCandidate}]
    /\ out \in [Instance -> Outcome \cup {"NONE"}]
    /\ posted \in [Candidate -> Nat] /\ withdrawn \in SUBSET Candidate

Nobody == [owner |-> NoInstance, token |-> 0, live |-> FALSE]

Init ==
    /\ lease = Nobody /\ on = TRUE /\ fit = TRUE
    /\ cand = [c \in Candidate |-> "ABSENT"]
    /\ review = [c \in Candidate |-> "NONE"]
    /\ cmd = [c \in Candidate |-> "ABSENT"]
    /\ op = [c \in Candidate |-> "ABSENT"]
    /\ claim = [c \in Candidate |-> Nobody]
    /\ stopped = [c \in Candidate |-> FALSE]
    /\ waiting = [c \in Candidate |-> FALSE]
    /\ asking = [c \in Candidate |-> FALSE]
    /\ asked = [c \in Candidate |-> 0]
    /\ pc = [i \in Instance |-> "OFF"] /\ tok = [i \in Instance |-> 0]
    /\ cur = [i \in Instance |-> NoCandidate]
    /\ out = [i \in Instance |-> "NONE"]
    /\ posted = [c \in Candidate |-> 0] /\ withdrawn = {}

\* auto_comment_candidate_is_current, and what guards the insertion of a candidate.
Current == on /\ fit

-----------------------------------------------------------------------------
(* A match, its notification and its review. *)

\* The operation and the command are inserted with the candidate's status.
QueueComment(c) ==
    /\ cand' = [cand EXCEPT ![c] = "COMMENT_QUEUED"]
    /\ cmd' = [cmd EXCEPT ![c] = "PENDING"]
    /\ op' = [op EXCEPT ![c] = "QUEUED"]

\* create_auto_comment_candidate, called by recordMatch or processEvent.
Create(c) ==
    /\ cand[c] = "ABSENT" /\ Current
    /\ \/ /\ QueueComment(c)
          /\ UNCHANGED asking
       \/ /\ cand' = [cand EXCEPT ![c] = "PENDING_REVIEW"]
          /\ asking' = [asking EXCEPT ![c] = TRUE]
          /\ UNCHANGED <<cmd, op>>
    /\ UNCHANGED <<accountVars, review, asked, claim, stopped, waiting,
                   runVars, history>>

\* Mutation: a candidate that exists is announced again.
AnnouncedAgain(c) ==
    /\ cand[c] # "ABSENT"
    /\ asking' = [asking EXCEPT ![c] = cand[c] = "PENDING_REVIEW"]
    /\ UNCHANGED <<accountVars, cand, review, asked, cmdVars, runVars, history>>

\* The same match again, after a retry, a rescan or a recovery of the event:
\* ALREADY_EXISTS, and nothing is said to the owner.
CreateAgain(c) == cand[c] # "ABSENT" /\ UNCHANGED vars

\* sendCandidateNotification and recordNotification: best effort.
Notify(c) ==
    /\ asking[c]
    /\ asking' = [asking EXCEPT ![c] = FALSE]
    /\ asked' = [asked EXCEPT ![c] = @ + 1] \/ UNCHANGED asked
    /\ UNCHANGED <<accountVars, cand, review, cmdVars, runVars, history>>

\* Mutation: only the candidate's review is looked at.
DecidableIfUnreviewed(c) == review[c] = "NONE"

\* A review is still to be decided.
Decidable(c) == review[c] = "NONE" /\ cand[c] = "PENDING_REVIEW"

\* decide_auto_comment_candidate, once a button of the notification is pressed;
\* pressed again it changes nothing.
Decide(c, decision) ==
    /\ asked[c] > 0 /\ Decidable(c)
    /\ IF decision = "OOT"
         THEN /\ cand' = [cand EXCEPT ![c] = "OOT"]
              /\ review' = [review EXCEPT ![c] = "OOT"]
              /\ UNCHANGED <<cmd, op>>
         ELSE IF Current
           THEN QueueComment(c) /\ review' = [review EXCEPT ![c] = "TEPAT"]
           ELSE /\ cand' = [cand EXCEPT ![c] = "REJECTED"]
                /\ UNCHANGED <<review, cmd, op>>
    /\ UNCHANGED <<accountVars, asking, asked, claim, stopped, waiting,
                   runVars, history>>

-----------------------------------------------------------------------------
(* The runs of the account. *)

\* The test every fenced function repeats: exact owner, exact token, unexpired.
Holds(i) == lease.owner = i /\ lease.token = tok[i] /\ lease.live

Mine(c, i) == cmd[c] = "CLAIMED" /\ claim[c].owner = i /\ claim[c].token = tok[i]

\* Mutation: a claim is only given up on under another account lease.
StaleIfFenced(c, i) == cmd[c] = "CLAIMED" /\ ~Mine(c, i)

\* A claim whose command lease ran out, or made under another account lease.
Stale(c, i) == cmd[c] = "CLAIMED" /\ ~(Mine(c, i) /\ claim[c].live)

\* Mutation: what a lost run had claimed is offered again.
Reoffered(i) == [c \in Candidate |-> IF Stale(c, i) THEN "PENDING" ELSE cmd[c]]

\* Every claim first gives up on the stale ones.  Only the command learns of it.
Recovered(i) ==
    [c \in Candidate |-> IF Stale(c, i) THEN "SIDE_EFFECT_UNCERTAIN" ELSE cmd[c]]

Unleased(i) == [c \in Candidate |-> IF Stale(c, i) THEN [claim[c] EXCEPT !.live = FALSE] ELSE claim[c]]

Goto(i, l) == pc' = [pc EXCEPT ![i] = l]

LetGo(i, l) ==
    /\ Goto(i, l)
    /\ cur' = [cur EXCEPT ![i] = NoCandidate]
    /\ out' = [out EXCEPT ![i] = "NONE"]

\* Lease, session and connection, up to the drain.
StartRun(i) ==
    /\ pc[i] = "OFF"
    /\ \E token \in 1..MaxToken :
          /\ \/ lease.owner = i /\ lease.live /\ token = lease.token
             \/ ~lease.live /\ token = lease.token + 1
          /\ lease' = [owner |-> i, token |-> token, live |-> TRUE]
          /\ tok' = [tok EXCEPT ![i] = token]
    /\ Goto(i, "LOOP")
    /\ UNCHANGED <<on, fit, candVars, cmdVars, cur, out, history>>

\* The run is refused, or has nothing more to do, or an await throws.
EndRun(i) ==
    /\ pc[i] \in {"LOOP", "CLAIMED"}
    /\ LetGo(i, "CLOSING")
    /\ UNCHANGED <<accountVars, candVars, cmdVars, tok, history>>

ClaimNothing(i) ==
    /\ pc[i] = "LOOP" /\ Holds(i)
    /\ cmd' = Recovered(i)
    /\ claim' = Unleased(i)
    /\ Goto(i, "CLOSING")
    /\ UNCHANGED <<accountVars, candVars, op, stopped, waiting, tok, cur, out, history>>

\* What claim_next_workflow_command offers.
Claimable(c, i) ==
    /\ cmd[c] \in Open /\ ~waiting[c] /\ ~stopped[c]
    /\ op[c] \notin Terminal /\ cand[c] = "COMMENT_QUEUED" /\ Current

\* A command is claimed; when the answer is lost the run ends without knowing.
ClaimNext(i, c) ==
    /\ pc[i] = "LOOP" /\ Holds(i) /\ Claimable(c, i)
    /\ cmd' = [Recovered(i) EXCEPT ![c] = "CLAIMED"]
    /\ claim' = [Unleased(i) EXCEPT ![c] = [owner |-> i, token |-> tok[i], live |-> TRUE]]
    /\ \/ Goto(i, "CLAIMED") /\ cur' = [cur EXCEPT ![i] = c]
       \/ Goto(i, "CLOSING") /\ UNCHANGED cur
    /\ UNCHANGED <<accountVars, candVars, op, stopped, waiting, tok, out, history>>

\* A payload that does not parse is finished without being sent.
RejectPayload(i) ==
    /\ pc[i] = "CLAIMED"
    /\ Goto(i, "ANSWERED")
    /\ out' = [out EXCEPT ![i] = "FAILED_FINAL"]
    /\ UNCHANGED <<accountVars, candVars, cmdVars, tok, cur, history>>

Executable(c) == ~stopped[c] /\ Current

\* validate_auto_comment_execution, the last look before the side effect.
Validate(i) ==
    /\ pc[i] = "CLAIMED"
    /\ LET c == cur[i] IN
       \/ /\ ~(Mine(c, i) /\ Holds(i))
          /\ LetGo(i, "CLOSING")
          /\ UNCHANGED <<cand, cmdVars>>
       \/ /\ Mine(c, i) /\ Holds(i) /\ Executable(c)
          /\ Goto(i, "AUTHORIZED")
          /\ UNCHANGED <<cand, cmdVars, cur, out>>
       \/ /\ Mine(c, i) /\ Holds(i) /\ ~Executable(c)
          /\ cmd' = [cmd EXCEPT ![c] = "CANCELLED"]
          /\ claim' = [claim EXCEPT ![c] = Nobody]
          /\ stopped' = [stopped EXCEPT ![c] = TRUE]
          /\ op' = [op EXCEPT ![c] = "CANCELLED"]
          /\ cand' = [cand EXCEPT ![c] = IF @ \in Undecided THEN "REJECTED" ELSE @]
          /\ LetGo(i, "LOOP")
          /\ UNCHANGED waiting
    /\ UNCHANGED <<accountVars, review, asking, asked, tok, history>>

\* The branches of executeNextAutoComment, given whether Telegram posted it.  A
\* flood wait is retried whatever the attempt count, which is therefore left out.
Answers(c, sent) ==
    {"SIDE_EFFECT_UNCERTAIN"} \cup
    IF sent THEN {"SUCCEEDED"} ELSE {"FAILED_FINAL", "FAILED_RETRYABLE"}

Send(i) ==
    /\ pc[i] = "AUTHORIZED"
    /\ \E sent \in BOOLEAN :
          /\ \E answer \in Answers(cur[i], sent) : out' = [out EXCEPT ![i] = answer]
          /\ posted' = [posted EXCEPT ![cur[i]] = IF sent THEN @ + 1 ELSE @]
    /\ Goto(i, "ANSWERED")
    /\ UNCHANGED <<accountVars, candVars, cmdVars, tok, cur, withdrawn>>

\* Mutation: the candidate takes the command's status over as it is.
CandidateVerbatim(s, answer) == IF answer = "SUCCEEDED" THEN "COMMENT_SENT" ELSE answer

\* The candidate of a command finished with an answer.
CandidateAfter(s, answer) ==
    CASE answer = "SUCCEEDED" -> "COMMENT_SENT"
      [] answer = "FAILED_FINAL" -> "COMMENT_FAILED"
      [] answer = "SIDE_EFFECT_UNCERTAIN" -> "SIDE_EFFECT_UNCERTAIN"
      [] OTHER -> s

\* Mutation: whoever holds the account may finish.
AppliesToAny(i) == Holds(i)

Applies(i) == Mine(cur[i], i) /\ Holds(i)

\* finish_claimed_workflow_command, when it finds its row.
ApplyFinish(i) ==
    LET c == cur[i] IN
    /\ cmd' = [cmd EXCEPT ![c] = out[i]]
    /\ claim' = [claim EXCEPT ![c] = Nobody]
    /\ waiting' = [waiting EXCEPT ![c] = out[i] = "FAILED_RETRYABLE"]
    /\ op' = [op EXCEPT ![c] = out[i]]
    /\ cand' = [cand EXCEPT ![c] = CandidateAfter(@, out[i])]
    /\ UNCHANGED stopped

\* Only a success or a final failure lets the drain loop go on.
Finish(i) ==
    /\ pc[i] = "ANSWERED"
    /\ \/ /\ Applies(i)
          /\ ApplyFinish(i)
          /\ IF out[i] \in {"SUCCEEDED", "FAILED_FINAL"} THEN LetGo(i, "LOOP")
             ELSE LetGo(i, "CLOSING")
       \/ /\ ~Applies(i)
          /\ LetGo(i, "CLOSING")
          /\ UNCHANGED <<cand, cmdVars>>
    /\ UNCHANGED <<accountVars, review, asking, asked, tok, history>>

\* The answer of the finish is lost, applied or not.  A success is then finished
\* a second time, as uncertain; any other outcome ends the run.
FinishLost(i) ==
    /\ pc[i] = "ANSWERED"
    /\ (Applies(i) /\ ApplyFinish(i)) \/ UNCHANGED <<cand, cmdVars>>
    /\ IF out[i] = "SUCCEEDED"
         THEN out' = [out EXCEPT ![i] = "SIDE_EFFECT_UNCERTAIN"] /\ UNCHANGED <<pc, cur>>
         ELSE LetGo(i, "CLOSING")
    /\ UNCHANGED <<accountVars, review, asking, asked, tok, history>>

Release(i) ==
    /\ pc[i] = "CLOSING"
    /\ Goto(i, "OFF")
    /\ (Holds(i) /\ lease' = [lease EXCEPT !.live = FALSE]) \/ UNCHANGED lease
    /\ tok' = [tok EXCEPT ![i] = 0]
    /\ UNCHANGED <<on, fit, candVars, cmdVars, cur, out, history>>

\* The run prepared the channel and found it can never be commented in.
PreparationFails(i) ==
    /\ pc[i] = "LOOP" /\ Holds(i) /\ ~fit
    /\ cmd' = [c \in Candidate |-> IF cmd[c] \in Open THEN "FAILED_FINAL" ELSE cmd[c]]
    /\ op' = [c \in Candidate |-> IF cmd'[c] = "FAILED_FINAL" THEN "FAILED_FINAL" ELSE op[c]]
    /\ cand' = [c \in Candidate |->
          IF cand[c] = "COMMENT_QUEUED" THEN "COMMENT_FAILED" ELSE cand[c]]
    /\ UNCHANGED <<accountVars, review, asking, asked, claim, stopped, waiting, runVars, history>>

Claim(i) == ClaimNothing(i) \/ \E c \in Candidate : ClaimNext(i, c)

Run(i) ==
    \/ StartRun(i) \/ EndRun(i) \/ Claim(i) \/ RejectPayload(i) \/ Validate(i)
    \/ Send(i) \/ Finish(i) \/ Release(i)

-----------------------------------------------------------------------------
(* The user, failures and time. *)

\* Mutation: a command some run has claimed is left to it.
MarkedIfOpen(c) == cmd[c] \in Open

\* A cancellation asks these commands to stop, a claimed one too.
Marked(c) == cmd[c] \in Open \cup {"CLAIMED"}

\* Nothing has been posted for it, and no run has been let through to do so.
Unsent(c) ==
    /\ cand[c] # "ABSENT" /\ posted[c] = 0
    /\ \A i \in Instance : pc[i] = "AUTHORIZED" => cur[i] # c

\* cancel_auto_comment_candidates, and set_auto_comment_enabled(false).
CancelCandidates ==
    /\ cmd' = [c \in Candidate |-> IF cmd[c] \in Open THEN "CANCELLED" ELSE cmd[c]]
    /\ stopped' = [c \in Candidate |-> stopped[c] \/ Marked(c)]
    /\ op' = [c \in Candidate |->
          IF op[c] \in {"QUEUED", "FAILED_RETRYABLE"} THEN "CANCELLED" ELSE op[c]]
    /\ cand' = [c \in Candidate |-> IF cand[c] \in Undecided THEN "REJECTED" ELSE cand[c]]
    /\ withdrawn' = withdrawn \cup {c \in Candidate : Unsent(c)}

\* The service, the division, the template or the channel is switched off or
\* removed, or the profile or the account is disconnected.
SwitchOff ==
    /\ on
    /\ on' = FALSE
    /\ CancelCandidates
    /\ UNCHANGED <<lease, fit, review, asking, asked, claim, waiting, runVars, posted>>

\* A mode, a template text or a keyword is changed: all that is open is void.
Edit ==
    /\ CancelCandidates
    /\ UNCHANGED <<accountVars, review, asking, asked, claim, waiting, runVars, posted>>

SwitchOn ==
    /\ ~on
    /\ on' = TRUE
    /\ UNCHANGED <<lease, fit, candVars, cmdVars, runVars, history>>

\* The entitlement expires or the channel must be prepared again; or no longer.
FitChanges ==
    /\ fit' = ~fit
    /\ UNCHANGED <<lease, on, candVars, cmdVars, runVars, history>>

\* An engine process dies; with it the notifications it had yet to send.
Crash(i) ==
    /\ pc[i] # "DEAD"
    /\ LetGo(i, "DEAD")
    /\ tok' = [tok EXCEPT ![i] = 0]
    /\ asking' \in {asking, [c \in Candidate |-> FALSE]}
    /\ UNCHANGED <<accountVars, cand, review, asked, cmdVars, history>>

Lapse ==
    /\ lease.live
    /\ lease' = [lease EXCEPT !.live = FALSE]
    /\ UNCHANGED <<on, fit, candVars, cmdVars, runVars, history>>

Unrenewed == \A i \in Instance : ~Holds(i)

CommandLeaseExpires(c) ==
    /\ cmd[c] = "CLAIMED" /\ claim[c].live
    /\ claim' = [claim EXCEPT ![c].live = FALSE]
    /\ UNCHANGED <<accountVars, candVars, cmd, op, stopped, waiting,
                   runVars, history>>

WaitElapses(c) ==
    /\ waiting[c]
    /\ waiting' = [waiting EXCEPT ![c] = FALSE]
    /\ UNCHANGED <<accountVars, candVars, cmd, op, claim, stopped,
                   runVars, history>>

Next ==
    \/ \E c \in Candidate :
          \/ Create(c) \/ CreateAgain(c) \/ Notify(c)
          \/ \E d \in {"TEPAT", "OOT"} : Decide(c, d)
          \/ CommandLeaseExpires(c) \/ WaitElapses(c)
    \/ \E i \in Instance :
          Run(i) \/ FinishLost(i) \/ PreparationFails(i) \/ Crash(i)
    \/ SwitchOff \/ SwitchOn \/ Edit \/ FitChanges \/ Lapse

Spec == Init /\ [][Next]_vars

\* A run takes its next step and is not fenced or cut off for ever before it
\* claims; leases nobody renews and command leases run out.
Fairness ==
    /\ \A i \in Instance : WF_vars(Run(i)) /\ SF_vars(Claim(i))
    /\ WF_vars(Lapse /\ Unrenewed)
    /\ \A c \in Candidate : WF_vars(CommandLeaseExpires(c))

FairSpec == Spec /\ Fairness

-----------------------------------------------------------------------------
(* Properties. *)

\* What a command's status says of Telegram is true, whatever runs were lost or
\* fenced on the way: no post is commented on twice, a command open, cancelled or
\* failed was never posted, one that SUCCEEDED exactly once; and a candidate
\* shown as sent was sent.
CommentTellsTruth ==
    \A c \in Candidate :
        /\ posted[c] <= 1
        /\ cmd[c] \in Open \cup {"ABSENT", "CANCELLED", "FAILED_FINAL"} => posted[c] = 0
        /\ cmd[c] = "SUCCEEDED" => posted[c] = 1
        /\ cand[c] = "COMMENT_SENT" => cmd[c] = "SUCCEEDED"

\* A command, once over, stays over: neither a late finish nor a recovery nor a
\* cancellation rewrites it, and an uncertain one is never tried again.
CommandIsFinal ==
    [][\A c \in Candidate : cmd[c] \in Terminal => cmd'[c] = cmd[c]]_vars

\* A candidate withdrawn (the service switched off, the division edited) before a
\* run was let through to send it is never commented on: not by the run that had
\* claimed it, not when the service is on again, an old button is pressed, the
\* claim is recovered or the command is retried by another run.
WithdrawnStaysQuiet == \A c \in withdrawn : posted[c] = 0

\* The owner is asked at most once about a candidate, however often its post is
\* seen again, and never about one that needs no answer from him.
AskedOnce ==
    \A c \in Candidate :
        /\ asked[c] <= 1
        /\ asked[c] = 1 => cmd[c] = "ABSENT" \/ review[c] = "TEPAT"

\* A command being sent does not stay CLAIMED for ever, whoever crashes.
OutOfReach ==
    \/ \A i \in Instance : pc[i] = "DEAD"
    \/ ~lease.live /\ lease.token = MaxToken
ClaimIsResolved ==
    \A c \in Candidate : cmd[c] = "CLAIMED" ~> cmd[c] # "CLAIMED" \/ OutOfReach

\* The candidates live as the domain contract says.
Contract == INSTANCE CandidateContract WITH
    status <- cand, decision <- review,
    command <- [c \in Candidate |-> cmd[c] # "ABSENT"]
ContractSpec == Contract!Spec

\* AUTO_COMMENT_CONTRACT.md:55: a queued comment becomes sent, failed or
\* uncertain: once its command is over the candidate is no longer queued.
QueuedHasCommand ==
    \A c \in Candidate : cand[c] = "COMMENT_QUEUED" => cmd[c] \notin Terminal

\* 20260910160000_automation_lifecycle_guards.sql:45: switching the service off
\* cancels the work that has not started its side effect: a stopped command that
\* was not sent does not stay open.
StoppedIsSettled ==
    \A c \in Candidate : stopped[c] ~> cmd[c] \in Terminal \/ OutOfReach
=============================================================================
