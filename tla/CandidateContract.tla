-------------------------- MODULE CandidateContract --------------------------
(***************************************************************************)
(* The life of Auto Komen candidates as the domain contract promises it    *)
(* (packages/auto-comment-contract and AUTO_COMMENT_CONTRACT.md): a post   *)
(* that matches a division becomes a candidate; it is commented on at once *)
(* or after its owner's decision, which is taken once; a comment is posted *)
(* by a command, and only when one exists.                                 *)
(*                                                                         *)
(* The contract has no word for a candidate withdrawn because its division *)
(* changed, nor for what becomes of its command: those steps are those of  *)
(* the database functions, which name the first one REJECTED.              *)
(***************************************************************************)

CONSTANT Candidate

VARIABLES status,    \* CommentCandidateStatus, or ABSENT before the match
          decision,  \* the review decision taken, if any
          command    \* whether the candidate's one command exists

vars == <<status, decision, command>>

Settled == {"COMMENT_SENT", "COMMENT_FAILED", "SIDE_EFFECT_UNCERTAIN"}
Status == Settled \cup {"ABSENT", "PENDING_REVIEW", "COMMENT_QUEUED", "OOT", "REJECTED"}

Init ==
    /\ status = [c \in Candidate |-> "ABSENT"]
    /\ decision = [c \in Candidate |-> "NONE"]
    /\ command = [c \in Candidate |-> FALSE]

\* createAutoCommentCandidate, in either mode of the division.
Create(c) ==
    /\ status[c] = "ABSENT"
    /\ \/ /\ status' = [status EXCEPT ![c] = "PENDING_REVIEW"]
          /\ UNCHANGED command
       \/ /\ status' = [status EXCEPT ![c] = "COMMENT_QUEUED"]
          /\ command' = [command EXCEPT ![c] = TRUE]
    /\ UNCHANGED decision

\* decideAutoCommentCandidate: OOT makes no command, Tepat makes it in the same
\* step; any other status answers ALREADY_DECIDED or NOT_AWAITING_REVIEW.
Decide(c) ==
    /\ status[c] = "PENDING_REVIEW"
    /\ \/ /\ status' = [status EXCEPT ![c] = "OOT"]
          /\ decision' = [decision EXCEPT ![c] = "OOT"]
          /\ UNCHANGED command
       \/ /\ status' = [status EXCEPT ![c] = "COMMENT_QUEUED"]
          /\ decision' = [decision EXCEPT ![c] = "TEPAT"]
          /\ command' = [command EXCEPT ![c] = TRUE]

\* The command is over; one withdrawn on the way may still turn out sent.
Settle(c) ==
    /\ status[c] \in {"COMMENT_QUEUED", "REJECTED"} /\ command[c]
    /\ \E s \in Settled : status' = [status EXCEPT ![c] = s]
    /\ UNCHANGED <<decision, command>>

\* Candidates whose division no longer asks for them.
Withdraw(C) ==
    /\ \A c \in C : status[c] \in {"PENDING_REVIEW", "COMMENT_QUEUED"}
    /\ status' = [c \in Candidate |-> IF c \in C THEN "REJECTED" ELSE status[c]]
    /\ UNCHANGED <<decision, command>>

\* Candidates whose channel turned out to have no discussion to comment in.
Fail(C) ==
    /\ \A c \in C : status[c] = "COMMENT_QUEUED"
    /\ status' = [c \in Candidate |-> IF c \in C THEN "COMMENT_FAILED" ELSE status[c]]
    /\ UNCHANGED <<decision, command>>

Next ==
    \/ \E c \in Candidate : Create(c) \/ Decide(c) \/ Settle(c)
    \/ \E C \in SUBSET Candidate : Withdraw(C) \/ Fail(C)

Spec == Init /\ [][Next]_vars
=============================================================================
