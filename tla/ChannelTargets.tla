--------------------------- MODULE ChannelTargets ---------------------------
(***************************************************************************)
(* The channels a user lets be commented: the requests of the user and of  *)
(* an administrator that create and change them within the limit of the    *)
(* subscription, the switch of the account they are commented with, and    *)
(* the runs that have this account join their discussions                  *)
(* (auto-comment settings and auto-comment preparation).                   *)
(*                                                                         *)
(* A run holds the account's lease by its run id; a run that starts again  *)
(* has a new token, so what it claimed before is owned by nobody.          *)
(***************************************************************************)
EXTENDS Naturals, FiniteSets

CONSTANTS Account, Channel, Target, Request, Run,
          None,                     \* none of them
          MaxLimit,                 \* bound: channels a subscription allows
          MaxChanges, MaxUpsets     \* bounds on what users and faults do

VARIABLES profile,      \* the account the profile is connected with
          enabled, limit,
          target, holder,
          member,       \* what Telegram makes of an account in a channel's discussion
          request, run,
          changes, upsets

settings == <<profile, enabled, limit>>
vars == <<profile, enabled, limit, target, holder, member, request, run, changes, upsets>>

Lost == "LOST"          \* an owner that is no run's any more

Waiting == {"QUEUED", "NEEDS_REVALIDATION", "WAITING_APPROVAL"}
Working == {"CHECKING", "JOINING"}
Status == Waiting \cup Working \cup {"READY", "FAILED_FINAL"}

\* discussion names the channel whose linked discussion was resolved.
Row == [state : {"ABSENT", "LIVE", "DELETED"}, account : Account, channel : Channel, active : BOOLEAN,
        status : Status, discussion : Channel \cup {None}, owner : Run \cup {None, Lost}]

NoRequest == [op |-> "", target |-> None, account |-> None, channel |-> None, active |-> FALSE]
NoRun == [step |-> "", account |-> None, target |-> None, channel |-> None, discussion |-> None,
          previous |-> "", current |-> "CHECKING", goal |-> ""]

TypeOK ==
    /\ profile \in Account \cup {None} /\ enabled \in BOOLEAN /\ limit \in 0..MaxLimit
    /\ target \in [Target -> Row] /\ holder \in [Account -> Run \cup {None}]
    /\ member \in [Account -> [Channel -> {"NO", "ASKED", "YES"}]]
    /\ \A q \in Request : request[q].op \in {"", "create", "update"}
    /\ \A r \in Run : run[r].step \in {"", "NEXT", "CHECK", "MOVE", "JOIN"}
    /\ changes \in 0..MaxChanges /\ upsets \in 0..MaxUpsets

Init ==
    /\ profile \in Account /\ enabled = TRUE /\ limit \in 1..MaxLimit
    /\ target \in [Target -> {[state |-> "ABSENT", account |-> a, channel |-> c, active |-> FALSE, status |-> "QUEUED",
                               discussion |-> None, owner |-> None] : a \in {profile}, c \in {CHOOSE c \in Channel : TRUE}}]
    /\ holder = [a \in Account |-> None] /\ member = [a \in Account |-> [c \in Channel |-> "NO"]]
    /\ request = [q \in Request |-> NoRequest] /\ run = [r \in Run |-> NoRun]
    /\ changes = 0 /\ upsets = 0

(* Settings. *)

Change == changes < MaxChanges /\ changes' = changes + 1
Begin(q, r) == request[q] = NoRequest /\ Change /\ request' = [request EXCEPT ![q] = r]
End(q) == request' = [request EXCEPT ![q] = NoRequest]

Live == {t \in Target : target[t].state = "LIVE"}
Active(rows) == {t \in Target : rows[t].active}

\* resolveEntitlementAccess and the count of the other active channels: the
\* look of the request before its write. The database repeats it.
HasRoom(t) == limit > 0 /\ Cardinality(Active(target) \ {t}) < limit

\* Mutation: the database leaves the count to the request.
GuardedByLimit(rows, t) == rows[t].active /\ ~target[t].active => limit > 0

\* enforce_auto_comment_channel_capacity, under a lock of the user: a row that
\* becomes active finds fewer others than the limit.
Guarded(rows, t) ==
    rows[t].active /\ ~target[t].active => limit > 0 /\ Cardinality(Active(target) \ {t}) < limit

\* The unique index of the channels of a profile.
Unique(rows) == \A t, u \in Target : rows[t].state = "LIVE" /\ rows[u].state = "LIVE" /\ rows[t].channel = rows[u].channel => t = u

\* A violated index or guard makes the request fail.
Write(rows, t) ==
    target' = IF Guarded(rows, t) /\ Unique(rows) THEN rows ELSE target

AskCreate(q, a, c) ==
    /\ HasRoom(None)
    /\ Begin(q, [NoRequest EXCEPT !.op = "create", !.account = a, !.channel = c, !.active = TRUE])
    /\ UNCHANGED <<settings, target, holder, member, run, upsets>>

\* An activation of a row seen active is not counted.
AskUpdate(q, t, c, on) ==
    /\ t \in Live
    /\ on /\ ~target[t].active => HasRoom(t)
    /\ Begin(q, [NoRequest EXCEPT !.op = "update", !.target = t, !.channel = c, !.active = on])
    /\ UNCHANGED <<settings, target, holder, member, run, upsets>>

Created(x) == [state |-> "LIVE", account |-> x.account, channel |-> x.channel, active |-> x.active,
               status |-> "QUEUED", discussion |-> None, owner |-> None]

Create(q) ==
    /\ request[q].op = "create"
    /\ \E t \in Target : /\ target[t].state = "ABSENT"
                         /\ Write([target EXCEPT ![t] = Created(request[q])], t)
    /\ End(q)
    /\ UNCHANGED <<settings, holder, member, run, changes, upsets>>

\* Mutation: what was resolved for the old channel is kept.
UpdatedKept(row, x) == [row EXCEPT !.channel = x.channel, !.active = x.active]

\* Any change starts over.
Updated(row, x) ==
    [row EXCEPT !.channel = x.channel, !.active = x.active, !.status = "QUEUED", !.discussion = None, !.owner = None]

Update(q) ==
    /\ request[q].op = "update"
    /\ IF request[q].target \in Live
         THEN Write([target EXCEPT ![request[q].target] = Updated(@, request[q])], request[q].target)
         ELSE UNCHANGED target
    /\ End(q)
    /\ UNCHANGED <<settings, holder, member, run, changes, upsets>>

\* The row is kept; work on it is not taken away.
Delete(t) ==
    /\ t \in Live /\ Change
    /\ target' = [target EXCEPT ![t].state = "DELETED", ![t].active = FALSE]
    /\ UNCHANGED <<settings, holder, member, request, run, upsets>>

SetEnabled(on) ==
    /\ on => limit > 0
    /\ on # enabled /\ Change /\ enabled' = on
    /\ UNCHANGED <<profile, limit, target, holder, member, request, run, upsets>>

\* A subscription begins, ends or is replaced.
Entitle(n) ==
    /\ n # limit /\ Change /\ limit' = n
    /\ UNCHANGED <<profile, enabled, target, holder, member, request, run, upsets>>

\* The rows of the profile, the deleted ones too, go to the account, and
\* start over; the trigger takes their work away.
Rebound(row, a) ==
    [row EXCEPT !.account = a, !.discussion = None, !.status = "NEEDS_REVALIDATION",
                !.owner = IF row.account = a THEN @ ELSE None]

Switch(a) ==
    /\ a # profile /\ Change
    /\ profile' = a
    /\ target' = [t \in Target |-> IF target[t].state = "ABSENT" THEN target[t] ELSE Rebound(target[t], a)]
    /\ holder' = [b \in Account |-> IF b \in {a, profile} THEN None ELSE holder[b]]
    /\ UNCHANGED <<enabled, limit, member, request, run, upsets>>

Detach ==
    /\ profile # None /\ Change
    /\ profile' = None /\ holder' = [holder EXCEPT ![profile] = None]
    /\ UNCHANGED <<enabled, limit, target, member, request, run, upsets>>

(* Runs. *)

Eligible(t) == target[t].active /\ target[t].account = profile /\ enabled /\ limit > 0
Listed(a) == \E t \in Target : Eligible(t) /\ target[t].account = a /\ target[t].status \in Waiting

Idle(r) == run[r] = NoRun
Holds(r) == run[r].account # None /\ holder[run[r].account] = r
Released(r) == [a \in Account |-> IF holder[a] = r THEN None ELSE holder[a]]
Forgotten(r) == [t \in Target |-> [target[t] EXCEPT !.owner = IF @ = r THEN Lost ELSE @]]

\* The run of an account, for this work or for other work.
Start(r, a) ==
    /\ Idle(r) /\ holder[a] = None
    /\ holder' = [holder EXCEPT ![a] = r]
    /\ target' = Forgotten(r)
    /\ run' = [run EXCEPT ![r] = [NoRun EXCEPT !.step = "NEXT", !.account = a]]
    /\ UNCHANGED <<settings, member, request, changes, upsets>>

\* The run is over: drained, out of budget or fenced.
Stop(r) == run' = [run EXCEPT ![r] = NoRun] /\ holder' = Released(r)

Drain(r) ==
    /\ run[r].step = "NEXT" /\ Stop(r)
    /\ UNCHANGED <<settings, target, member, request, changes, upsets>>

\* claim_next_auto_comment_preparation.
Recovered(r) ==
    [t \in Target |-> IF target[t].account = run[r].account /\ target[t].status \in Working /\ target[t].owner # r
                        THEN [target[t] EXCEPT !.status = "NEEDS_REVALIDATION", !.owner = None] ELSE target[t]]

Claim(r, t) ==
    /\ run[r].step = "NEXT" /\ Holds(r)
    /\ LET row == Recovered(r)[t]
       IN /\ row.active /\ row.account = run[r].account /\ row.status \in Waiting
          /\ target' = [Recovered(r) EXCEPT ![t].status = "CHECKING", ![t].owner = r]
          /\ run' = [run EXCEPT ![r] = [@ EXCEPT !.step = "CHECK", !.target = t, !.channel = row.channel,
                                                 !.discussion = row.discussion, !.previous = row.status]]
    /\ UNCHANGED <<settings, holder, member, request, changes, upsets>>

\* Nothing to claim: the recovery alone.
ClaimNothing(r) ==
    /\ run[r].step = "NEXT" /\ Holds(r)
    /\ target' = Recovered(r) /\ target' # target
    /\ ~\E t \in Target : target'[t].active /\ target'[t].account = run[r].account /\ target'[t].status \in Waiting
    /\ Stop(r)
    /\ UNCHANGED <<settings, member, request, changes, upsets>>

Decide(r, goal, d) == run' = [run EXCEPT ![r] = [@ EXCEPT !.step = "MOVE", !.goal = goal, !.discussion = d]]

\* The discussion asked about: the one waited for, or the channel's.
Asked(r) == IF run[r].previous = "WAITING_APPROVAL" /\ run[r].discussion # None THEN run[r].discussion ELSE run[r].channel

IsMember(r) == member[run[r].account][Asked(r)] = "YES"

Check(r) ==
    /\ run[r].step = "CHECK"
    /\ Decide(r, CASE IsMember(r) -> "READY"
                   [] run[r].previous = "WAITING_APPROVAL" -> "WAITING_APPROVAL"
                   [] OTHER -> "JOINING", Asked(r))
    /\ UNCHANGED <<settings, target, holder, member, request, changes, upsets>>

\* No discussion, or one that is no group, or an error: for good or for now.
CheckFails(r) ==
    /\ run[r].step = "CHECK"
    /\ \E goal \in {"FAILED_FINAL",
                    IF run[r].previous = "WAITING_APPROVAL" /\ run[r].discussion # None THEN "WAITING_APPROVAL" ELSE "QUEUED"} :
         Decide(r, goal, run[r].discussion)
    /\ UNCHANGED <<settings, target, holder, member, request, changes, upsets>>

Join(r) ==
    /\ run[r].step = "JOIN"
    /\ \E now \in {"YES", "ASKED"} :
         /\ member[run[r].account][run[r].discussion] = "YES" => now = "YES"
         /\ member' = [member EXCEPT ![run[r].account][run[r].discussion] = now]
         /\ Decide(r, IF now = "YES" THEN "READY" ELSE "WAITING_APPROVAL", run[r].discussion)
    /\ UNCHANGED <<settings, target, holder, request, changes, upsets>>

\* The join may have happened.
JoinFails(r) ==
    /\ run[r].step = "JOIN"
    /\ \E now \in {member[run[r].account][run[r].discussion], "YES", "ASKED"} :
         /\ member[run[r].account][run[r].discussion] = "YES" => now = "YES"
         /\ member' = [member EXCEPT ![run[r].account][run[r].discussion] = now]
    /\ \E goal \in {"FAILED_FINAL", "QUEUED"} : Decide(r, goal, run[r].discussion)
    /\ UNCHANGED <<settings, target, holder, request, changes, upsets>>

\* Mutation: the lease is looked at, not the row.
MayMoveLeased(r) == Holds(r)

\* transition_auto_comment_preparation: the lease is held, the row is the run's
\* and as the run left it.
MayMove(r) ==
    LET row == target[run[r].target]
    IN Holds(r) /\ row.account = run[r].account /\ row.owner = r /\ row.status = run[r].current

\* The row as the run has decided.
Moved(r, row) ==
    [row EXCEPT !.status = run[r].goal, !.owner = IF run[r].goal = "JOINING" THEN r ELSE None,
                !.discussion = IF run[r].discussion = None THEN @ ELSE run[r].discussion]

\* A fenced run ends, one that has to retry as well.  What a failure for good
\* does to the comments that wait for the channel is AutoComment's.
Move(r) ==
    /\ run[r].step = "MOVE"
    /\ IF MayMove(r)
         THEN /\ target' = [target EXCEPT ![run[r].target] = Moved(r, @)]
              /\ \/ /\ run[r].goal = "JOINING" /\ UNCHANGED holder
                    /\ run' = [run EXCEPT ![r] = [@ EXCEPT !.step = "JOIN", !.current = "JOINING"]]
                 \/ /\ run[r].goal \notin {"JOINING", "QUEUED"} /\ UNCHANGED holder
                    /\ run' = [run EXCEPT ![r] = [NoRun EXCEPT !.step = "NEXT", !.account = run[r].account]]
                 \/ run[r].goal = "QUEUED" /\ Stop(r)
         ELSE Stop(r) /\ UNCHANGED target
    /\ UNCHANGED <<settings, member, request, changes, upsets>>

(* Telegram and faults. *)

Approve(a, c) ==
    /\ member[a][c] = "ASKED" /\ member' = [member EXCEPT ![a][c] = "YES"]
    /\ UNCHANGED <<settings, target, holder, request, run, changes, upsets>>

\* A stalled run loses its lease and goes on.
Lapse(r) ==
    /\ Holds(r) /\ upsets < MaxUpsets /\ upsets' = upsets + 1
    /\ holder' = Released(r)
    /\ UNCHANGED <<settings, target, member, request, run, changes>>

\* An engine dies; until its lease lapses nothing happens with the account.
Crash(r) ==
    /\ ~Idle(r) /\ upsets < MaxUpsets /\ upsets' = upsets + 1
    /\ Stop(r)
    /\ UNCHANGED <<settings, target, member, request, changes>>

Step(r) == Check(r) \/ CheckFails(r) \/ Join(r) \/ JoinFails(r) \/ Move(r) \/ Drain(r) \/ ClaimNothing(r)
           \/ \E t \in Target : Claim(r, t)

Next ==
    \/ \E q \in Request : Create(q) \/ Update(q)
    \/ \E q \in Request, a \in Account, c \in Channel : AskCreate(q, a, c)
    \/ \E q \in Request, t \in Target, c \in Channel, on \in BOOLEAN : AskUpdate(q, t, c, on)
    \/ \E t \in Target : Delete(t)
    \/ \E on \in BOOLEAN : SetEnabled(on)
    \/ \E n \in 0..MaxLimit : Entitle(n)
    \/ \E a \in Account : Switch(a)
    \/ Detach
    \/ \E r \in Run, a \in Account : Start(r, a)
    \/ \E r \in Run : Step(r) \/ Lapse(r) \/ Crash(r)
    \/ \E a \in Account, c \in Channel : Approve(a, c)

Spec == Init /\ [][Next]_vars

\* A listed account is run; its run claims what is due; Telegram answers and lets
\* in now and then; runs make their steps.
Fairness ==
    /\ SF_vars(\E r \in Run, a \in Account : Listed(a) /\ Start(r, a))
    /\ \A t \in Target : SF_vars(\E r \in Run : Claim(r, t))
    /\ \A r \in Run : WF_vars(Step(r)) /\ SF_vars(Check(r)) /\ SF_vars(Join(r))

FairSpec == Spec /\ Fairness

\* A channel said to be ready is so for the account and the channel it now has:
\* this account was let into this channel's discussion, whatever was edited,
\* switched or taken over while it was prepared (auto-comment preparation).
ReadyIsCurrent ==
    \A t \in Live : target[t].status = "READY" =>
        target[t].discussion = target[t].channel /\ member[target[t].account][target[t].channel] = "YES"

\* However requests of the user and the administrator overlap, the channel that
\* becomes active is within the limit there is then ("Database-level admission
\* control closes concurrent target-creation races", 20260828100000:1).
WithinLimit == (\E t \in Target : target'[t].active /\ ~target[t].active) => Cardinality(Active(target')) <= limit
QuotaHolds == [][WithinLimit]_vars

\* An interrupted preparation, its run gone.
Stranded(t) == target[t].status \in Working /\ ~\E r \in Run : run[r].target = t /\ target[t].owner = r /\ Holds(r)

\* A channel of a running service that is to be prepared, and one whose approval
\* was given, comes to be ready or to be given up, or its preparation is
\* interrupted (list_broadcast_runtime_accounts, claim, transition).
Let(t) == member[target[t].account][target[t].channel] = "YES"
ToDo(t) == Eligible(t) /\ (target[t].status \in {"QUEUED", "NEEDS_REVALIDATION"} \/ (target[t].status = "WAITING_APPROVAL" /\ Let(t)))
DueIsPrepared ==
    \A t \in Target : ToDo(t) ~> (~Eligible(t) \/ target[t].status \in {"READY", "FAILED_FINAL"}
                                  \/ (target[t].status = "WAITING_APPROVAL" /\ ~Let(t)) \/ Stranded(t))

(* Refuted: see README. *)

\* An interrupted preparation is taken up again.
InterruptedIsResumed == \A t \in Target : (Eligible(t) /\ Stranded(t)) ~> (~Eligible(t) \/ ~Stranded(t))

\* An active channel of a running service does get prepared.
ActiveIsPrepared ==
    \A t \in Target : (target[t].active /\ target[t].status = "QUEUED" /\ enabled /\ limit > 0 /\ profile # None)
                        ~> ~(target[t].active /\ target[t].status = "QUEUED" /\ enabled /\ limit > 0 /\ profile # None)

\* The account only asks to join for a channel the user wants commented.
JoinIsWanted == [][\A r \in Run : run[r].step = "JOIN" /\ member' # member /\ run'[r].step = "MOVE" => Eligible(run[r].target)]_vars
==============================================================================
