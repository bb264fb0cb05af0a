--------------------------- MODULE CentralMonitor ---------------------------
(***************************************************************************)
(* The central monitor: one MONITOR account listens to a source channel    *)
(* for every division that follows it.  A session prepares the channel,    *)
(* reads its history from the checkpoint, recovers pending events and then *)
(* takes live posts, while divisions come, go and come back, calls fail,   *)
(* leases lapse and sessions die.                                          *)
(*                                                                         *)
(* One channel.  A session is three concurrent tasks: "first" (run: the    *)
(* first refresh), "later" (refreshTail: the refreshes after it, in a row, *)
(* though not in a row with the first) and "drain" (live posts).  Each     *)
(* call to the database or Telegram is one step; none of it is fenced, so  *)
(* sessions may overlap.                                                   *)
(***************************************************************************)
EXTENDS Integers, FiniteSetsExt

CONSTANTS Session,    \* sessions, of one process or of several
          NoSession,  \* nobody has the lease of the account
          Division,   \* divisions, each with a target of its own
          MaxPost,    \* bound: posts of the channel
          MaxUpsets,  \* bound: failed calls, ended sessions, switches off; an edit is two
          Budget      \* bound: on both together, where a post, too, is two

VARIABLES top, hits,   \* newest post of the channel, divisions whose keywords it has
          conf,        \* what the divisions' configuration amounts to
          since,       \* newest post before the last activation of its target
          start,       \* central_monitor_start_post_id, 0 for null
          lastPost,    \* last_post_id of the source, 0 for null
          ev,          \* auto_comment_monitor_events; EMPTY: pending, content erased
          cand,        \* candidates created: pairs of a post and a division
          owner,       \* holder of the account's lease
          pc,          \* where each refresh of a session is
          found,       \* what it has loaded of the source: checkpoint and rules
          plan,        \* posts it has listed, with the divisions they are for
          watched,     \* the source is in sourcesById and sourcesByPeer
          rules,       \* as it is there: a division takes posts newer than this
          dirty,       \* a configurationChanged is to run, now or after its timer
          queue,       \* live posts accepted, taken in order
          heard,       \* newest update the client has delivered
          job,         \* the event each task is processing; begun: not its first call
          upsets,      \* bounded by MaxUpsets
          bound        \* history: what since was when a session began, or a division
                       \* was new

channelVars == <<top, hits>>
configVars == <<conf, since, bound>>
sourceVars == <<lastPost, start>>
refreshVars == <<pc, found, plan>>
mapVars == <<watched, rules>>
liveVars == <<queue, heard>>
sessionVars == <<owner, refreshVars, mapVars, dirty, liveVars, job>>
vars == <<channelVars, configVars, sourceVars, ev, cand, sessionVars, upsets>>

Post == 1..MaxPost
Refresher == {"first", "later"}
Task == Refresher \cup {"drain"}
Idle == [post |-> 0, todo |-> {}, begun |-> FALSE]
NoRules == [d \in Division |-> MaxPost]
Nothing == [mark |-> 0, rules |-> NoRules]
Posted == 1..top
Latest == top  \* 0 for null

TypeOK ==
    /\ top \in 0..MaxPost /\ hits \in [Post -> SUBSET Division]
    /\ conf \in [Division -> {"NONE", "PREPARING", "READY", "OFF", "PAUSED"}]
    /\ since \in [Division -> 0..MaxPost] /\ start \in [Division -> 0..MaxPost]
    /\ lastPost \in 0..top
    /\ ev \in [Post -> {"ABSENT", "PENDING", "EMPTY", "PROCESSED"}]
    /\ cand \subseteq Post \X Division
    /\ owner \in Session \cup {NoSession}
    /\ pc \in [Session -> [Refresher ->
                  {"OFF", "REFRESH", "PREPARE", "HISTORY", "BACKFILL", "INGEST", "RECOVER"}]]
    /\ found \in [Session -> [Refresher ->
                     [mark : 0..MaxPost, rules : [Division -> 0..MaxPost]]]]
    /\ plan \in [Session -> [Refresher -> SUBSET (Post \X SUBSET Division)]]
    /\ watched \in [Session -> BOOLEAN]
    /\ rules \in [Session -> [Division -> 0..MaxPost]]
    /\ dirty \in [Session -> BOOLEAN] /\ queue \in [Session -> SUBSET Post]
    /\ heard \in [Session -> 0..MaxPost]
    /\ job \in [Session -> [Task ->
                     [post : 0..MaxPost, todo : SUBSET Division, begun : BOOLEAN]]]
    /\ bound \in [Session -> [Division -> 0..MaxPost]]
    /\ upsets \in 0..MaxUpsets

Init ==
    /\ top = 0 /\ hits = [p \in Post |-> {}]
    /\ bound = [s \in Session |-> [d \in Division |-> 0]]
    /\ conf = [d \in Division |-> "NONE"]
    /\ since = [d \in Division |-> 0] /\ start = [d \in Division |-> 0]
    /\ lastPost = 0 /\ ev = [p \in Post |-> "ABSENT"] /\ cand = {}
    /\ owner = NoSession
    /\ pc = [s \in Session |-> [t \in Refresher |-> "OFF"]]
    /\ found = [s \in Session |-> [t \in Refresher |-> Nothing]]
    /\ plan = [s \in Session |-> [t \in Refresher |-> {}]]
    /\ watched = [s \in Session |-> FALSE] /\ rules = [s \in Session |-> NoRules]
    /\ dirty = [s \in Session |-> FALSE] /\ queue = [s \in Session |-> {}]
    /\ heard = [s \in Session |-> 0]
    /\ job = [s \in Session |-> [k \in Task |-> Idle]]
    /\ upsets = 0

Upsets(n) ==
    /\ upsets + n <= MaxUpsets /\ 2 * top + upsets + n <= Budget
    /\ upsets' = upsets + n

Upset == Upsets(1)

Running(s) == pc[s]["first"] # "OFF"
Goto(s, t, l) == pc' = [pc EXCEPT ![s][t] = l]
At(s, t, l) == pc[s][t] = l /\ job[s][t] = Idle
AtEnd(s, t, l) == At(s, t, l) /\ plan[s][t] = {}
Dirty(s) == dirty' = [dirty EXCEPT ![s] = TRUE]

-----------------------------------------------------------------------------
(* The channel and its buyers. *)

NewPost ==
    /\ top < MaxPost /\ 2 * top + upsets + 2 <= Budget
    /\ top' = top + 1
    /\ \E D \in SUBSET Division : hits' = [hits EXCEPT ![top'] = D]
    /\ UNCHANGED <<configVars, sourceVars, ev, cand, sessionVars, upsets>>

\* notify_auto_comment_monitor_config reaches the sessions connected, or gets lost.
Notified ==
    \/ dirty' = [s \in Session |-> dirty[s] \/ Running(s)]
    \/ UNCHANGED dirty

\* The target's triggers: activating it moves its activation to now, where posts of the
\* last two seconds still count as newer; naming its source, which every edit does,
\* moves its start to the checkpoint.
Activate(d) ==
    /\ \E b \in Max({since[d], top - 1})..top : since' = [since EXCEPT ![d] = b]
    /\ start' = [start EXCEPT ![d] = lastPost]

Configured(d, c) ==
    /\ conf' = [conf EXCEPT ![d] = c]
    /\ Notified
    /\ UNCHANGED <<channelVars, lastPost, ev, cand, owner, refreshVars, mapVars, liveVars, job>>

\* A target of a division is added.
Subscribe(d) ==
    /\ conf[d] = "NONE"
    /\ Activate(d)
    /\ bound' = [s \in Session |-> [bound[s] EXCEPT ![d] = since'[d]]]
    /\ Configured(d, "PREPARING")
    /\ UNCHANGED upsets

\* It is paused, deleted or moved to another channel.
Pause(d) ==
    /\ conf[d] \in {"PREPARING", "READY"} /\ Upsets(2)
    /\ start' = [start EXCEPT ![d] = lastPost]
    /\ Configured(d, "PAUSED")
    /\ UNCHANGED <<since, bound>>

\* It is activated again, or moved back.
Resume(d) ==
    /\ conf[d] = "PAUSED"
    /\ Activate(d)
    /\ Configured(d, "PREPARING")
    /\ UNCHANGED <<bound, upsets>>

\* It is edited and stays active, or is moved to another account of its user, which
\* leaves its start: its discussion is to be prepared again.
Edit(d) ==
    /\ conf[d] = "READY" /\ Upsets(2)
    /\ start' \in {start, [start EXCEPT ![d] = lastPost]}
    /\ Configured(d, "PREPARING")
    /\ UNCHANGED <<since, bound>>

\* Its discussion becomes READY, or the service is switched on again.
BecomesReady(d) ==
    /\ conf[d] \in {"PREPARING", "OFF"}
    /\ conf' = [conf EXCEPT ![d] = "READY"]
    /\ Notified
    /\ UNCHANGED <<channelVars, since, bound, sourceVars, ev, cand, owner, refreshVars, mapVars,
                   liveVars, job, upsets>>

\* The service is switched off, the profile disconnected, the entitlement expired.
SwitchOff(d) ==
    /\ conf[d] = "READY" /\ Upset
    /\ Configured(d, "OFF")
    /\ UNCHANGED <<since, bound, start>>

-----------------------------------------------------------------------------
(* The source's row and the inbox. *)

\* advanceCheckpoint: targets without a start get the post at hand.
Advance(p) ==
    /\ lastPost' = Max({lastPost, p})
    /\ start' = [d \in Division |->
          IF conf[d] # "NONE" /\ start[d] = 0 THEN p ELSE start[d]]

\* completeEvent
Complete(p) == ev' = [ev EXCEPT ![p] = "PROCESSED"] /\ Advance(p)

\* finishEvent with an error, which does not bring erased content back.
Unfinish(p) == ev' = [ev EXCEPT ![p] =
    IF @ \in {"PROCESSED", "EMPTY"} THEN "EMPTY" ELSE "PENDING"]

-----------------------------------------------------------------------------
(* A session's tasks. *)

\* Mutation: the activation does not count.
LoadedRulesStarted == [d \in Division |-> IF conf[d] = "READY" THEN start[d] ELSE MaxPost]

\* loadSources: a division takes posts newer than its start and its activation.
LoadedRules ==
    [d \in Division |->
        IF conf[d] = "READY" THEN Max({start[d], since[d]}) ELSE MaxPost]

Listed == \E d \in Division : conf[d] \in {"PREPARING", "READY"}

\* matchingDivisions, for a post whose content is there.
Matching(p, R) == {d \in hits[p] : p > R[d]}

\* processEvent's catch: the event is put back, if that works, and a refresh is
\* scheduled.
Fail(s, k) ==
    /\ job' = [job EXCEPT ![s][k] = Idle]
    /\ Unfinish(job[s][k].post) \/ UNCHANGED ev
    /\ Dirty(s)
    /\ UNCHANGED <<sourceVars, cand>>

\* create_auto_comment_candidate for one matching division, in force or already done.
CreateCandidate(s, k) ==
    LET p == job[s][k].post IN
    /\ \E d \in job[s][k].todo :
          /\ conf[d] = "READY" \/ <<p, d>> \in cand
          /\ cand' = cand \cup {<<p, d>>}
          /\ job' = [job EXCEPT ![s][k] = [post |-> p, todo |-> @.todo \ {d}, begun |-> TRUE]]
    /\ UNCHANGED <<channelVars, configVars, sourceVars, ev, owner, refreshVars, mapVars,
                   dirty, liveVars, upsets>>

\* AUTOMATION_CONFIGURATION_STALE
CandidateRefused(s, k) ==
    /\ \E d \in job[s][k].todo : conf[d] # "READY" /\ <<job[s][k].post, d>> \notin cand
    /\ Fail(s, k)
    /\ UNCHANGED <<channelVars, configVars, owner, refreshVars, mapVars, liveVars, upsets>>

FinishJob(s, k) ==
    /\ job[s][k] # Idle /\ job[s][k].todo = {}
    /\ Complete(job[s][k].post)
    /\ job' = [job EXCEPT ![s][k] = Idle]
    /\ UNCHANGED <<channelVars, configVars, cand, owner, refreshVars, mapVars, dirty,
                   liveVars, upsets>>

\* Just before its first call processEvent looks the source up.  If a refresh has dropped
\* it since the post was accepted, the event is completed as it is.
SourceGone(s, k) == job[s][k] # Idle /\ ~job[s][k].begun /\ ~watched[s]

Abandon(s, k) ==
    /\ SourceGone(s, k)
    /\ Complete(job[s][k].post)
    /\ job' = [job EXCEPT ![s][k] = Idle]
    /\ UNCHANGED <<channelVars, configVars, cand, owner, refreshVars, mapVars, dirty,
                   liveVars, upsets>>

Process(s, k) ==
    Abandon(s, k) \/ CreateCandidate(s, k) \/ CandidateRefused(s, k) \/ FinishJob(s, k)

\* A call of processEvent throws, a completion possibly after it was applied.
JobFails(s, k) ==
    /\ job[s][k] # Idle /\ Upset
    /\ \/ Fail(s, k)
       \/ /\ job[s][k].todo = {}
          /\ \E e \in {"EMPTY", "PROCESSED"} : ev' = [ev EXCEPT ![job[s][k].post] = e]
          /\ Advance(job[s][k].post)
          /\ job' = [job EXCEPT ![s][k] = Idle]
          /\ Dirty(s)
          /\ UNCHANGED cand
    /\ UNCHANGED <<channelVars, configVars, owner, refreshVars, mapVars, liveVars>>

\* That completion throws, applied or not, and whoever took the post in catches it: the
\* queue takes a live one back, a refresh ends what it is at and another is scheduled.
AbandonFails(s, k) ==
    /\ SourceGone(s, k) /\ Upset
    /\ Complete(job[s][k].post) \/ UNCHANGED <<ev, sourceVars>>
    /\ job' = [job EXCEPT ![s][k] = Idle]
    /\ IF k = "drain"
         THEN /\ queue' = [queue EXCEPT ![s] = @ \cup {job[s][k].post}]
              /\ UNCHANGED <<plan, dirty>>
         ELSE plan' = [plan EXCEPT ![s][k] = {}] /\ Dirty(s) /\ UNCHANGED queue
    /\ UNCHANGED <<channelVars, configVars, cand, owner, pc, found, mapVars, heard>>

Enqueue(p) == ev' = [ev EXCEPT ![p] = "PENDING"]

\* ingest: without a match, or when its row is there already, only the checkpoint
\* moves; otherwise the post becomes an event and is processed.
Ingest(s, k, p, D) ==
    IF D # {} /\ ev[p] = "ABSENT"
    THEN /\ Enqueue(p)
         /\ job' = [job EXCEPT ![s][k] = [post |-> p, todo |-> D, begun |-> FALSE]]
         /\ UNCHANGED sourceVars
    ELSE Advance(p) /\ UNCHANGED <<ev, job>>

-----------------------------------------------------------------------------
(* Live posts. *)

\* acceptPost passes over a channel that is not watched.
Accepted(s, p) == IF watched[s] THEN {p} ELSE {}

\* Updates arrive in order, however late.
Deliver(s) ==
    /\ Running(s) /\ heard[s] < top
    /\ heard' = [heard EXCEPT ![s] = @ + 1]
    /\ queue' = [queue EXCEPT ![s] = @ \cup Accepted(s, heard'[s])]
    /\ UNCHANGED <<channelVars, configVars, sourceVars, ev, cand, owner, refreshVars,
                   mapVars, dirty, job, upsets>>

TakeLive(s) ==
    /\ queue[s] # {} /\ job[s]["drain"] = Idle
    /\ LET p == Min(queue[s]) IN
       /\ queue' = [queue EXCEPT ![s] = @ \ {p}]
       /\ IF watched[s] THEN Ingest(s, "drain", p, Matching(p, rules[s]))
          ELSE UNCHANGED <<ev, sourceVars, job>>
    /\ UNCHANGED <<channelVars, configVars, cand, owner, refreshVars, mapVars, dirty,
                   heard, upsets>>

\* A post whose call throws goes back to the queue; its event may be there by then.
LiveFails(s) ==
    /\ queue[s] # {} /\ job[s]["drain"] = Idle /\ watched[s] /\ Upset
    /\ LET p == Min(queue[s]) IN
       Matching(p, rules[s]) # {} /\ ev[p] = "ABSENT" /\ Enqueue(p)
    /\ UNCHANGED <<channelVars, configVars, sourceVars, cand, sessionVars>>

-----------------------------------------------------------------------------
(* Refreshes: prepare the source, read its history, recover pending events. *)

Start(s) ==
    /\ ~Running(s) /\ owner = NoSession
    /\ owner' = s
    /\ pc' = [pc EXCEPT ![s] = [first |-> "REFRESH", later |-> "RECOVER"]]
    /\ heard' = [heard EXCEPT ![s] = top]
    /\ bound' = [bound EXCEPT ![s] = since]
    /\ UNCHANGED <<channelVars, conf, since, sourceVars, ev, cand, found, plan, mapVars,
                   dirty, queue, job, upsets>>

\* Mutation: what a failed call has scheduled never comes.
RefreshNotRetried(s, t) == At(s, t, "REFRESH") /\ UNCHANGED dirty

\* The session's first refresh, or one a change or a timer has asked for.
RefreshAsked(s, t) ==
    \/ At(s, t, "REFRESH") /\ UNCHANGED dirty
    \/ /\ t = "later" /\ AtEnd(s, t, "RECOVER") /\ dirty[s]
       /\ dirty' = [dirty EXCEPT ![s] = FALSE]

\* refreshSources: the source is dropped, updated, or still to be prepared.
Refresh(s, t) ==
    /\ RefreshAsked(s, t)
    /\ watched' = [watched EXCEPT ![s] = @ /\ Listed]
    /\ rules' = [rules EXCEPT ![s] = IF watched'[s] THEN LoadedRules ELSE NoRules]
    /\ IF Listed /\ ~watched[s]
         THEN /\ Goto(s, t, "PREPARE")
              /\ found' = [found EXCEPT ![s][t] = [mark |-> lastPost, rules |-> LoadedRules]]
         ELSE Goto(s, t, "INGEST") /\ UNCHANGED found
    /\ UNCHANGED <<channelVars, configVars, sourceVars, ev, cand, owner, plan, liveVars,
                   job, upsets>>

\* The source is joined, and known from here on; if it was never read before, its
\* recent posts are, otherwise those after its checkpoint.
Prepare(s, t) ==
    /\ At(s, t, "PREPARE")
    /\ watched' = [watched EXCEPT ![s] = TRUE]
    /\ rules' = [rules EXCEPT ![s] = found[s][t].rules]
    /\ IF found[s][t].mark = 0
         THEN /\ found' = [found EXCEPT ![s][t] = [mark |-> Latest, rules |-> @.rules]]
              /\ Goto(s, t, IF Latest = 0 THEN "INGEST" ELSE "HISTORY")
         ELSE Goto(s, t, "BACKFILL") /\ UNCHANGED found
    /\ UNCHANGED <<channelVars, configVars, sourceVars, ev, cand, owner, plan, dirty,
                   liveVars, job, upsets>>

PlanOf(s, t, P) == plan' = [plan EXCEPT ![s][t] =
    {<<p, Matching(p, found[s][t].rules)>> : p \in P}]

\* Recent posts some division accepts by their time; if none, the checkpoint moves
\* to the newest post as it was prepared.
ListHistory(s, t) ==
    /\ At(s, t, "HISTORY")
    /\ LET window == {p \in Posted : \E d \in Division : p > found[s][t].rules[d]} IN
       /\ PlanOf(s, t, window)
       /\ IF window = {} THEN Advance(found[s][t].mark) ELSE UNCHANGED sourceVars
    /\ found' = [found EXCEPT ![s][t] = Nothing]
    /\ Goto(s, t, "INGEST")
    /\ UNCHANGED <<channelVars, configVars, ev, cand, owner, mapVars, dirty, liveVars,
                   job, upsets>>

ListBackfill(s, t) ==
    /\ At(s, t, "BACKFILL")
    /\ PlanOf(s, t, {p \in Posted : p > found[s][t].mark})
    /\ found' = [found EXCEPT ![s][t] = Nothing]
    /\ Goto(s, t, "INGEST")
    /\ UNCHANGED <<channelVars, configVars, sourceVars, ev, cand, owner, mapVars, dirty,
                   liveVars, job, upsets>>

First(P) == CHOOSE x \in P : \A y \in P : x[1] <= y[1]

TakePlanned(s, t) ==
    /\ At(s, t, "INGEST") /\ plan[s][t] # {}
    /\ LET x == First(plan[s][t]) IN
       /\ plan' = [plan EXCEPT ![s][t] = @ \ {x}]
       /\ Ingest(s, t, x[1], x[2])
    /\ UNCHANGED <<channelVars, configVars, cand, owner, pc, found, mapVars, dirty,
                   liveVars, upsets>>

\* prepareSource's catch: a refresh is scheduled, unless Telegram has refused for good; it
\* does not prepare the source again when it is known by then.  An event may have been
\* added by the call.
PreparationFails(s, t) ==
    /\ \/ (\E l \in {"PREPARE", "HISTORY", "BACKFILL"} : At(s, t, l)) /\ UNCHANGED dirty
       \/ (\E l \in {"PREPARE", "HISTORY", "BACKFILL"} : At(s, t, l)) /\ Dirty(s)
       \/ At(s, t, "INGEST") /\ plan[s][t] # {} /\ Dirty(s)
    /\ Upset
    /\ \/ UNCHANGED ev
       \/ /\ plan[s][t] # {}
          /\ LET x == First(plan[s][t]) IN x[2] # {} /\ ev[x[1]] = "ABSENT" /\ Enqueue(x[1])
    /\ plan' = [plan EXCEPT ![s][t] = {}]
    /\ found' = [found EXCEPT ![s][t] = Nothing]
    /\ Goto(s, t, "INGEST")
    /\ UNCHANGED <<channelVars, configVars, sourceVars, cand, owner, mapVars, liveVars, job>>

Pending(p) == ev[p] \in {"PENDING", "EMPTY"}

ListPending(s, t) ==
    /\ AtEnd(s, t, "INGEST")
    /\ plan' = [plan EXCEPT ![s][t] =
          {<<p, IF ev[p] = "PENDING" THEN Division ELSE {}>> : p \in {q \in Post : Pending(q)}}]
    /\ found' = [found EXCEPT ![s][t] = Nothing]
    /\ Goto(s, t, "RECOVER")
    /\ UNCHANGED <<channelVars, configVars, sourceVars, ev, cand, owner, mapVars, dirty,
                   liveVars, job, upsets>>

\* An event of a source that is not known is completed as it is.
Recover(s, t) ==
    /\ At(s, t, "RECOVER")
    /\ \E x \in plan[s][t] :
          /\ plan' = [plan EXCEPT ![s][t] = @ \ {x}]
          /\ IF watched[s]
               THEN /\ job' = [job EXCEPT ![s][t] =
                          [post |-> x[1], todo |-> x[2] \cap Matching(x[1], rules[s]), begun |-> FALSE]]
                    /\ UNCHANGED <<ev, sourceVars>>
               ELSE Complete(x[1]) /\ UNCHANGED job
    /\ UNCHANGED <<channelVars, configVars, cand, owner, pc, found, mapVars, dirty,
                   liveVars, upsets>>

\* A later refresh throws: it is tried again.  The first one ends the session (End).
RefreshFails(s) ==
    /\ \/ AtEnd(s, "later", "INGEST")
       \/ At(s, "later", "RECOVER") /\ plan[s]["later"] # {}
    /\ Upset
    /\ Goto(s, "later", "RECOVER")
    /\ plan' = [plan EXCEPT ![s]["later"] = {}]
    /\ found' = [found EXCEPT ![s]["later"] = Nothing]
    /\ Dirty(s)
    /\ UNCHANGED <<channelVars, configVars, sourceVars, ev, cand, owner, mapVars, liveVars,
                   job>>

\* The session stops, fails or dies with its process, wherever its tasks are.
End(s) ==
    /\ Running(s) /\ Upset
    /\ pc' = [pc EXCEPT ![s] = [t \in Refresher |-> "OFF"]]
    /\ found' = [found EXCEPT ![s] = [t \in Refresher |-> Nothing]]
    /\ plan' = [plan EXCEPT ![s] = [t \in Refresher |-> {}]]
    /\ watched' = [watched EXCEPT ![s] = FALSE]
    /\ rules' = [rules EXCEPT ![s] = NoRules]
    /\ dirty' = [dirty EXCEPT ![s] = FALSE]
    /\ queue' = [queue EXCEPT ![s] = {}]
    /\ heard' = [heard EXCEPT ![s] = 0]
    /\ job' = [job EXCEPT ![s] = [k \in Task |-> Idle]]
    /\ (owner = s /\ owner' = NoSession) \/ UNCHANGED owner
    /\ UNCHANGED <<channelVars, configVars, sourceVars, ev, cand>>

\* The lease runs out: its session died, stalls, or has already let it go while a
\* task of it is still under way.  Only where another can start with it.
Lapse ==
    /\ owner # NoSession /\ \E s \in Session : ~Running(s)
    /\ owner' = NoSession
    /\ UNCHANGED <<channelVars, configVars, sourceVars, ev, cand, refreshVars, mapVars,
                   dirty, liveVars, job, upsets>>

Step(s, t) ==
    \/ Refresh(s, t) \/ Prepare(s, t) \/ ListHistory(s, t) \/ ListBackfill(s, t)
    \/ TakePlanned(s, t) \/ ListPending(s, t) \/ Recover(s, t)

Next ==
    \/ NewPost \/ Lapse
    \/ \E d \in Division :
          Subscribe(d) \/ BecomesReady(d) \/ SwitchOff(d) \/ Pause(d) \/ Resume(d) \/ Edit(d)
    \/ \E s \in Session :
          \/ Start(s) \/ Deliver(s) \/ TakeLive(s) \/ LiveFails(s)
          \/ RefreshFails(s) \/ End(s)
          \/ \E t \in Refresher : Step(s, t) \/ PreparationFails(s, t)
          \/ \E k \in Task : Process(s, k) \/ JobFails(s, k) \/ AbandonFails(s, k)

Spec == Init /\ [][Next]_vars

\* Tasks go on; the lease of a session that is gone runs out, and somebody starts a
\* session when it is free.
Fairness ==
    /\ WF_vars((Lapse /\ ~Running(owner)) \/ \E s \in Session : Start(s))
    /\ \A s \in Session :
          /\ \A t \in Refresher : WF_vars(Step(s, t) \/ Process(s, t))
          /\ WF_vars(Process(s, "drain"))

FairSpec == Spec /\ Fairness

-----------------------------------------------------------------------------
(* Properties. *)

\* The checkpoint never goes back, in whatever order two tasks or two sessions
\* handle old and new posts: a restart never reads again what was left behind.
CheckpointAdvances == [][lastPost' >= lastPost]_vars

\* The divisions a session may answer a post for: it hits them and is not older than
\* their activation, as it was when the session began, but for the last two seconds.
Wanted(s, p) == {d \in hits[p] : conf[d] # "NONE" /\ p > bound[s][d]}

\* Whatever path a post takes (history, backfill, live, recovery), and in whatever order
\* old and new ones come, a session makes an event or a candidate only of one that a
\* division has asked it for: nothing from before the last activation is replayed.
OnlyWanted ==
    [][/\ \A p \in Post : ev[p] = "ABSENT" /\ ev'[p] # "ABSENT" =>
             \E s \in Session : Running(s) /\ Wanted(s, p) # {}
       /\ \A x \in cand' \ cand :
             \E s \in Session : Running(s) /\ x[2] \in Wanted(s, x[1])]_vars

\* 20260910160000_automation_lifecycle_guards.sql:47: posts are recovered "without
\* replaying older channel history", whichever rules a session has loaded: a candidate is
\* not older than the activation in force.
NoReplay == [][\A x \in cand' \ cand : x[1] > since[x[2]]]_vars

\* Somebody is to look at an event: it is being processed, a refresh is under way or
\* scheduled, or no session runs and the next one starts with a refresh.
Attended(p) ==
    \/ \A s \in Session : ~Running(s)
    \/ \E s \in Session :
          \/ dirty[s]
          \/ \E k \in Task : job[s][k].post = p
          \/ \E t \in Refresher :
                \/ pc[s][t] \notin {"OFF", "RECOVER"}
                \/ \E x \in plan[s][t] : x[1] = p

\* An event somebody is to look at does not stay in the inbox, whatever fails or
\* dies on the way.
PendingIsProcessed == \A p \in Post : Pending(p) /\ Attended(p) ~> ev[p] = "PROCESSED"

\* The inbox is durable (20260910120000_centralized_auto_comment_monitoring.sql:397):
\* no event is left behind in it while a session runs.
PendingIsAttended == \A p \in Post : Pending(p) => Attended(p)

\* The posts the configuration in force asks for.
Due == {x \in Posted \X Division : x[2] \in Matching(x[1], LoadedRules)}

\* An event taken out of the inbox has its candidates.
ProcessedIsAnswered == \A x \in Due : ev[x[1]] = "PROCESSED" => x \in cand

\* 20260910160000_automation_lifecycle_guards.sql:47: posts that arrive while the
\* source is prepared are recovered: the checkpoint passes no post a division asks for,
\* unless a session still has it at hand.
NothingPassedOver ==
    \A x \in Due : x[1] <= lastPost => ev[x[1]] # "ABSENT" \/
        \E s \in Session :
            \/ \E t \in Refresher :
                  pc[s][t] \in {"REFRESH", "PREPARE", "HISTORY", "BACKFILL", "INGEST"}
            \/ x[1] \in queue[s]
            \/ x[1] > heard[s] /\ watched[s]
=============================================================================
