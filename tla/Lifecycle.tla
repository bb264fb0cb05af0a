----------------------------- MODULE Lifecycle -----------------------------
(***************************************************************************)
(* A production process, the engine's or the API's: its parts are started  *)
(* one after the other, a part that fails to start takes back those before *)
(* it, signals and fatal errors drain it, the readiness probe watches the  *)
(* database meanwhile.                                                     *)
(*                                                                         *)
(* A part that works does so in tasks that use the database: the runs of   *)
(* the supervisor, the ticks of a scheduler, requests, probes.  The        *)
(* central monitor has two more: the live posts of a session, which nobody *)
(* waits for, and a session its stop came too early to end.                *)
(***************************************************************************)
EXTENDS Naturals, Sequences, SequencesExt

CONSTANT Threshold     \* probes failing in a row before the process is not ready

ASSUME ThresholdAssumption == Threshold \in Nat \ {0}

VARIABLES program,     \* "ENGINE" or "API"
          state,       \* of the application
          started,     \* how many parts have been started
          part,        \* state of each part
          task,        \* tasks under way, each under the name of its part, and the
                       \* two of the central monitor
          ready, failures,
          handlers,    \* signals and fatal errors are handled
          code,        \* the exit code
          wrong,       \* what has gone wrong so far
          alive

progVars == <<program, handlers, code, wrong, alive>>
probeVars == <<ready, failures>>
vars == <<program, state, started, part, task, ready, failures, handlers, code, wrong, alive>>

EngineStart == <<"database", "supervisor", "centralMonitor", "campaigns", "retention",
                 "expiry", "health", "probe">>

\* Mutation: a scheduler is forgotten.
EngineStopShort == <<"probe", "expiry", "retention", "centralMonitor", "supervisor",
                     "database", "health">>

EngineStop == <<"probe", "expiry", "retention", "campaigns", "centralMonitor", "supervisor",
                "database", "health">>

ApiStart == <<"database", "http", "probe">>
ApiStop == <<"probe", "http", "database">>

StartOrder == IF program = "ENGINE" THEN EngineStart ELSE ApiStart
StopOrder == IF program = "ENGINE" THEN EngineStop ELSE ApiStop

Part == ToSet(EngineStart) \cup ToSet(ApiStart)
Worker == Part \ {"database", "health"}
Task == Worker \cup {"livePosts", "lateSession"}
Gone == {"DOWN", "BROKEN", "CUT"}

TypeOK ==
    /\ program \in {"ENGINE", "API"}
    /\ state \in {"STARTING", "FAILED", "RUNNING", "STOPPING", "STOPPED"}
    /\ started \in 0..Len(EngineStart)
    /\ part \in [Part -> {"UP", "STOPPING"} \cup Gone]
    /\ task \subseteq Task
    /\ ready \in BOOLEAN /\ failures \in 0..Threshold
    /\ handlers \in BOOLEAN /\ code \in {0, 1} /\ alive \in BOOLEAN
    /\ wrong \subseteq {"START", "FATAL", "CLEANUP"}

Init ==
    /\ program \in {"ENGINE", "API"}
    /\ state = "STARTING" /\ started = 0
    /\ part = [c \in Part |-> "DOWN"] /\ task = {}
    /\ ready = FALSE /\ failures = 0
    /\ handlers = FALSE /\ code = 0 /\ wrong = {} /\ alive = TRUE

-----------------------------------------------------------------------------
(* Starting. *)

Start ==
    /\ alive /\ state = "STARTING" /\ started < Len(StartOrder)
    /\ started' = started + 1
    /\ part' = [part EXCEPT ![StartOrder[started + 1]] = "UP"]
    /\ UNCHANGED <<state, task, probeVars, progVars>>

\* The part cleans up after itself; what was up before it is stopped again.
StartFails ==
    /\ alive /\ state = "STARTING" /\ started < Len(StartOrder)
    /\ state' = "FAILED" /\ code' = 1 /\ wrong' = wrong \cup {"START"}
    /\ UNCHANGED <<program, started, part, task, probeVars, handlers, alive>>

\* Everything is up: ready, and the process handlers are installed.
Run ==
    /\ alive /\ state = "STARTING" /\ started = Len(StartOrder)
    /\ state' = "RUNNING" /\ ready' = TRUE /\ handlers' = TRUE
    /\ UNCHANGED <<program, started, part, task, failures, code, wrong, alive>>

\* The handlers cannot be installed: the application is stopped again.
InstallFails ==
    /\ alive /\ state = "STARTING" /\ started = Len(StartOrder)
    /\ state' = "STOPPING" /\ code' = 1 /\ wrong' = wrong \cup {"START"}
    /\ UNCHANGED <<program, started, part, task, probeVars, handlers, alive>>

-----------------------------------------------------------------------------
(* Tasks and the readiness probe. *)

WorkBegins(c) ==
    /\ alive /\ part[c] = "UP" /\ c \notin task
    /\ c = "probe" => state = "RUNNING"
    /\ task' = task \cup {c}
    /\ UNCHANGED <<state, started, part, probeVars, progVars>>

\* A session of the central monitor receives posts; its loop over them is not awaited.
PostsArrive ==
    /\ alive /\ "livePosts" \notin task
    /\ \/ "centralMonitor" \in task /\ part["centralMonitor"] = "UP"
       \/ "lateSession" \in task
    /\ task' = task \cup {"livePosts"}
    /\ UNCHANGED <<state, started, part, probeVars, progVars>>

\* A task that fails ends as well, and its part goes on.
WorkEnds(t) ==
    /\ alive /\ t \in task /\ t # "probe"
    /\ task' = task \ {t}
    /\ UNCHANGED <<state, started, part, probeVars, progVars>>

\* Mutation: the state is not looked at again after the answer.
Unasked == TRUE

StillWanted == state = "RUNNING"

\* The database has answered in time, or has not.
ProbeAnswers ==
    /\ failures' = IF StillWanted THEN 0 ELSE failures
    /\ ready' = (StillWanted \/ ready)

ProbeFails ==
    /\ failures' = IF StillWanted /\ failures < Threshold THEN failures + 1 ELSE failures
    /\ ready' = (ready /\ (StillWanted => failures' < Threshold))

ProbeEnds ==
    /\ alive /\ "probe" \in task
    /\ task' = task \ {"probe"}
    /\ ProbeAnswers \/ ProbeFails
    /\ UNCHANGED <<state, started, part, progVars>>

-----------------------------------------------------------------------------
(* Stopping. *)

\* Mutation: a fatal error while the process drains does not count.
ExitUnlessDraining(fatal) == IF fatal /\ state = "RUNNING" THEN 1 ELSE code

ExitOn(fatal) == IF fatal THEN 1 ELSE code

\* SIGTERM, SIGINT, an uncaught exception or an unhandled rejection: the first of them
\* stops the application.
Drain(fatal) ==
    /\ alive /\ handlers
    /\ code' = ExitOn(fatal)
    /\ wrong' = IF fatal THEN wrong \cup {"FATAL"} ELSE wrong
    /\ IF state = "RUNNING" THEN state' = "STOPPING" /\ ready' = FALSE
                            ELSE UNCHANGED <<state, ready>>
    /\ UNCHANGED <<program, started, part, task, failures, handlers, alive>>

\* Without a handler they end the process at once.
Die ==
    /\ alive /\ ~handlers
    /\ alive' = FALSE
    /\ UNCHANGED <<program, state, started, part, task, probeVars, handlers, code, wrong>>

Undoing == alive /\ state \in {"FAILED", "STOPPING"}
Turn(c) ==
    \E i \in DOMAIN StopOrder :
        /\ StopOrder[i] = c
        /\ \A j \in 1..(i - 1) : part[StopOrder[j]] \in Gone

\* From here on the part begins no task.  The coordinator of the central monitor may just
\* be about to make a session: nobody tells that one to stop.
StopBegins(c) ==
    /\ Undoing /\ Turn(c) /\ part[c] = "UP"
    /\ part' = [part EXCEPT ![c] = "STOPPING"]
    /\ \/ UNCHANGED task
       \/ /\ c = "centralMonitor" /\ c \in task
          /\ task' = (task \ {c}) \cup {"lateSession"}
    /\ UNCHANGED <<state, started, probeVars, progVars>>

\* Mutation: stop does not wait for the task under way.
Unawaited(c) == TRUE

\* The central monitor waits for its coordinator, and so for a session of it.
Quiet(c) == c \notin task /\ (c = "centralMonitor" => "lateSession" \notin task)

StopEnds(c) ==
    /\ Undoing /\ part[c] = "STOPPING" /\ Quiet(c)
    /\ part' = [part EXCEPT ![c] = "DOWN"]
    /\ UNCHANGED <<state, started, task, probeVars, progVars>>

\* The error is noted and the next part's turn comes: a subscription cannot be closed once
\* the loops have ended, only requests may still be under way.
StopFails(c) ==
    /\ Undoing /\ part[c] = "STOPPING" /\ (c = "http" \/ Quiet(c))
    /\ part' = [part EXCEPT ![c] = "BROKEN"]
    /\ wrong' = wrong \cup {"CLEANUP"}
    /\ UNCHANGED <<program, state, started, task, probeVars, handlers, code, alive>>

\* A drain closes the connections of requests that outlast the grace.
ForceClose ==
    /\ alive /\ state = "STOPPING" /\ part["http"] = "STOPPING"
    /\ part' = [part EXCEPT !["http"] = "CUT"]
    /\ UNCHANGED <<state, started, task, probeVars, progVars>>

Finish ==
    /\ Undoing
    /\ \A i \in DOMAIN StopOrder : part[StopOrder[i]] \in Gone
    /\ state' = "STOPPED" /\ ready' = FALSE /\ handlers' = FALSE
    /\ code' = IF "CLEANUP" \in wrong THEN 1 ELSE code
    /\ UNCHANGED <<program, started, part, task, failures, wrong, alive>>

Next ==
    \/ Start \/ StartFails \/ Run \/ InstallFails
    \/ \E c \in Worker : WorkBegins(c)
    \/ \E t \in Task : WorkEnds(t)
    \/ PostsArrive \/ ProbeEnds
    \/ \E fatal \in BOOLEAN : Drain(fatal)
    \/ Die
    \/ \E c \in Part : StopBegins(c) \/ StopEnds(c) \/ StopFails(c)
    \/ ForceClose \/ Finish

Spec == Init /\ [][Next]_vars

\* Tasks end: a probe times out, and the database answers the others or breaks them off.
\* A session nobody tells to stop may go on.
Fairness ==
    /\ \A t \in Task \ {"lateSession"} : WF_vars(WorkEnds(t))
    /\ WF_vars(ProbeEnds)
    /\ \A c \in Part : WF_vars(StopBegins(c)) /\ WF_vars(StopEnds(c) \/ StopFails(c))
    /\ WF_vars(Finish)

FairSpec == Spec /\ Fairness

-----------------------------------------------------------------------------
(* Properties. *)

DatabaseIsClosed ==
    state \in {"FAILED", "STOPPING", "STOPPED"} /\ part["database"] = "DOWN"

\* core.ts:148 and 292: whatever a part does that is waited for, runs, schedulers, the
\* coordinator of the monitor and its sessions, probes, is over when the database closes,
\* in a drain or after a failed start; but for requests that outlast the grace.  (The live
\* posts of a session are waited for by nobody.)
DatabaseOutlivesTasks ==
    DatabaseIsClosed => \A t \in task \ {"livePosts"} : t = "http" /\ part[t] \in {"BROKEN", "CUT"}

\* application.ts:185: a process that is going down never tells the load balancer it is
\* ready again, whatever a probe under way still finds.
NeverReadyAgain ==
    [][(state \in {"STOPPING", "STOPPED"}) => ~ready']_vars

\* process-handlers.ts:54: the exit code of a process that went down by itself tells
\* whether something went wrong: its start, a fatal error at any time, or its cleanup.
ExitTellsTruth ==
    alive /\ state = "STOPPED" => (code = 1 <=> wrong # {})

StopAlwaysEnds ==
    state \in {"FAILED", "STOPPING"} ~>
        ~alive \/ (state = "STOPPED" /\ \A c \in Part : part[c] \in Gone)

\* main.ts:96 and process-handlers.ts:53: a process that fails to start or is asked to
\* stop takes down every part it has started, whatever fails on the way, unless a session
\* of the central monitor made after its stop goes on for ever.
EverythingStops == []<>("lateSession" \notin task) => StopAlwaysEnds

\* EVIDENCE_LEDGER.md:752: the drain stops taking work, waits for what runs and then closes
\* the database: neither is so of the central monitor.  StopAlwaysEnds and this do not hold.
NothingOutlivesDatabase == DatabaseIsClosed => task \subseteq {"http"}
=============================================================================
