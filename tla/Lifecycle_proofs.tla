--------------------------- MODULE Lifecycle_proofs ---------------------------
(***************************************************************************)
(* Proofs about how a process stops: about Lifecycle, for both programs    *)
(* and every threshold of the readiness probe, and about the stop of       *)
(* AccountSupervisor, for any accounts and sizes of its pool.              *)
(***************************************************************************)
EXTENDS Lifecycle, TLAPS

\* What a program does not have stays down.
OnlyItsParts == \A c \in Part : part[c] # "DOWN" => c \in ToSet(StartOrder)

\* The database is the first part up: nothing else starts without it, and all else is gone
\* before it goes.
DatabaseIsBase ==
    /\ state = "STARTING" /\ started > 0 => part["database"] = "UP"
    /\ part["database"] # "UP" => \A c \in Worker : part[c] \in Gone

\* A part is gone only once its task is over, but for requests; the central monitor waits
\* for a session its stop came too early to end.
DownIsQuiet ==
    /\ \A t \in task \cap Worker : part[t] \in Gone => t = "http" /\ part[t] # "DOWN"
    /\ "lateSession" \in task => part["centralMonitor"] = "STOPPING" /\ state # "STARTING"

\* Only a process that runs says it is ready.
ReadyIsRunning == ready => state = "RUNNING"

\* Until the process has stopped the exit code tells of its start and of fatal errors;
\* then no signal is handled any more.
CodeSoFar ==
    /\ state # "STOPPED" => (code = 1 <=> wrong \cap {"START", "FATAL"} # {})
    /\ state = "STOPPED" => ~handlers /\ (code = 1 <=> wrong # {})

LifeInv ==
    /\ TypeOK /\ OnlyItsParts /\ DatabaseIsBase /\ DownIsQuiet /\ ReadyIsRunning /\ CodeSoFar

-----------------------------------------------------------------------------
(* The orders. *)

\* The parts of each program, by number.
LEMMA Orders ==
    /\ Len(EngineStart) = 8 /\ Len(EngineStop) = 8 /\ Len(ApiStart) = 3 /\ Len(ApiStop) = 3
    /\ DOMAIN EngineStart = 1..8 /\ DOMAIN EngineStop = 1..8
    /\ DOMAIN ApiStart = 1..3 /\ DOMAIN ApiStop = 1..3
BY DEF EngineStart, EngineStop, ApiStart, ApiStop

\* What they are.
LEMMA Parts ==
    /\ ToSet(EngineStart) = {"database", "supervisor", "centralMonitor", "campaigns", "retention",
                             "expiry", "health", "probe"}
    /\ ToSet(ApiStart) = {"database", "http", "probe"}
    /\ Part = {"database", "supervisor", "centralMonitor", "campaigns", "retention",
               "expiry", "health", "probe", "http"}
<1>1. ToSet(EngineStart) = {"database", "supervisor", "centralMonitor", "campaigns", "retention",
                            "expiry", "health", "probe"}
  BY Orders DEF ToSet, EngineStart
<1>2. ToSet(ApiStart) = {"database", "http", "probe"}
  BY Orders DEF ToSet, ApiStart
<1> QED
  BY <1>1, <1>2 DEF Part

\* The tasks nobody starts a part for.
LEMMA Extras ==
    /\ Worker \subseteq Part /\ "livePosts" \notin Worker /\ "lateSession" \notin Worker
    /\ "http" \in Worker /\ "centralMonitor" \in Worker /\ Worker \subseteq Task
BY Parts DEF Worker, Task

\* The database is started first.
LEMMA DatabaseFirst ==
    ASSUME program \in {"ENGINE", "API"}
    PROVE  /\ StartOrder[1] = "database"
           /\ Len(StartOrder) \in 1..8 /\ Len(StartOrder) <= Len(EngineStart)
           /\ \A i \in 1..Len(StartOrder) :
                 StartOrder[i] \in ToSet(StartOrder) /\ StartOrder[i] \in Part /\ (i # 1 => StartOrder[i] # "database")
<1>1. CASE program = "ENGINE"
  BY <1>1, Orders, Parts DEF StartOrder, EngineStart
<1>2. CASE program = "API"
  BY <1>2, Orders, Parts DEF StartOrder, ApiStart
<1> QED
  BY <1>1, <1>2

\* When the database's turn to stop comes, whoever has tasks is gone.
LEMMA DatabaseLast ==
    ASSUME program \in {"ENGINE", "API"}, OnlyItsParts, Turn("database")
    PROVE  \A c \in Worker : part[c] \in Gone
<1>1. PICK i \in DOMAIN StopOrder : StopOrder[i] = "database" /\ \A j \in 1..(i - 1) : part[StopOrder[j]] \in Gone
  BY DEF Turn
<1>2. CASE program = "ENGINE"
  <2>1. i = 7
    BY <1>1, <1>2, Orders DEF StopOrder, EngineStop
  <2>2. \A j \in 1..6 : part[EngineStop[j]] \in Gone
    BY <1>1, <1>2, <2>1 DEF StopOrder
  <2>3. \A c \in {"probe", "expiry", "retention", "campaigns", "centralMonitor", "supervisor"} : part[c] \in Gone
    BY <2>2 DEF EngineStop
  <2>4. part["http"] = "DOWN"
    BY <1>2, Parts DEF OnlyItsParts, StartOrder
  <2> QED
    BY <2>3, <2>4, Parts DEF Worker, Gone
<1>3. CASE program = "API"
  <2>1. i = 3
    BY <1>1, <1>3, Orders DEF StopOrder, ApiStop
  <2>2. \A j \in 1..2 : part[ApiStop[j]] \in Gone
    BY <1>1, <1>3, <2>1 DEF StopOrder
  <2>3. part["probe"] \in Gone /\ part["http"] \in Gone
    BY <2>2 DEF ApiStop
  <2>4. \A c \in {"expiry", "retention", "campaigns", "centralMonitor", "supervisor"} : part[c] = "DOWN"
    BY <1>3, Parts DEF OnlyItsParts, StartOrder
  <2> QED
    BY <2>3, <2>4, Parts DEF Worker, Gone
<1> QED
  BY <1>2, <1>3

-----------------------------------------------------------------------------
(* The invariant. *)

\* It holds at the start.
LEMMA LifeInit == Init => LifeInv
<1> SUFFICES ASSUME Init PROVE LifeInv
  OBVIOUS
<1>1. TypeOK
  <2>1. started \in 0..Len(EngineStart)
    BY Orders DEF Init
  <2>2. failures \in 0..Threshold
    BY ThresholdAssumption DEF Init
  <2>3. part \in [Part -> {"UP", "STOPPING"} \cup Gone]
    BY DEF Init, Gone
  <2>4. ready \in BOOLEAN /\ handlers \in BOOLEAN /\ alive \in BOOLEAN
    BY Zenon DEF Init
  <2>5. code \in {0, 1} /\ state = "STARTING" /\ program \in {"ENGINE", "API"}
        /\ task \subseteq Task /\ wrong \subseteq {"START", "FATAL", "CLEANUP"}
    BY DEF Init
  <2> QED
    BY <2>1, <2>2, <2>3, <2>4, <2>5 DEF TypeOK
<1>2. OnlyItsParts /\ DatabaseIsBase
  BY Parts DEF Init, OnlyItsParts, DatabaseIsBase, Worker, Gone
<1>3. DownIsQuiet /\ ReadyIsRunning /\ CodeSoFar
  BY DEF Init, DownIsQuiet, ReadyIsRunning, CodeSoFar
<1> QED
  BY <1>1, <1>2, <1>3 DEF LifeInv

\* A step that moves no part and ends tasks or begins one of a part that is up.
LEMMA PartsKept ==
    ASSUME LifeInv, part' = part, program' = program, started' = started,
           state' = "STARTING" => state = "STARTING",
           \A t \in task' : t \in task \/ (t \in Worker /\ part[t] = "UP") \/ t = "livePosts"
    PROVE  OnlyItsParts' /\ DatabaseIsBase' /\ DownIsQuiet'
<1>1. OnlyItsParts' /\ DatabaseIsBase'
  BY DEF LifeInv, OnlyItsParts, DatabaseIsBase, StartOrder
<1>2. DownIsQuiet'
  BY Extras DEF LifeInv, DownIsQuiet, Gone
<1> QED
  BY <1>1, <1>2

\* Part by part the process comes up.
LEMMA StartStep ==
    ASSUME LifeInv, Start
    PROVE  LifeInv'
<1> USE DEF progVars, probeVars
<1> DEFINE c == StartOrder[started + 1]
<1>0. /\ program \in {"ENGINE", "API"} /\ started \in Nat /\ started + 1 \in 1..Len(StartOrder)
      /\ state = "STARTING" /\ started' = started + 1 /\ part' = [part EXCEPT ![c] = "UP"]
      /\ UNCHANGED <<program, state, task, ready, failures, handlers, code, wrong, alive>>
  BY DatabaseFirst DEF Start, LifeInv, TypeOK
<1>1. c \in Part /\ c \in ToSet(StartOrder) /\ (started = 0 <=> c = "database")
  BY <1>0, DatabaseFirst
<1>2. part'[c] = "UP" /\ \A d \in Part \ {c} : part'[d] = part[d]
  BY <1>0, <1>1 DEF LifeInv, TypeOK
<1>3. TypeOK'
  <2>1. part' \in [Part -> {"UP", "STOPPING"} \cup Gone]
    BY <1>0, <1>1 DEF LifeInv, TypeOK
  <2>2. started' \in 0..Len(EngineStart)
    BY <1>0, DatabaseFirst, Orders
  <2> QED
    BY <1>0, <2>1, <2>2 DEF LifeInv, TypeOK
<1>4. OnlyItsParts'
  <2>1. StartOrder' = StartOrder
    BY <1>0 DEF StartOrder
  <2> QED
    BY <1>0, <1>1, <1>2, <2>1 DEF LifeInv, OnlyItsParts
<1>5. DatabaseIsBase'
  <2>1. part'["database"] = "UP"
    BY <1>0, <1>1, <1>2, Parts DEF LifeInv, DatabaseIsBase
  <2> QED
    BY <2>1 DEF DatabaseIsBase
<1>6. DownIsQuiet'
  BY <1>0, <1>1, <1>2, Extras DEF LifeInv, DownIsQuiet, Gone
<1>7. ReadyIsRunning' /\ CodeSoFar'
  BY <1>0 DEF LifeInv, ReadyIsRunning, CodeSoFar
<1> QED
  BY <1>3, <1>4, <1>5, <1>6, <1>7 DEF LifeInv

\* The start fails or is over, a signal or an error comes, the process dies or is done.
LEMMA StateStep ==
    ASSUME LifeInv, StartFails \/ Run \/ InstallFails \/ (\E fatal \in BOOLEAN : Drain(fatal)) \/ Die \/ Finish
    PROVE  LifeInv'
<1> USE DEF progVars, probeVars
<1>0. /\ UNCHANGED <<program, part, started, task, failures>> /\ (state' = "STARTING" => state = "STARTING")
  BY DEF StartFails, Run, InstallFails, Drain, Die, Finish, Undoing
<1>1. OnlyItsParts' /\ DatabaseIsBase' /\ DownIsQuiet'
  BY <1>0, PartsKept
<1>2. TypeOK' /\ ReadyIsRunning' /\ CodeSoFar'
  <2>0. TypeOK /\ ReadyIsRunning /\ CodeSoFar
    BY DEF LifeInv
  <2>1. CASE StartFails \/ InstallFails
    <3>1. /\ state' \in {"FAILED", "STOPPING"} /\ code' = 1 /\ wrong' = wrong \cup {"START"}
          /\ UNCHANGED <<task, ready, handlers, alive>> /\ state = "STARTING"
      BY <2>1 DEF StartFails, InstallFails
    <3>2. TypeOK'
      BY <1>0, <2>0, <3>1 DEF TypeOK
    <3>3. ReadyIsRunning' /\ CodeSoFar'
      BY <2>0, <3>1 DEF ReadyIsRunning, CodeSoFar
    <3> QED
      BY <3>2, <3>3
  <2>2. CASE Run
    <3>1. /\ state = "STARTING" /\ state' = "RUNNING" /\ ready' = TRUE /\ handlers' = TRUE
          /\ UNCHANGED <<task, code, wrong, alive>>
      BY <2>2 DEF Run
    <3>2. TypeOK'
      <4>1. ready' \in BOOLEAN /\ handlers' \in BOOLEAN
        BY <3>1, Zenon
      <4> QED
        BY <1>0, <2>0, <3>1, <4>1 DEF TypeOK
    <3>3. ReadyIsRunning' /\ CodeSoFar'
      BY <2>0, <3>1 DEF ReadyIsRunning, CodeSoFar
    <3> QED
      BY <3>2, <3>3
  <2>5. CASE Die
    <3>1. /\ alive' \in BOOLEAN /\ UNCHANGED <<state, task, ready, handlers, code, wrong>>
      BY <2>5, Zenon DEF Die, probeVars
    <3>2. TypeOK'
      BY <1>0, <2>0, <3>1 DEF TypeOK
    <3>3. ReadyIsRunning' /\ CodeSoFar'
      BY <2>0, <3>1 DEF ReadyIsRunning, CodeSoFar
    <3> QED
      BY <3>2, <3>3
  <2>3. ASSUME NEW fatal \in BOOLEAN, Drain(fatal) PROVE TypeOK' /\ ReadyIsRunning' /\ CodeSoFar'
    <3>1. state # "STOPPED" /\ alive
      BY <2>0, <2>3 DEF Drain, CodeSoFar
    <3>2. TypeOK'
      BY <2>0, <2>3 DEF Drain, ExitOn, TypeOK
    <3>3. ReadyIsRunning'
      BY <2>0, <2>3 DEF Drain, ReadyIsRunning
    <3>4. CodeSoFar'
      <4>1. CASE fatal
        BY <2>0, <2>3, <3>1, <4>1 DEF Drain, ExitOn, CodeSoFar
      <4>2. CASE ~fatal
        BY <2>0, <2>3, <3>1, <4>2 DEF Drain, ExitOn, CodeSoFar
      <4> QED
        BY <4>1, <4>2
    <3> QED
      BY <3>2, <3>3, <3>4
  <2>4. CASE Finish
    <3>1. TypeOK' /\ ReadyIsRunning'
      BY <2>0, <2>4 DEF Finish, TypeOK, ReadyIsRunning
    <3>2. state \in {"FAILED", "STOPPING"} /\ (code = 1 <=> wrong \cap {"START", "FATAL"} # {})
          /\ wrong \subseteq {"START", "FATAL", "CLEANUP"}
      BY <2>0, <2>4 DEF Finish, Undoing, CodeSoFar, TypeOK
    <3>3. state' = "STOPPED" /\ ~handlers' /\ wrong' = wrong /\ code' = IF "CLEANUP" \in wrong THEN 1 ELSE code
      BY <2>4 DEF Finish
    <3>4. code' = 1 <=> wrong' # {}
      BY <3>2, <3>3
    <3> QED
      BY <3>1, <3>3, <3>4 DEF CodeSoFar
  <2> QED
    BY <2>1, <2>2, <2>3, <2>4, <2>5
<1> QED
  BY <1>1, <1>2 DEF LifeInv

\* A task begins or ends, the probe among them.
LEMMA TaskStep ==
    ASSUME LifeInv, \/ \E c \in Worker : WorkBegins(c)
                    \/ \E t \in Task : WorkEnds(t)
                    \/ PostsArrive \/ ProbeEnds
    PROVE  LifeInv'
<1> USE DEF progVars, probeVars
<1>0. /\ UNCHANGED <<program, part, started, state, handlers, code, wrong, alive>>
      /\ task' \subseteq Task
      /\ \A t \in task' : t \in task \/ (t \in Worker /\ part[t] = "UP") \/ t = "livePosts"
      /\ CodeSoFar /\ TypeOK
  BY DEF WorkBegins, WorkEnds, PostsArrive, ProbeEnds, LifeInv, TypeOK, Task
<1>1. OnlyItsParts' /\ DatabaseIsBase' /\ DownIsQuiet'
  BY <1>0, PartsKept
<1>2. /\ ready' \in BOOLEAN /\ failures' \in 0..Threshold
      /\ ready' => ready \/ state = "RUNNING"
  <2>1. CASE (\E c \in Worker : WorkBegins(c)) \/ (\E t \in Task : WorkEnds(t)) \/ PostsArrive
    BY <1>0, <2>1 DEF WorkBegins, WorkEnds, PostsArrive, TypeOK
  <2>2. CASE ProbeEnds
    <3>1. /\ ready' \in BOOLEAN /\ (ready' => ready \/ state = "RUNNING")
      BY <1>0, <2>2, Zenon DEF ProbeEnds, ProbeAnswers, ProbeFails, StillWanted, TypeOK
    <3>2. failures' \in 0..Threshold
      BY <1>0, <2>2, ThresholdAssumption DEF ProbeEnds, ProbeAnswers, ProbeFails, TypeOK
    <3> QED
      BY <3>1, <3>2
  <2> QED
    BY <2>1, <2>2
<1>3. TypeOK' /\ ReadyIsRunning' /\ CodeSoFar'
  BY <1>0, <1>2 DEF LifeInv, TypeOK, ReadyIsRunning, CodeSoFar
<1> QED
  BY <1>1, <1>3 DEF LifeInv

\* A part stops: it begins no task from here on, is waited for, or fails to stop.
LEMMA StopStep ==
    ASSUME LifeInv, (\E c \in Part : StopBegins(c) \/ StopEnds(c) \/ StopFails(c)) \/ ForceClose
    PROVE  LifeInv'
<1> USE DEF progVars, probeVars
<1>0. UNCHANGED <<program, started, state, ready, failures, handlers, code, alive>>
      /\ (wrong' = wrong \/ wrong' = wrong \cup {"CLEANUP"}) /\ state # "STARTING" /\ state # "STOPPED"
      /\ TypeOK /\ OnlyItsParts /\ DatabaseIsBase /\ DownIsQuiet
  BY DEF StopBegins, StopEnds, StopFails, ForceClose, Undoing, LifeInv
<1>1. PICK c \in Part : StopBegins(c) \/ StopEnds(c) \/ StopFails(c) \/ (ForceClose /\ c = "http")
  BY Parts
<1>2. /\ part[c] # "DOWN" /\ part'[c] \in {"STOPPING"} \cup Gone
      /\ part' \in [Part -> {"UP", "STOPPING"} \cup Gone] /\ \A d \in Part \ {c} : part'[d] = part[d]
      /\ part[c] = "UP" => Turn(c)
      /\ part[c] # "UP" => part'[c] \in Gone
  BY <1>0, <1>1, Parts DEF StopBegins, StopEnds, StopFails, ForceClose, TypeOK, Gone
<1>2a. /\ \A t \in task' : t \in task \/ t = "lateSession"
       /\ \/ part'[c] \in Gone /\ task' = task /\ (c = "http" \/ Quiet(c))
          \/ part[c] = "UP" /\ part'[c] = "STOPPING"
       /\ c = "http" => part'[c] # "DOWN" \/ Quiet(c)
       /\ "lateSession" \in task' => "lateSession" \in task \/ part'["centralMonitor"] = "STOPPING"
  <2>1. c \in DOMAIN part
    BY <1>0 DEF TypeOK
  <2>2. CASE StopBegins(c)
    BY <2>1, <2>2 DEF StopBegins
  <2>3. CASE StopEnds(c) \/ StopFails(c) \/ (ForceClose /\ c = "http")
    BY <2>1, <2>3 DEF StopEnds, StopFails, ForceClose, Gone
  <2> QED
    BY <1>1, <2>2, <2>3
<1>3. TypeOK'
  <2>1. task' \subseteq Task
    BY <1>0, <1>2a DEF TypeOK, Task
  <2> QED
    BY <1>0, <1>2, <2>1 DEF TypeOK
<1>4. OnlyItsParts'
  <2>1. StartOrder' = StartOrder
    BY <1>0 DEF StartOrder
  <2> QED
    BY <1>0, <1>2, <2>1 DEF OnlyItsParts
<1>5. DatabaseIsBase'
  <2>1. CASE c = "database"
    <3>1. \A d \in Worker : part[d] \in Gone
      <4>1. CASE part[c] = "UP"
        BY <1>0, <1>2, <2>1, <4>1, DatabaseLast DEF TypeOK
      <4>2. CASE part[c] # "UP"
        BY <1>0, <2>1, <4>2 DEF DatabaseIsBase
      <4> QED
        BY <4>1, <4>2
    <3> QED
      BY <1>0, <1>2, <2>1, <3>1 DEF DatabaseIsBase, Worker
  <2>2. CASE c # "database"
    <3>1. part'["database"] = part["database"]
      BY <1>2, <2>2, Parts
    <3>2. ASSUME part["database"] # "UP", NEW d \in Worker PROVE part'[d] \in Gone
      <4>1. part[d] \in Gone /\ d \in Part
        BY <1>0, <3>2 DEF DatabaseIsBase, Worker
      <4> QED
        BY <1>2, <4>1 DEF Gone
    <3> QED
      BY <1>0, <3>1, <3>2 DEF DatabaseIsBase
  <2> QED
    BY <2>1, <2>2
<1>6. DownIsQuiet'
  <2>1. ASSUME NEW t \in task' \cap Worker, part'[t] \in Gone
        PROVE  t = "http" /\ part'[t] # "DOWN"
    <3>1. t \in task \cap Worker /\ t \in Part
      BY <1>2a, <2>1, Extras
    <3>2. CASE t = c
      BY <1>2a, <2>1, <3>1, <3>2 DEF Quiet, Gone
    <3>3. CASE t # c
      BY <1>0, <1>2, <2>1, <3>1, <3>3 DEF DownIsQuiet
    <3> QED
      BY <3>2, <3>3
  <2>2. ASSUME "lateSession" \in task' PROVE part'["centralMonitor"] = "STOPPING"
    <3>1. CASE c = "centralMonitor"
      BY <1>0, <1>2a, <2>2, <3>1 DEF DownIsQuiet, Quiet
    <3>2. CASE c # "centralMonitor"
      BY <1>0, <1>2, <1>2a, <2>2, <3>2, Parts DEF DownIsQuiet
    <3> QED
      BY <3>1, <3>2
  <2> QED
    BY <1>0, <2>1, <2>2 DEF DownIsQuiet
<1>7. ReadyIsRunning' /\ CodeSoFar'
  BY <1>0 DEF LifeInv, ReadyIsRunning, CodeSoFar
<1> QED
  BY <1>3, <1>4, <1>5, <1>6, <1>7 DEF LifeInv

\* Every step keeps the invariant.
LEMMA LifeStep == LifeInv /\ [Next]_vars => LifeInv'
<1> SUFFICES ASSUME LifeInv, [Next]_vars PROVE LifeInv'
  OBVIOUS
<1>1. CASE UNCHANGED vars
  <2>1. OnlyItsParts' /\ DatabaseIsBase' /\ DownIsQuiet'
    BY <1>1, PartsKept DEF vars
  <2> QED
    BY <1>1, <2>1 DEF vars, LifeInv, TypeOK, ReadyIsRunning, CodeSoFar
<1> QED
  BY <1>1, StartStep, StateStep, TaskStep, StopStep DEF Next

-----------------------------------------------------------------------------
(* The theorems. *)

\* Whatever fails, whenever a signal comes, the invariant holds.
THEOREM LifecycleInvariant == Spec => []LifeInv
<1> QED
  BY LifeInit, LifeStep, PTL DEF Spec

\* Each part of the state always has its type.
THEOREM LifecycleTypeOK == Spec => []TypeOK
<1>1. LifeInv => TypeOK
  BY DEF LifeInv
<1> QED
  BY LifecycleInvariant, <1>1, PTL

\* What a part does that is waited for is over when the database closes, in a drain or after
\* a failed start: of all tasks only requests that outlast the grace and the live posts of the
\* central monitor, which nobody waits for, find it closed.
THEOREM LifecycleDatabaseOutlivesTasks == Spec => []DatabaseOutlivesTasks
<1>1. LifeInv => DatabaseOutlivesTasks
  <2> SUFFICES ASSUME LifeInv, part["database"] = "DOWN", state # "STARTING",
                      NEW t \in task, t # "livePosts"
               PROVE  t = "http" /\ part[t] \in {"BROKEN", "CUT"}
    BY DEF DatabaseOutlivesTasks, DatabaseIsClosed
  <2>1. \A c \in Worker : part[c] \in Gone
    BY DEF LifeInv, DatabaseIsBase
  <2>2. t \in Worker
    BY <2>1, Extras DEF LifeInv, TypeOK, Task, DownIsQuiet, Gone
  <2> QED
    BY <2>1, <2>2 DEF LifeInv, DownIsQuiet, Gone
<1> QED
  BY LifecycleInvariant, <1>1, PTL

\* The exit code tells whether the start, a fatal error at any time or the cleanup went wrong.
THEOREM LifecycleExitTellsTruth == Spec => []ExitTellsTruth
<1>1. LifeInv => ExitTellsTruth
  BY DEF LifeInv, CodeSoFar, ExitTellsTruth
<1> QED
  BY LifecycleInvariant, <1>1, PTL

\* A process that is going down never says again that it is ready.
THEOREM LifecycleNeverReadyAgain == Spec => NeverReadyAgain
<1>1. LifeInv /\ [Next]_vars => [(state \in {"STOPPING", "STOPPED"}) => ~ready']_vars
  <2> SUFFICES ASSUME LifeInv, Next, state \in {"STOPPING", "STOPPED"} PROVE ~ready'
    OBVIOUS
  <2>1. LifeInv'
    BY LifeStep
  <2>2. state' # "RUNNING"
    BY DEF Next, Start, StartFails, Run, InstallFails, WorkBegins, WorkEnds, PostsArrive, ProbeEnds, Drain, Die,
           StopBegins, StopEnds, StopFails, ForceClose, Finish
  <2> QED
    BY <2>1, <2>2 DEF LifeInv, ReadyIsRunning
<1> QED
  BY LifecycleInvariant, <1>1, PTL DEF Spec, NeverReadyAgain

-----------------------------------------------------------------------------
(* The supervisor of the engine, which is asked to stop: a state of its own. *)

CONSTANTS Account, Slots, MaxBatch, MaxActions

VARIABLES batch, stage, loop, limit, due, pending, run, actions, wake, deferred, subscription,
          listening, complaint, queue

Supervisor == INSTANCE AccountSupervisor WITH state <- stage

\* The types this needs; the rest of the state is sequences, whose selections are recursive.
StateIsTyped == stage \in Supervisor!State /\ run \in [Account -> Supervisor!Run]

\* A connection that still listens is held by the supervisor, or its closing has failed;
\* from the moment stop() waits for the runs, only the latter.
ListenerIsHeld ==
    /\ listening => subscription \/ complaint
    /\ stage \in {"JOINING", "STOPPED"} => (listening => complaint)

StopInv == StateIsTyped /\ ListenerIsHeld /\ Supervisor!StoppedIsClean

\* A step of the runs and the pool: nobody but those started leaves "NONE".
LEMMA SignalStarts ==
    ASSUME run \in [Account -> Supervisor!Run], NEW N, NEW R, NEW S, Supervisor!Signal(N, R, S)
    PROVE  /\ run' \in [Account -> Supervisor!Run]
           /\ \A a \in Account \ S : run[a] = "NONE" => run'[a] = "NONE"
BY DEF Supervisor!Signal, Supervisor!RunAfter, Supervisor!Run

\* The pool starts runs while the supervisor is running only.
LEMMA PumpStarts ==
    ASSUME run \in [Account -> Supervisor!Run], NEW waiting, NEW held, NEW N, NEW R,
           Supervisor!Pump(waiting, held, N, R)
    PROVE  /\ run' \in [Account -> Supervisor!Run]
           /\ stage # "RUNNING" => \A a \in Account : run[a] = "NONE" => run'[a] = "NONE"
<1>1. \E S : Supervisor!Signal(N, R, S) /\ (stage # "RUNNING" => S = {})
  BY DEF Supervisor!Pump
<1> QED
  BY <1>1, SignalStarts

\* What a step of the loop, a wakeup and a step of a run do to the runs.
LEMMA RunsKept ==
    ASSUME StateIsTyped, Supervisor!Next
    PROVE  /\ run' \in [Account -> Supervisor!Run]
           /\ stage # "RUNNING" => \A a \in Account : run[a] = "NONE" => run'[a] = "NONE"
<1>1. CASE Supervisor!Reconcile \/ Supervisor!Handle
  <2>1. \E w, h, N, R : Supervisor!Pump(w, h, N, R)
    BY <1>1 DEF Supervisor!Reconcile, Supervisor!Handle
  <2> QED
    BY <2>1, PumpStarts DEF StateIsTyped
<1>2. CASE Supervisor!Stop
  BY <1>2, SignalStarts DEF Supervisor!Stop, StateIsTyped
<1>3. ASSUME NEW a \in Account, Supervisor!Wakeup(a)
      PROVE  run' \in [Account -> Supervisor!Run] /\ stage = "RUNNING"
  BY <1>3, SignalStarts DEF Supervisor!Wakeup, StateIsTyped
<1>4. ASSUME NEW a \in Account,
             Supervisor!RunStep(a) \/ Supervisor!IdleOver(a) \/ Supervisor!IdleTimer(a)
      PROVE  /\ run' \in [Account -> Supervisor!Run]
             /\ \A b \in Account : run[b] = "NONE" => run'[b] = "NONE"
  <2>1. run[a] # "NONE"
    BY <1>4 DEF Supervisor!RunStep, Supervisor!Work, Supervisor!Fail, Supervisor!NoWork,
       Supervisor!Idle, Supervisor!End, Supervisor!IdleOver, Supervisor!IdleTimer
  <2>2. \E w \in Supervisor!Run : run' = [run EXCEPT ![a] = w]
    BY <1>4 DEF Supervisor!RunStep, Supervisor!Work, Supervisor!Fail, Supervisor!NoWork,
       Supervisor!Idle, Supervisor!End, Supervisor!IdleOver, Supervisor!IdleTimer,
       Supervisor!Run
  <2> QED
    BY <2>1, <2>2 DEF StateIsTyped
<1>5. CASE UNCHANGED run
  BY <1>5 DEF StateIsTyped
<1>6. \/ UNCHANGED run \/ Supervisor!Reconcile \/ Supervisor!Handle \/ Supervisor!Stop
      \/ \E a \in Account : \/ Supervisor!Wakeup(a) \/ Supervisor!RunStep(a)
                           \/ Supervisor!IdleOver(a) \/ Supervisor!IdleTimer(a)
  BY DEF Supervisor!Next, Supervisor!LoopStep, Supervisor!SubscribeFails, Supervisor!Subscribed,
     Supervisor!Turn, Supervisor!ReconcileStopped, Supervisor!List, Supervisor!ListFails,
     Supervisor!Wait, Supervisor!Unsubscribe, Supervisor!Stopped, Supervisor!Lapse,
     Supervisor!Due, Supervisor!Withdrawn, Supervisor!runVars
<1> QED
  BY <1>1, <1>2, <1>3, <1>4, <1>5, <1>6

\* Which steps change the life of the supervisor and its subscription.
LEMMA ListenerKept ==
    ASSUME StopInv, Supervisor!Next
    PROVE  stage' \in Supervisor!State /\ ListenerIsHeld'
<1>1. CASE Supervisor!Subscribed
  BY <1>1 DEF Supervisor!Subscribed, StopInv, StateIsTyped, ListenerIsHeld, Supervisor!subVars,
     Supervisor!State, Supervisor!Stopping
<1>2. CASE Supervisor!Stop
  BY <1>2 DEF Supervisor!Stop, StopInv, StateIsTyped, ListenerIsHeld, Supervisor!subVars,
     Supervisor!State, Supervisor!Stopping
<1>3. CASE Supervisor!Unsubscribe
  BY <1>3 DEF Supervisor!Unsubscribe, StopInv, StateIsTyped, ListenerIsHeld, Supervisor!State,
     Supervisor!Stopping
<1>4. CASE Supervisor!Stopped
  BY <1>4 DEF Supervisor!Stopped, StopInv, StateIsTyped, ListenerIsHeld, Supervisor!subVars,
     Supervisor!State, Supervisor!Stopping
<1>5. CASE UNCHANGED <<stage, Supervisor!subVars>>
  BY <1>5 DEF StopInv, StateIsTyped, ListenerIsHeld, Supervisor!subVars
<1>6. \/ Supervisor!Subscribed \/ Supervisor!Stop \/ Supervisor!Unsubscribe \/ Supervisor!Stopped
      \/ UNCHANGED <<stage, Supervisor!subVars>>
  BY DEF Supervisor!Next, Supervisor!LoopStep, Supervisor!SubscribeFails, Supervisor!Turn,
     Supervisor!Reconcile, Supervisor!ReconcileStopped, Supervisor!List, Supervisor!ListFails,
     Supervisor!Handle, Supervisor!Wait, Supervisor!Wakeup, Supervisor!Lapse,
     Supervisor!RunStep, Supervisor!Work, Supervisor!Fail, Supervisor!NoWork, Supervisor!Idle,
     Supervisor!End, Supervisor!IdleOver, Supervisor!IdleTimer, Supervisor!Due,
     Supervisor!Withdrawn, Supervisor!subVars
<1> QED
  BY <1>1, <1>2, <1>3, <1>4, <1>5, <1>6

\* Once stopped, nothing begins again.
LEMMA StoppedStays ==
    ASSUME StopInv, Supervisor!Next
    PROVE  Supervisor!StoppedIsClean'
<1>0. SUFFICES ASSUME stage' = "STOPPED"
               PROVE  /\ loop' = "OVER" /\ Supervisor!InFlight' = {} /\ pending' = <<>>
                      /\ listening' => complaint'
  BY DEF Supervisor!StoppedIsClean
<1>1. listening' => complaint'
  BY <1>0, ListenerKept DEF ListenerIsHeld
<1>2. CASE Supervisor!Stopped
  BY <1>1, <1>2 DEF Supervisor!Stopped, Supervisor!InFlight, Supervisor!runVars,
     Supervisor!loopVars
<1>3. CASE ~Supervisor!Stopped
  <2>1. stage = "STOPPED"
    BY <1>0, <1>3 DEF Supervisor!Next, Supervisor!LoopStep, Supervisor!SubscribeFails,
       Supervisor!Subscribed, Supervisor!Turn, Supervisor!Reconcile,
       Supervisor!ReconcileStopped, Supervisor!List, Supervisor!ListFails, Supervisor!Handle,
       Supervisor!Wait, Supervisor!Wakeup, Supervisor!Lapse, Supervisor!RunStep,
       Supervisor!Work, Supervisor!Fail, Supervisor!NoWork, Supervisor!Idle, Supervisor!End,
       Supervisor!IdleOver, Supervisor!IdleTimer, Supervisor!Due, Supervisor!Withdrawn,
       Supervisor!Stop, Supervisor!Unsubscribe
  <2>2. loop = "OVER" /\ Supervisor!InFlight = {} /\ pending = <<>>
    BY <2>1 DEF StopInv, Supervisor!StoppedIsClean
  <2>3. UNCHANGED <<loop, pending>>
    BY <1>3, <2>1, <2>2 DEF Supervisor!Next, Supervisor!LoopStep, Supervisor!SubscribeFails,
       Supervisor!Subscribed, Supervisor!Turn, Supervisor!Reconcile,
       Supervisor!ReconcileStopped, Supervisor!List, Supervisor!ListFails, Supervisor!Handle,
       Supervisor!Wait, Supervisor!Wakeup, Supervisor!Lapse, Supervisor!RunStep,
       Supervisor!Work, Supervisor!Fail, Supervisor!NoWork, Supervisor!Idle, Supervisor!End,
       Supervisor!IdleOver, Supervisor!IdleTimer, Supervisor!Due, Supervisor!Withdrawn,
       Supervisor!Stop, Supervisor!Unsubscribe, Supervisor!loopVars
  <2>4. \A a \in Account : run[a] = "NONE"
    BY <2>2 DEF Supervisor!InFlight
  <2>5. \A a \in Account : run'[a] = "NONE"
    BY <2>1, <2>4, RunsKept DEF StopInv
  <2> QED
    BY <1>1, <2>2, <2>3, <2>5 DEF Supervisor!InFlight
<1> QED
  BY <1>2, <1>3

\* The invariant of the stop holds at the start.
LEMMA StopStarts ==
    ASSUME Supervisor!Init
    PROVE  StopInv
BY DEF Supervisor!Init, StopInv, StateIsTyped, Supervisor!State, Supervisor!Run, ListenerIsHeld,
   Supervisor!StoppedIsClean

\* Every step keeps it.
LEMMA StopNext ==
    ASSUME StopInv, [Supervisor!Next]_(Supervisor!vars)
    PROVE  StopInv'
<1>1. CASE Supervisor!Next
  BY <1>1, RunsKept, ListenerKept, StoppedStays DEF StopInv, StateIsTyped
<1>2. CASE UNCHANGED Supervisor!vars
  BY <1>2 DEF Supervisor!vars, Supervisor!loopVars, Supervisor!runVars, Supervisor!subVars,
     StopInv, StateIsTyped, ListenerIsHeld, Supervisor!StoppedIsClean, Supervisor!InFlight
<1> QED
  BY <1>1, <1>2

\* A stopped supervisor leaves nothing behind, even if the subscription was still being made
\* when stop() was called.
THEOREM SupervisorStoppedIsClean == Supervisor!Spec => []Supervisor!StoppedIsClean
<1>1. StopInv => Supervisor!StoppedIsClean
  BY DEF StopInv
<1> QED
  BY <1>1, StopStarts, StopNext, PTL DEF Supervisor!Spec

\* Once stop() was called no run begins, although the loop may be in the middle of a listing.
THEOREM SupervisorNoStartAfterStop == Supervisor!Spec => Supervisor!NoStartAfterStop
<1>1. StopInv /\ [Supervisor!Next]_(Supervisor!vars) =>
        [stage # "RUNNING" => \A a \in Account : run[a] = "NONE" => run'[a] = "NONE"]_(Supervisor!vars)
  BY RunsKept DEF StopInv
<1> QED
  BY <1>1, StopStarts, StopNext, PTL DEF Supervisor!Spec, Supervisor!NoStartAfterStop
=============================================================================
