--------------------------- MODULE AccountSession ---------------------------
(***************************************************************************)
(* The session of one Telegram account: sealed by the API process that     *)
(* completes a login, opened by the engine process that runs the account,  *)
(* given up when Telegram says so, while the operator rotates the keys     *)
(* sessions are sealed with and deploys the processes one at a time.       *)
(*                                                                         *)
(* A login is numbered, and stands for the authorization Telegram granted  *)
(* and for the session string; a sealed value is [login, key].  A run      *)
(* stands for its engine process: it holds the key ring the process was    *)
(* started with.  That a sealed value opens for its account and flow only  *)
(* is in AuthFlow; what else a lease protects, in AccountLease.            *)
(***************************************************************************)
EXTENDS Naturals

CONSTANTS Api, EngineRun, \* processes of the API; runs, each of an engine process
          Key, FirstKey,
          None,         \* nobody holds the lease, no API process
          Type,         \* account types in use
          Careful,      \* a key is only removed once no API process seals with it
          MaxLogins,    \* bound: logins begun
          MaxUpsets     \* bound: faults, and sessions ended from another device

VARIABLES env,      \* the keys configured, and the active one
          ring,     \* as each process has read them at its start
          type,
          row,      \* the row of the account
          granted,  \* logins Telegram still accepts
          flow,     \* the login in progress
          logins,   \* logins Telegram has granted so far
          holder,   \* whose run has the account's lease
          run, upsets

vars == <<env, ring, type, row, granted, flow, logins, holder, run, upsets>>

Login == 1..MaxLogins
Process == Api \cup EngineRun
Ring == [active : Key, keys : SUBSET Key]
NoSeal == [login |-> 0, key |-> None]
Seal == [login : 0..MaxLogins, key : Key \cup {None}]
Answer == {"CONNECTED", "SESSION_REVOKED", "SESSION_CONFLICT", "TRANSIENT", "UNKNOWN"}
Verdict == {"CONNECTED", "REVOKED", "DEGRADED", "FAILED_RETRYABLE"}

NoFlow == [step |-> "", at |-> None, state |-> NoSeal, session |-> NoSeal]
NoRun == [step |-> "", login |-> 0, up |-> FALSE, goal |-> "CONNECTED"]

TypeOK ==
    /\ env \in Ring /\ ring \in [Process -> Ring]
    /\ type \in Type
    /\ row \in [status : {"NONE", "READY", "DEGRADED", "REVOKED"}, session : Seal, backoff : BOOLEAN]
    /\ granted \subseteq Login /\ logins \in 0..MaxLogins
    /\ flow \in [step : {"", "CODE", "COMPLETING"}, at : Api \cup {None}, state : Seal, session : Seal]
    /\ holder \in EngineRun \cup {None}
    /\ run \in [EngineRun -> [step : {"", "LOAD", "CONNECT", "RECORD", "WORK", "CLOSE"},
                              login : 0..MaxLogins, up : BOOLEAN, goal : Verdict]]
    /\ upsets \in 0..MaxUpsets

Init ==
    /\ env = [active |-> FirstKey, keys |-> {FirstKey}]
    /\ ring = [p \in Process |-> env]
    /\ type \in Type
    /\ row = [status |-> "NONE", session |-> NoSeal, backoff |-> FALSE]
    /\ granted = {} /\ logins = 0 /\ flow = NoFlow
    /\ holder = None /\ run = [r \in EngineRun |-> NoRun] /\ upsets = 0

Upset == upsets < MaxUpsets /\ upsets' = upsets + 1

-----------------------------------------------------------------------------
(* The key ring. *)

\* encryptSecret: with the active key of the process, whose number the value carries.
Sealed(p, l) == [login |-> l, key |-> ring[p].active]
SealedSession(p, l) == Sealed(p, l)
SealedState(p) == Sealed(p, 0)

\* Mutation: the active key opens everything.
OpensActive(p, s) == s.key = ring[p].active

\* decryptSecret: the value says which key it takes.
Opens(p, s) == s.key \in ring[p].keys
SessionOpens(r) == Opens(r, row.session)
StateOpens(p) == Opens(p, flow.state)

(* The operator. *)

AddKey(k) ==
    /\ k \notin env.keys
    /\ env' = [env EXCEPT !.keys = @ \cup {k}]
    /\ UNCHANGED <<ring, type, row, granted, flow, logins, holder, run, upsets>>

Activate(k) ==
    /\ k \in env.keys /\ k # env.active
    /\ env' = [env EXCEPT !.active = k]
    /\ UNCHANGED <<ring, type, row, granted, flow, logins, holder, run, upsets>>

\* An old version is kept while database rows still reference it; whether a process
\* still seals with it nobody can read in the database.
RemoveKey(k) ==
    /\ k \in env.keys /\ k # env.active
    /\ k \notin {row.session.key, flow.state.key}
    /\ Careful => \A p \in Api : ring[p].active # k
    /\ env' = [env EXCEPT !.keys = @ \ {k}]
    /\ UNCHANGED <<ring, type, row, granted, flow, logins, holder, run, upsets>>

\* A process drains and is replaced by one that reads the environment.
Deploy(p) ==
    /\ ring[p] # env
    /\ ring' = [ring EXCEPT ![p] = env]
    /\ UNCHANGED <<env, type, row, granted, flow, logins, holder, run, upsets>>

DeployApi(p) == flow.at # p /\ Deploy(p)
DeployEngine(r) == run[r] = NoRun /\ Deploy(r)

-----------------------------------------------------------------------------
(* The login and logout. *)

\* Any request of a login may be the last one: what it was about is given up.
Abandon ==
    /\ flow # NoFlow /\ flow' = NoFlow
    /\ UNCHANGED <<env, ring, type, row, granted, logins, holder, run, upsets>>

\* start: the pending authorization is kept for the next request.
RequestCode(p) ==
    /\ flow = NoFlow /\ logins < MaxLogins
    /\ flow' = [NoFlow EXCEPT !.step = "CODE", !.state = SealedState(p)]
    /\ UNCHANGED <<env, ring, type, row, granted, logins, holder, run, upsets>>

\* submitCode, submitPassword, on any process: one without the key of the state
\* fails the flow, as for a state that was tampered with.
SignIn(p) ==
    /\ flow.step = "CODE"
    /\ IF StateOpens(p)
         THEN /\ logins' = logins + 1 /\ granted' = granted \cup {logins'}
              /\ flow' = [NoFlow EXCEPT !.step = "COMPLETING", !.at = p, !.session = SealedSession(p, logins')]
         ELSE flow' = NoFlow /\ UNCHANGED <<logins, granted>>
    /\ UNCHANGED <<env, ring, type, row, holder, run, upsets>>

\* complete_telegram_account_auth_flow: the row is ready again; only a userbot that
\* was not its profile's active account loses its lease.
Complete ==
    /\ flow.step = "COMPLETING"
    /\ row' = [status |-> "READY", session |-> flow.session, backoff |-> FALSE]
    /\ flow' = NoFlow
    /\ \/ UNCHANGED holder
       \/ type = "USERBOT" /\ holder' = None
    /\ UNCHANGED <<env, ring, type, granted, logins, run, upsets>>

\* The session is erased; of a userbot the lease goes too (its trigger).
Revoked == [row EXCEPT !.status = "REVOKED", !.session = NoSeal, !.backoff = FALSE]
Unleased == IF type = "USERBOT" THEN None ELSE holder

\* The user logs a userbot out; Telegram does not hear of it.
Logout ==
    /\ type = "USERBOT" /\ row.status \in {"READY", "DEGRADED"}
    /\ row' = Revoked /\ holder' = Unleased
    /\ UNCHANGED <<env, ring, type, granted, flow, logins, run, upsets>>

\* The session is ended from another device.
EndElsewhere ==
    /\ row.session.login \in granted /\ Upset
    /\ granted' = granted \ {row.session.login}
    /\ UNCHANGED <<env, ring, type, row, flow, logins, holder, run>>

-----------------------------------------------------------------------------
(* The runs. *)

Runnable == row.status = "READY" /\ ~row.backoff
Holds(r) == holder = r

Acquire(r) ==
    /\ run[r] = NoRun /\ holder = None /\ Runnable
    /\ holder' = r
    /\ run' = [run EXCEPT ![r].step = "LOAD"]
    /\ UNCHANGED <<env, ring, type, row, granted, flow, logins, upsets>>

\* Mutation: a key that is not there counts as a session that does not open.
UnopenedIsBroken == "DEGRADED"

\* SESSION_KEY_NOT_FOUND: the key may yet come.
Unopened == "FAILED_RETRYABLE"

Close(r) == [run[r] EXCEPT !.step = "CLOSE"]

\* loadSession and decrypt, one after the other without an await: refused or nothing
\* to load, the run ends.
Load(r) ==
    /\ run[r].step = "LOAD"
    /\ run' = [run EXCEPT ![r] =
          IF ~(Holds(r) /\ Runnable) THEN Close(r)
          ELSE IF SessionOpens(r)
               THEN [@ EXCEPT !.step = "CONNECT", !.login = row.session.login]
               ELSE [@ EXCEPT !.step = "RECORD", !.login = row.session.login, !.goal = Unopened]]
    /\ UNCHANGED <<env, ring, type, row, granted, flow, logins, holder, upsets>>

\* Another client is connected with the session: one left by a run that lost its lease.
Shared(r) == \E s \in EngineRun \ {r} : run[s].up /\ run[s].login = run[r].login

\* Mutation: AUTH_KEY_UNREGISTERED is not known.
AnswersBlind(r) ==
    IF run[r].login \notin granted THEN {"TRANSIENT"}
    ELSE {"CONNECTED"} \cup IF Shared(r) THEN {"SESSION_CONFLICT"} ELSE {}

\* What Telegram answers to a client that connects or works with its login
\* (mapTeleprotoError): an ended session, two clients of one session.
Answers(r) ==
    IF run[r].login \notin granted THEN {"SESSION_REVOKED"}
    ELSE {"CONNECTED"} \cup IF Shared(r) THEN {"SESSION_CONFLICT"} ELSE {}

\* runtimeFailure, and the catch of the central monitor's loop, which tries again
\* after any error it does not know.
VerdictOn(a) ==
    CASE a = "CONNECTED" -> "CONNECTED"
      [] a = "SESSION_REVOKED" -> "REVOKED"
      [] a = "SESSION_CONFLICT" -> "DEGRADED"
      [] a = "TRANSIENT" -> "FAILED_RETRYABLE"
      [] a = "UNKNOWN" -> IF type = "MONITOR" THEN "FAILED_RETRYABLE" ELSE "DEGRADED"

\* connect, then checkAuthorization.
Connect(r) ==
    /\ run[r].step = "CONNECT"
    /\ \E a \in Answers(r) :
          run' = [run EXCEPT ![r] = [@ EXCEPT !.step = "RECORD", !.goal = VerdictOn(a), !.up = TRUE]]
    /\ UNCHANGED <<env, ring, type, row, granted, flow, logins, holder, upsets>>

\* The call fails, or takes longer than its time limit.
CallFails(r) ==
    /\ run[r].step \in {"CONNECT", "WORK"} /\ Upset
    /\ \E a \in {"TRANSIENT", "UNKNOWN"} :
          run' = [run EXCEPT ![r] = [@ EXCEPT !.step = "RECORD", !.goal = VerdictOn(a), !.up = TRUE]]
    /\ UNCHANGED <<env, ring, type, row, granted, flow, logins, holder>>

\* record_telegram_account_runtime_result, for the holder of the lease and a row that
\* is READY; refused, the run ends.
Record(r) ==
    /\ run[r].step = "RECORD"
    /\ LET goal == run[r].goal
           taken == Holds(r) /\ row.status = "READY"
       IN /\ row' = IF ~taken THEN row
                    ELSE CASE goal = "CONNECTED" -> [row EXCEPT !.backoff = FALSE]
                           [] goal = "FAILED_RETRYABLE" -> [row EXCEPT !.backoff = TRUE]
                           [] goal = "DEGRADED" -> [row EXCEPT !.status = "DEGRADED", !.backoff = FALSE]
                           [] goal = "REVOKED" -> Revoked
          /\ holder' = IF taken /\ goal = "REVOKED" THEN Unleased ELSE holder
          /\ run' = [run EXCEPT ![r] = IF taken /\ goal = "CONNECTED" THEN [@ EXCEPT !.step = "WORK"] ELSE Close(r)]
    /\ UNCHANGED <<env, ring, type, granted, flow, logins, upsets>>

\* Work meets an answer that ends the run.
Work(r) ==
    /\ run[r].step = "WORK"
    /\ \E a \in Answers(r) \ {"CONNECTED"} :
          run' = [run EXCEPT ![r] = [@ EXCEPT !.step = "RECORD", !.goal = VerdictOn(a)]]
    /\ UNCHANGED <<env, ring, type, row, granted, flow, logins, holder, upsets>>

\* Nothing to do, the lease is lost, or the process is asked to stop.
Drain(r) ==
    /\ run[r].step = "WORK"
    /\ run' = [run EXCEPT ![r] = Close(r)]
    /\ UNCHANGED <<env, ring, type, row, granted, flow, logins, holder, upsets>>

Release(r) == holder' = IF Holds(r) THEN None ELSE holder

\* The client disconnects, the lease is released.
Disconnect(r) ==
    /\ run[r].step = "CLOSE"
    /\ run' = [run EXCEPT ![r] = NoRun] /\ Release(r)
    /\ UNCHANGED <<env, ring, type, row, granted, flow, logins, upsets>>

\* The lease of a stalled engine runs out, and the run goes on; or the engine dies,
\* and its lease runs out before anything else happens.
Lapse(r) ==
    /\ Holds(r) /\ Upset
    /\ holder' = None
    /\ run' = [run EXCEPT ![r] = NoRun] \/ UNCHANGED run
    /\ UNCHANGED <<env, ring, type, row, granted, flow, logins>>

\* runtime_retry_at is reached.
RetryIsDue ==
    /\ row.backoff
    /\ row' = [row EXCEPT !.backoff = FALSE]
    /\ UNCHANGED <<env, ring, type, granted, flow, logins, holder, run, upsets>>

Step(r) == Load(r) \/ Connect(r) \/ Record(r) \/ Work(r) \/ Drain(r) \/ Disconnect(r)

Next ==
    \/ \E k \in Key : AddKey(k) \/ Activate(k) \/ RemoveKey(k)
    \/ \E p \in Api : DeployApi(p) \/ RequestCode(p) \/ SignIn(p)
    \/ Abandon \/ Complete \/ Logout \/ EndElsewhere \/ RetryIsDue
    \/ \E r \in EngineRun : DeployEngine(r) \/ Acquire(r) \/ Step(r) \/ CallFails(r) \/ Lapse(r)

Spec == Init /\ [][Next]_vars

\* The engine starts runs of an account that is due, runs go on, retries become due;
\* a deployment stops the runs of the process it replaces.
Fairness ==
    /\ WF_vars(\E r \in EngineRun : Acquire(r)) /\ WF_vars(RetryIsDue)
    /\ \A r \in EngineRun : WF_vars(Step(r)) /\ SF_vars(DeployEngine(r))

FairSpec == Spec /\ Fairness

-----------------------------------------------------------------------------
(* Properties. *)

\* A rotation only delays an account: whatever order keys come and processes are
\* deployed in, no account is given up before Telegram was asked about its session.
KeysOnlyDelay ==
    [][row.status = "READY" /\ row'.status = "DEGRADED" =>
          \E r \in EngineRun : run[r].up /\ run[r].step = "RECORD"]_vars

\* An account with a session Telegram accepts gets to work with it, however far the
\* engine is behind the API with its keys.
Usable == row.status = "READY" /\ row.session.login \in granted
Used == \E r \in EngineRun : run[r].step = "WORK" /\ run[r].login = row.session.login
StoredIsUsed == Usable ~> Used \/ ~Usable

\* A session ended from another device does not stay READY for ever.
Ended == row.status = "READY" /\ row.session.login \notin granted
EndIsNoticed == Ended ~> ~Ended

(* Refuted: see README. *)

\* What a run found out about one session is not held against another.
FreshLoginSurvives ==
    [][\A r \in EngineRun :
          run[r].step = "RECORD" /\ run'[r].step = "CLOSE" /\ row'.status # row.status =>
              run[r].login = row.session.login]_vars

\* "Never remove an old version while database rows still reference it"
\* (telegram-session-crypto/README.md:17) is enough to keep sessions open.
StoredKeyIsKept == row.session.key # None => row.session.key \in env.keys

\* A login is not failed by a rotation.
LoginOpens == \A p \in Api : flow.step = "CODE" => StateOpens(p)
=============================================================================
