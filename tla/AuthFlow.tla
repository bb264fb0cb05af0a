------------------------------ MODULE AuthFlow ------------------------------
(***************************************************************************)
(* Login to a Telegram account through the API: the durable flow with its  *)
(* versions, the requests that advance it (start, code, password, cancel), *)
(* the Telegram calls in between, and the row and profile a login ends in. *)
(* Requests run on any replica, may die at every await, come twice, or     *)
(* carry an old version; a flow runs out of time under them.               *)
(*                                                                         *)
(* A Telegram account has at most one row.  The flow's encrypted state is  *)
(* there exactly while the flow is open and past CREATED: not modelled.    *)
(***************************************************************************)
EXTENDS Integers

CONSTANTS Request,    \* requests in progress at a time
          User, Nobody,
          Account,    \* Telegram accounts users log in to
          Type,       \* account types in use
          MaxFlows,   \* bound: flows begun
          MaxVersion  \* bound: a flow at this version takes no further step

ASSUME NobodyAssumption == Nobody \notin User \cup Account
ASSUME TypeAssumption == Type \subseteq {"USERBOT", "JASEB_WORKER", "MONITOR"}
ASSUME BoundAssumption == MaxFlows \in Nat /\ MaxVersion \in Nat

VARIABLES begun,    \* flows begun so far, numbered from 1
          status, version,
          user, type,  \* of each flow
          late,     \* expires_at has passed
          row,      \* the row of each account; id 0: none yet
          profile,  \* the active account of each user's profile
          pc,       \* where each request is
          flow,     \* the flow it is about, 0 for none
          ver,      \* the version it holds
          step,     \* the step it has claimed
          acct,     \* the account Telegram let it in to
          id        \* the row id its session is encrypted for

flowVars == <<begun, status, version, user, type, late>>
rowVars == <<row, profile>>
reqVars == <<pc, flow, ver, step, acct, id>>
vars == <<flowVars, rowVars, reqVars>>

Flow == 1..MaxFlows
Step == {"CODE_REQUIRED", "PASSWORD_REQUIRED"}
Active == Step \cup {"CREATED", "VERIFYING"}
Status == Active \cup {"NONE", "SUCCEEDED", "FAILED", "CANCELLED", "EXPIRED"}

\* id: the flow that created it; bound: the id its session opens with; by: the flow
\* the session comes from; on: monitor_active.
Row == [id : 0..MaxFlows, owner : User \cup {Nobody}, live : BOOLEAN, bound : 0..MaxFlows,
        by : 0..MaxFlows, on : BOOLEAN]
NoRow == [id |-> 0, owner |-> Nobody, live |-> FALSE, bound |-> 0, by |-> 0, on |-> FALSE]

TypeOK ==
    /\ begun \in 0..MaxFlows
    /\ status \in [Flow -> Status] /\ version \in [Flow -> Nat]
    /\ user \in [Flow -> User \cup {Nobody}] /\ type \in [Flow -> Type \cup {"NONE"}]
    /\ late \in [Flow -> BOOLEAN]
    /\ row \in [Account -> Row] /\ profile \in [User -> Account \cup {Nobody}]
    /\ pc \in [Request -> {"IDLE", "STARTING", "ASKING", "ASKED", "FAILING", "SIGNING", "RESTORING", "ADVANCING", "RESOLVING",
                           "COMPLETING", "AGAIN", "RAISED"}]
    /\ flow \in [Request -> 0..MaxFlows] /\ ver \in [Request -> Nat]
    /\ step \in [Request -> Step]
    /\ acct \in [Request -> Account \cup {Nobody}] /\ id \in [Request -> 0..MaxFlows]

Init ==
    /\ begun = 0
    /\ status = [f \in Flow |-> "NONE"] /\ version = [f \in Flow |-> 0]
    /\ user = [f \in Flow |-> Nobody] /\ type = [f \in Flow |-> "NONE"]
    /\ late = [f \in Flow |-> FALSE]
    /\ row = [a \in Account |-> NoRow] /\ profile = [u \in User |-> Nobody]
    /\ pc = [r \in Request |-> "IDLE"]
    /\ flow = [r \in Request |-> 0] /\ ver = [r \in Request |-> 0]
    /\ step = [r \in Request |-> "CODE_REQUIRED"]
    /\ acct = [r \in Request |-> Nobody] /\ id = [r \in Request |-> 0]

Open(f) == status[f] \in Active
Current(f, v) == Open(f) /\ ~late[f] /\ version[f] = v
Owner(f) == IF type[f] = "USERBOT" THEN user[f] ELSE Nobody

-----------------------------------------------------------------------------
(* telegram_account_auth_flows *)

Settle(f, s) ==
    /\ status' = [status EXCEPT ![f] = s]
    /\ version' = [version EXCEPT ![f] = @ + 1]

\* transition_telegram_account_auth_flow: an open flow out of time expires, a stale
\* version changes nothing.
Move(f, v, s) ==
    /\ \/ Open(f) /\ late[f] /\ Settle(f, "EXPIRED")
       \/ Current(f, v) /\ Settle(f, s)
       \/ ~Open(f) /\ UNCHANGED <<status, version>>
       \/ Open(f) /\ ~late[f] /\ version[f] # v /\ UNCHANGED <<status, version>>
    /\ UNCHANGED <<begun, user, type, late>>

\* Mutation: a step is given to anyone who comes while the flow is open.
ClaimAnyVersion(f, v, s) == Open(f) /\ ~late[f]

\* claim_telegram_account_auth_flow_step
Claimable(f, v, s) == Current(f, v) /\ status[f] = s

\* Mutation: only flows that wait for the user expire.
ExpireWaiting(u, t) == {f \in Flow : status[f] \in Step /\ late[f] /\ user[f] = u /\ type[f] = t}

Expired(u, t) == {f \in Flow : Open(f) /\ late[f] /\ user[f] = u /\ type[f] = t}

\* expires_at passes; nothing in the database changes.
TimeOut(f) ==
    /\ Open(f) /\ ~late[f]
    /\ late' = [late EXCEPT ![f] = TRUE]
    /\ UNCHANGED <<begun, status, version, user, type, rowVars, reqVars>>

-----------------------------------------------------------------------------
(* Requests. *)

Goto(r, l) == pc' = [pc EXCEPT ![r] = l]

\* The request is over; its answer may get lost.
End(r) ==
    /\ pc' = [pc EXCEPT ![r] = "IDLE"] /\ flow' = [flow EXCEPT ![r] = 0]
    /\ ver' = [ver EXCEPT ![r] = 0] /\ step' = [step EXCEPT ![r] = "CODE_REQUIRED"]
    /\ acct' = [acct EXCEPT ![r] = Nobody] /\ id' = [id EXCEPT ![r] = 0]

\* begin_telegram_account_auth_flow: the user's flows of the type that are out of
\* time expire; another open one is answered as it is, or else a flow is created.
Begin(r, u, t) ==
    LET over == Expired(u, t)
        open == {f \in Flow : Open(f) /\ user[f] = u /\ type[f] = t} \ over
        new == begun + 1
        create == open = {} /\ begun < MaxFlows
    IN
    /\ pc[r] = "IDLE"
    /\ begun' = IF create THEN new ELSE begun
    /\ status' = [f \in Flow |-> IF f \in over THEN "EXPIRED"
                                 ELSE IF create /\ f = new THEN "CREATED" ELSE status[f]]
    /\ version' = [f \in Flow |-> IF f \in over \/ (create /\ f = new)
                                  THEN version[f] + 1 ELSE version[f]]
    /\ user' = [f \in Flow |-> IF create /\ f = new THEN u ELSE user[f]]
    /\ type' = [f \in Flow |-> IF create /\ f = new THEN t ELSE type[f]]
    /\ IF create
         THEN /\ Goto(r, "STARTING")
              /\ flow' = [flow EXCEPT ![r] = new]
              /\ ver' = [ver EXCEPT ![r] = 1]
              /\ UNCHANGED <<step, acct, id>>
         ELSE UNCHANGED reqVars
    /\ UNCHANGED <<late, rowVars>>

\* start: the flow is VERIFYING while Telegram is asked for a code.
StartClaims(r) ==
    /\ pc[r] = "STARTING"
    /\ Move(flow[r], ver[r], "VERIFYING")
    /\ IF Current(flow[r], ver[r])
         THEN /\ Goto(r, "ASKING")
              /\ ver' = [ver EXCEPT ![r] = @ + 1]
              /\ UNCHANGED <<flow, step, acct, id>>
         ELSE End(r)
    /\ UNCHANGED rowVars

RequestCode(r) ==
    /\ pc[r] = "ASKING"
    /\ Goto(r, "ASKED") \/ Goto(r, "FAILING")
    /\ UNCHANGED <<flowVars, rowVars, flow, ver, step, acct, id>>

\* The last call of a request: it writes where the flow is to be and answers.
Write(r, l, s) ==
    /\ pc[r] = l
    /\ Move(flow[r], ver[r], s)
    /\ End(r)
    /\ UNCHANGED rowVars

CodeSent(r) == Write(r, "ASKED", "CODE_REQUIRED")
Fail(r) == Write(r, "FAILING", "FAILED")
Restore(r) == Write(r, "RESTORING", step[r])
Advance(r) == Write(r, "ADVANCING", "PASSWORD_REQUIRED")

\* submitCode or submitPassword, with the flow's version or an older one (0): a
\* version is only looked at here.
Claim(r, f, v, s) ==
    /\ pc[r] = "IDLE" /\ version[f] < MaxVersion
    /\ IF Claimable(f, v, s)
         THEN /\ Settle(f, "VERIFYING")
              /\ Goto(r, "SIGNING")
              /\ flow' = [flow EXCEPT ![r] = f]
              /\ ver' = [ver EXCEPT ![r] = version'[f]]
              /\ step' = [step EXCEPT ![r] = s]
              /\ UNCHANGED <<acct, id>>
         ELSE /\ IF Open(f) /\ late[f] THEN Settle(f, "EXPIRED")
                 ELSE UNCHANGED <<status, version>>
              /\ UNCHANGED reqVars
    /\ UNCHANGED <<begun, user, type, late, rowVars>>

\* An error of Telegram: the user may try again or, after some of them, may not.
Refused == {"RESTORING", "FAILING"}

\* What Telegram says: authorized, an error or, after a code, password needed.
Answers(s) ==
    {"RESOLVING"} \cup Refused \cup (IF s = "CODE_REQUIRED" THEN {"ADVANCING"} ELSE {})

SignIn(r) ==
    /\ pc[r] = "SIGNING"
    /\ \E l \in Answers(step[r]) :
          /\ Goto(r, l)
          /\ IF l = "RESOLVING" THEN \E a \in Account : acct' = [acct EXCEPT ![r] = a]
             ELSE UNCHANGED acct
    /\ UNCHANGED <<flowVars, rowVars, flow, ver, step, id>>

\* The user cancels, or a submit to a USERBOT's flow finds the subscription over.
Cancel(f, v) ==
    /\ Move(f, v, "CANCELLED")
    /\ UNCHANGED <<rowVars, reqVars>>

-----------------------------------------------------------------------------
(* The end of a login. *)

\* The account's row is of another type or another owner than the flow.
Foreign(a, f) ==
    row[a].id # 0 /\ (type[row[a].by] # type[f] \/ row[a].owner # Owner(f))

\* resolveCompletionAccountId: the row's id, or else a new one (the flow's number).
Resolve(r) ==
    LET a == acct[r] IN
    /\ pc[r] = "RESOLVING"
    /\ IF Foreign(a, flow[r])
         THEN Goto(r, "FAILING") /\ UNCHANGED id
         ELSE /\ id' = [id EXCEPT ![r] = IF row[a].id = 0 THEN flow[r] ELSE row[a].id]
              /\ Goto(r, "COMPLETING")
    /\ UNCHANGED <<flowVars, rowVars, flow, ver, step, acct>>

\* Mutation: a row that is there by now keeps its id, whatever the session is for.
AnyId(r) == FALSE

\* ACCOUNT_ID_MISMATCH: the row is there under another id by now.
Mismatch(r) == row[acct[r]].id # 0 /\ row[acct[r]].id # id[r]

\* The monitors a MONITOR's login switches off.  FOUND is true after that if there
\* was one, and otherwise if the account has a row; it chooses update or insert.
Replaced(a, f) == {b \in Account \ {a} : type[f] = "MONITOR" /\ row[b].on}
Found(a, f) == IF type[f] = "MONITOR" THEN Replaced(a, f) # {} ELSE row[a].id # 0

\* The rest of complete_telegram_account_auth_flow: the session is stored, the
\* profile of a USERBOT's owner points to the account, the flow ends.  A row updated
\* that is not there, or inserted that is, raises and undoes it all.
Store(r) ==
    LET a == acct[r]  f == flow[r]
        stored == [id |-> IF row[a].id = 0 THEN id[r] ELSE row[a].id,
                   owner |-> Owner(f), live |-> TRUE,
                   bound |-> id[r], by |-> f, on |-> type[f] = "MONITOR"]
    IN
    IF Found(a, f) = (row[a].id # 0)
      THEN /\ row' = [b \in Account |->
                         IF b = a THEN stored
                         ELSE IF b \in Replaced(a, f) THEN [row[b] EXCEPT !.on = FALSE]
                         ELSE row[b]]
           /\ profile' = IF type[f] = "USERBOT" THEN [profile EXCEPT ![user[f]] = a]
                         ELSE profile
           /\ Settle(f, "SUCCEEDED")
           /\ End(r)
      ELSE Goto(r, "RAISED") /\ UNCHANGED <<status, version, rowVars, flow, ver, step, acct, id>>

\* Mutation: a version still current is enough, whatever became of the flow.
CompletableAnytime(f, v) == TRUE

Completable(f, v) == Current(f, v) /\ status[f] = "VERIFYING"

Complete(r) ==
    LET a == acct[r]  f == flow[r] IN
    /\ pc[r] \in {"COMPLETING", "AGAIN"}
    /\ \/ /\ ~Completable(f, ver[r])
          /\ IF Open(f) /\ late[f] THEN Settle(f, "EXPIRED") ELSE UNCHANGED <<status, version>>
          /\ End(r)
          /\ UNCHANGED rowVars
       \/ /\ Completable(f, ver[r]) /\ Foreign(a, f)
          /\ Goto(r, "FAILING")
          /\ UNCHANGED <<status, version, rowVars, flow, ver, step, acct, id>>
       \/ /\ Completable(f, ver[r]) /\ ~Foreign(a, f) /\ Mismatch(r)
          /\ IF pc[r] = "COMPLETING"
               THEN /\ Goto(r, "AGAIN") /\ id' = [id EXCEPT ![r] = row[a].id]
                    /\ UNCHANGED <<flow, ver, step, acct>>
               ELSE End(r)
          /\ UNCHANGED <<status, version, rowVars>>
       \/ Completable(f, ver[r]) /\ ~Foreign(a, f) /\ ~Mismatch(r) /\ Store(r)
    /\ UNCHANGED <<begun, user, type, late>>

\* The completion raised: the route answers 503.
Raise(r) == pc[r] = "RAISED" /\ End(r) /\ UNCHANGED <<flowVars, rowVars>>

\* The replica dies, or a call to the database throws: the request is gone.
Crash(r) ==
    /\ pc[r] # "IDLE"
    /\ End(r)
    /\ UNCHANGED <<flowVars, rowVars>>

-----------------------------------------------------------------------------
(* The account afterwards. *)

Detached(a) == [u \in User |-> IF profile[u] = a THEN Nobody ELSE profile[u]]

\* Logout by the owner, or an engine that Telegram refuses the session.
Revoke(a) ==
    /\ row[a].live
    /\ row' = [row EXCEPT ![a].live = FALSE]
    /\ profile' = Detached(a)
    /\ UNCHANGED <<flowVars, reqVars>>

\* switch_userbot_profile_account, detach_userbot_profile_account
Switch(u, a) ==
    /\ row[a].live /\ row[a].owner = u
    /\ profile' = [profile EXCEPT ![u] = a]
    /\ UNCHANGED <<flowVars, row, reqVars>>
Detach(u) ==
    /\ profile' = [profile EXCEPT ![u] = Nobody]
    /\ UNCHANGED <<flowVars, row, reqVars>>

\* The admin switches a monitor on, and any other off, or off.
SetActive(a, on) ==
    /\ row[a].id # 0 /\ type[row[a].by] = "MONITOR"
    /\ row' = [b \in Account |-> IF b = a THEN [row[b] EXCEPT !.on = on]
                                ELSE [row[b] EXCEPT !.on = @ /\ ~on]]
    /\ UNCHANGED <<flowVars, profile, reqVars>>

Work(r) ==
    \/ StartClaims(r) \/ RequestCode(r) \/ CodeSent(r) \/ Fail(r) \/ Restore(r)
    \/ Advance(r) \/ SignIn(r) \/ Resolve(r) \/ Complete(r) \/ Raise(r)

\* A request arrives at one of the routes.
Arrival ==
    \/ \E r \in Request, u \in User, t \in Type : Begin(r, u, t)
    \/ \E r \in Request, f \in 1..begun, s \in Step :
          \E v \in {0, version[f]} : Claim(r, f, v, s)
    \/ \E f \in 1..begun : \E v \in {0, version[f]} : Cancel(f, v)

Next ==
    \/ Arrival
    \/ \E r \in Request : Work(r) \/ Crash(r)
    \/ \E f \in Flow : TimeOut(f)
    \/ \E a \in Account :
          \/ Revoke(a)
          \/ \E u \in User : Switch(u, a)
          \/ \E on \in BOOLEAN : SetActive(a, on)
    \/ \E u \in User : Detach(u)

Spec == Init /\ [][Next]_vars

\* Flows run out of time, requests go on, and a user who wants in asks again.
Fairness ==
    /\ \A f \in Flow : WF_vars(TimeOut(f))
    /\ \A r \in Request : WF_vars(Work(r))
    /\ \A u \in User, t \in Type : SF_vars(\E r \in Request : Begin(r, u, t))

FairSpec == Spec /\ Fairness

-----------------------------------------------------------------------------
(* Properties. *)

\* Requests that have claimed a step and not written its end yet.
Holding(r) == pc[r] \in {"ASKING", "ASKED", "FAILING", "SIGNING", "RESTORING",
                         "ADVANCING", "RESOLVING", "COMPLETING", "AGAIN", "RAISED"}

\* EVIDENCE_LEDGER.md:2001: of requests submitted at once, with whatever versions,
\* one works with the flow's state at a time, from the claim to the last write.
StateUsedOnce ==
    \A r, q \in Request : Holding(r) /\ Holding(q) /\ flow[r] = flow[q] => r = q

\* The session stored opens with the row's own id (its AES-GCM domain), was obtained
\* by a flow of the row's type and owner, and backs every profile that points to it.
SessionIsBound ==
    /\ \A a \in Account :
          row[a].live => row[a].bound = row[a].id /\ row[a].owner = Owner(row[a].by)
    /\ \A u \in User :
          profile[u] # Nobody => row[profile[u]].live /\ row[profile[u]].owner = u

\* A flow that was cancelled, failed, expired or used connects nothing afterwards,
\* however late Telegram lets its request in.
OverIsOver == [][\A f \in Flow : ~Open(f) /\ status[f] # "NONE" => status'[f] = status[f]]_vars

\* A flow whose request died does not keep its user out: it ends when it is late.
LoginIsFreed == \A f \in Flow : status[f] = "VERIFYING" ~> status[f] # "VERIFYING"

\* TELEGRAM_ACCOUNT_LIFECYCLE.md:64: flows are safe over restarts: the user can go on
\* with an open flow, or cancel it, when no request is at work on it.
OpenIsUsable ==
    \A u \in User, f \in Flow :
        Open(f) /\ ~late[f] /\ status[f] \notin Step => \E r \in Request : flow[r] = f

\* AdminPanel.tsx:328 offers "Login ulang" for a monitor without a session: a login
\* Telegram grants, in time and by the account's own kind of flow, never raises.
LoginIsStored == \A r \in Request : pc[r] # "RAISED"
=============================================================================
