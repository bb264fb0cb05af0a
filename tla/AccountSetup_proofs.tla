-------------------------- MODULE AccountSetup_proofs --------------------------
(***************************************************************************)
(* Proofs about the two protocols a user sets automation up with, for any  *)
(* numbers of users, accounts, flows, channels, requests and runs: the     *)
(* login (AuthFlow and its client LoginDialog) and the channels            *)
(* (ChannelTargets, as MCAccountSetup instantiates it).                    *)
(***************************************************************************)
EXTENDS MCAccountSetup, TLAPS, FiniteSetTheorems

(* The login: what holds of it. *)

\* A request is under way.
Working(r) == pc[r] # "IDLE"

\* Flows are numbered as they begin: those to come have no status yet.
FlowsInOrder == \A f \in Flow : f > begun => status[f] = "NONE"

\* A request under way has a flow of its own, which waits for no user meanwhile.
OneAtWork ==
    /\ \A r \in Request :
          Working(r) => flow[r] \in 1..begun /\ status[flow[r]] \notin Step
    /\ \A r, q \in Request : Working(r) /\ Working(q) /\ flow[r] = flow[q] => r = q

\* A request that Telegram let in has the account, and later an id for its row.
AdmittedIsKnown ==
    \A r \in Request :
        /\ pc[r] \in {"RESOLVING", "COMPLETING", "AGAIN", "RAISED"} => acct[r] \in Account
        /\ pc[r] \in {"COMPLETING", "AGAIN", "RAISED"} => id[r] # 0

\* A session belongs to a row that exists and to a flow that has begun.
SessionHasRow ==
    \A a \in Account : row[a].live => row[a].id # 0 /\ row[a].by \in 1..begun

AuthInv ==
    TypeOK /\ FlowsInOrder /\ OneAtWork /\ AdmittedIsKnown /\ SessionHasRow /\ SessionIsBound

\* What the dialog waits for is one request, about the flow it shows if it shows one.
AskedIsShown ==
    /\ \A r \in asked : Working(r) /\ shown \in {0, flow[r]}
    /\ \A r, q \in asked : r = q

\* Nobody else works on the flow that is shown, unless the dialog missed an answer.
NobodyElse ==
    shown # 0 /\ trouble # "LOST" => \A r \in Request : Working(r) /\ flow[r] = shown => r \in asked

\* Who is at the dialog logs in to an account of some type.
ViewerHasKind == viewer # Nobody => kind \in Type

DialogInv ==
    AuthInv /\ DialogTypeOK /\ ViewerHasKind /\ AskedIsShown /\ NobodyElse /\ DialogCanGoOn

-----------------------------------------------------------------------------
(* Steps. *)

\* A step of AuthFlow, or of a client that holds any version.
AnyStep ==
    \/ \E r \in Request, u \in User, t \in Type : Begin(r, u, t)
    \/ \E r \in Request, f \in Flow, s \in Step, v \in Nat : Claim(r, f, v, s)
    \/ \E f \in Flow, v \in Nat : Cancel(f, v)
    \/ \E r \in Request : Work(r) \/ Crash(r)
    \/ \E f \in Flow : TimeOut(f)
    \/ \E a \in Account : Revoke(a)
    \/ \E a \in Account, u \in User : Switch(u, a)
    \/ \E a \in Account, on \in BOOLEAN : SetActive(a, on)
    \/ \E u \in User : Detach(u)

\* Flow f takes at most one step, and none once it is over.
Touches(f) ==
    /\ UNCHANGED <<begun, user, type>>
    /\ \A g \in Flow \ {f} : status'[g] = status[g] /\ version'[g] = version[g]
    /\ ~Open(f) => status'[f] = status[f] /\ version'[f] = version[f]

\* Every request but r is where it was.
OthersWait(r) ==
    \A q \in Request \ {r} :
        /\ pc'[q] = pc[q] /\ flow'[q] = flow[q]
        /\ acct'[q] = acct[q] /\ id'[q] = id[q]

\* Request r ends, or goes on with its flow, which waits for no user.
EndsOrGoesOn(r) ==
    \/ pc'[r] = "IDLE"
    \/ /\ flow'[r] = flow[r] /\ status'[flow[r]] \notin Step
       /\ pc'[r] \in {"RESOLVING", "COMPLETING", "AGAIN", "RAISED"} => acct'[r] \in Account
       /\ pc'[r] \in {"COMPLETING", "AGAIN", "RAISED"} => id'[r] # 0

-----------------------------------------------------------------------------
(* Types. *)

\* What a settled flow looks like.
LEMMA SettleEffect ==
    ASSUME TypeOK, NEW f \in Flow, NEW s \in Status, Settle(f, s)
    PROVE  /\ status' \in [Flow -> Status] /\ version' \in [Flow -> Nat]
           /\ status'[f] = s /\ version'[f] = version[f] + 1
           /\ \A g \in Flow \ {f} : status'[g] = status[g] /\ version'[g] = version[g]
BY DEF TypeOK, Settle

\* What a transition does: it settles the flow if it is open and current, or late.
LEMMA MoveEffect ==
    ASSUME TypeOK, NEW f \in Flow, NEW v, NEW s \in Status, Move(f, v, s)
    PROVE  /\ status' \in [Flow -> Status] /\ version' \in [Flow -> Nat]
           /\ UNCHANGED late /\ Touches(f)
           /\ \/ Current(f, v) /\ status'[f] = s
              \/ ~Current(f, v) /\ status'[f] \in {status[f], "EXPIRED"}
<1>0. "EXPIRED" \in Status
  BY DEF Status
<1>1. CASE Open(f) /\ late[f] /\ Settle(f, "EXPIRED")
  BY <1>0, <1>1, SettleEffect DEF Touches, Move, Current
<1>2. CASE Current(f, v) /\ Settle(f, s)
  BY <1>2, SettleEffect DEF Touches, Move, Current
<1>3. CASE ~Current(f, v) /\ UNCHANGED <<status, version>>
  BY <1>3 DEF Touches, Move, TypeOK
<1> QED
  BY <1>1, <1>2, <1>3 DEF Move, Current

\* The end of a request keeps the types.
LEMMA EndType ==
    ASSUME TypeOK, NEW r \in Request, End(r)
    PROVE  /\ pc' = [pc EXCEPT ![r] = "IDLE"]
           /\ pc' \in [Request -> {"IDLE", "STARTING", "ASKING", "ASKED", "FAILING", "SIGNING", "RESTORING",
                                   "ADVANCING", "RESOLVING", "COMPLETING", "AGAIN", "RAISED"}]
           /\ flow' \in [Request -> 0..MaxFlows] /\ ver' \in [Request -> Nat]
           /\ step' \in [Request -> Step]
           /\ acct' \in [Request -> Account \cup {Nobody}] /\ id' \in [Request -> 0..MaxFlows]
           /\ OthersWait(r) /\ pc'[r] = "IDLE"
BY BoundAssumption DEF TypeOK, End, Step, OthersWait

\* The last call of a request: the flow gets where it was to be only if it was current.
LEMMA WriteEffect ==
    ASSUME AuthInv, NEW r \in Request, NEW l \in {"ASKED", "FAILING", "RESTORING", "ADVANCING"},
           NEW s \in Status, Write(r, l, s)
    PROVE  /\ TypeOK' /\ Working(r) /\ Touches(flow[r]) /\ OthersWait(r) /\ EndsOrGoesOn(r)
           /\ UNCHANGED rowVars /\ pc'[r] = "IDLE"
           /\ status'[flow[r]] \in {status[flow[r]], "EXPIRED", s}
           /\ UNCHANGED late
<1>1. /\ Working(r) /\ flow[r] \in Flow
  BY BoundAssumption DEF Write, Working, AuthInv, OneAtWork, TypeOK, Flow
<1>2. Move(flow[r], ver[r], s) /\ End(r) /\ UNCHANGED rowVars
  BY DEF Write
<1>3. UNCHANGED <<begun, user, type, late, row, profile>>
  BY <1>2 DEF Move, rowVars
<1>4. TypeOK'
  BY <1>1, <1>2, <1>3, MoveEffect, EndType DEF AuthInv, TypeOK
<1> QED
  BY <1>1, <1>2, <1>4, MoveEffect, EndType DEF AuthInv, EndsOrGoesOn

\* The start of a login claims the flow, or ends because it is not there any more.
LEMMA StartClaimsEffect ==
    ASSUME AuthInv, NEW r \in Request, StartClaims(r)
    PROVE  /\ TypeOK' /\ Working(r) /\ Touches(flow[r]) /\ OthersWait(r) /\ EndsOrGoesOn(r)
           /\ UNCHANGED rowVars /\ status'[flow[r]] \notin Step
<1>1. /\ Working(r) /\ flow[r] \in Flow /\ status[flow[r]] \notin Step
  BY BoundAssumption DEF StartClaims, Working, AuthInv, OneAtWork, TypeOK, Flow
<1>2. Move(flow[r], ver[r], "VERIFYING") /\ UNCHANGED rowVars
  BY DEF StartClaims
<1>3. UNCHANGED <<begun, user, type, late, row, profile>>
  BY <1>2 DEF Move, rowVars
<1>4. /\ status'[flow[r]] \notin Step /\ Touches(flow[r])
      /\ status' \in [Flow -> Status] /\ version' \in [Flow -> Nat]
  BY <1>1, <1>2, MoveEffect DEF AuthInv, Step, Status, Active
<1>5. CASE End(r)
  BY <1>1, <1>2, <1>3, <1>4, <1>5, EndType DEF AuthInv, TypeOK, EndsOrGoesOn
<1>6. CASE Goto(r, "ASKING") /\ ver' = [ver EXCEPT ![r] = @ + 1] /\ UNCHANGED <<flow, step, acct, id>>
  BY <1>1, <1>2, <1>3, <1>4, <1>6 DEF AuthInv, TypeOK, EndsOrGoesOn, OthersWait, Goto
<1> QED
  BY <1>5, <1>6 DEF StartClaims

\* Between its calls to the database a request asks Telegram or looks a row up.
LEMMA AskEffect ==
    ASSUME AuthInv, NEW r \in Request, RequestCode(r) \/ SignIn(r) \/ Resolve(r)
    PROVE  /\ TypeOK' /\ Working(r) /\ OthersWait(r) /\ EndsOrGoesOn(r)
           /\ UNCHANGED <<flowVars, rowVars, flow>> /\ pc'[r] # "IDLE"
<1>1. /\ Working(r) /\ flow[r] \in Flow /\ flow[r] # 0 /\ status[flow[r]] \notin Step
  BY BoundAssumption DEF RequestCode, SignIn, Resolve, Working, AuthInv, OneAtWork, TypeOK, Flow
<1>2. CASE RequestCode(r)
  BY <1>1, <1>2 DEF RequestCode, AuthInv, TypeOK, OthersWait, EndsOrGoesOn, Goto, flowVars, rowVars
<1>3. CASE SignIn(r)
  <2>1. PICK l \in {"RESOLVING", "RESTORING", "FAILING", "ADVANCING"} :
           /\ pc' = [pc EXCEPT ![r] = l]
           /\ \/ l = "RESOLVING" /\ \E a \in Account : acct' = [acct EXCEPT ![r] = a]
              \/ l # "RESOLVING" /\ acct' = acct
    BY <1>3 DEF SignIn, Answers, Refused, Goto
  <2> QED
    BY <1>1, <1>3, <2>1 DEF SignIn, AuthInv, TypeOK, OthersWait, EndsOrGoesOn, flowVars, rowVars
<1>4. CASE Resolve(r)
  <2>1. acct[r] \in Account /\ row[acct[r]].id \in 0..MaxFlows
    BY <1>4 DEF Resolve, AuthInv, AdmittedIsKnown, TypeOK, Row
  <2>2. /\ pc' \in {[pc EXCEPT ![r] = "FAILING"], [pc EXCEPT ![r] = "COMPLETING"]}
        /\ \/ pc'[r] = "FAILING" /\ id' = id
           \/ \E x \in 0..MaxFlows : x # 0 /\ id' = [id EXCEPT ![r] = x]
    BY <1>1, <1>4, <2>1 DEF Resolve, Goto, AuthInv, TypeOK
  <2> QED
    BY <1>1, <1>4, <2>1, <2>2 DEF Resolve, AuthInv, TypeOK, OthersWait, EndsOrGoesOn, flowVars, rowVars
<1> QED
  BY <1>2, <1>3, <1>4

\* A completion that stores nothing ends, or comes back for the id of the row.
NotStored(r) ==
    /\ pc[r] \in {"COMPLETING", "AGAIN"} /\ UNCHANGED <<begun, user, type, late, row, profile>>
    /\ \/ /\ IF Open(flow[r]) /\ late[flow[r]] THEN Settle(flow[r], "EXPIRED")
             ELSE UNCHANGED <<status, version>>
          /\ End(r)
       \/ /\ UNCHANGED <<status, version>>
          /\ \/ End(r)
             \/ pc' = [pc EXCEPT ![r] = "FAILING"] /\ UNCHANGED <<flow, ver, step, acct, id>>
             \/ pc' = [pc EXCEPT ![r] = "RAISED"] /\ UNCHANGED <<flow, ver, step, acct, id>>
             \/ /\ pc' = [pc EXCEPT ![r] = "AGAIN"]
                /\ row[acct[r]].id # 0 /\ id' = [id EXCEPT ![r] = row[acct[r]].id]
                /\ UNCHANGED <<flow, ver, step, acct>>

LEMMA NotStoredEffect ==
    ASSUME AuthInv, NEW r \in Request, NotStored(r)
    PROVE  /\ TypeOK' /\ Working(r) /\ Touches(flow[r]) /\ OthersWait(r) /\ EndsOrGoesOn(r)
           /\ UNCHANGED rowVars /\ status'[flow[r]] \notin Step
<1>1. /\ Working(r) /\ flow[r] \in Flow /\ status[flow[r]] \notin Step
      /\ acct[r] \in Account /\ row[acct[r]].id \in 0..MaxFlows /\ id[r] # 0
  BY BoundAssumption DEF NotStored, Working, AuthInv, OneAtWork, AdmittedIsKnown, TypeOK, Flow, Row
<1>2. /\ status' \in [Flow -> Status] /\ version' \in [Flow -> Nat]
      /\ Touches(flow[r]) /\ status'[flow[r]] \notin Step
  <2>1. CASE Open(flow[r]) /\ Settle(flow[r], "EXPIRED")
    BY <1>1, <2>1, SettleEffect DEF AuthInv, NotStored, Touches, Status, Step
  <2>2. CASE UNCHANGED <<status, version>>
    BY <1>1, <2>2 DEF AuthInv, TypeOK, NotStored, Touches
  <2> QED
    BY <2>1, <2>2 DEF NotStored
<1>3. CASE End(r)
  BY <1>1, <1>2, <1>3, EndType DEF AuthInv, TypeOK, NotStored, EndsOrGoesOn, rowVars
<1>4. CASE ~End(r)
  <2>1. CASE pc' \in {[pc EXCEPT ![r] = "FAILING"], [pc EXCEPT ![r] = "RAISED"]} /\ UNCHANGED <<flow, ver, step, acct, id>>
    BY <1>1, <1>2, <2>1 DEF AuthInv, TypeOK, NotStored, EndsOrGoesOn, OthersWait, rowVars
  <2>2. CASE /\ pc' = [pc EXCEPT ![r] = "AGAIN"]
             /\ row[acct[r]].id # 0 /\ id' = [id EXCEPT ![r] = row[acct[r]].id]
             /\ UNCHANGED <<flow, ver, step, acct>>
    BY <1>1, <1>2, <2>2 DEF AuthInv, TypeOK, NotStored, EndsOrGoesOn, OthersWait, rowVars
  <2> QED
    BY <1>4, <2>1, <2>2 DEF NotStored
<1> QED
  BY <1>3, <1>4

\* A completion stores the session in a row that is not there yet, or that is the
\* owner's own and bears the id the session is for.
Stores(r) ==
    /\ pc[r] \in {"COMPLETING", "AGAIN"}
    /\ UNCHANGED <<begun, user, type, late>>
    /\ Completable(flow[r], ver[r]) /\ ~Foreign(acct[r], flow[r]) /\ ~Mismatch(r)
    /\ Store(r) /\ pc' # [pc EXCEPT ![r] = "RAISED"]

LEMMA CompleteCases ==
    ASSUME TypeOK, NEW r \in Request, Complete(r)
    PROVE  NotStored(r) \/ Stores(r)
<1>1. pc[r] \in {"COMPLETING", "AGAIN"} /\ UNCHANGED <<begun, user, type, late>>
  BY DEF Complete
<1>2. CASE ~Completable(flow[r], ver[r])
  BY <1>1, <1>2 DEF Complete, NotStored, rowVars
<1>3. CASE Completable(flow[r], ver[r]) /\ Foreign(acct[r], flow[r])
  BY <1>1, <1>3 DEF Complete, NotStored, rowVars, Goto
<1>4. CASE Completable(flow[r], ver[r]) /\ ~Foreign(acct[r], flow[r]) /\ Mismatch(r)
  BY <1>1, <1>4 DEF Complete, NotStored, rowVars, Goto, Mismatch
<1>5. CASE Completable(flow[r], ver[r]) /\ ~Foreign(acct[r], flow[r]) /\ ~Mismatch(r)
  <2>1. Store(r)
    BY <1>5 DEF Complete
  <2>2. CASE pc' = [pc EXCEPT ![r] = "RAISED"]
    <3>1. ~End(r)
      BY <2>2 DEF End, TypeOK
    <3> QED
      BY <1>1, <2>1, <2>2, <3>1 DEF Store, NotStored, rowVars
  <2> QED
    BY <1>1, <1>5, <2>1, <2>2 DEF Stores
<1> QED
  BY <1>2, <1>3, <1>4, <1>5

-----------------------------------------------------------------------------
(* The invariant. *)

\* It holds at the start.
LEMMA AuthInit == Init => AuthInv
<1> SUFFICES ASSUME Init PROVE AuthInv
  OBVIOUS
<1>1. TypeOK
  <2>1. NoRow \in Row
    BY BoundAssumption DEF NoRow, Row
  <2> QED
    BY <2>1, BoundAssumption DEF Init, TypeOK, Status, Step
<1>2. FlowsInOrder /\ OneAtWork /\ AdmittedIsKnown
  BY DEF Init, FlowsInOrder, OneAtWork, AdmittedIsKnown, Working
<1>3. SessionHasRow /\ SessionIsBound
  BY DEF Init, SessionHasRow, SessionIsBound, NoRow
<1> QED
  BY <1>1, <1>2, <1>3 DEF AuthInv

\* A request that ends or goes on with its own flow keeps it.
LEMMA RequestKeepsInv ==
    ASSUME AuthInv, TypeOK', NEW r \in Request,
           Working(r), Touches(flow[r]), OthersWait(r), EndsOrGoesOn(r), UNCHANGED rowVars
    PROVE  AuthInv'
<1>1. flow[r] \in Flow /\ flow[r] \in 1..begun /\ status[flow[r]] \notin Step
  BY BoundAssumption DEF AuthInv, OneAtWork, TypeOK, Flow
<1>2. FlowsInOrder'
  BY <1>1 DEF AuthInv, FlowsInOrder, Touches, Open, Active
<1>3. \A q \in Request : Working(q)' => Working(q) /\ flow'[q] = flow[q]
  BY DEF Working, OthersWait, EndsOrGoesOn
<1>4. ASSUME NEW q \in Request, Working(q)' PROVE flow'[q] \in 1..begun' /\ status'[flow'[q]] \notin Step
  <2>1. flow[q] \in 1..begun /\ flow[q] \in Flow /\ status[flow[q]] \notin Step
    BY <1>3, <1>4, BoundAssumption DEF AuthInv, OneAtWork, TypeOK, Flow
  <2>2. CASE q = r
    BY <1>3, <1>4, <2>1, <2>2 DEF EndsOrGoesOn, Touches, Working
  <2>3. CASE q # r
    <3>1. flow[q] # flow[r]
      BY <1>3, <1>4, <2>3 DEF AuthInv, OneAtWork
    <3> QED
      BY <1>3, <1>4, <2>1, <3>1 DEF Touches
  <2> QED
    BY <2>2, <2>3
<1>5. OneAtWork'
  BY <1>3, <1>4 DEF AuthInv, OneAtWork
<1>6. AdmittedIsKnown'
  BY DEF AuthInv, AdmittedIsKnown, OthersWait, EndsOrGoesOn
<1>7. SessionHasRow' /\ SessionIsBound'
  BY DEF AuthInv, SessionHasRow, SessionIsBound, Touches, rowVars, Owner
<1> QED
  BY <1>2, <1>5, <1>6, <1>7 DEF AuthInv

\* So does a step on a flow that waits for the user, or that no request takes to one
\* that does.
LEMMA FlowKeepsInv ==
    ASSUME AuthInv, TypeOK', NEW f \in Flow, Touches(f),
           status'[f] \in Step => status[f] \in Step, UNCHANGED <<reqVars, rowVars>>
    PROVE  AuthInv'
<1>1. FlowsInOrder'
  BY DEF AuthInv, FlowsInOrder, Touches, Open, Active, Step
<1>2. OneAtWork'
  <2>1. \A q \in Request : Working(q) => flow[q] \in Flow
    BY BoundAssumption DEF AuthInv, OneAtWork, TypeOK, Flow
  <2> QED
    BY <2>1 DEF AuthInv, OneAtWork, Working, Touches, reqVars
<1>3. AdmittedIsKnown' /\ SessionHasRow' /\ SessionIsBound'
  BY DEF AuthInv, AdmittedIsKnown, SessionHasRow, SessionIsBound, Touches, reqVars, rowVars, Owner
<1> QED
  BY <1>1, <1>2, <1>3 DEF AuthInv

\* The user's cancellation, or the time running out.
LEMMA CancelKeepsInv ==
    ASSUME AuthInv, NEW f \in Flow, TimeOut(f) \/ \E v \in Nat : Cancel(f, v)
    PROVE  AuthInv' /\ Touches(f) /\ UNCHANGED <<reqVars, rowVars>>
           /\ (status'[f] \in Step => status'[f] = status[f] /\ version'[f] = version[f])
<1>1. CASE TimeOut(f)
  <2>1. TypeOK' /\ Touches(f) /\ UNCHANGED <<status, version, reqVars, rowVars>>
    BY <1>1 DEF AuthInv, TypeOK, TimeOut, rowVars, reqVars, Touches
  <2> QED
    BY <2>1, FlowKeepsInv
<1>2. ASSUME NEW v \in Nat, Cancel(f, v)
      PROVE  TypeOK' /\ Touches(f) /\ UNCHANGED <<reqVars, rowVars>>
             /\ (status'[f] \in Step => status'[f] = status[f] /\ version'[f] = version[f])
  <2>1. "CANCELLED" \in Status /\ Move(f, v, "CANCELLED") /\ UNCHANGED <<reqVars, rowVars>>
    BY <1>2 DEF Cancel, Status
  <2>2. TypeOK' /\ Touches(f)
    BY <2>1, MoveEffect DEF AuthInv, TypeOK, Touches, reqVars, rowVars
  <2>3. status'[f] \in Step => status'[f] = status[f] /\ version'[f] = version[f]
    BY <2>1, SettleEffect DEF Move, Step, AuthInv, Status
  <2> QED
    BY <2>1, <2>2, <2>3
<1> QED
  BY <1>1, <1>2, FlowKeepsInv

\* A new login: the user's flows that are late expire, and one is created unless
\* another is open.
LEMMA BeginKeepsInv ==
    ASSUME AuthInv, NEW r \in Request, NEW u \in User, NEW t \in Type, Begin(r, u, t)
    PROVE  /\ AuthInv' /\ OthersWait(r) /\ UNCHANGED <<rowVars, late>> /\ pc[r] = "IDLE"
           /\ \A f \in Flow : status'[f] \in Step => status'[f] = status[f] /\ version'[f] = version[f]
           /\ \A f \in Flow : ~Open(f) /\ status[f] # "NONE" => status'[f] = status[f]
           /\ pc'[r] # "STARTING" => UNCHANGED reqVars
           /\ pc'[r] = "STARTING" => begun < flow'[r]
<1> DEFINE over == Expired(u, t)
           new == begun + 1
           create == {f \in Flow : Open(f) /\ user[f] = u /\ type[f] = t} \ over = {} /\ begun < MaxFlows
<1> USE BoundAssumption
<1>1. /\ pc[r] = "IDLE" /\ UNCHANGED <<late, rowVars>>
      /\ begun \in 0..MaxFlows /\ begun' = IF create THEN new ELSE begun
  BY DEF Begin, AuthInv, TypeOK
<1>2. /\ status' = [f \in Flow |-> IF f \in over THEN "EXPIRED"
                                   ELSE IF create /\ f = new THEN "CREATED" ELSE status[f]]
      /\ version' = [f \in Flow |-> IF f \in over \/ (create /\ f = new)
                                    THEN version[f] + 1 ELSE version[f]]
      /\ user' = [f \in Flow |-> IF create /\ f = new THEN u ELSE user[f]]
      /\ type' = [f \in Flow |-> IF create /\ f = new THEN t ELSE type[f]]
  BY Zenon DEF Begin
<1>3. \/ /\ create /\ pc' = [pc EXCEPT ![r] = "STARTING"] /\ flow' = [flow EXCEPT ![r] = new]
         /\ ver' = [ver EXCEPT ![r] = 1] /\ UNCHANGED <<step, acct, id>>
      \/ ~create /\ UNCHANGED <<pc, flow, ver, step, acct, id>>
  BY DEF Begin, Goto, reqVars
<1>4. /\ begun' \in 0..MaxFlows /\ begun <= begun'
      /\ create => new \in Flow /\ new \in 0..MaxFlows /\ status[new] = "NONE" /\ begun' = new
  BY <1>1 DEF AuthInv, FlowsInOrder, Flow
<1>5. \A f \in over : Open(f)
  BY DEF Expired
<1> HIDE DEF over, new, create
<1>6. TypeOK'
  <2>1. status' \in [Flow -> Status] /\ version' \in [Flow -> Nat]
    BY <1>2 DEF AuthInv, TypeOK, Status, Active
  <2>2. user' \in [Flow -> User \cup {Nobody}] /\ type' \in [Flow -> Type \cup {"NONE"}]
    BY <1>2 DEF AuthInv, TypeOK
  <2>3. /\ pc' \in [Request -> {"IDLE", "STARTING", "ASKING", "ASKED", "FAILING", "SIGNING", "RESTORING",
                                "ADVANCING", "RESOLVING", "COMPLETING", "AGAIN", "RAISED"}]
        /\ flow' \in [Request -> 0..MaxFlows] /\ ver' \in [Request -> Nat] /\ step' \in [Request -> Step]
        /\ acct' \in [Request -> Account \cup {Nobody}] /\ id' \in [Request -> 0..MaxFlows]
    BY <1>3, <1>4 DEF AuthInv, TypeOK
  <2>4. late' \in [Flow -> BOOLEAN] /\ row' \in [Account -> Row] /\ profile' \in [User -> Account \cup {Nobody}]
    BY <1>1 DEF AuthInv, TypeOK, rowVars
  <2> QED
    BY <1>4, <2>1, <2>2, <2>3, <2>4 DEF TypeOK
<1>7. FlowsInOrder'
  BY <1>1, <1>2, <1>4, <1>5 DEF AuthInv, FlowsInOrder, Open, Active, Step, Flow, new
<1>8. OneAtWork'
  <2>1. ASSUME NEW q \in Request, Working(q)
        PROVE  flow[q] \in 1..begun /\ flow[q] \in Flow /\ status[flow[q]] \notin Step /\ q # r
               /\ pc'[q] = pc[q] /\ flow'[q] = flow[q]
    BY <1>1, <1>3, <2>1 DEF AuthInv, OneAtWork, Working, TypeOK, Flow
  <2>2. \A f \in Flow : status[f] \notin Step => status'[f] \notin Step
    BY <1>2 DEF Step
  <2>3. ASSUME NEW q \in Request, Working(q)', ~Working(q)
        PROVE  q = r /\ create /\ flow'[q] = new /\ status'[new] \notin Step
    BY <1>2, <1>3, <1>4, <2>3 DEF AuthInv, TypeOK, Working, Step
  <2>4. \A q \in Request : Working(q)' => flow'[q] \in 1..begun' /\ status'[flow'[q]] \notin Step
    BY <1>1, <1>4, <2>1, <2>2, <2>3 DEF Flow, new
  <2>5. ASSUME NEW p \in Request, NEW q \in Request, Working(p)', Working(q)', flow'[p] = flow'[q]
        PROVE  p = q
    BY <1>1, <2>1, <2>3, <2>5 DEF AuthInv, OneAtWork, new
  <2> QED
    BY <2>4, <2>5 DEF OneAtWork
<1>9. AdmittedIsKnown'
  BY <1>3 DEF AuthInv, AdmittedIsKnown, TypeOK
<1>10. SessionHasRow' /\ SessionIsBound'
  <2>1. \A f \in 1..begun : f \in Flow /\ user'[f] = user[f] /\ type'[f] = type[f]
    BY <1>1, <1>2 DEF Flow, new
  <2> QED
    BY <1>1, <1>4, <2>1 DEF AuthInv, SessionHasRow, SessionIsBound, rowVars, Owner
<1>11. OthersWait(r)
  BY <1>3 DEF AuthInv, TypeOK, OthersWait
<1>12. /\ \A f \in Flow : status'[f] \in Step => status'[f] = status[f] /\ version'[f] = version[f]
       /\ \A f \in Flow : ~Open(f) /\ status[f] # "NONE" => status'[f] = status[f]
  BY <1>2, <1>4, <1>5 DEF Step
<1>13. /\ pc'[r] # "STARTING" => UNCHANGED reqVars
       /\ pc'[r] = "STARTING" => begun < flow'[r]
  BY <1>1, <1>3 DEF AuthInv, TypeOK, reqVars, new
<1> QED
  BY <1>1, <1>6, <1>7, <1>8, <1>9, <1>10, <1>11, <1>12, <1>13 DEF AuthInv

\* A code or password: the flow is claimed if it waits for just this and the version
\* is the current one.
LEMMA ClaimKeepsInv ==
    ASSUME AuthInv, NEW r \in Request, NEW f \in Flow, NEW s \in Step, NEW v \in Nat, Claim(r, f, v, s)
    PROVE  /\ AuthInv' /\ Touches(f) /\ OthersWait(r) /\ UNCHANGED <<rowVars, late>> /\ pc[r] = "IDLE"
           /\ Claimable(f, v, s) => pc'[r] = "SIGNING" /\ flow'[r] = f /\ status'[f] \notin Step
           /\ ~Claimable(f, v, s) => /\ UNCHANGED reqVars
                                     /\ status'[f] \in Step => status'[f] = status[f] /\ version'[f] = version[f]
<1>1. /\ pc[r] = "IDLE" /\ UNCHANGED <<begun, user, type, late, row, profile>>
      /\ "EXPIRED" \in Status /\ "VERIFYING" \in Status /\ UNCHANGED rowVars
  BY DEF Claim, rowVars, Status, Active
<1>2. CASE Claimable(f, v, s)
  <2>1. /\ Settle(f, "VERIFYING") /\ pc' = [pc EXCEPT ![r] = "SIGNING"]
        /\ flow' = [flow EXCEPT ![r] = f] /\ ver' = [ver EXCEPT ![r] = version'[f]]
        /\ step' = [step EXCEPT ![r] = s] /\ UNCHANGED <<acct, id>>
    BY <1>2 DEF Claim, Goto
  <2>2. /\ status' \in [Flow -> Status] /\ version' \in [Flow -> Nat] /\ status'[f] = "VERIFYING"
        /\ Touches(f) /\ status[f] \in Step
    BY <1>1, <1>2, <2>1, SettleEffect DEF AuthInv, Touches, Claimable, Current
  <2>3. TypeOK' /\ OthersWait(r) /\ pc'[r] = "SIGNING" /\ flow'[r] = f
    BY <1>1, <2>1, <2>2, BoundAssumption DEF AuthInv, TypeOK, OthersWait, Flow
  <2>4. FlowsInOrder' /\ f \in 1..begun
    BY <2>2, BoundAssumption DEF AuthInv, FlowsInOrder, Touches, Step, Flow, TypeOK
  <2>5. OneAtWork'
    <3>1. \A q \in Request : Working(q) => q # r /\ flow[q] # f /\ flow[q] \in Flow
      <4>1. \A q \in Request : Working(q) => q # r
        BY <1>1 DEF Working
      <4>2. \A q \in Request : Working(q) => flow[q] # f /\ flow[q] \in Flow
        BY <2>2, BoundAssumption DEF AuthInv, OneAtWork, Working, TypeOK, Flow
      <4> QED
        BY <4>1, <4>2
    <3>2. \A q \in Request : Working(q)' => q = r \/ (Working(q) /\ flow'[q] = flow[q])
      BY <1>1, <2>3 DEF OthersWait, Working
    <3> QED
      BY <2>2, <2>3, <2>4, <3>1, <3>2 DEF AuthInv, OneAtWork, Touches, Step
  <2>6. AdmittedIsKnown' /\ SessionHasRow' /\ SessionIsBound'
    BY <1>1, <2>3 DEF AuthInv, AdmittedIsKnown, SessionHasRow, SessionIsBound, OthersWait, Owner
  <2>7. status'[f] \notin Step
    BY <2>2 DEF Step
  <2> QED
    BY <1>1, <1>2, <2>2, <2>3, <2>4, <2>5, <2>6, <2>7 DEF AuthInv
<1>3. CASE ~Claimable(f, v, s)
  <2>1. UNCHANGED reqVars /\ OthersWait(r)
    BY <1>3 DEF Claim, OthersWait, reqVars
  <2>2. /\ status' \in [Flow -> Status] /\ version' \in [Flow -> Nat] /\ Touches(f)
        /\ status'[f] \in Step => status'[f] = status[f] /\ version'[f] = version[f]
    <3>1. CASE Open(f) /\ late[f] /\ Settle(f, "EXPIRED")
      BY <1>1, <3>1, SettleEffect DEF AuthInv, Touches, Step
    <3>2. CASE UNCHANGED <<status, version>>
      BY <1>1, <3>2 DEF AuthInv, TypeOK, Touches
    <3> QED
      BY <1>3, <3>1, <3>2 DEF Claim
  <2>3. TypeOK'
    BY <1>1, <2>1, <2>2 DEF AuthInv, TypeOK, reqVars
  <2> QED
    BY <1>1, <1>3, <2>1, <2>2, <2>3, FlowKeepsInv
<1> QED
  BY <1>2, <1>3

\* The session is stored: the row is of the owner the flow is for, or was not there.
LEMMA StoreKeepsInv ==
    ASSUME AuthInv, NEW r \in Request, Stores(r)
    PROVE  /\ AuthInv' /\ Working(r) /\ Touches(flow[r]) /\ OthersWait(r) /\ UNCHANGED late
           /\ pc'[r] = "IDLE" /\ status'[flow[r]] = "SUCCEEDED"
<1> DEFINE a == acct[r]
           f == flow[r]
           stored == [id |-> IF row[a].id = 0 THEN id[r] ELSE row[a].id,
                      owner |-> Owner(f), live |-> TRUE,
                      bound |-> id[r], by |-> f, on |-> type[f] = "MONITOR"]
<1>1. /\ Working(r) /\ f \in Flow /\ f \in 1..begun /\ a \in Account /\ id[r] # 0 /\ id[r] \in 0..MaxFlows
      /\ row[a].id \in 0..MaxFlows /\ Owner(f) \in User \cup {Nobody} /\ f \in 0..MaxFlows
      /\ UNCHANGED <<begun, user, type, late>>
      /\ row \in [Account -> Row] /\ profile \in [User -> Account \cup {Nobody}]
  BY BoundAssumption DEF Stores, Working, AuthInv, OneAtWork, AdmittedIsKnown, TypeOK, Flow, Row, Owner
<1>2. /\ row' = [b \in Account |->
                    IF b = a THEN stored
                    ELSE IF b \in Replaced(a, f) THEN [row[b] EXCEPT !.on = FALSE]
                    ELSE row[b]]
      /\ profile' = IF type[f] = "USERBOT" THEN [profile EXCEPT ![user[f]] = a] ELSE profile
      /\ Settle(f, "SUCCEEDED") /\ End(r)
  BY DEF Stores, Store, Goto
<1>3. /\ "SUCCEEDED" \in Status /\ "SUCCEEDED" \notin Step /\ Open(f)
  BY DEF Status, Step, Stores, Completable, Current
<1>4. /\ status' \in [Flow -> Status] /\ version' \in [Flow -> Nat] /\ status'[f] = "SUCCEEDED"
      /\ Touches(f)
  BY <1>1, <1>2, <1>3, SettleEffect DEF AuthInv, Touches
<1>5. stored \in Row /\ stored.live /\ stored.id = stored.bound /\ stored.id # 0
      /\ stored.owner = Owner(f) /\ stored.by = f
  BY <1>1 DEF Row, Stores, Mismatch
<1>6. ASSUME NEW b \in Account, b # a
      PROVE  /\ row'[b] \in Row /\ row'[b].live = row[b].live /\ row'[b].id = row[b].id
             /\ row'[b].bound = row[b].bound /\ row'[b].owner = row[b].owner /\ row'[b].by = row[b].by
  <2>1. row'[b] = [row[b] EXCEPT !.on = FALSE] \/ row'[b] = row[b]
    BY <1>2, <1>6
  <2>2. row[b] \in Row
    BY <1>1
  <2> QED
    BY <2>1, <2>2 DEF Row
<1>7. row'[a] = stored
  BY <1>1, <1>2
<1> HIDE DEF stored
<1>8. row' \in [Account -> Row] /\ profile' \in [User -> Account \cup {Nobody}]
  <2>1. row' \in [Account -> Row]
    BY <1>2, <1>5, <1>6, <1>7
  <2> QED
    BY <1>1, <1>2, <2>1
<1>9. TypeOK' /\ OthersWait(r) /\ pc'[r] = "IDLE"
  BY <1>1, <1>2, <1>4, <1>8, EndType DEF AuthInv, TypeOK
<1>10. FlowsInOrder'
  <2>1. \A g \in Flow : g > begun => g # f
    BY <1>1 DEF AuthInv, TypeOK, Flow
  <2> QED
    BY <1>1, <1>4, <2>1 DEF AuthInv, FlowsInOrder, Touches
<1>11. OneAtWork'
  <2>1. \A q \in Request : Working(q)' => q # r /\ Working(q) /\ flow'[q] = flow[q]
    BY <1>9 DEF OthersWait, Working
  <2>2. \A q \in Request : Working(q)' => flow[q] # f /\ flow[q] \in Flow
    BY <1>1, <2>1, BoundAssumption DEF AuthInv, OneAtWork, TypeOK, Flow
  <2> QED
    BY <1>1, <1>4, <2>1, <2>2 DEF AuthInv, OneAtWork, Touches
<1>12. AdmittedIsKnown'
  BY <1>9 DEF AuthInv, AdmittedIsKnown, OthersWait
<1>13. SessionHasRow'
  <2>1. row'[a].id # 0 /\ row'[a].by \in 1..begun'
    BY <1>1, <1>5, <1>7
  <2>2. ASSUME NEW b \in Account, b # a, row'[b].live PROVE row'[b].id # 0 /\ row'[b].by \in 1..begun'
    BY <1>1, <1>6, <2>2 DEF AuthInv, SessionHasRow
  <2> QED
    BY <2>1, <2>2 DEF SessionHasRow
<1>14. SessionIsBound'
  <2>1. ASSUME NEW b \in Account, row'[b].live
        PROVE  row'[b].bound = row'[b].id /\ row'[b].owner = Owner(row'[b].by)
    <3>1. CASE b = a
      BY <1>1, <1>5, <1>7, <3>1 DEF Owner
    <3>2. CASE b # a
      BY <1>6, <2>1, <3>2 DEF AuthInv, SessionIsBound
    <3> QED
      BY <3>1, <3>2
  <2>2. ASSUME NEW u \in User, profile'[u] # Nobody
        PROVE  row'[profile'[u]].live /\ row'[profile'[u]].owner = u
    <3>1. CASE type[f] = "USERBOT" /\ user[f] = u
      <4>1. profile'[u] = a /\ Owner(f) = u
        BY <1>1, <1>2, <3>1 DEF Owner
      <4> QED
        BY <1>5, <1>7, <4>1
    <3>2. CASE ~(type[f] = "USERBOT" /\ user[f] = u)
      <4>1. profile'[u] = profile[u] /\ profile[u] \in Account /\ row[profile[u]].live /\ row[profile[u]].owner = u
        BY <1>1, <1>2, <2>2, <3>2 DEF AuthInv, SessionIsBound
      <4>2. CASE profile[u] # a
        BY <1>6, <4>1, <4>2
      <4>3. CASE profile[u] = a
        <5>1. row[a].id # 0 /\ row[a].owner = u
          BY <1>1, <4>1, <4>3 DEF AuthInv, SessionHasRow
        <5>2. Owner(f) = u
          BY <5>1 DEF Stores, Foreign
        <5> QED
          BY <1>5, <1>7, <4>1, <4>3, <5>2
      <4> QED
        BY <4>2, <4>3
    <3> QED
      BY <3>1, <3>2
  <2> QED
    BY <1>1, <2>1, <2>2 DEF SessionIsBound, Owner
<1> QED
  BY <1>1, <1>4, <1>9, <1>10, <1>11, <1>12, <1>13, <1>14 DEF AuthInv

\* What becomes of the account afterwards: a row that loses its session takes the
\* profiles that point to it along.
AccountStep ==
    \/ \E a \in Account : Revoke(a)
    \/ \E a \in Account, u \in User : Switch(u, a)
    \/ \E a \in Account, on \in BOOLEAN : SetActive(a, on)
    \/ \E u \in User : Detach(u)

LEMMA AccountKeepsInv ==
    ASSUME AuthInv, AccountStep
    PROVE  AuthInv' /\ UNCHANGED <<flowVars, reqVars>>
<1>1. /\ UNCHANGED <<flowVars, reqVars>> /\ UNCHANGED <<begun, status, version, user, type, late>>
      /\ UNCHANGED <<pc, flow, ver, step, acct, id>>
      /\ row \in [Account -> Row] /\ profile \in [User -> Account \cup {Nobody}]
  BY DEF AccountStep, Revoke, Switch, SetActive, Detach, flowVars, reqVars, AuthInv, TypeOK
<1>2. /\ row' \in [Account -> Row] /\ profile' \in [User -> Account \cup {Nobody}]
      /\ SessionHasRow' /\ SessionIsBound'
  <2>1. ASSUME NEW a \in Account, Revoke(a)
        PROVE  row' \in [Account -> Row] /\ profile' \in [User -> Account \cup {Nobody}]
               /\ SessionHasRow' /\ SessionIsBound'
    <3>1. /\ row' = [row EXCEPT ![a].live = FALSE]
          /\ profile' = [u \in User |-> IF profile[u] = a THEN Nobody ELSE profile[u]]
      BY <2>1 DEF Revoke, Detached
    <3>2. \A b \in Account :
             /\ row'[b] \in Row /\ row'[b].id = row[b].id /\ row'[b].bound = row[b].bound
             /\ row'[b].owner = row[b].owner /\ row'[b].by = row[b].by
             /\ row'[b].live => row[b].live
             /\ b # a => row'[b].live = row[b].live
      BY <1>1, <3>1 DEF Row
    <3>3. row' \in [Account -> Row] /\ profile' \in [User -> Account \cup {Nobody}]
      BY <1>1, <3>1 DEF Row
    <3>4. ASSUME NEW u \in User, profile'[u] # Nobody
          PROVE  row'[profile'[u]].live /\ row'[profile'[u]].owner = u
      <4>1. profile'[u] = profile[u] /\ profile[u] # a /\ profile[u] \in Account
        BY <1>1, <3>1, <3>4
      <4>2. row[profile[u]].live /\ row[profile[u]].owner = u
        BY <3>4, <4>1 DEF AuthInv, SessionIsBound
      <4> QED
        BY <3>2, <4>1, <4>2
    <3> QED
      BY <1>1, <3>2, <3>3, <3>4 DEF AuthInv, SessionHasRow, SessionIsBound, Owner
  <2>2. ASSUME NEW a \in Account, NEW on \in BOOLEAN, SetActive(a, on)
        PROVE  row' \in [Account -> Row] /\ profile' \in [User -> Account \cup {Nobody}]
               /\ SessionHasRow' /\ SessionIsBound'
    <3>1. /\ row' = [b \in Account |-> IF b = a THEN [row[b] EXCEPT !.on = on]
                                       ELSE [row[b] EXCEPT !.on = @ /\ ~on]]
          /\ profile' = profile
      BY <2>2 DEF SetActive
    <3>2. \A b \in Account :
             /\ row'[b] \in Row /\ row'[b].id = row[b].id /\ row'[b].bound = row[b].bound
             /\ row'[b].owner = row[b].owner /\ row'[b].by = row[b].by
             /\ row'[b].live = row[b].live
      <4>1. ASSUME NEW b \in Account, NEW on2 \in BOOLEAN, row'[b] = [row[b] EXCEPT !.on = on2]
            PROVE  /\ row'[b] \in Row /\ row'[b].id = row[b].id /\ row'[b].bound = row[b].bound
                   /\ row'[b].owner = row[b].owner /\ row'[b].by = row[b].by
                   /\ row'[b].live = row[b].live
        BY <1>1, <4>1 DEF Row
      <4>2. \A b \in Account : \E on2 \in BOOLEAN : row'[b] = [row[b] EXCEPT !.on = on2]
        BY <3>1
      <4> QED
        BY <4>1, <4>2
    <3>3. row' \in [Account -> Row] /\ profile' \in [User -> Account \cup {Nobody}]
      BY <1>1, <3>1, <3>2
    <3> QED
      BY <1>1, <3>1, <3>2, <3>3 DEF AuthInv, SessionHasRow, SessionIsBound, Owner
  <2>3. ASSUME NEW u \in User, NEW a \in Account, Switch(u, a)
        PROVE  row' \in [Account -> Row] /\ profile' \in [User -> Account \cup {Nobody}]
               /\ SessionHasRow' /\ SessionIsBound'
    BY <1>1, <2>3 DEF Switch, AuthInv, SessionHasRow, SessionIsBound, Owner
  <2>4. ASSUME NEW u \in User, Detach(u)
        PROVE  row' \in [Account -> Row] /\ profile' \in [User -> Account \cup {Nobody}]
               /\ SessionHasRow' /\ SessionIsBound'
    BY <1>1, <2>4 DEF Detach, AuthInv, SessionHasRow, SessionIsBound, Owner
  <2> QED
    BY <2>1, <2>2, <2>3, <2>4 DEF AccountStep
<1>3. TypeOK'
  BY <1>1, <1>2 DEF AuthInv, TypeOK
<1>4. FlowsInOrder' /\ OneAtWork' /\ AdmittedIsKnown'
  BY <1>1 DEF AuthInv, FlowsInOrder, OneAtWork, AdmittedIsKnown, Working
<1> QED
  BY <1>1, <1>2, <1>3, <1>4 DEF AuthInv

\* A flow that is over stays what it is.
FlowsKept ==
    \A f \in Flow : ~Open(f) /\ status[f] # "NONE" => status'[f] = status[f]

\* The request's own steps, with what the dialog has to know of them.
LEMMA WorkKeepsInv ==
    ASSUME AuthInv, NEW r \in Request, Work(r) \/ Crash(r)
    PROVE  /\ AuthInv' /\ Working(r) /\ OthersWait(r) /\ Touches(flow[r]) /\ UNCHANGED late
           /\ pc'[r] # "IDLE" => flow'[r] = flow[r] /\ status'[flow[r]] \notin Step
           /\ status'[flow[r]] \in Step => pc'[r] = "IDLE" /\ pc[r] \in {"ASKED", "RESTORING", "ADVANCING"}
<1>0. Working(r) => flow[r] \in Flow /\ status[flow[r]] \notin Step
  BY BoundAssumption DEF AuthInv, OneAtWork, TypeOK, Flow
<1>1. CASE StartClaims(r)
  BY <1>1, StartClaimsEffect, RequestKeepsInv DEF EndsOrGoesOn, StartClaims, Move
<1>2. CASE RequestCode(r) \/ SignIn(r) \/ Resolve(r)
  <2>1. /\ TypeOK' /\ Working(r) /\ OthersWait(r) /\ EndsOrGoesOn(r)
        /\ UNCHANGED <<flowVars, rowVars, flow>> /\ pc'[r] # "IDLE"
    BY <1>2, AskEffect
  <2>2. Touches(flow[r]) /\ UNCHANGED <<rowVars, late, status>>
    BY <2>1 DEF Touches, flowVars
  <2> QED
    BY <1>0, <2>1, <2>2, RequestKeepsInv
<1>3. CASE CodeSent(r) \/ Fail(r) \/ Restore(r) \/ Advance(r)
  <2>1. step[r] \in Status /\ "CODE_REQUIRED" \in Status /\ "FAILED" \in Status /\ "PASSWORD_REQUIRED" \in Status
    BY DEF AuthInv, TypeOK, Step, Status, Active
  <2>2. PICK l \in {"ASKED", "FAILING", "RESTORING", "ADVANCING"}, s \in Status :
           Write(r, l, s) /\ (l = "FAILING" => s = "FAILED")
    BY <1>3, <2>1 DEF CodeSent, Fail, Restore, Advance
  <2>3. /\ TypeOK' /\ Working(r) /\ Touches(flow[r]) /\ OthersWait(r) /\ EndsOrGoesOn(r)
        /\ UNCHANGED <<rowVars, late>> /\ pc'[r] = "IDLE"
        /\ status'[flow[r]] \in {status[flow[r]], "EXPIRED", s}
    BY <2>2, WriteEffect
  <2>4. pc[r] = l
    BY <2>2 DEF Write
  <2> QED
    BY <1>0, <2>2, <2>3, <2>4, RequestKeepsInv DEF Step
<1>4. CASE Complete(r)
  <2>1. CASE NotStored(r)
    BY <2>1, NotStoredEffect, RequestKeepsInv DEF EndsOrGoesOn, NotStored
  <2>2. CASE Stores(r)
    BY <2>2, StoreKeepsInv DEF Step
  <2> QED
    BY <1>4, <2>1, <2>2, CompleteCases DEF AuthInv
<1>5. CASE Raise(r) \/ Crash(r)
  <2>1. Working(r) /\ End(r) /\ UNCHANGED <<begun, status, version, user, type, late, row, profile>>
    BY <1>5 DEF Raise, Crash, Working, flowVars, rowVars
  <2>2. TypeOK' /\ OthersWait(r) /\ pc'[r] = "IDLE"
    BY <2>1, EndType DEF AuthInv, TypeOK
  <2>3. Touches(flow[r]) /\ EndsOrGoesOn(r) /\ UNCHANGED rowVars
    BY <2>1, <2>2 DEF Touches, EndsOrGoesOn, rowVars
  <2> QED
    BY <1>0, <2>1, <2>2, <2>3, RequestKeepsInv
<1> QED
  BY <1>1, <1>2, <1>3, <1>4, <1>5 DEF Work

\* Any step keeps the invariant, and leaves a flow that is over as it is.
LEMMA AuthStep ==
    ASSUME AuthInv, AnyStep
    PROVE  AuthInv' /\ FlowsKept
<1>0. ASSUME NEW f \in Flow, Touches(f) PROVE FlowsKept
  BY <1>0 DEF Touches, FlowsKept
<1>1. ASSUME NEW r \in Request, NEW u \in User, NEW t \in Type, Begin(r, u, t) PROVE AuthInv' /\ FlowsKept
  BY <1>1, BeginKeepsInv DEF FlowsKept
<1>2. ASSUME NEW r \in Request, NEW f \in Flow, NEW s \in Step, NEW v \in Nat, Claim(r, f, v, s)
      PROVE  AuthInv' /\ FlowsKept
  BY <1>0, <1>2, ClaimKeepsInv
<1>3. ASSUME NEW f \in Flow, TimeOut(f) \/ \E v \in Nat : Cancel(f, v) PROVE AuthInv' /\ FlowsKept
  BY <1>0, <1>3, CancelKeepsInv
<1>4. ASSUME NEW r \in Request, Work(r) \/ Crash(r) PROVE AuthInv' /\ FlowsKept
  <2>1. AuthInv' /\ Working(r) /\ Touches(flow[r])
    BY <1>4, WorkKeepsInv
  <2>2. flow[r] \in Flow
    BY <2>1, BoundAssumption DEF AuthInv, OneAtWork, TypeOK, Flow
  <2> QED
    BY <1>0, <2>1, <2>2
<1>5. CASE AccountStep
  BY <1>5, AccountKeepsInv DEF FlowsKept, flowVars
<1> QED
  BY <1>1, <1>2, <1>3, <1>4, <1>5 DEF AnyStep, AccountStep

\* A step of AuthFlow is one of these, and so is one of the dialog, which may hold any
\* version.
LEMMA NextIsAnyStep ==
    ASSUME AuthInv, Next
    PROVE  AnyStep
<1>1. \A f \in 1..begun : f \in Flow /\ version[f] \in Nat
  BY BoundAssumption DEF AuthInv, TypeOK, Flow
<1>2. CASE \E r \in Request, f \in 1..begun, s \in Step : \E v \in {0, version[f]} : Claim(r, f, v, s)
  BY <1>1, <1>2 DEF AnyStep
<1>3. CASE \E f \in 1..begun : \E v \in {0, version[f]} : Cancel(f, v)
  BY <1>1, <1>3 DEF AnyStep
<1>4. CASE \E r \in Request, u \in User, t \in Type : Begin(r, u, t)
  BY <1>4 DEF AnyStep
<1>5. CASE \/ \E r \in Request : Work(r) \/ Crash(r)
           \/ \E f \in Flow : TimeOut(f)
           \/ \E a \in Account : \/ Revoke(a)
                                 \/ \E u \in User : Switch(u, a)
                                 \/ \E on \in BOOLEAN : SetActive(a, on)
           \/ \E u \in User : Detach(u)
  BY <1>5 DEF AnyStep
<1> QED
  BY <1>2, <1>3, <1>4, <1>5 DEF Next, Arrival

\* The invariant is not disturbed by what AuthFlow does not see.
LEMMA AuthStutter ==
    ASSUME AuthInv, UNCHANGED vars
    PROVE  AuthInv' /\ FlowsKept
BY DEF AuthInv, TypeOK, FlowsInOrder, OneAtWork, AdmittedIsKnown, SessionHasRow, SessionIsBound,
       Working, Owner, FlowsKept, vars, flowVars, rowVars, reqVars

LEMMA AuthNext ==
    ASSUME AuthInv, [Next]_vars
    PROVE  AuthInv' /\ FlowsKept
BY NextIsAnyStep, AuthStep, AuthStutter

\* The invariant holds in every state a login can be in.
THEOREM LoginInvariant == Spec => []AuthInv
<1>1. AuthInv /\ [Next]_vars => AuthInv'
  BY AuthNext
<1> QED
  BY <1>1, AuthInit, PTL DEF Spec

\* Every variable stays in its type.
THEOREM LoginTypeOK == Spec => []TypeOK
<1>1. AuthInv => TypeOK
  BY DEF AuthInv
<1> QED
  BY <1>1, LoginInvariant, PTL

\* Of the requests under way, whichever versions they came with, no two work with the
\* state of one flow: claim_telegram_account_auth_flow_step gives it to one.
THEOREM LoginStateUsedOnce == Spec => []StateUsedOnce
<1>1. AuthInv => StateUsedOnce
  BY DEF AuthInv, OneAtWork, Working, Holding, StateUsedOnce
<1> QED
  BY <1>1, LoginInvariant, PTL

\* A stored session opens with its row's id, comes from a flow of the row's owner, and
\* stands behind every profile that points to the row, however completions, new
\* logins, logouts and switches come between each other.
THEOREM LoginSessionIsBound == Spec => []SessionIsBound
<1>1. AuthInv => SessionIsBound
  BY DEF AuthInv
<1> QED
  BY <1>1, LoginInvariant, PTL

\* No step changes a flow that is over, so no late request completes it.
THEOREM LoginOverIsOver == Spec => OverIsOver
<1>1. AuthInv /\ [Next]_vars => [FlowsKept]_vars
  BY AuthNext
<1> QED
  BY <1>1, LoginInvariant, PTL DEF Spec, OverIsOver, FlowsKept

-----------------------------------------------------------------------------
(* The dialog. *)

\* The dialog is empty at the start.
LEMMA DialogInvInit == Init /\ DialogInit => DialogInv
BY AuthInit, BoundAssumption DEF DialogInit, DialogInv, DialogTypeOK, ViewerHasKind, AskedIsShown, NobodyElse, DialogCanGoOn

\* Whatever the dialog does not see of a step on other flows than its own, or on its
\* own if that waits for the user no more.
LEMMA UnseenKeepsDialog ==
    ASSUME DialogInv, AuthInv', UNCHANGED <<copyVars, asked>>,
           UNCHANGED <<viewer, kind>> \/ (viewer' \in User /\ kind' \in Type),
           \A r \in Request : Working(r)' => Working(r) /\ flow'[r] = flow[r],
           \A r \in asked : Working(r)',
           shown # 0 /\ asked = {} /\ trouble # "LOST" /\ status'[shown] \in Step /\ ~late'[shown] =>
              status'[shown] = status[shown] /\ version'[shown] = version[shown] /\ ~late[shown]
    PROVE  DialogInv'
<1>1. DialogTypeOK' /\ ViewerHasKind' /\ NobodyElse' /\ DialogCanGoOn'
  BY DEF DialogInv, DialogTypeOK, ViewerHasKind, NobodyElse, DialogCanGoOn, copyVars
<1>2. AskedIsShown'
  BY DEF DialogInv, DialogTypeOK, AskedIsShown, copyVars
<1> QED
  BY <1>1, <1>2 DEF DialogInv

\* The dialog is empty or its answer has come: it waits for nothing and shows a flow
\* as it is, that is no other request's.
LEMMA ShownKeepsDialog ==
    ASSUME DialogInv, AuthInv', UNCHANGED <<viewer, kind>>, asked' = {},
           Drop \/ \E f \in Flow : Show(f) /\ Viewable(f)
    PROVE  DialogInv'
<1>1. CASE Drop
  BY <1>1, BoundAssumption DEF Drop, DialogInv, DialogTypeOK, ViewerHasKind, AskedIsShown, NobodyElse, DialogCanGoOn
<1>2. ASSUME NEW f \in Flow, Show(f), Viewable(f) PROVE DialogInv'
  <2>1. f \in 0..MaxFlows /\ version'[f] \in Nat /\ status'[f] \in Step
    BY <1>2, BoundAssumption DEF Viewable, AuthInv, TypeOK, Flow
  <2>2. \A r \in Request : Working(r)' => flow'[r] # f
    BY <2>1 DEF AuthInv, OneAtWork
  <2> QED
    BY <1>2, <2>1, <2>2 DEF Show, DialogInv, DialogTypeOK, ViewerHasKind, AskedIsShown, NobodyElse, DialogCanGoOn
<1> QED
  BY <1>1, <1>2

\* An answer does not come: the dialog does not know where its flow is.
LEMMA LostKeepsDialog ==
    ASSUME DialogInv, AuthInv', Unanswered
    PROVE  DialogInv'
BY DEF Unanswered, DialogInv, DialogTypeOK, ViewerHasKind, AskedIsShown, NobodyElse, DialogCanGoOn

\* The start of a login.
LEMMA StartKeepsDialog ==
    ASSUME DialogInv, Start
    PROVE  DialogInv'
<1>1. /\ asked = {} /\ shown = 0 /\ viewer # Nobody /\ UNCHANGED <<viewer, kind>>
      /\ viewer \in User /\ kind \in Type
  BY DEF Start, Form, DialogInv, DialogTypeOK, ViewerHasKind, Step
<1>2. PICK r \in Request :
         /\ Begin(r, viewer, kind)
         /\ \/ pc'[r] = "STARTING" /\ asked' = {r} /\ trouble' = "NONE" /\ UNCHANGED <<shown, held, face>>
            \/ /\ pc'[r] # "STARTING" /\ UNCHANGED asked
               /\ \/ \E f \in Flow : Show(f) /\ Viewable(f)
                  \/ trouble' = "ACTIVE" /\ UNCHANGED <<shown, held, face>>
  BY DEF Start
<1>3. AuthInv'
  BY <1>1, <1>2, BeginKeepsInv DEF DialogInv
<1>4. CASE pc'[r] = "STARTING" /\ asked' = {r} /\ trouble' = "NONE" /\ UNCHANGED <<shown, held, face>>
  BY <1>1, <1>3, <1>4 DEF DialogInv, DialogTypeOK, ViewerHasKind, AskedIsShown, NobodyElse, DialogCanGoOn, Working
<1>5. CASE UNCHANGED asked /\ \E f \in Flow : Show(f) /\ Viewable(f)
  BY <1>1, <1>3, <1>5, ShownKeepsDialog
<1>6. CASE UNCHANGED asked /\ trouble' = "ACTIVE" /\ UNCHANGED <<shown, held, face>>
  BY <1>1, <1>3, <1>6 DEF DialogInv, DialogTypeOK, ViewerHasKind, AskedIsShown, NobodyElse, DialogCanGoOn
<1> QED
  BY <1>2, <1>4, <1>5, <1>6

\* A code or password: what the dialog holds is current, if the flow waits for it at
\* all and no answer was missed.
LEMMA SubmitKeepsDialog ==
    ASSUME DialogInv, Submit
    PROVE  DialogInv'
<1>1. /\ asked = {} /\ shown \in Flow /\ shown # 0 /\ face \in Step /\ held \in Nat /\ UNCHANGED <<viewer, kind>>
      /\ AuthInv
  BY BoundAssumption DEF Submit, Form, DialogInv, DialogTypeOK, Step, Flow
<1>2. PICK r \in Request :
         /\ Claim(r, shown, held, face)
         /\ \/ pc'[r] = "SIGNING" /\ asked' = {r} /\ UNCHANGED copyVars
            \/ pc'[r] # "SIGNING" /\ UNCHANGED asked /\ (Drop \/ UNCHANGED copyVars)
  BY DEF Submit
<1>3. /\ AuthInv' /\ Touches(shown) /\ OthersWait(r) /\ UNCHANGED late /\ pc[r] = "IDLE"
      /\ Claimable(shown, held, face) => pc'[r] = "SIGNING" /\ flow'[r] = shown /\ status'[shown] \notin Step
      /\ ~Claimable(shown, held, face) =>
            /\ UNCHANGED reqVars
            /\ status'[shown] \in Step => status'[shown] = status[shown] /\ version'[shown] = version[shown]
  BY <1>1, <1>2, ClaimKeepsInv
<1>4. CASE Claimable(shown, held, face)
  <2>1. asked' = {r} /\ UNCHANGED <<shown, held, face, trouble>> /\ pc'[r] = "SIGNING" /\ flow'[r] = shown
    BY <1>2, <1>3, <1>4 DEF copyVars
  <2>2. AskedIsShown' /\ DialogTypeOK' /\ ViewerHasKind' /\ DialogCanGoOn'
    BY <1>1, <2>1 DEF DialogInv, DialogTypeOK, ViewerHasKind, AskedIsShown, DialogCanGoOn, Working
  <2>3. NobodyElse'
    BY <1>1, <1>3, <2>1 DEF DialogInv, NobodyElse, OthersWait, Working
  <2> QED
    BY <1>3, <2>2, <2>3 DEF DialogInv
<1>5. CASE ~Claimable(shown, held, face) /\ Drop
  <2>1. pc'[r] # "SIGNING"
    BY <1>3, <1>5 DEF reqVars
  <2> QED
    BY <1>1, <1>2, <1>3, <1>5, <2>1, ShownKeepsDialog
<1>6. CASE ~Claimable(shown, held, face) /\ UNCHANGED copyVars
  <2>1. pc'[r] # "SIGNING" /\ UNCHANGED <<pc, flow>>
    BY <1>3, <1>6 DEF reqVars
  <2> QED
    BY <1>1, <1>2, <1>3, <1>6, <2>1, UnseenKeepsDialog DEF Working
<1> QED
  BY <1>2, <1>3, <1>4, <1>5, <1>6

\* The dialog is closed: it cancels what it shows, and may stay with it if refused.
LEMMA CloseKeepsDialog ==
    ASSUME DialogInv, Close
    PROVE  DialogInv'
<1>1. /\ asked = {} /\ shown \in Flow /\ shown # 0 /\ held \in Nat /\ AuthInv
      /\ UNCHANGED <<viewer, kind, asked>>
  BY BoundAssumption DEF Close, DialogInv, DialogTypeOK, Flow
<1>2. /\ Cancel(shown, held) /\ (Drop \/ UNCHANGED copyVars)
  BY DEF Close
<1>3. /\ AuthInv' /\ UNCHANGED <<pc, flow, late>>
      /\ status'[shown] \in Step => status'[shown] = status[shown] /\ version'[shown] = version[shown]
  BY <1>1, <1>2, CancelKeepsInv DEF reqVars, Cancel, Move
<1> QED
  BY <1>1, <1>2, <1>3, UnseenKeepsDialog, ShownKeepsDialog DEF Working

\* A request goes a step on, and if the dialog waits for it and it ends, its answer has
\* the flow just when that waits for the user again.
LEMMA AnswerKeepsDialog ==
    ASSUME DialogInv, NEW r \in Request, Answer(r)
    PROVE  DialogInv'
<1>1. Work(r) /\ UNCHANGED <<viewer, kind>> /\ AuthInv /\ r \in Request
  BY DEF Answer, DialogInv
<1>2. /\ AuthInv' /\ Working(r) /\ OthersWait(r) /\ Touches(flow[r]) /\ UNCHANGED late
      /\ pc'[r] # "IDLE" => flow'[r] = flow[r] /\ status'[flow[r]] \notin Step
      /\ status'[flow[r]] \in Step => pc'[r] = "IDLE" /\ pc[r] \in {"ASKED", "RESTORING", "ADVANCING"}
  BY <1>1, WorkKeepsInv
<1>3. /\ flow[r] \in Flow /\ (shown # 0 => shown \in Flow)
      /\ \A q \in Request : Working(q)' => Working(q) /\ flow'[q] = flow[q]
  <2>1. flow[r] \in Flow /\ (shown # 0 => shown \in Flow)
    BY <1>1, <1>2, BoundAssumption DEF AuthInv, OneAtWork, TypeOK, Flow, DialogInv, DialogTypeOK
  <2>2. ASSUME NEW q \in Request, Working(q)' PROVE Working(q) /\ flow'[q] = flow[q]
    BY <1>1, <1>2, <2>2 DEF OthersWait, Working
  <2> QED
    BY <2>1, <2>2
<1>4. CASE r \in asked /\ pc'[r] = "IDLE"
  <2>1. asked' = {} /\ asked = {r} /\ shown \in {0, flow[r]}
    BY <1>4 DEF Answer, DialogInv, AskedIsShown
  <2>2. CASE Carried(r)
    BY <1>1, <1>2, <1>3, <1>4, <2>1, <2>2, ShownKeepsDialog DEF Answer, Carried
  <2>3. CASE ~Carried(r) /\ Over(r)
    BY <1>1, <1>2, <1>4, <2>1, <2>3, ShownKeepsDialog DEF Answer
  <2>4. CASE ~Carried(r) /\ ~Over(r)
    <3>1. UNCHANGED <<shown, held, face, trouble>> /\ status'[flow[r]] \notin Step
      BY <1>2, <1>4, <2>4 DEF Answer, Carried, Viewable, copyVars
    <3>2. DialogTypeOK' /\ ViewerHasKind' /\ AskedIsShown' /\ DialogCanGoOn'
      BY <1>1, <2>1, <3>1 DEF DialogInv, DialogTypeOK, ViewerHasKind, AskedIsShown, DialogCanGoOn
    <3>3. NobodyElse'
      BY <1>3, <1>4, <2>1, <3>1 DEF DialogInv, NobodyElse, Working
    <3> QED
      BY <1>2, <3>2, <3>3 DEF DialogInv
  <2> QED
    BY <2>2, <2>3, <2>4
<1>5. CASE ~(r \in asked /\ pc'[r] = "IDLE")
  <2>1. UNCHANGED <<copyVars, asked>>
    BY <1>5 DEF Answer
  <2>2. \A q \in asked : Working(q)'
    BY <1>2, <1>5 DEF DialogInv, DialogTypeOK, AskedIsShown, OthersWait, Working
  <2>3. shown # 0 /\ asked = {} /\ trouble # "LOST" => shown # flow[r]
    BY <1>2 DEF DialogInv, NobodyElse
  <2> QED
    BY <1>1, <1>2, <1>3, <2>1, <2>2, <2>3, UnseenKeepsDialog DEF Touches
<1> QED
  BY <1>4, <1>5

\* A request dies, with or without the dialog waiting for it.
LEMMA DieKeepsDialog ==
    ASSUME DialogInv, NEW r \in Request, Die(r)
    PROVE  DialogInv'
<1>1. Crash(r) /\ AuthInv
  BY DEF Die, DialogInv
<1>2. /\ AuthInv' /\ OthersWait(r) /\ UNCHANGED <<late, status, version>> /\ pc'[r] = "IDLE"
  BY <1>1, WorkKeepsInv, EndType DEF Crash, flowVars, AuthInv
<1>3. CASE r \in asked
  BY <1>2, <1>3, LostKeepsDialog DEF Die
<1>4. CASE r \notin asked
  <2>1. /\ UNCHANGED <<viewer, kind, copyVars, asked>>
        /\ \A q \in Request : Working(q)' => Working(q) /\ flow'[q] = flow[q]
        /\ \A q \in asked : Working(q)'
    BY <1>2, <1>4 DEF Die, dialogVars, DialogInv, DialogTypeOK, AskedIsShown, OthersWait, Working
  <2> QED
    BY <1>2, <2>1, UnseenKeepsDialog
<1> QED
  BY <1>3, <1>4

\* The dialog does what AuthFlow does not see.
LEMMA ElsewhereKeepsDialog ==
    ASSUME DialogInv, UNCHANGED vars, OpenDialog \/ Leave \/ Lose \/ UNCHANGED dialogVars
    PROVE  DialogInv'
<1>1. AuthInv' /\ UNCHANGED <<pc, flow, status, version, late>>
  BY AuthStutter DEF DialogInv, vars, flowVars, reqVars
<1>2. CASE OpenDialog \/ UNCHANGED dialogVars
  <2>1. /\ UNCHANGED <<copyVars, asked>>
        /\ UNCHANGED <<viewer, kind>> \/ (viewer' \in User /\ kind' \in Type)
    BY <1>2 DEF OpenDialog, dialogVars
  <2>2. \A q \in asked : Working(q)'
    BY <1>1 DEF DialogInv, AskedIsShown, Working
  <2> QED
    BY <1>1, <2>1, <2>2, UnseenKeepsDialog DEF Working
<1>3. CASE Leave
  BY <1>1, <1>3, ShownKeepsDialog DEF Leave
<1>4. CASE Lose
  BY <1>1, <1>4, LostKeepsDialog DEF Lose
<1> QED
  BY <1>2, <1>3, <1>4

\* The flow runs out of time behind the dialog's back.
LEMMA TimeOutKeepsDialog ==
    ASSUME DialogInv, NEW f \in Flow, TimeOut(f), UNCHANGED dialogVars
    PROVE  DialogInv'
<1>1. AuthInv' /\ UNCHANGED <<pc, flow, status, version>>
  BY CancelKeepsInv DEF DialogInv, TimeOut, reqVars
<1>2. shown # 0 => shown \in Flow /\ (~late'[shown] => ~late[shown])
  BY BoundAssumption DEF DialogInv, DialogTypeOK, AuthInv, TypeOK, TimeOut, Flow
<1>3. \A q \in asked : Working(q)'
  BY <1>1 DEF DialogInv, AskedIsShown, Working
<1> QED
  BY <1>1, <1>2, <1>3, UnseenKeepsDialog DEF Working, dialogVars

\* Every step of the dialog keeps the invariant.
LEMMA DialogStep ==
    ASSUME DialogInv, [DialogNext]_<<vars, dialogVars>>
    PROVE  DialogInv'
<1>1. CASE OpenDialog \/ Leave \/ Lose \/ UNCHANGED <<vars, dialogVars>>
  BY <1>1, ElsewhereKeepsDialog DEF OpenDialog, Leave, Lose
<1>2. CASE \E f \in Flow : TimeOut(f) /\ UNCHANGED dialogVars
  BY <1>2, TimeOutKeepsDialog
<1>3. CASE \E r \in Request : Answer(r) \/ Die(r)
  BY <1>3, AnswerKeepsDialog, DieKeepsDialog
<1> QED
  BY <1>1, <1>2, <1>3, StartKeepsDialog, SubmitKeepsDialog, CloseKeepsDialog DEF DialogNext

\* A dialog that has missed no answer shows the step its flow is at and holds the
\* version the next request must carry, whatever was refused before, whoever left the
\* dialog while a request was under way and whatever the time did to the flow.
THEOREM LoginDialogCanGoOn == DialogSpec => []DialogCanGoOn
<1>1. DialogInv /\ [DialogNext]_<<vars, dialogVars>> => DialogInv'
  BY DialogStep
<1>2. DialogInv => DialogCanGoOn
  BY DEF DialogInv
<1> QED
  BY <1>1, <1>2, DialogInvInit, PTL DEF DialogSpec

-----------------------------------------------------------------------------
(* The channels: what holds of them. *)

\* What a request carries.
Wish == [op : {"", "create", "update"}, target : Target \cup {Nobody}, account : Userbot \cup {Nobody},
         channel : Channel \cup {Nobody}, active : BOOLEAN]

\* What a run does.
Duty == [step : {"", "NEXT", "CHECK", "MOVE", "JOIN"}, account : Userbot \cup {Nobody}, target : Target \cup {Nobody},
         channel : Channel \cup {Nobody}, discussion : Channel \cup {Nobody}, previous : Channels!Status \cup {""},
         current : Channels!Working, goal : Channels!Status \cup {""}]

AtRow(w) == w.step \in {"CHECK", "MOVE", "JOIN"}

ChannelTypes ==
    /\ Channels!TypeOK
    /\ request \in [Asking -> Wish]
    /\ \A q \in Asking : request[q].op = "create" => request[q].account \in Userbot
    /\ \A q \in Asking : request[q].op # "" => request[q].channel \in Channel
    /\ run \in [Run -> Duty]
    /\ \A r \in Run : run[r].step # "" => run[r].account \in Userbot

\* A run works on the channel it has claimed: the discussion it has found is that channel's,
\* it asks to join no other, and it says ready only what it was let into.
DutyIsTrue(w, m) ==
    /\ AtRow(w) => w.target \in Target /\ w.channel \in Channel /\ w.discussion \in {Nobody, w.channel}
    /\ w.step = "MOVE" => w.goal # ""
    /\ w.step = "JOIN" \/ (w.step = "MOVE" /\ w.goal = "JOINING") => w.discussion = w.channel
    /\ w.step = "MOVE" /\ w.goal = "READY" => w.discussion = w.channel /\ m[w.account][w.channel] = "YES"

\* A row's discussion is that of the channel it has now, and ready is what its account was
\* let into: deleted rows as well.
RowIsTrue(x, m) ==
    /\ x.discussion \in {Nobody, x.channel}
    /\ x.status = "READY" => x.discussion = x.channel /\ m[x.account][x.channel] = "YES"

\* The only row a run owns in the middle of its preparation is the one it is at, with the
\* channel it was claimed for: a change takes the row away from it.
OwnerIsAtWork ==
    \A r \in Run, t \in Target :
        target[t].owner = r /\ target[t].status \in Channels!Working /\ run[r].step # ""
            => AtRow(run[r]) /\ run[r].target = t /\ run[r].channel = target[t].channel

ChannelInv ==
    /\ ChannelTypes
    /\ \A r \in Run : DutyIsTrue(run[r], member)
    /\ \A t \in Target : RowIsTrue(target[t], member)
    /\ OwnerIsAtWork

\* Who is let in stays in.
MemberGrows ==
    /\ member' \in [Userbot -> [Channel -> {"NO", "ASKED", "YES"}]]
    /\ \A a \in Userbot, c \in Channel : member[a][c] = "YES" => member'[a][c] = "YES"

SameRow(t) ==
    /\ target'[t].channel = target[t].channel /\ target'[t].account = target[t].account
    /\ target'[t].discussion = target[t].discussion
    /\ target'[t].owner = target[t].owner /\ target'[t].status = target[t].status

\* No run gets a row in the middle of its preparation.
NotTaken(t) == SameRow(t) \/ target'[t].status \notin Channels!Working \/ target'[t].owner \notin Run

\* A run ends, or goes on with the row it is at, if it is at one.
GoesOn(r) ==
    run'[r].step # "" =>
        /\ run[r].step # ""
        /\ AtRow(run[r]) => AtRow(run'[r]) /\ run'[r].target = run[r].target /\ run'[r].channel = run[r].channel

-----------------------------------------------------------------------------
(* Steps in general. *)

\* What is true of a run or a row stays true when more accounts are let in.
LEMMA TrueStays ==
    ASSUME MemberGrows
    PROVE  /\ \A w \in Duty : (w.step # "" => w.account \in Userbot) /\ DutyIsTrue(w, member) => DutyIsTrue(w, member')
           /\ \A x \in Channels!Row : RowIsTrue(x, member) => RowIsTrue(x, member')
BY DEF MemberGrows, DutyIsTrue, RowIsTrue, AtRow, Channels!Row

\* One run moves, to what is true.
LEMMA RunMoves ==
    ASSUME ChannelInv, MemberGrows, NEW r \in Run, NEW w \in Duty, run' = [run EXCEPT ![r] = w],
           w.step # "" => w.account \in Userbot, DutyIsTrue(w, member')
    PROVE  /\ run' \in [Run -> Duty]
           /\ \A q \in Run : (run'[q].step # "" => run'[q].account \in Userbot) /\ DutyIsTrue(run'[q], member')
           /\ run'[r] = w /\ \A q \in Run \ {r} : run'[q] = run[q]
<1>1. /\ run' \in [Run -> Duty] /\ run'[r] = w /\ \A q \in Run \ {r} : run'[q] = run[q]
  BY DEF ChannelInv, ChannelTypes
<1>2. \A q \in Run \ {r} : run[q] \in Duty /\ (run[q].step # "" => run[q].account \in Userbot) /\ DutyIsTrue(run[q], member)
  BY DEF ChannelInv, ChannelTypes
<1> QED
  BY <1>1, <1>2, TrueStays

\* No run moves.
LEMMA RunsStay ==
    ASSUME ChannelInv, MemberGrows, run' = run
    PROVE  /\ run' \in [Run -> Duty]
           /\ \A q \in Run : (run'[q].step # "" => run'[q].account \in Userbot) /\ DutyIsTrue(run'[q], member')
<1>1. \A q \in Run : run[q] \in Duty /\ (run[q].step # "" => run[q].account \in Userbot) /\ DutyIsTrue(run[q], member)
  BY DEF ChannelInv, ChannelTypes
<1> QED
  BY <1>1, TrueStays DEF ChannelInv, ChannelTypes

\* Rows stay as they are or are changed to what is true.
LEMMA RowsMove ==
    ASSUME ChannelInv, MemberGrows, target' \in [Target -> Channels!Row],
           \A t \in Target : SameRow(t) \/ RowIsTrue(target'[t], member')
    PROVE  \A t \in Target : RowIsTrue(target'[t], member')
<1> SUFFICES ASSUME NEW t \in Target, SameRow(t) PROVE RowIsTrue(target'[t], member')
  OBVIOUS
<1>1. target[t] \in Channels!Row /\ RowIsTrue(target[t], member)
  BY DEF ChannelInv, ChannelTypes, Channels!TypeOK
<1>2. RowIsTrue(target[t], member')
  BY <1>1, TrueStays
<1> QED
  BY <1>2 DEF SameRow, RowIsTrue

\* Rows no run gets in the middle of a preparation, and runs that go on with theirs or end.
LEMMA OwnersKept ==
    ASSUME ChannelInv,
           \A t \in Target : NotTaken(t), \A r \in Run : GoesOn(r)
    PROVE  OwnerIsAtWork'
<1> SUFFICES ASSUME NEW r \in Run, NEW t \in Target,
                    target'[t].owner = r, target'[t].status \in Channels!Working, run'[r].step # ""
             PROVE  AtRow(run'[r]) /\ run'[r].target = t /\ run'[r].channel = target'[t].channel
  BY DEF OwnerIsAtWork
<1>1. SameRow(t)
  BY DEF NotTaken
<1>2. AtRow(run[r]) /\ run[r].target = t /\ run[r].channel = target[t].channel
  BY <1>1 DEF ChannelInv, OwnerIsAtWork, SameRow, GoesOn
<1> QED
  BY <1>1, <1>2 DEF SameRow, GoesOn

\* The invariant after a step, put together.
LEMMA StepTogether ==
    ASSUME ChannelInv, MemberGrows, Channels!TypeOK',
           request' \in [Asking -> Wish],
           \A q \in Asking : request'[q].op = "create" => request'[q].account \in Userbot,
           \A q \in Asking : request'[q].op # "" => request'[q].channel \in Channel,
           run' \in [Run -> Duty],
           \A q \in Run : (run'[q].step # "" => run'[q].account \in Userbot) /\ DutyIsTrue(run'[q], member'),
           \A t \in Target : SameRow(t) \/ RowIsTrue(target'[t], member'),
           OwnerIsAtWork'
    PROVE  ChannelInv'
<1>1. target' \in [Target -> Channels!Row]
  BY DEF Channels!TypeOK, Channels!Row
<1>2. \A t \in Target : RowIsTrue(target'[t], member')
  BY <1>1, RowsMove
<1> QED
  BY <1>2 DEF ChannelInv, ChannelTypes

-----------------------------------------------------------------------------
(* The settings. *)

\* Every channel begins as it is to be.
LEMMA ChannelInit == Channels!Init => ChannelInv
<1> SUFFICES ASSUME Channels!Init PROVE ChannelInv
  OBVIOUS
<1>1. Channels!NoRequest \in Wish /\ Channels!NoRun \in Duty
  BY DEF Channels!NoRequest, Channels!NoRun, Wish, Duty, Channels!Status, Channels!Working, Channels!Waiting
<1>2. (CHOOSE c \in Channel : TRUE) \in Channel
  BY ChannelAssumption
<1>3. /\ target \in [Target -> Channels!Row]
      /\ \A t \in Target : target[t].status = "QUEUED" /\ target[t].discussion = Nobody
  <2> DEFINE c0 == CHOOSE c \in Channel : TRUE
             x0 == [state |-> "ABSENT", account |-> attached, channel |-> c0, active |-> FALSE, status |-> "QUEUED",
                    discussion |-> Nobody, owner |-> Nobody]
  <2>1. attached \in Userbot /\ target \in [Target -> {x0}]
    BY DEF Channels!Init
  <2>2. x0 \in Channels!Row
    BY <1>2, <2>1 DEF Channels!Row, Channels!Status, Channels!Waiting
  <2>3. \A t \in Target : target[t] = x0
    BY <2>1
  <2> HIDE DEF x0
  <2>4. target \in [Target -> Channels!Row]
    BY <2>1, <2>2
  <2> QED
    BY <2>3, <2>4 DEF x0
<1>4. Channels!TypeOK
  <2>1. enabled \in BOOLEAN /\ limit \in 0..MaxLimit /\ changes \in 0..MaxChanges /\ upsets \in 0..MaxUpsets
    BY ChannelAssumption DEF Channels!Init
  <2>2. member \in [Userbot -> [Channel -> {"NO", "ASKED", "YES"}]] /\ holder \in [Userbot -> Run \cup {Nobody}]
    BY DEF Channels!Init
  <2>3. /\ \A q \in Asking : request[q].op \in {"", "create", "update"}
        /\ \A r \in Run : run[r].step \in {"", "NEXT", "CHECK", "MOVE", "JOIN"}
    BY DEF Channels!Init, Channels!NoRequest, Channels!NoRun
  <2>4. attached \in Userbot \cup {Nobody}
    BY DEF Channels!Init
  <2> QED
    BY <1>3, <2>1, <2>2, <2>3, <2>4 DEF Channels!TypeOK
<1>5. ChannelTypes
  BY <1>1, <1>4 DEF ChannelTypes, Channels!Init, Channels!NoRequest, Channels!NoRun
<1>6. \A r \in Run : DutyIsTrue(run[r], member) /\ run[r].step = ""
  BY DEF Channels!Init, Channels!NoRun, DutyIsTrue, AtRow
<1>7. \A t \in Target : RowIsTrue(target[t], member)
  BY <1>3 DEF RowIsTrue
<1> QED
  BY <1>5, <1>6, <1>7 DEF ChannelInv, OwnerIsAtWork

\* The request a user makes, and what it writes, are of their types.
LEMMA RequestStep ==
    ASSUME ChannelInv, NEW q \in Asking,
           \/ \E a \in Userbot, c \in Channel : Channels!AskCreate(q, a, c)
           \/ \E t \in Target, c \in Channel, on \in BOOLEAN : Channels!AskUpdate(q, t, c, on)
    PROVE  ChannelInv'
<1> DEFINE Asked(x) == /\ x \in Wish /\ x.channel \in Channel /\ (x.op = "create" => x.account \in Userbot)
                       /\ Channels!Begin(q, x)
<1>0. /\ UNCHANGED <<attached, enabled, limit, target, holder, member, run, upsets>>
      /\ \E x \in Wish : Asked(x)
  <2>1. ASSUME NEW a \in Userbot, NEW c \in Channel, Channels!AskCreate(q, a, c)
        PROVE  \E x \in Wish : Asked(x)
    <3> DEFINE x == [Channels!NoRequest EXCEPT !.op = "create", !.account = a, !.channel = c, !.active = TRUE]
    <3>1. x \in Wish /\ x.channel \in Channel /\ x.account \in Userbot
      BY DEF Channels!NoRequest, Wish
    <3>2. Channels!Begin(q, x)
      BY <2>1 DEF Channels!AskCreate
    <3> QED
      BY <3>1, <3>2
  <2>2. ASSUME NEW t \in Target, NEW c \in Channel, NEW on \in BOOLEAN, Channels!AskUpdate(q, t, c, on)
        PROVE  \E x \in Wish : Asked(x)
    <3> DEFINE x == [Channels!NoRequest EXCEPT !.op = "update", !.target = t, !.channel = c, !.active = on]
    <3>1. x \in Wish /\ x.channel \in Channel /\ x.op = "update"
      BY DEF Channels!NoRequest, Wish
    <3>2. Channels!Begin(q, x)
      BY <2>2 DEF Channels!AskUpdate
    <3> QED
      BY <3>1, <3>2
  <2> QED
    BY <2>1, <2>2 DEF Channels!AskCreate, Channels!AskUpdate, Channels!settings
<1>1. PICK x \in Wish : Asked(x)
  BY <1>0
<1>2. /\ request' \in [Asking -> Wish]
      /\ \A p \in Asking : request'[p].op = "create" => request'[p].account \in Userbot
      /\ \A p \in Asking : request'[p].op # "" => request'[p].channel \in Channel
  BY <1>1 DEF ChannelInv, ChannelTypes, Channels!Begin
<1>3. changes' \in 0..MaxChanges
  <2>1. changes < MaxChanges /\ changes' = changes + 1
    BY <1>1 DEF Channels!Begin, Channels!Change
  <2>2. changes \in 0..MaxChanges
    BY DEF ChannelInv, ChannelTypes, Channels!TypeOK
  <2> QED
    BY <2>1, <2>2, ChannelAssumption
<1>4. Channels!TypeOK'
  <2>1. \A p \in Asking : request'[p].op \in {"", "create", "update"}
    BY <1>2 DEF Wish
  <2> QED
    BY <1>0, <1>3, <2>1 DEF ChannelInv, ChannelTypes, Channels!TypeOK
<1>5. MemberGrows /\ \A t \in Target : SameRow(t)
  BY <1>0 DEF MemberGrows, SameRow, ChannelInv, ChannelTypes, Channels!TypeOK
<1>6. OwnerIsAtWork'
  BY <1>0 DEF ChannelInv, OwnerIsAtWork
<1> QED
  BY <1>0, <1>2, <1>4, <1>5, <1>6, RunsStay, StepTogether

\* A row is written, when the database lets it.
LEMMA RowWriteEffect ==
    ASSUME ChannelInv, NEW t \in Target, NEW x \in Channels!Row, x.discussion = Nobody, x.status = "QUEUED",
           Channels!Write([target EXCEPT ![t] = x], t)
    PROVE  /\ target' \in [Target -> Channels!Row]
           /\ \A u \in Target : SameRow(u) \/ RowIsTrue(target'[u], member')
           /\ \A u \in Target : SameRow(u) \/ target'[u].status \notin Channels!Working
           /\ target' = target \/ (target' = [target EXCEPT ![t] = x] /\ Channels!Guarded(target', t))
<1> DEFINE R == [target EXCEPT ![t] = x]
<1>0. target \in [Target -> Channels!Row]
  BY DEF ChannelInv, ChannelTypes, Channels!TypeOK
<1>1. R \in [Target -> Channels!Row] /\ R[t] = x /\ \A u \in Target \ {t} : R[u] = target[u]
  BY <1>0
<1>2. target' = target \/ (target' = R /\ Channels!Guarded(target', t))
  BY DEF Channels!Write
<1>3. CASE target' = target
  BY <1>0, <1>3 DEF SameRow
<1>4. CASE target' = R /\ Channels!Guarded(target', t)
  <2>1. RowIsTrue(x, member') /\ x.status \notin Channels!Working
    BY DEF RowIsTrue, Channels!Working
  <2>2. \A u \in Target \ {t} : SameRow(u)
    BY <1>1, <1>4 DEF SameRow
  <2> HIDE DEF R
  <2> QED
    BY <1>1, <1>2, <1>4, <2>1, <2>2 DEF R
<1> QED
  BY <1>2, <1>3, <1>4

\* A request ends and leaves nothing.
LEMMA EndEffect ==
    ASSUME ChannelInv, NEW q \in Asking, Channels!End(q)
    PROVE  /\ request' \in [Asking -> Wish]
           /\ \A p \in Asking : request'[p].op \in {"", "create", "update"}
           /\ \A p \in Asking : request'[p].op = "create" => request'[p].account \in Userbot
           /\ \A p \in Asking : request'[p].op # "" => request'[p].channel \in Channel
<1>1. Channels!NoRequest \in Wish /\ Channels!NoRequest.op = ""
  BY DEF Channels!NoRequest, Wish
<1>2. /\ request' = [request EXCEPT ![q] = Channels!NoRequest] /\ request \in [Asking -> Wish]
      /\ \A p \in Asking : request[p].op = "create" => request[p].account \in Userbot
      /\ \A p \in Asking : request[p].op # "" => request[p].channel \in Channel
  BY DEF Channels!End, ChannelInv, ChannelTypes
<1>3. /\ request' \in [Asking -> Wish] /\ request'[q] = Channels!NoRequest
      /\ \A p \in Asking \ {q} : request'[p] = request[p]
  BY <1>1, <1>2
<1>4. \A p \in Asking : request'[p].op \in {"", "create", "update"}
  BY <1>3 DEF Wish
<1> QED
  BY <1>1, <1>2, <1>3, <1>4

\* A request that comes to write leaves fresh rows, however late it comes.
LEMMA WriteStep ==
    ASSUME ChannelInv, NEW q \in Asking, Channels!Create(q) \/ Channels!Update(q)
    PROVE  ChannelInv'
<1>0. /\ UNCHANGED <<attached, enabled, limit, holder, member, run, changes, upsets>> /\ Channels!End(q)
  BY DEF Channels!Create, Channels!Update, Channels!settings
<1>1. /\ target' \in [Target -> Channels!Row]
      /\ \A u \in Target : SameRow(u) \/ RowIsTrue(target'[u], member')
      /\ \A u \in Target : SameRow(u) \/ target'[u].status \notin Channels!Working
  <2>1. CASE Channels!Create(q)
    <3>1. PICK t \in Target : Channels!Write([target EXCEPT ![t] = Channels!Created(request[q])], t)
      BY <2>1 DEF Channels!Create
    <3>2. request[q] \in Wish /\ request[q].account \in Userbot /\ request[q].channel \in Channel
      BY <2>1 DEF Channels!Create, ChannelInv, ChannelTypes
    <3>3. /\ Channels!Created(request[q]) \in Channels!Row
          /\ Channels!Created(request[q]).discussion = Nobody /\ Channels!Created(request[q]).status = "QUEUED"
      BY <3>2 DEF Channels!Created, Channels!Row, Channels!Status, Channels!Waiting, Wish
    <3> QED
      BY <3>1, <3>3, RowWriteEffect
  <2>2. CASE Channels!Update(q)
    <3> DEFINE t == request[q].target
               x == Channels!Updated(target[t], request[q])
    <3>1. CASE t \in Channels!Live
      <4>1. t \in Target /\ target[t] \in Channels!Row
        BY <3>1 DEF Channels!Live, ChannelInv, ChannelTypes, Channels!TypeOK
      <4>2. request[q] \in Wish /\ request[q].channel \in Channel
        BY <2>2 DEF Channels!Update, ChannelInv, ChannelTypes
      <4>3. x \in Channels!Row /\ x.discussion = Nobody /\ x.status = "QUEUED"
        BY <4>1, <4>2 DEF Channels!Updated, Channels!Row, Channels!Status, Channels!Waiting, Wish
      <4>4. target \in [Target -> Channels!Row]
        BY DEF ChannelInv, ChannelTypes, Channels!TypeOK
      <4>5. [target EXCEPT ![t] = Channels!Updated(@, request[q])] = [target EXCEPT ![t] = x]
        BY <4>1, <4>4
      <4>6. Channels!Write([target EXCEPT ![t] = x], t)
        BY <2>2, <3>1, <4>5 DEF Channels!Update
      <4> HIDE DEF t, x
      <4> QED
        BY <4>1, <4>3, <4>6, RowWriteEffect
    <3>2. CASE t \notin Channels!Live
      BY <2>2, <3>2 DEF Channels!Update, SameRow, ChannelInv, ChannelTypes, Channels!TypeOK
    <3> QED
      BY <3>1, <3>2
  <2> QED
    BY <2>1, <2>2
<1>2. MemberGrows
  BY <1>0 DEF MemberGrows, ChannelInv, ChannelTypes, Channels!TypeOK
<1>3. OwnerIsAtWork'
  BY <1>0, <1>1, OwnersKept DEF NotTaken, GoesOn
<1>4. Channels!TypeOK'
  BY <1>0, <1>1, EndEffect DEF ChannelInv, ChannelTypes, Channels!TypeOK
<1> QED
  BY <1>0, <1>1, <1>2, <1>3, <1>4, EndEffect, RunsStay, StepTogether

\* A row is deleted, the service switched, the subscription changes, the account is
\* switched or detached.
LEMMA SettingStep ==
    ASSUME ChannelInv,
           \/ \E t \in Target : Channels!Delete(t)
           \/ \E on \in BOOLEAN : Channels!SetEnabled(on)
           \/ \E n \in 0..MaxLimit : Channels!Entitle(n)
           \/ \E a \in Userbot : Channels!Switch(a)
           \/ Channels!Detach
    PROVE  ChannelInv'
<1> USE DEF Channels!settings
<1>0. /\ UNCHANGED <<member, request, run, upsets>> /\ changes < MaxChanges /\ changes' = changes + 1
  BY DEF Channels!Delete, Channels!SetEnabled, Channels!Entitle, Channels!Switch, Channels!Detach, Channels!Change
<1>a. target \in [Target -> Channels!Row] /\ holder \in [Userbot -> Run \cup {Nobody}]
  BY DEF ChannelInv, ChannelTypes, Channels!TypeOK
<1>1. /\ target' \in [Target -> Channels!Row]
      /\ \A u \in Target : SameRow(u) \/ RowIsTrue(target'[u], member')
      /\ \A u \in Target : SameRow(u) \/ target'[u].status \notin Channels!Working
  <2>1. ASSUME NEW t \in Target, Channels!Delete(t)
        PROVE  target' \in [Target -> Channels!Row] /\ \A u \in Target : SameRow(u)
    <3>1. target' = [target EXCEPT ![t] = [@ EXCEPT !.state = "DELETED", !.active = FALSE]]
      BY <1>a, <2>1 DEF Channels!Delete, Channels!Row
    <3>2. [target[t] EXCEPT !.state = "DELETED", !.active = FALSE] \in Channels!Row
      BY <1>a DEF Channels!Row
    <3> QED
      BY <1>a, <3>1, <3>2 DEF SameRow, Channels!Row
  <2>2. ASSUME NEW a \in Userbot, Channels!Switch(a)
        PROVE  /\ target' \in [Target -> Channels!Row]
               /\ \A u \in Target : SameRow(u) \/ (target'[u].status = "NEEDS_REVALIDATION" /\ target'[u].discussion = Nobody)
    <3>1. target' = [u \in Target |-> IF target[u].state = "ABSENT" THEN target[u] ELSE Channels!Rebound(target[u], a)]
      BY <2>2 DEF Channels!Switch
    <3>2. \A x \in Channels!Row : LET y == Channels!Rebound(x, a)
                                  IN  y \in Channels!Row /\ y.status = "NEEDS_REVALIDATION" /\ y.discussion = Nobody
      BY DEF Channels!Rebound, Channels!Row, Channels!Status, Channels!Waiting
    <3> QED
      BY <1>a, <3>1, <3>2 DEF SameRow
  <2>3. CASE (\E on \in BOOLEAN : Channels!SetEnabled(on)) \/ (\E n \in 0..MaxLimit : Channels!Entitle(n)) \/ Channels!Detach
    <3>1. target' = target
      BY <2>3 DEF Channels!SetEnabled, Channels!Entitle, Channels!Detach
    <3> QED
      BY <1>a, <3>1 DEF SameRow
  <2> QED
    BY <2>1, <2>2, <2>3 DEF RowIsTrue, Channels!Working
<1>2. /\ attached' \in Userbot \cup {Nobody} /\ enabled' \in BOOLEAN /\ limit' \in 0..MaxLimit
      /\ holder' \in [Userbot -> Run \cup {Nobody}]
  <2>0. attached \in Userbot \cup {Nobody} /\ enabled \in BOOLEAN /\ limit \in 0..MaxLimit
    BY DEF ChannelInv, ChannelTypes, Channels!TypeOK
  <2>1. CASE \E t \in Target : Channels!Delete(t)
    BY <1>a, <2>0, <2>1 DEF Channels!Delete
  <2>2. CASE \E on \in BOOLEAN : Channels!SetEnabled(on)
    BY <1>a, <2>0, <2>2 DEF Channels!SetEnabled
  <2>3. CASE \E n \in 0..MaxLimit : Channels!Entitle(n)
    BY <1>a, <2>0, <2>3 DEF Channels!Entitle
  <2>4. CASE \E a \in Userbot : Channels!Switch(a)
    BY <1>a, <2>0, <2>4 DEF Channels!Switch
  <2>5. CASE Channels!Detach
    BY <1>a, <2>0, <2>5 DEF Channels!Detach
  <2> QED
    BY <2>1, <2>2, <2>3, <2>4, <2>5
<1>3. changes' \in 0..MaxChanges
  <2>1. changes \in 0..MaxChanges
    BY DEF ChannelInv, ChannelTypes, Channels!TypeOK
  <2> QED
    BY <1>0, <2>1, ChannelAssumption
<1>4. MemberGrows
  BY <1>0 DEF MemberGrows, ChannelInv, ChannelTypes, Channels!TypeOK
<1>5. OwnerIsAtWork'
  BY <1>0, <1>1, OwnersKept DEF NotTaken, GoesOn
<1>6. Channels!TypeOK'
  BY <1>0, <1>1, <1>2, <1>3 DEF ChannelInv, ChannelTypes, Channels!TypeOK
<1>7. /\ request' \in [Asking -> Wish]
      /\ \A p \in Asking : request'[p].op = "create" => request'[p].account \in Userbot
      /\ \A p \in Asking : request'[p].op # "" => request'[p].channel \in Channel
  BY <1>0 DEF ChannelInv, ChannelTypes
<1> QED
  BY <1>0, <1>1, <1>4, <1>5, <1>6, <1>7, RunsStay, StepTogether

-----------------------------------------------------------------------------
(* The runs. *)

\* A step of a run: nothing of the settings, what it does is true, rows are as they were
\* or true, and it owns what it is at.
LEMMA RunStep ==
    ASSUME ChannelInv, MemberGrows, NEW r \in Run, NEW w \in Duty, run' = [run EXCEPT ![r] = w],
           w.step # "" => w.account \in Userbot, DutyIsTrue(w, member'),
           UNCHANGED <<attached, enabled, limit, request, changes>>, upsets' \in 0..MaxUpsets,
           holder' \in [Userbot -> Run \cup {Nobody}], target' \in [Target -> Channels!Row],
           \A t \in Target : SameRow(t) \/ RowIsTrue(target'[t], member'),
           OwnerIsAtWork'
    PROVE  ChannelInv'
<1>1. /\ run' \in [Run -> Duty]
      /\ \A q \in Run : (run'[q].step # "" => run'[q].account \in Userbot) /\ DutyIsTrue(run'[q], member')
  BY RunMoves
<1>2. \A q \in Run : run'[q].step \in {"", "NEXT", "CHECK", "MOVE", "JOIN"}
  BY <1>1 DEF Duty
<1>3. Channels!TypeOK'
  BY <1>2 DEF ChannelInv, ChannelTypes, Channels!TypeOK, MemberGrows
<1>4. /\ request' \in [Asking -> Wish]
      /\ \A p \in Asking : request'[p].op = "create" => request'[p].account \in Userbot
      /\ \A p \in Asking : request'[p].op # "" => request'[p].channel \in Channel
  BY DEF ChannelInv, ChannelTypes
<1> QED
  BY <1>1, <1>3, <1>4, StepTogether

\* What the pieces of a step are.
LEMMA ChannelPieces ==
    ASSUME ChannelInv
    PROVE  /\ target \in [Target -> Channels!Row] /\ holder \in [Userbot -> Run \cup {Nobody}]
           /\ member \in [Userbot -> [Channel -> {"NO", "ASKED", "YES"}]]
           /\ run \in [Run -> Duty] /\ upsets \in 0..MaxUpsets
           /\ \A r \in Run : (run[r].step # "" => run[r].account \in Userbot) /\ DutyIsTrue(run[r], member)
           /\ \A t \in Target : RowIsTrue(target[t], member)
           /\ \A r \in Run : Channels!Released(r) \in [Userbot -> Run \cup {Nobody}]
           /\ Channels!NoRun \in Duty /\ Channels!NoRun.step = "" /\ \A m : DutyIsTrue(Channels!NoRun, m)
           /\ member' = member => MemberGrows
           /\ target' = target => \A t \in Target : SameRow(t)
<1>1. Channels!NoRun \in Duty /\ Channels!NoRun.step = "" /\ \A m : DutyIsTrue(Channels!NoRun, m)
  BY DEF Channels!NoRun, Duty, DutyIsTrue, AtRow, Channels!Status, Channels!Working, Channels!Waiting
<1> QED
  BY <1>1 DEF ChannelInv, ChannelTypes, Channels!TypeOK, Channels!Released, MemberGrows, SameRow

\* What a run owns in the middle of its preparation.
LEMMA OwnedIsAtWork ==
    ASSUME ChannelInv, NEW r \in Run, NEW t \in Target,
           target[t].owner = r, target[t].status \in Channels!Working, run[r].step # ""
    PROVE  AtRow(run[r]) /\ run[r].target = t /\ run[r].channel = target[t].channel
<1>1. OwnerIsAtWork
  BY DEF ChannelInv
<1> QED
  BY <1>1 DEF OwnerIsAtWork

\* A run starts: whatever a run of its name has left is lost to it.
LEMMA StartRun ==
    ASSUME ChannelInv, NEW r \in Run, NEW a \in Userbot, Channels!Start(r, a)
    PROVE  ChannelInv'
<1> DEFINE w == [Channels!NoRun EXCEPT !.step = "NEXT", !.account = a]
<1>0. /\ UNCHANGED <<attached, enabled, limit, member, request, changes, upsets>>
      /\ run' = [run EXCEPT ![r] = w] /\ holder' = [holder EXCEPT ![a] = r]
      /\ target' = Channels!Forgotten(r)
  BY DEF Channels!Start, Channels!settings
<1>1. w \in Duty /\ w.step = "NEXT" /\ w.account = a /\ DutyIsTrue(w, member')
  BY DEF Channels!NoRun, Duty, DutyIsTrue, AtRow, Channels!Status, Channels!Working, Channels!Waiting
<1>2. /\ target' \in [Target -> Channels!Row]
      /\ \A t \in Target : /\ target'[t].owner # r
                           /\ target'[t].owner \in Run => target[t].owner # r
                           /\ target[t].owner # r => SameRow(t)
                           /\ RowIsTrue(target'[t], member)
  <2>1. \A x \in Channels!Row : LET y == [x EXCEPT !.owner = IF @ = r THEN "LOST" ELSE @]
                                IN  /\ y \in Channels!Row /\ y.owner = (IF x.owner = r THEN "LOST" ELSE x.owner)
                                    /\ y.status = x.status /\ y.channel = x.channel /\ y.account = x.account
                                    /\ y.discussion = x.discussion
    BY DEF Channels!Row, Channels!Lost
  <2>2. target' = [t \in Target |-> [target[t] EXCEPT !.owner = IF @ = r THEN "LOST" ELSE @]]
    BY <1>0 DEF Channels!Forgotten, Channels!Lost
  <2>3. ASSUME NEW t \in Target
        PROVE  /\ target'[t].owner # r
               /\ target'[t].owner \in Run => target[t].owner # r
               /\ target[t].owner # r => SameRow(t)
               /\ RowIsTrue(target'[t], member)
    <3>1. /\ target'[t].owner = (IF target[t].owner = r THEN "LOST" ELSE target[t].owner)
          /\ target'[t].status = target[t].status /\ target'[t].channel = target[t].channel
          /\ target'[t].account = target[t].account /\ target'[t].discussion = target[t].discussion
      BY <2>1, <2>2, ChannelPieces
    <3>2. RowIsTrue(target[t], member)
      BY ChannelPieces
    <3> QED
      BY <3>1, <3>2, ChannelAssumption DEF SameRow, RowIsTrue
  <2>4. target' \in [Target -> Channels!Row]
    BY <2>1, <2>2, ChannelPieces
  <2> QED
    BY <2>3, <2>4
<1>3. holder' \in [Userbot -> Run \cup {Nobody}]
  BY <1>0, ChannelPieces
<1>4. run'[r] = w /\ \A q \in Run \ {r} : run'[q] = run[q]
  BY <1>0, ChannelPieces
<1>5. OwnerIsAtWork'
  <2> SUFFICES ASSUME NEW q \in Run, NEW t \in Target,
                      target'[t].owner = q, target'[t].status \in Channels!Working, run'[q].step # ""
               PROVE  AtRow(run'[q]) /\ run'[q].target = t /\ run'[q].channel = target'[t].channel
    BY DEF OwnerIsAtWork
  <2>1. q # r /\ run'[q] = run[q]
    BY <1>2, <1>4
  <2>2. target[t].owner # r /\ SameRow(t)
    BY <1>2
  <2>3. target[t].owner = q /\ target[t].status \in Channels!Working /\ run[q].step # ""
    BY <2>1, <2>2 DEF SameRow
  <2>4. AtRow(run[q]) /\ run[q].target = t /\ run[q].channel = target[t].channel
    BY <2>3, OwnedIsAtWork
  <2> QED
    BY <2>1, <2>2, <2>4 DEF SameRow
<1> HIDE DEF w
<1>6. MemberGrows /\ upsets' \in 0..MaxUpsets
  BY <1>0, ChannelPieces
<1> QED
  BY <1>0, <1>1, <1>2, <1>3, <1>5, <1>6, RunStep

\* A run that ends, or goes on from where it is, while no row comes into a preparation.
LEMMA OwnersGoOn ==
    ASSUME ChannelInv, NEW r \in Run, NEW w \in Duty, run' = [run EXCEPT ![r] = w],
           w.step # "" => /\ run[r].step # ""
                          /\ AtRow(run[r]) => AtRow(w) /\ w.target = run[r].target /\ w.channel = run[r].channel,
           \A t \in Target : NotTaken(t)
    PROVE  OwnerIsAtWork'
<1>1. run'[r] = w /\ \A q \in Run \ {r} : run'[q] = run[q]
  BY ChannelPieces
<1>2. \A q \in Run : GoesOn(q)
  BY <1>1 DEF GoesOn
<1> QED
  BY <1>2, OwnersKept

\* A run ends, drained or with its engine; or it loses its lease and goes on.
LEMMA EndRun ==
    ASSUME ChannelInv, NEW r \in Run, Channels!Drain(r) \/ Channels!Crash(r) \/ Channels!Lapse(r)
    PROVE  ChannelInv'
<1>0. /\ UNCHANGED <<attached, enabled, limit, target, member, request, changes>>
      /\ holder' = Channels!Released(r)
      /\ run' = [run EXCEPT ![r] = Channels!NoRun] \/ run' = run
      /\ upsets' = upsets \/ (upsets < MaxUpsets /\ upsets' = upsets + 1)
  BY DEF Channels!Drain, Channels!Crash, Channels!Lapse, Channels!Stop, Channels!settings
<1>1. upsets' \in 0..MaxUpsets
  <2>1. upsets \in 0..MaxUpsets
    BY ChannelPieces
  <2> QED
    BY <1>0, <2>1, ChannelAssumption
<1>2. \E w \in Duty : /\ run' = [run EXCEPT ![r] = w] /\ (w.step # "" => w.account \in Userbot) /\ DutyIsTrue(w, member)
                       /\ w \in {Channels!NoRun, run[r]}
  <2>1. CASE run' = [run EXCEPT ![r] = Channels!NoRun]
    BY <2>1, ChannelPieces
  <2>2. CASE run' = run
    <3>1. run' = [run EXCEPT ![r] = run[r]]
      BY <2>2, ChannelPieces
    <3> QED
      BY <3>1, ChannelPieces
  <2> QED
    BY <1>0, <2>1, <2>2
<1>3. PICK w \in Duty : /\ run' = [run EXCEPT ![r] = w] /\ (w.step # "" => w.account \in Userbot) /\ DutyIsTrue(w, member)
                        /\ w \in {Channels!NoRun, run[r]}
  BY <1>2
<1>4. OwnerIsAtWork'
  BY <1>0, <1>3, OwnersGoOn, ChannelPieces DEF NotTaken
<1>5. DutyIsTrue(w, member') /\ MemberGrows
  BY <1>0, <1>3, ChannelPieces
<1> QED
  BY <1>0, <1>1, <1>3, <1>4, <1>5, RunStep, ChannelPieces

\* The rows a claim finds: those left in the middle of their preparation start over.
LEMMA RecoveredEffect ==
    ASSUME ChannelInv, NEW r \in Run
    PROVE  /\ Channels!Recovered(r) \in [Target -> Channels!Row]
           /\ \A t \in Target : /\ RowIsTrue(Channels!Recovered(r)[t], member)
                                /\ \/ Channels!Recovered(r)[t] = target[t]
                                   \/ Channels!Recovered(r)[t].status = "NEEDS_REVALIDATION"
<1>1. \A x \in Channels!Row : LET y == [x EXCEPT !.status = "NEEDS_REVALIDATION", !.owner = Nobody]
                              IN  /\ y \in Channels!Row /\ y.status = "NEEDS_REVALIDATION"
                                  /\ y.channel = x.channel /\ y.discussion = x.discussion
  BY DEF Channels!Row, Channels!Status, Channels!Waiting
<1>2. \A t \in Target : \/ Channels!Recovered(r)[t] = target[t]
                        \/ Channels!Recovered(r)[t] = [target[t] EXCEPT !.status = "NEEDS_REVALIDATION", !.owner = Nobody]
  BY DEF Channels!Recovered
<1>3. Channels!Recovered(r) \in [Target -> Channels!Row]
  <2>1. \A t \in Target : Channels!Recovered(r)[t] \in Channels!Row
    <3>1. \A t \in Target : target[t] \in Channels!Row
      BY ChannelPieces
    <3> QED
      BY <1>1, <1>2, <3>1
  <2> QED
    BY <2>1 DEF Channels!Recovered
<1>4. ASSUME NEW t \in Target
      PROVE  /\ RowIsTrue(Channels!Recovered(r)[t], member)
             /\ \/ Channels!Recovered(r)[t] = target[t]
                \/ Channels!Recovered(r)[t].status = "NEEDS_REVALIDATION"
  <2>1. target[t] \in Channels!Row /\ RowIsTrue(target[t], member)
    BY ChannelPieces
  <2> QED
    BY <1>1, <1>2, <2>1 DEF RowIsTrue
<1> QED
  BY <1>3, <1>4

\* A run claims a row: it had none, and has this one with the channel it is for now.
LEMMA ClaimRun ==
    ASSUME ChannelInv, NEW r \in Run, NEW t \in Target, Channels!Claim(r, t)
    PROVE  ChannelInv'
<1> DEFINE R == Channels!Recovered(r)
           y == [R[t] EXCEPT !.status = "CHECKING", !.owner = r]
           w == [run[r] EXCEPT !.step = "CHECK", !.target = t, !.channel = R[t].channel,
                               !.discussion = R[t].discussion, !.previous = R[t].status]
<1>0. /\ UNCHANGED <<attached, enabled, limit, holder, member, request, changes, upsets>> /\ run[r].step = "NEXT"
      /\ target' = [R EXCEPT ![t].status = "CHECKING", ![t].owner = r]
      /\ run' = [run EXCEPT ![r] = [@ EXCEPT !.step = "CHECK", !.target = t, !.channel = R[t].channel,
                                             !.discussion = R[t].discussion, !.previous = R[t].status]]
  BY DEF Channels!Claim, Channels!settings
<1>1. /\ R \in [Target -> Channels!Row]
      /\ \A u \in Target : RowIsTrue(R[u], member) /\ (R[u] = target[u] \/ R[u].status = "NEEDS_REVALIDATION")
  BY RecoveredEffect
<1> HIDE DEF R
<1>2. y \in Channels!Row /\ y.channel = R[t].channel /\ y.discussion = R[t].discussion /\ y.status = "CHECKING" /\ y.owner = r
  BY <1>1 DEF Channels!Row, Channels!Status, Channels!Working
<1>3. target' = [R EXCEPT ![t] = y]
  BY <1>0, <1>1 DEF Channels!Row
<1>4. run' = [run EXCEPT ![r] = w]
  BY <1>0, ChannelPieces
<1>5. /\ w \in Duty /\ w.step = "CHECK" /\ w.target = t /\ w.channel = R[t].channel
      /\ w.discussion = R[t].discussion /\ w.account = run[r].account
  BY <1>1, ChannelPieces DEF Duty, Channels!Row
<1> HIDE DEF w, y
<1>6. run[r].account \in Userbot
  BY <1>0, ChannelPieces
<1>7. DutyIsTrue(w, member')
  BY <1>1, <1>5 DEF DutyIsTrue, AtRow, RowIsTrue, Channels!Row
<1>8. /\ target' \in [Target -> Channels!Row] /\ target'[t] = y /\ \A u \in Target \ {t} : target'[u] = R[u]
  BY <1>1, <1>2, <1>3
<1>9. \A u \in Target : RowIsTrue(target'[u], member')
  BY <1>0, <1>1, <1>2, <1>8 DEF RowIsTrue
<1>10. run'[r] = w /\ \A q \in Run \ {r} : run'[q] = run[q]
  BY <1>4, ChannelPieces
<1>11. OwnerIsAtWork'
  <2> SUFFICES ASSUME NEW q \in Run, NEW u \in Target,
                      target'[u].owner = q, target'[u].status \in Channels!Working, run'[q].step # ""
               PROVE  AtRow(run'[q]) /\ run'[q].target = u /\ run'[q].channel = target'[u].channel
    BY DEF OwnerIsAtWork
  <2>1. CASE u = t
    BY <2>1, <1>2, <1>5, <1>8, <1>10 DEF AtRow
  <2>2. CASE u # t
    <3>1. target'[u] = target[u]
      BY <1>1, <1>8, <2>2 DEF Channels!Working
    <3>2. target[u].owner = q /\ target[u].status \in Channels!Working
      BY <3>1
    <3>3. run[q].step # "" /\ (q = r => ~AtRow(run[r]))
      BY <1>0, <1>10 DEF AtRow
    <3>4. AtRow(run[q]) /\ run[q].target = u /\ run[q].channel = target[u].channel
      BY <3>2, <3>3, OwnedIsAtWork
    <3> QED
      BY <1>10, <3>1, <3>3, <3>4
  <2> QED
    BY <2>1, <2>2
<1> QED
  BY <1>0, <1>4, <1>5, <1>6, <1>7, <1>8, <1>9, <1>11, RunStep, ChannelPieces

\* Or it finds nothing to claim, and ends.
LEMMA ClaimNothingRun ==
    ASSUME ChannelInv, NEW r \in Run, Channels!ClaimNothing(r)
    PROVE  ChannelInv'
<1>0. /\ UNCHANGED <<attached, enabled, limit, member, request, changes, upsets>>
      /\ target' = Channels!Recovered(r)
      /\ run' = [run EXCEPT ![r] = Channels!NoRun] /\ holder' = Channels!Released(r)
  BY DEF Channels!ClaimNothing, Channels!Stop, Channels!settings
<1>1. \A t \in Target : NotTaken(t) /\ RowIsTrue(target'[t], member')
  BY <1>0, RecoveredEffect DEF NotTaken, SameRow, Channels!Working
<1>2. OwnerIsAtWork'
  BY <1>0, <1>1, OwnersGoOn, ChannelPieces
<1> QED
  BY <1>0, <1>1, <1>2, RecoveredEffect, RunStep, ChannelPieces

\* A run comes to a decision, with the discussion it has asked about, while more accounts
\* may be let in.
LEMMA DecideRun ==
    ASSUME ChannelInv, MemberGrows, NEW r \in Run, NEW goal \in Channels!Status, NEW d \in Channel \cup {Nobody},
           AtRow(run[r]), d \in {Nobody, run[r].channel}, Channels!Decide(r, goal, d),
           goal \in {"JOINING", "READY"} => d = run[r].channel,
           goal = "READY" => member'[run[r].account][run[r].channel] = "YES",
           UNCHANGED <<attached, enabled, limit, target, holder, request, changes, upsets>>
    PROVE  ChannelInv'
<1> DEFINE w == [run[r] EXCEPT !.step = "MOVE", !.goal = goal, !.discussion = d]
<1>1. /\ w \in Duty /\ w.step = "MOVE" /\ w.goal = goal /\ w.discussion = d
      /\ w.account = run[r].account /\ w.target = run[r].target /\ w.channel = run[r].channel
  BY ChannelPieces DEF Duty
<1>2. run' = [run EXCEPT ![r] = w]
  BY ChannelPieces DEF Channels!Decide
<1> HIDE DEF w
<1>3. run[r].step # "" /\ run[r].account \in Userbot /\ run[r].target \in Target /\ run[r].channel \in Channel
  BY ChannelPieces DEF AtRow, DutyIsTrue
<1>4. DutyIsTrue(w, member')
  <2>1. goal # ""
    BY DEF Channels!Status, Channels!Waiting, Channels!Working
  <2> QED
    BY <1>1, <1>3, <2>1 DEF DutyIsTrue, AtRow
<1>5. \A t \in Target : SameRow(t) /\ NotTaken(t)
  BY ChannelPieces DEF NotTaken
<1>6. OwnerIsAtWork'
  BY <1>1, <1>2, <1>3, <1>5, OwnersGoOn DEF AtRow
<1> QED
  BY <1>1, <1>2, <1>3, <1>4, <1>5, <1>6, RunStep, ChannelPieces

\* Telegram is asked whether the account is in the discussion.
LEMMA CheckRun ==
    ASSUME ChannelInv, NEW r \in Run, Channels!Check(r) \/ Channels!CheckFails(r)
    PROVE  ChannelInv'
<1>0. /\ UNCHANGED <<attached, enabled, limit, target, holder, member, request, changes, upsets>>
      /\ run[r].step = "CHECK"
  BY DEF Channels!Check, Channels!CheckFails, Channels!settings
<1>1. run[r].channel \in Channel /\ run[r].discussion \in {Nobody, run[r].channel} /\ AtRow(run[r])
  BY <1>0, ChannelPieces DEF DutyIsTrue, AtRow
<1>2. {"READY", "WAITING_APPROVAL", "JOINING", "FAILED_FINAL", "QUEUED"} \subseteq Channels!Status
  BY DEF Channels!Status, Channels!Waiting, Channels!Working
<1>3. CASE Channels!Check(r)
  <2>1. Channels!Asked(r) = run[r].channel
    BY <1>1 DEF Channels!Asked
  <2> DEFINE goal == CASE Channels!IsMember(r) -> "READY"
                       [] run[r].previous = "WAITING_APPROVAL" -> "WAITING_APPROVAL"
                       [] OTHER -> "JOINING"
  <2>2. Channels!Decide(r, goal, run[r].channel)
    BY <1>3, <2>1 DEF Channels!Check
  <2>3. goal \in Channels!Status /\ (goal = "READY" => Channels!IsMember(r))
    BY <1>2
  <2>4. goal = "READY" => member'[run[r].account][run[r].channel] = "YES"
    BY <1>0, <2>1, <2>3 DEF Channels!IsMember
  <2> HIDE DEF goal
  <2> QED
    BY <1>0, <1>1, <2>2, <2>3, <2>4, DecideRun, ChannelPieces
<1>4. CASE Channels!CheckFails(r)
  <2>1. PICK goal \in {"FAILED_FINAL", "WAITING_APPROVAL", "QUEUED"} : Channels!Decide(r, goal, run[r].discussion)
    BY <1>4 DEF Channels!CheckFails
  <2> QED
    BY <1>0, <1>1, <1>2, <2>1, DecideRun, ChannelPieces
<1> QED
  BY <1>3, <1>4

\* The account asks to join the discussion.
LEMMA JoinRun ==
    ASSUME ChannelInv, NEW r \in Run, Channels!Join(r) \/ Channels!JoinFails(r)
    PROVE  ChannelInv'
<1>0. /\ UNCHANGED <<attached, enabled, limit, target, holder, request, changes, upsets>>
      /\ run[r].step = "JOIN"
  BY DEF Channels!Join, Channels!JoinFails, Channels!settings
<1>1. /\ run[r].account \in Userbot /\ run[r].channel \in Channel /\ run[r].discussion = run[r].channel /\ AtRow(run[r])
  BY <1>0, ChannelPieces DEF DutyIsTrue, AtRow
<1>2. {"READY", "WAITING_APPROVAL", "FAILED_FINAL", "QUEUED"} \subseteq Channels!Status
  BY DEF Channels!Status, Channels!Waiting, Channels!Working
<1>3. ASSUME NEW now \in {"NO", "ASKED", "YES"}, member[run[r].account][run[r].discussion] = "YES" => now = "YES",
             member' = [member EXCEPT ![run[r].account][run[r].discussion] = now]
      PROVE  MemberGrows /\ member'[run[r].account][run[r].channel] = now
  BY <1>1, <1>3, ChannelPieces DEF MemberGrows
<1>4. CASE Channels!Join(r)
  <2>1. PICK now \in {"YES", "ASKED"} :
            /\ member[run[r].account][run[r].discussion] = "YES" => now = "YES"
            /\ member' = [member EXCEPT ![run[r].account][run[r].discussion] = now]
            /\ Channels!Decide(r, IF now = "YES" THEN "READY" ELSE "WAITING_APPROVAL", run[r].discussion)
    BY <1>4 DEF Channels!Join
  <2>2. MemberGrows /\ member'[run[r].account][run[r].channel] = now
    BY <1>3, <2>1
  <2>3. CASE now = "YES"
    BY <1>0, <1>1, <1>2, <2>1, <2>2, <2>3, DecideRun
  <2>4. CASE now # "YES"
    BY <1>0, <1>1, <1>2, <2>1, <2>2, <2>4, DecideRun
  <2> QED
    BY <2>3, <2>4
<1>5. CASE Channels!JoinFails(r)
  <2>1. PICK now \in {member[run[r].account][run[r].discussion], "YES", "ASKED"} :
            /\ member[run[r].account][run[r].discussion] = "YES" => now = "YES"
            /\ member' = [member EXCEPT ![run[r].account][run[r].discussion] = now]
    BY <1>5 DEF Channels!JoinFails
  <2>2. now \in {"NO", "ASKED", "YES"}
    <3>1. member[run[r].account][run[r].discussion] \in {"NO", "ASKED", "YES"}
      <4>1. member \in [Userbot -> [Channel -> {"NO", "ASKED", "YES"}]]
        BY ChannelPieces
      <4> QED
        BY <1>1, <4>1
    <3> QED
      BY <2>1, <3>1
  <2>3. MemberGrows
    BY <1>3, <2>1, <2>2
  <2>4. PICK goal \in {"FAILED_FINAL", "QUEUED"} : Channels!Decide(r, goal, run[r].discussion)
    BY <1>5 DEF Channels!JoinFails
  <2> QED
    BY <1>0, <1>1, <1>2, <2>3, <2>4, DecideRun
<1> QED
  BY <1>4, <1>5

\* The outcome is written, if the row is still the run's; otherwise the run ends.
LEMMA MoveRun ==
    ASSUME ChannelInv, NEW r \in Run, Channels!Move(r)
    PROVE  ChannelInv'
<1> DEFINE t == run[r].target
           goal == run[r].goal
           x == target[t]
           y == [x EXCEPT !.status = goal, !.owner = IF goal = "JOINING" THEN r ELSE Nobody,
                          !.discussion = IF run[r].discussion = Nobody THEN @ ELSE run[r].discussion]
<1>0. UNCHANGED <<attached, enabled, limit, member, request, changes, upsets>> /\ run[r].step = "MOVE"
  BY DEF Channels!Move, Channels!settings
<1>1. /\ t \in Target /\ x \in Channels!Row /\ RowIsTrue(x, member) /\ AtRow(run[r]) /\ run[r] \in Duty
      /\ run[r].account \in Userbot /\ run[r].channel \in Channel /\ run[r].discussion \in {Nobody, run[r].channel}
      /\ goal \in {"JOINING", "READY"} => run[r].discussion = run[r].channel
      /\ goal = "READY" => member[run[r].account][run[r].channel] = "YES"
      /\ goal \in Channels!Status
  <2>1. AtRow(run[r]) /\ run[r] \in Duty /\ run[r].account \in Userbot /\ DutyIsTrue(run[r], member)
    BY <1>0, ChannelPieces DEF AtRow
  <2>2. goal \in Channels!Status
    BY <1>0, <2>1 DEF DutyIsTrue, Duty
  <2>3. t \in Target
    BY <2>1 DEF DutyIsTrue
  <2> QED
    BY <1>0, <2>1, <2>2, <2>3, ChannelPieces DEF DutyIsTrue
<1>2. CASE ~Channels!MayMove(r)
  <2>1. target' = target /\ run' = [run EXCEPT ![r] = Channels!NoRun] /\ holder' = Channels!Released(r)
    BY <1>2 DEF Channels!Move, Channels!Stop
  <2>2. \A u \in Target : SameRow(u) /\ NotTaken(u)
    BY <2>1, ChannelPieces DEF NotTaken
  <2>3. OwnerIsAtWork'
    BY <2>1, <2>2, OwnersGoOn, ChannelPieces
  <2> QED
    BY <1>0, <2>1, <2>2, <2>3, RunStep, ChannelPieces
<1>3. CASE Channels!MayMove(r)
  <2>1. x.account = run[r].account /\ x.owner = r /\ x.status \in Channels!Working
    BY <1>1, <1>3 DEF Channels!MayMove, Duty
  <2>2. run[r].channel = x.channel
    BY <1>0, <1>1, <2>1, OwnedIsAtWork
  <2>3. /\ y \in Channels!Row /\ y.status = goal /\ y.owner = (IF goal = "JOINING" THEN r ELSE Nobody)
        /\ y.channel = x.channel /\ y.account = x.account
        /\ y.discussion = (IF run[r].discussion = Nobody THEN x.discussion ELSE run[r].discussion)
    BY <1>1 DEF Channels!Row, Duty
  <2>4. RowIsTrue(y, member)
    BY <1>1, <2>1, <2>2, <2>3, ChannelAssumption DEF RowIsTrue
  <2>5. target' = [target EXCEPT ![t] = y]
    BY <1>3 DEF Channels!Move, Channels!Moved
  <2>6. target' \in [Target -> Channels!Row] /\ target'[t] = y /\ \A u \in Target \ {t} : target'[u] = target[u]
    BY <1>1, <2>3, <2>5, ChannelPieces
  <2>7. \A u \in Target : SameRow(u) \/ RowIsTrue(target'[u], member')
    BY <1>0, <2>4, <2>6 DEF SameRow
  <2>8. ASSUME NEW w \in Duty, run' = [run EXCEPT ![r] = w], w.step # "" => w.account \in Userbot, DutyIsTrue(w, member),
               goal = "JOINING" => AtRow(w) /\ w.target = t /\ w.channel = run[r].channel,
               holder' \in [Userbot -> Run \cup {Nobody}]
        PROVE  ChannelInv'
    <3>1. run'[r] = w /\ \A q \in Run \ {r} : run'[q] = run[q]
      BY <2>8, ChannelPieces
    <3>2. OwnerIsAtWork'
      <4> SUFFICES ASSUME NEW q \in Run, NEW u \in Target,
                          target'[u].owner = q, target'[u].status \in Channels!Working, run'[q].step # ""
                   PROVE  AtRow(run'[q]) /\ run'[q].target = u /\ run'[q].channel = target'[u].channel
        BY DEF OwnerIsAtWork
      <4>1. CASE u = t
        <5>1. goal = "JOINING" /\ q = r
          BY <2>3, <2>6, <4>1, ChannelAssumption
        <5> QED
          BY <2>2, <2>3, <2>6, <2>8, <3>1, <4>1, <5>1
      <4>2. CASE u # t
        <5>1. target'[u] = target[u]
          BY <2>6, <4>2
        <5>2. target[u].owner = q /\ target[u].status \in Channels!Working /\ run[q].step # ""
          BY <1>0, <3>1, <5>1
        <5>3. AtRow(run[q]) /\ run[q].target = u /\ run[q].channel = target[u].channel
          BY <5>2, OwnedIsAtWork
        <5>4. q # r
          BY <4>2, <5>3
        <5> QED
          BY <3>1, <5>1, <5>3, <5>4
      <4> QED
        BY <4>1, <4>2
    <3> HIDE DEF t, goal, x, y
    <3>3. MemberGrows /\ DutyIsTrue(w, member') /\ upsets' \in 0..MaxUpsets
      BY <1>0, <2>8, ChannelPieces
    <3> QED
      BY <1>0, <2>6, <2>7, <2>8, <3>2, <3>3, RunStep
  <2>9. CASE goal = "JOINING"
    <3> DEFINE w == [run[r] EXCEPT !.step = "JOIN", !.current = "JOINING"]
    <3>1. holder' = holder /\ run' = [run EXCEPT ![r] = w]
      BY <1>3, <2>9, ChannelPieces DEF Channels!Move
    <3>2. /\ w \in Duty /\ w.step = "JOIN" /\ w.target = t /\ w.channel = run[r].channel
          /\ w.account = run[r].account /\ w.discussion = run[r].discussion
      BY <1>1 DEF Duty, Channels!Working
    <3>3. DutyIsTrue(w, member) /\ AtRow(w)
      BY <1>1, <2>9, <3>2 DEF DutyIsTrue, AtRow
    <3> HIDE DEF w, y
    <3> QED
      BY <1>1, <2>8, <3>1, <3>2, <3>3, ChannelPieces
  <2>10. CASE goal # "JOINING"
    <3> DEFINE w == [Channels!NoRun EXCEPT !.step = "NEXT", !.account = run[r].account]
    <3>1. \/ holder' = holder /\ run' = [run EXCEPT ![r] = w]
          \/ holder' = Channels!Released(r) /\ run' = [run EXCEPT ![r] = Channels!NoRun]
      BY <1>3, <2>10 DEF Channels!Move, Channels!Stop
    <3>2. w \in Duty /\ w.step = "NEXT" /\ w.account = run[r].account
      BY <1>1 DEF Channels!NoRun, Duty, Channels!Status, Channels!Working, Channels!Waiting
    <3>3. DutyIsTrue(w, member)
      BY <3>2 DEF DutyIsTrue, AtRow
    <3> HIDE DEF w, y
    <3>4. CASE holder' = holder /\ run' = [run EXCEPT ![r] = w]
      BY <1>1, <2>8, <2>10, <3>2, <3>3, <3>4, ChannelPieces
    <3>5. CASE holder' = Channels!Released(r) /\ run' = [run EXCEPT ![r] = Channels!NoRun]
      BY <2>8, <2>10, <3>5, ChannelPieces
    <3> QED
      BY <3>1, <3>4, <3>5
  <2> QED
    BY <2>9, <2>10
<1> QED
  BY <1>2, <1>3

\* An account is let in.
LEMMA ApproveStep ==
    ASSUME ChannelInv, NEW a \in Userbot, NEW c \in Channel, Channels!Approve(a, c)
    PROVE  ChannelInv'
<1>0. /\ UNCHANGED <<attached, enabled, limit, target, holder, request, run, changes, upsets>>
      /\ member' = [member EXCEPT ![a][c] = "YES"]
  BY DEF Channels!Approve, Channels!settings
<1>1. MemberGrows
  BY <1>0, ChannelPieces DEF MemberGrows
<1>2. OwnerIsAtWork'
  BY <1>0 DEF ChannelInv, OwnerIsAtWork
<1>3. \A t \in Target : SameRow(t)
  BY <1>0, ChannelPieces
<1>4. Channels!TypeOK'
  BY <1>0, <1>1 DEF ChannelInv, ChannelTypes, Channels!TypeOK, MemberGrows
<1>5. /\ request' \in [Asking -> Wish]
      /\ \A p \in Asking : request'[p].op = "create" => request'[p].account \in Userbot
      /\ \A p \in Asking : request'[p].op # "" => request'[p].channel \in Channel
  BY <1>0 DEF ChannelInv, ChannelTypes
<1> QED
  BY <1>0, <1>1, <1>2, <1>3, <1>4, <1>5, RunsStay, StepTogether

\* Every step keeps the invariant.
LEMMA ChannelStep == ChannelInv /\ [Channels!Next]_channelVars => ChannelInv'
<1> SUFFICES ASSUME ChannelInv, [Channels!Next]_channelVars PROVE ChannelInv'
  OBVIOUS
<1>1. CASE UNCHANGED channelVars
  BY <1>1 DEF channelVars, ChannelInv, ChannelTypes, OwnerIsAtWork, Channels!TypeOK
<1>2. ASSUME NEW q \in Asking,
             \/ Channels!Create(q) \/ Channels!Update(q)
             \/ \E a \in Userbot, c \in Channel : Channels!AskCreate(q, a, c)
             \/ \E t \in Target, c \in Channel, on \in BOOLEAN : Channels!AskUpdate(q, t, c, on)
      PROVE  ChannelInv'
  BY <1>2, RequestStep, WriteStep
<1>3. ASSUME NEW r \in Run, Channels!Step(r) \/ Channels!Lapse(r) \/ Channels!Crash(r)
      PROVE  ChannelInv'
  BY <1>3, CheckRun, JoinRun, MoveRun, EndRun, ClaimRun, ClaimNothingRun DEF Channels!Step
<1> QED
  BY <1>1, <1>2, <1>3, SettingStep, StartRun, ApproveStep DEF Channels!Next

-----------------------------------------------------------------------------
(* The channels: how many are active. *)

\* A step other than a request's write makes no row active.
LEMMA OthersActivateNone ==
    ASSUME ChannelInv, [Channels!Next]_channelVars, ~\E q \in Asking : Channels!Create(q) \/ Channels!Update(q)
    PROVE  \A t \in Target : target'[t].active => target[t].active
<1> USE DEF Channels!settings
<1>0. target \in [Target -> Channels!Row]
  BY ChannelPieces
<1>1. CASE target' = target
  BY <1>1
<1>2. ASSUME NEW t \in Target, Channels!Delete(t) PROVE \A u \in Target : target'[u].active => target[u].active
  <2> DEFINE y == [target[t] EXCEPT !.state = "DELETED", !.active = FALSE]
  <2>1. target' = [target EXCEPT ![t].state = "DELETED", ![t].active = FALSE]
    BY <1>2 DEF Channels!Delete
  <2>2. target[t] \in Channels!Row
    BY <1>0
  <2>3. target' = [target EXCEPT ![t] = y]
    BY <1>0, <2>1, <2>2 DEF Channels!Row
  <2>4. y.active = FALSE
    BY <2>2 DEF Channels!Row
  <2> HIDE DEF y
  <2> QED
    BY <1>0, <2>3, <2>4
<1>3. ASSUME NEW a \in Userbot, Channels!Switch(a) PROVE \A u \in Target : target'[u].active => target[u].active
  <2>1. target' = [u \in Target |-> IF target[u].state = "ABSENT" THEN target[u] ELSE Channels!Rebound(target[u], a)]
    BY <1>3 DEF Channels!Switch
  <2>2. \A x \in Channels!Row : Channels!Rebound(x, a).active = x.active
    BY DEF Channels!Rebound, Channels!Row
  <2> QED
    BY <1>0, <2>1, <2>2
<1>4. ASSUME NEW r \in Run, NEW a \in Userbot, Channels!Start(r, a)
      PROVE  \A u \in Target : target'[u].active => target[u].active
  BY <1>0, <1>4 DEF Channels!Start, Channels!Forgotten, Channels!Row
<1>5. ASSUME NEW r \in Run PROVE \A u \in Target : Channels!Recovered(r)[u].active => target[u].active
  BY <1>0 DEF Channels!Recovered, Channels!Row
<1>6. ASSUME NEW r \in Run, NEW t \in Target, Channels!Claim(r, t)
      PROVE  \A u \in Target : target'[u].active => target[u].active
  <2>1. target' = [Channels!Recovered(r) EXCEPT ![t].status = "CHECKING", ![t].owner = r]
    BY <1>6 DEF Channels!Claim
  <2>2. Channels!Recovered(r) \in [Target -> Channels!Row]
    BY RecoveredEffect
  <2>3. \A u \in Target : target'[u].active = Channels!Recovered(r)[u].active
    BY <2>1, <2>2 DEF Channels!Row
  <2> QED
    BY <1>5, <2>3
<1>7. ASSUME NEW r \in Run, Channels!ClaimNothing(r) PROVE \A u \in Target : target'[u].active => target[u].active
  BY <1>5, <1>7 DEF Channels!ClaimNothing
<1>8. ASSUME NEW r \in Run, Channels!Move(r) PROVE \A u \in Target : target'[u].active => target[u].active
  <2>1. target' = target \/ target' = [target EXCEPT ![run[r].target] = Channels!Moved(r, @)]
    BY <1>8 DEF Channels!Move
  <2>2. \A x \in Channels!Row : Channels!Moved(r, x).active = x.active
    BY DEF Channels!Moved, Channels!Row
  <2> QED
    BY <1>0, <2>1, <2>2
<1>9. \/ target' = target
      \/ \E t \in Target : Channels!Delete(t)
      \/ \E a \in Userbot : Channels!Switch(a)
      \/ \E r \in Run, a \in Userbot : Channels!Start(r, a)
      \/ \E r \in Run, t \in Target : Channels!Claim(r, t)
      \/ \E r \in Run : Channels!ClaimNothing(r) \/ Channels!Move(r)
  BY DEF Channels!Next, Channels!Step, channelVars, Channels!AskCreate, Channels!AskUpdate, Channels!SetEnabled,
         Channels!Entitle, Channels!Detach, Channels!Check, Channels!CheckFails, Channels!Join, Channels!JoinFails,
         Channels!Drain, Channels!Lapse, Channels!Crash, Channels!Approve
<1> QED
  BY <1>1, <1>2, <1>3, <1>4, <1>6, <1>7, <1>8, <1>9

\* The instance counts as we do.
LEMMA SameCardinality == \A S : Channels!Cardinality(S) = Cardinality(S)
BY Zenon DEF Channels!Cardinality, Cardinality

\* A write that passes the guard of the database leaves no more rows active than allowed.
LEMMA GuardHolds ==
    ASSUME ChannelInv, NEW t \in Target, NEW x \in Channels!Row,
           target' = [target EXCEPT ![t] = x], Channels!Guarded(target', t)
    PROVE  Channels!WithinLimit
<1> DEFINE A == Channels!Active(target)
           B == Channels!Active(target')
<1>0. target \in [Target -> Channels!Row] /\ limit \in Nat
  <2>1. limit \in 0..MaxLimit
    BY DEF ChannelInv, ChannelTypes, Channels!TypeOK
  <2>2. limit \in Nat
    BY <2>1, ChannelAssumption
  <2> QED
    BY <2>2, ChannelPieces
<1>1. SUFFICES ASSUME NEW u \in Target, target'[u].active, ~target[u].active PROVE Cardinality(B) <= limit
  BY SameCardinality, Zenon DEF Channels!WithinLimit
<1>2. u = t
  BY <1>0, <1>1
<1>3. Cardinality(A \ {t}) < limit
  BY <1>1, <1>2, SameCardinality, Zenon DEF Channels!Guarded
<1>4. B \subseteq (A \ {t}) \cup {t}
  BY <1>0 DEF Channels!Active
<1>5. IsFiniteSet(A \ {t})
  <2>1. (A \ {t}) \in SUBSET Target
    BY DEF Channels!Active
  <2> QED
    BY <2>1, ChannelAssumption, FS_Subset
<1> HIDE DEF A, B
<1>6. Cardinality(A \ {t}) \in Nat
  BY <1>5, FS_CardinalityType
<1>7. /\ IsFiniteSet((A \ {t}) \cup {t}) /\ Cardinality((A \ {t}) \cup {t}) = Cardinality(A \ {t}) + 1
  BY <1>5, FS_AddElement
<1>8. Cardinality(B) <= Cardinality((A \ {t}) \cup {t})
  BY <1>4, <1>7, FS_Subset
<1>9. Cardinality(B) \in Nat
  BY <1>4, <1>7, FS_Subset, FS_CardinalityType
<1> QED
  BY <1>0, <1>3, <1>6, <1>7, <1>8, <1>9

\* No step makes a channel active beyond the limit.
LEMMA LimitStep == ChannelInv /\ [Channels!Next]_channelVars => Channels!WithinLimit
<1> SUFFICES ASSUME ChannelInv, [Channels!Next]_channelVars PROVE Channels!WithinLimit
  OBVIOUS
<1>0. target \in [Target -> Channels!Row]
  BY ChannelPieces
<1>1. ASSUME NEW q \in Asking, Channels!Create(q) PROVE Channels!WithinLimit
  <2>1. PICK t \in Target : Channels!Write([target EXCEPT ![t] = Channels!Created(request[q])], t)
    BY <1>1 DEF Channels!Create
  <2>2. request[q] \in Wish /\ request[q].account \in Userbot /\ request[q].channel \in Channel
    BY <1>1 DEF Channels!Create, ChannelInv, ChannelTypes
  <2>3. Channels!Created(request[q]) \in Channels!Row
    BY <2>2 DEF Channels!Created, Channels!Row, Channels!Status, Channels!Waiting, Wish
  <2>4. \/ target' = target
        \/ target' = [target EXCEPT ![t] = Channels!Created(request[q])] /\ Channels!Guarded(target', t)
    BY <2>1 DEF Channels!Write
  <2> QED
    BY <2>3, <2>4, GuardHolds DEF Channels!WithinLimit
<1>2. ASSUME NEW q \in Asking, Channels!Update(q) PROVE Channels!WithinLimit
  <2> DEFINE t == request[q].target
             x == Channels!Updated(target[t], request[q])
  <2>1. CASE t \in Channels!Live
    <3>1. t \in Target /\ target[t] \in Channels!Row
      BY <1>0, <2>1 DEF Channels!Live
    <3>2. request[q] \in Wish /\ request[q].channel \in Channel
      BY <1>2 DEF Channels!Update, ChannelInv, ChannelTypes
    <3>3. x \in Channels!Row
      BY <3>1, <3>2 DEF Channels!Updated, Channels!Row, Channels!Status, Channels!Waiting, Wish
    <3>4. target' = target \/ (target' = [target EXCEPT ![t] = x] /\ Channels!Guarded(target', t))
      BY <1>2, <2>1 DEF Channels!Update, Channels!Write
    <3> HIDE DEF t, x
    <3> QED
      BY <3>1, <3>3, <3>4, GuardHolds DEF Channels!WithinLimit
  <2>2. CASE t \notin Channels!Live
    BY <1>2, <2>2 DEF Channels!Update, Channels!WithinLimit
  <2> QED
    BY <2>1, <2>2
<1>3. CASE ~\E q \in Asking : Channels!Create(q) \/ Channels!Update(q)
  BY <1>3, OthersActivateNone DEF Channels!WithinLimit
<1> QED
  BY <1>1, <1>2, <1>3

-----------------------------------------------------------------------------
(* The channels: the theorems. *)

\* A behaviour of the setup makes steps of the channels, or none.
LEMMA SetupIsChannels ==
    /\ SetupInit => Channels!Init
    /\ [SetupNext]_<<focus, vars, dialogVars, channelVars>> => [Channels!Next]_channelVars
BY DEF SetupInit, SetupNext, PrepareNext, QuotaNext

\* Whatever users, an administrator, runs, Telegram and faults do, the invariant holds.
THEOREM ChannelInvariant == SetupSpec => []ChannelInv
<1> QED
  BY ChannelInit, ChannelStep, SetupIsChannels, PTL DEF SetupSpec

\* Each part of the state of the channels always has its type.
THEOREM ChannelTypeOK == SetupSpec => []Channels!TypeOK
<1>1. ChannelInv => Channels!TypeOK
  BY DEF ChannelInv, ChannelTypes
<1> QED
  BY ChannelInvariant, <1>1, PTL

\* A channel said to be ready is so for the account and the channel it now has, whatever
\* was edited, switched or taken over while it was prepared.
THEOREM ChannelReadyIsCurrent == SetupSpec => []ReadyIsCurrent
<1>1. ChannelInv => ReadyIsCurrent
  BY DEF ChannelInv, RowIsTrue, ReadyIsCurrent, Channels!ReadyIsCurrent, Channels!Live
<1> QED
  BY ChannelInvariant, <1>1, PTL

\* However requests overlap, the channel that becomes active is within the limit.
THEOREM ChannelQuotaHolds == SetupSpec => QuotaHolds
<1>1. ChannelInv /\ [Channels!Next]_channelVars => [Channels!WithinLimit]_channelVars
  BY LimitStep
<1> QED
  BY ChannelInvariant, SetupIsChannels, <1>1, PTL DEF SetupSpec, QuotaHolds
================================================================================
