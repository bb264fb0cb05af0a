----------------------------- MODULE LoginDialog -----------------------------
(***************************************************************************)
(* The dialog in which a user (App.tsx) or an administrator                *)
(* (AdminPanel.tsx) logs in to a Telegram account: a client of AuthFlow.   *)
(* It holds a copy of the flow, version and all, that it knows from        *)
(* answers only.  An answer may get lost and the dialog be left while a    *)
(* request is under way, which then goes on without it.                    *)
(***************************************************************************)
EXTENDS AuthFlow

VARIABLES viewer, kind,  \* who is at the dialog, and the type it logs in
          shown,         \* the flow it holds, 0 for none
          held, face,    \* its version and status there
          asked,         \* the request it waits for: busy
          trouble        \* LOST: it misses an answer; ACTIVE: told AUTH_FLOW_ACTIVE

copyVars == <<shown, held, face, trouble>>
dialogVars == <<viewer, kind, copyVars, asked>>

DialogTypeOK ==
    /\ viewer \in User \cup {Nobody} /\ kind \in Type \cup {"NONE"}
    /\ shown \in 0..MaxFlows /\ held \in Nat /\ face \in Step \cup {"NONE"}
    /\ asked \subseteq Request /\ trouble \in {"NONE", "LOST", "ACTIVE"}

DialogInit ==
    /\ viewer = Nobody /\ kind = "NONE"
    /\ shown = 0 /\ held = 0 /\ face = "NONE"
    /\ asked = {} /\ trouble = "NONE"

Show(f) == shown' = f /\ held' = version'[f] /\ face' = status'[f] /\ trouble' = "NONE"
Drop == shown' = 0 /\ held' = 0 /\ face' = "NONE" /\ trouble' = "NONE"

\* flowView: only a flow that waits for the user is put in an answer.
Viewable(f) == status'[f] \in Step

\* What the dialog asks the user for.
Form == IF shown = 0 THEN "PHONE" ELSE face

\* The routes of a kind are for flows of its type, and of the one who calls them.
Mine(f) == user[f] = viewer /\ type[f] = kind

\* This very step found the flow out of time: AUTH_FLOW_EXPIRED.
RunsOut(f) == status[f] # "EXPIRED" /\ status'[f] = "EXPIRED"

-----------------------------------------------------------------------------
(* What the dialog asks for. *)

\* ConnectDialog of a user; AdminAccountConnectDialog for a worker or a monitor.
OpenDialog ==
    /\ viewer = Nobody
    /\ viewer' \in User /\ kind' \in Type
    /\ UNCHANGED <<vars, copyVars, asked>>

\* The administrator's dialog takes the flow an error comes with also when it starts.
TakesActive == kind # "USERBOT"

\* submitPhone.  With another flow open the answer is AUTH_FLOW_ACTIVE and that flow.
Start ==
    /\ viewer # Nobody /\ asked = {} /\ Form = "PHONE"
    /\ \E r \in Request :
          /\ Begin(r, viewer, kind)
          /\ IF pc'[r] = "STARTING"
               THEN asked' = {r} /\ trouble' = "NONE" /\ UNCHANGED <<shown, held, face>>
               ELSE /\ UNCHANGED asked
                    /\ \E f \in Flow :
                          /\ status'[f] \in Active /\ Mine(f)
                          /\ IF TakesActive /\ Viewable(f) THEN Show(f)
                             ELSE trouble' = "ACTIVE" /\ UNCHANGED <<shown, held, face>>
    /\ UNCHANGED <<viewer, kind>>

\* submitCode, submitPassword: with the version the dialog holds.
Submit ==
    /\ asked = {} /\ Form \in Step
    /\ \E r \in Request :
          /\ Claim(r, shown, held, face)
          /\ IF pc'[r] = "SIGNING" THEN asked' = {r} /\ UNCHANGED copyVars
             ELSE /\ UNCHANGED asked
                  /\ IF face = "CODE_REQUIRED" /\ RunsOut(shown) THEN Drop ELSE UNCHANGED copyVars
    /\ UNCHANGED <<viewer, kind>>

\* "Tutup": the dialog closes when the flow is cancelled, or at the second try while
\* the first is under way.  A refusal or a lost answer leaves it as it is.
Close ==
    /\ asked = {} /\ shown # 0
    /\ Cancel(shown, held)
    /\ Drop \/ UNCHANGED copyVars
    /\ UNCHANGED <<viewer, kind, asked>>

\* "Ganti nomor", "Mulai lagi", "Tutup" while busy, a reload: the flow is forgotten, and
\* nobody is told.
Leave ==
    /\ asked # {} \/ shown # 0
    /\ Drop /\ asked' = {}
    /\ UNCHANGED <<vars, viewer, kind>>

-----------------------------------------------------------------------------
(* What becomes of it. *)

\* Mutation: the refusal of a code or password comes without the flow.
CarriedUnlessRefused(r) == pc[r] \in {"ASKED", "ADVANCING"} /\ Viewable(flow[r])

\* The answer to request r, at its last step, has the flow in it.
Carried(r) == pc[r] \in {"ASKED", "RESTORING", "ADVANCING"} /\ Viewable(flow[r])

\* It is the end of the login, or of the time for it.  At the password the dialog
\* does not look for AUTH_FLOW_EXPIRED.
Over(r) ==
    /\ pc[r] \in {"COMPLETING", "AGAIN"}
    /\ \/ status'[flow[r]] = "SUCCEEDED"
       \/ step[r] = "CODE_REQUIRED" /\ RunsOut(flow[r])

Answer(r) ==
    /\ Work(r)
    /\ IF r \in asked /\ pc'[r] = "IDLE"
         THEN /\ asked' = {}
              /\ IF Carried(r) THEN Show(flow[r])
                 ELSE IF Over(r) THEN Drop ELSE UNCHANGED copyVars
         ELSE UNCHANGED <<copyVars, asked>>
    /\ UNCHANGED <<viewer, kind>>

\* The answer the dialog waits for does not come.
Unanswered ==
    /\ asked' = {}
    /\ trouble' = IF shown # 0 THEN "LOST" ELSE trouble
    /\ UNCHANGED <<viewer, kind, shown, held, face>>

\* The connection breaks, and the request goes on; or the request dies.
Lose == asked # {} /\ Unanswered /\ UNCHANGED vars
Die(r) == Crash(r) /\ IF r \in asked THEN Unanswered ELSE UNCHANGED dialogVars

DialogNext ==
    \/ OpenDialog \/ Start \/ Submit \/ Close \/ Leave \/ Lose
    \/ \E r \in Request : Answer(r) \/ Die(r)
    \/ \E f \in Flow : TimeOut(f) /\ UNCHANGED dialogVars

DialogSpec == Init /\ DialogInit /\ [][DialogNext]_<<vars, dialogVars>>

-----------------------------------------------------------------------------
(* Properties. *)

\* A dialog that has missed no answer goes on with the login while it waits for the
\* user: whatever was refused before, it shows the step the flow is at and holds the
\* version the next request must carry (restoreAfterError: two on from the last).
DialogCanGoOn ==
    asked = {} /\ shown # 0 /\ trouble # "LOST" /\ status[shown] \in Step /\ ~late[shown]
        => held = version[shown] /\ face = status[shown]

(* Refuted: see README. *)

\* Who is told that another login is under way is shown it, if it waits for him.
ActiveIsShown ==
    [][trouble # "ACTIVE" /\ trouble' = "ACTIVE" =>
          ~\E f \in Flow : Current(f, version[f]) /\ status[f] \in Step /\ Mine(f)]_dialogVars
=============================================================================
