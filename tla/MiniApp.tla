------------------------------ MODULE MiniApp ------------------------------
(***************************************************************************)
(* The Mini App in a user's browser and what it asks of the API: an        *)
(* opening is exchanged for a session, the session opens the page, and the *)
(* page shows copies of the broadcast service and of an auto-comment       *)
(* division, which the engine and the page itself change.                  *)
(*                                                                         *)
(* A request is sent, answered and applied in three steps; requests under  *)
(* way at the same time are answered and applied in any order, and a       *)
(* request or its answer may be lost.                                      *)
(***************************************************************************)
EXTENDS Naturals, FiniteSets

CONSTANTS Slot,             \* requests under way at a time
          MaxOpenings, MaxCampaigns, MaxCycles, MaxEdits

ASSUME SlotAssumption == Slot # {} /\ IsFiniteSet(Slot)
ASSUME BoundAssumption ==
    {MaxOpenings, MaxCampaigns, MaxCycles, MaxEdits} \subseteq Nat \ {0}

VARIABLES focus,            \* what the user works with: a bound, the parts of the page
                            \* meet in the session only; openings follow and grow
                            \* old where he works with the accounts
          opening,          \* the init data the page was opened with
          openings, sessions,
          user,             \* what the API says of the user
          service, running, \* the last campaign, its cycle is under way
          division,
          cycles, edits,
          stored,           \* the session in the session storage
          page,             \* what App shows
          shown,            \* copies kept by the panels
          timers, timer,    \* polls of an operation that wait, and the one known
          calls             \* requests under way

serverVars == <<sessions, user, service, running, division, cycles, edits>>
panelVars == <<shown, timers, timer>>
vars == <<focus, opening, openings, sessions, user, service, running, division, cycles, edits, stored, page,
          shown, timers, timer, calls>>

None == 0
Session == 1..MaxOpenings
Division == [approval : BOOLEAN, active : BOOLEAN]

\* A campaign as the API returns it; id 0 stands for no campaign.
Service == [id : 0..MaxCampaigns, on : BOOLEAN, cycle : 0..MaxCycles]
NoService == [id |-> 0, on |-> FALSE, cycle |-> 0]

Page == [screen : {"CHECKING", "TELEGRAM_REQUIRED", "ERROR", "READY"},
         session : Session \cup {None}, role : BOOLEAN, storefront : {"NONE", "BUYER", "ACTIVE"}]

\* Who waits for the answer: authenticate with a new session or with the stored
\* one, an action of the page, a panel; "" is no request.
Kind == {"exchange", "me", "storefront", "accounts", "action", "check", "admin",
         "service", "refresh", "switch", "operation", "division", "put"}
NoCall == [kind |-> "", then |-> "", token |-> None, ask |-> 0, edit |-> [approval |-> FALSE, active |-> FALSE],
           answer |-> "", service |-> NoService, live |-> FALSE,
           division |-> [approval |-> FALSE, active |-> FALSE]]

Request(k, t, tok, n) == [NoCall EXCEPT !.kind = k, !.then = t, !.token = tok, !.ask = n]

NothingShown == [service |-> NoService, cycle |-> 0, live |-> FALSE,
                 division |-> NoCall.division, asked |-> {}, loaded |-> FALSE]

TypeOK ==
    /\ focus \in {"ACCOUNTS", "JASEB", "AUTO_COMMENT"}
    /\ opening \in {"NONE", "FRESH", "OLD"} /\ openings \in 1..MaxOpenings
    /\ sessions \in [Session -> [state : {"ABSENT", "LIVE", "OVER", "PRUNED"}, from : 0..MaxOpenings]]
    /\ user \in [admin : BOOLEAN, paid : BOOLEAN, entitled : BOOLEAN]
    /\ service \in Service /\ running \in BOOLEAN /\ cycles \in 0..MaxCycles
    /\ division \in Division /\ edits \in 0..MaxEdits
    /\ stored \in Session \cup {None} /\ page \in Page
    /\ shown \in [service : Service, cycle : 0..MaxCycles, live : BOOLEAN, division : Division,
                  asked : SUBSET {"service", "division"}, loaded : BOOLEAN]
    /\ timers \subseteq 1..MaxCycles /\ timer \in 0..MaxCycles
    /\ \A s \in Slot : /\ calls[s].kind \in Kind \cup {""}
                       /\ calls[s].answer \in {"", "OK", "DENIED", "REFUSED", "FAILED"}

(* Requests. *)

Free == {s \in Slot : calls[s].kind = ""}
Under(k) == \E s \in Slot : calls[s].kind = k

Send(r) == \E s \in Free : calls' = [calls EXCEPT ![s] = r]
Answered(s, k) == calls[s].kind = k /\ calls[s].answer # ""
Succeeded(s) == calls[s].answer = "OK"
Close(s) == calls' = [calls EXCEPT ![s] = NoCall]
Follow(s, r) == calls' = [calls EXCEPT ![s] = r]

PageShown == page.screen = "READY" /\ page.session # None /\ page.role /\ ~user.admin
PanelsShown == PageShown /\ page.storefront = "ACTIVE"

Init ==
    /\ focus \in {"ACCOUNTS", "JASEB", "AUTO_COMMENT"}
    /\ opening \in {"NONE", "FRESH"} /\ openings = 1
    /\ sessions = [s \in Session |-> [state |-> "ABSENT", from |-> 0]]
    /\ user \in [admin : BOOLEAN, paid : {FALSE}, entitled : BOOLEAN]
    /\ focus # "ACCOUNTS" => opening = "FRESH"
    /\ focus # "ACCOUNTS" \/ opening = "NONE" => user.entitled /\ ~user.admin
    /\ user.admin => user.entitled
    /\ service = NoService /\ running = FALSE /\ cycles = 0
    /\ division = [approval |-> TRUE, active |-> TRUE] /\ edits = 0
    /\ stored = None
    /\ page = [screen |-> "CHECKING", session |-> None, role |-> FALSE, storefront |-> "NONE"]
    /\ shown = NothingShown /\ timers = {} /\ timer = 0
    /\ calls = [s \in Slot |-> NoCall]

(* The API. *)

\* findActiveByTokenHash: neither expired nor deleted.
Live(tok) == tok # None /\ sessions[tok].state = "LIVE"

\* telegram-mini-app.ts: the hash is right and the data recent.
Verified == opening = "FRESH"

\* The unique hash of the init data.
Exchanged == \E s \in Session : sessions[s].from = openings /\ sessions[s].state # "PRUNED"

Answer(s, r) == calls' = [calls EXCEPT ![s] = r]
Refused(c) == [c EXCEPT !.answer = "REFUSED"]
Denied(c) == [c EXCEPT !.answer = "DENIED"]

\* The request or its answer is lost, or the API cannot be reached.
Failed(c) == [c EXCEPT !.answer = "FAILED"]

\* issue: the next session, with the init data it was issued for.
Issue(n) ==
    /\ sessions[n].state = "ABSENT" /\ \A m \in 1..n - 1 : sessions[m].state # "ABSENT"
    /\ sessions' = [sessions EXCEPT ![n] = [state |-> "LIVE", from |-> openings]]

ServeExchange(s) ==
    /\ calls[s].kind = "exchange" /\ calls[s].answer = ""
    /\ IF Verified /\ ~Exchanged
         THEN \E n \in Session :
                /\ Issue(n)
                /\ \/ Answer(s, [calls[s] EXCEPT !.answer = "OK", !.token = n])
                   \/ Answer(s, Failed(calls[s]))
         ELSE Answer(s, Refused(calls[s])) /\ UNCHANGED sessions
    /\ UNCHANGED <<focus, opening, openings, user, service, running, division, cycles, edits, stored, page, panelVars>>

\* Any other request, authorized by its session: what it changes. A refreshed
\* order that is paid entitles its buyer.
EffectCheck ==
    /\ user' = [user EXCEPT !.entitled = @ \/ user.paid]
    /\ UNCHANGED <<service, running, division>>

\* set_broadcast_service_enabled: enabling what runs changes nothing, switching
\* off may leave the cycle under way.
EffectSwitch(on) ==
    /\ \/ on /\ service.on /\ UNCHANGED <<service, running>>
       \/ /\ on /\ ~service.on /\ service.id < MaxCampaigns
          /\ service' = [id |-> service.id + 1, on |-> TRUE, cycle |-> 0] /\ running' = FALSE
       \/ ~on /\ service' = [service EXCEPT !.on = FALSE] /\ running' \in {FALSE, running}
    /\ UNCHANGED <<user, division>>

\* The whole row is written.
EffectPut(row) == division' = row /\ UNCHANGED <<user, service, running>>

Effect(c) ==
    CASE c.kind = "check" -> EffectCheck
      [] c.kind = "switch" -> EffectSwitch(c.ask = 1)
      [] c.kind = "put" -> EffectPut(c.edit)
      [] OTHER -> UNCHANGED <<user, service, running, division>>

\* What it says: the rows as they are after the change.
Says(c) ==
    CASE c.kind \in {"service", "refresh", "switch"} -> [c EXCEPT !.answer = "OK", !.service = service']
      [] c.kind = "operation" -> [c EXCEPT !.answer = "OK", !.live = running' /\ service'.cycle = c.ask]
      [] c.kind = "division" -> [c EXCEPT !.answer = "OK", !.division = division']
      [] c.kind \in {"storefront", "check"} -> [c EXCEPT !.answer = "OK", !.live = user'.entitled]
      [] OTHER -> [c EXCEPT !.answer = "OK"]

Serve(s) ==
    /\ calls[s].kind \notin {"", "exchange"} /\ calls[s].answer = ""
    /\ IF Live(calls[s].token)
         THEN /\ Effect(calls[s])
              /\ Answer(s, Says(calls[s])) \/ Answer(s, Failed(calls[s]))
         ELSE /\ Answer(s, Denied(calls[s]))
              /\ UNCHANGED <<user, service, running, division>>
    /\ UNCHANGED <<focus, opening, openings, sessions, cycles, edits, stored, page, panelVars>>

Lose(s) ==
    /\ calls[s].kind # "" /\ calls[s].answer = ""
    /\ Answer(s, Failed(calls[s]))
    /\ UNCHANGED <<focus, opening, openings, serverVars, stored, page, panelVars>>

(* What else happens to the server's state. *)

Elsewhere == UNCHANGED <<focus, opening, openings, stored, page, panelVars, calls>>

Expire(n) ==
    /\ sessions[n].state = "LIVE"
    /\ sessions' = [sessions EXCEPT ![n].state = "OVER"]
    /\ UNCHANGED <<user, service, running, division, cycles, edits>> /\ Elsewhere

\* The retention deletes a session long after the init data is too old.
Prune(n) ==
    /\ sessions[n].state = "OVER" /\ (sessions[n].from = openings => opening = "OLD")
    /\ sessions' = [sessions EXCEPT ![n].state = "PRUNED"]
    /\ UNCHANGED <<user, service, running, division, cycles, edits>> /\ Elsewhere

Pay ==
    /\ ~user.paid /\ ~user.entitled
    /\ user' = [user EXCEPT !.paid = TRUE]
    /\ UNCHANGED <<sessions, service, running, division, cycles, edits>> /\ Elsewhere

\* The engine runs a cycle, ends it, or stops the campaign.
Cycle ==
    /\ service.on /\ ~running /\ cycles < MaxCycles
    /\ cycles' = cycles + 1 /\ running' = TRUE
    /\ service' = [service EXCEPT !.cycle = cycles + 1]
    /\ UNCHANGED <<sessions, user, division, edits>> /\ Elsewhere

CycleEnds ==
    /\ running /\ running' = FALSE
    /\ UNCHANGED <<sessions, user, service, division, cycles, edits>> /\ Elsewhere

AutoStop ==
    /\ service.on
    /\ service' = [service EXCEPT !.on = FALSE]
    /\ UNCHANGED <<sessions, user, running, division, cycles, edits>> /\ Elsewhere

Age ==
    /\ focus = "ACCOUNTS" /\ opening = "FRESH" /\ opening' = "OLD"
    /\ UNCHANGED <<focus, openings, serverVars, stored, page, panelVars, calls>>

(* Opening the page. *)

Blank == [screen |-> "CHECKING", session |-> None, role |-> FALSE, storefront |-> "NONE"]

\* readStoredSession: a session that has expired by the browser's clock is
\* dropped, one deleted or revoked is not noticed.
Readable == stored # None
Opened(tok, t) == Request("me", t, tok, 0)

\* openSession: the session is in use before the API accepted it.
WithSession(p, tok) == [p EXCEPT !.session = tok, !.role = FALSE]

\* authenticate: on mount and from the button of TelegramRequired.
AuthenticateFrom(p) ==
    \/ /\ Readable
       /\ page' = WithSession(p, stored) /\ Send(Opened(stored, "RESTORE")) /\ UNCHANGED stored
    \/ /\ Readable => sessions[stored].state \notin {"LIVE"}
       /\ stored' = None
       /\ IF opening = "NONE"
            THEN page' = [p EXCEPT !.screen = "TELEGRAM_REQUIRED"] /\ UNCHANGED calls
            ELSE page' = [p EXCEPT !.screen = "CHECKING"] /\ Send(Request("exchange", "OPEN", None, 0))

Mount ==
    /\ page = Blank /\ \A s \in Slot : calls[s] = NoCall
    /\ AuthenticateFrom(page)
    /\ UNCHANGED <<focus, opening, openings, serverVars, panelVars>>

Retry ==
    /\ page.screen \in {"TELEGRAM_REQUIRED", "ERROR"} \/ (page.screen = "READY" /\ page.session = None)
    /\ AuthenticateFrom(page)
    /\ UNCHANGED <<focus, opening, openings, serverVars, panelVars>>

\* The page is loaded anew, with the same init data or from the bot; the tab
\* and its session storage remain, or not.
Leave ==
    /\ page' = Blank /\ shown' = NothingShown /\ timers' = {} /\ timer' = 0
    /\ calls' = [s \in Slot |-> NoCall]
    /\ UNCHANGED serverVars

Reload ==
    /\ page # Blank /\ Leave
    /\ UNCHANGED <<focus, opening, openings, stored>>

Reopen ==
    /\ focus = "ACCOUNTS" /\ UNCHANGED focus /\ openings < MaxOpenings /\ openings' = openings + 1
    /\ opening' = "FRESH" /\ stored' \in {stored, None}
    /\ Leave

\* Mutation: the session is opened after the try.
CaughtLate(c) == c.then = "OPEN" /\ c.kind = "exchange"

\* The end of authenticate after an error: only what follows an exchange is
\* within its try.
Caught(c) == c.then = "OPEN"
Fail(s) == IF Caught(calls[s]) THEN page' = [page EXCEPT !.screen = "ERROR"] ELSE UNCHANGED page

\* saveSession and openSession.
AfterExchange(s) ==
    /\ Answered(s, "exchange")
    /\ IF Succeeded(s)
         THEN /\ stored' = calls[s].token /\ page' = WithSession(page, calls[s].token)
              /\ Follow(s, Opened(calls[s].token, "OPEN"))
         ELSE Fail(s) /\ Close(s) /\ UNCHANGED stored
    /\ UNCHANGED <<focus, opening, openings, serverVars, panelVars>>

\* A grant that is not revoked; /v1/me tells it with the user.
IsAdmin == user.admin

Ready(p) == [p EXCEPT !.role = TRUE, !.screen = "READY"]

AfterUser(s) ==
    /\ Answered(s, "me")
    /\ IF ~Succeeded(s) THEN Fail(s) /\ Close(s)
       ELSE IF IsAdmin THEN page' = Ready(page) /\ Follow(s, Request("admin", "PAGE", calls[s].token, 0))
       ELSE Follow(s, Request("storefront", calls[s].then, calls[s].token, 0)) /\ UNCHANGED page
    /\ UNCHANGED <<focus, opening, openings, serverVars, stored, panelVars>>

Opens(c) == c.then \in {"OPEN", "RESTORE"}

\* loadBuyer.
AfterStorefront(s) ==
    /\ Answered(s, "storefront")
    /\ IF ~Succeeded(s) THEN Fail(s) /\ Close(s)
       ELSE LET known == [page EXCEPT !.storefront = IF calls[s].live THEN "ACTIVE" ELSE "BUYER"]
            IN IF calls[s].live
                 THEN page' = known /\ Follow(s, Request("accounts", calls[s].then, calls[s].token, 0))
                 ELSE page' = (IF Opens(calls[s]) THEN Ready(known) ELSE known) /\ Close(s)
    /\ UNCHANGED <<focus, opening, openings, serverVars, stored, panelVars>>

\* The session is given up.
SignedOut(p) == [p EXCEPT !.session = None, !.role = FALSE, !.screen = "TELEGRAM_REQUIRED"]

\* loadAccounts, which reports its errors itself; whoever opened goes on.
AfterAccounts(s) ==
    /\ Answered(s, "accounts")
    /\ LET p == IF calls[s].answer = "DENIED" THEN SignedOut(page) ELSE page
       IN page' = IF Opens(calls[s]) THEN Ready(p) ELSE p
    /\ stored' = IF calls[s].answer = "DENIED" THEN None ELSE stored
    /\ IF calls[s].answer = "DENIED"
         THEN shown' = NothingShown /\ timers' = {} /\ timer' = 0
         ELSE UNCHANGED panelVars
    /\ Close(s)
    /\ UNCHANGED <<focus, opening, openings, serverVars>>

\* AdminPanel: a denied answer ends the session.
AfterAdmin(s) ==
    /\ Answered(s, "admin")
    /\ IF calls[s].answer = "DENIED"
         THEN page' = SignedOut(page) /\ stored' = None
         ELSE UNCHANGED <<page, stored>>
    /\ Close(s)
    /\ UNCHANGED <<focus, opening, openings, serverVars, panelVars>>

\* runAccountAction: one at a time, then the list again.
AccountAction ==
    /\ focus = "ACCOUNTS" /\ PanelsShown /\ ~Under("action") /\ ~\E s \in Slot : calls[s].kind = "accounts" /\ calls[s].then = "PAGE"
    /\ Send(Request("action", "PAGE", page.session, 0))
    /\ UNCHANGED <<focus, opening, openings, serverVars, stored, page, panelVars>>

AfterAction(s) ==
    /\ Answered(s, "action")
    /\ IF Succeeded(s) THEN Follow(s, Request("accounts", "PAGE", calls[s].token, 0)) ELSE Close(s)
    /\ UNCHANGED <<focus, opening, openings, serverVars, stored, page, panelVars>>

\* Storefront: the return from the checkout and the button.
CheckPayment ==
    /\ PageShown /\ page.storefront = "BUYER" /\ ~Under("check")
    /\ Send(Request("check", "PAGE", page.session, 0))
    /\ UNCHANGED <<focus, opening, openings, serverVars, stored, page, panelVars>>

AfterCheck(s) ==
    /\ Answered(s, "check")
    /\ IF Succeeded(s) /\ calls[s].live
         THEN Follow(s, Request("storefront", "PAGE", calls[s].token, 0))
         ELSE Close(s)
    /\ UNCHANGED <<focus, opening, openings, serverVars, stored, page, panelVars>>

(* The panel of the broadcast service. *)

Panel == UNCHANGED <<focus, opening, openings, serverVars, stored, page>>

LoadService ==
    /\ focus = "JASEB" /\ PanelsShown /\ "service" \notin shown.asked
    /\ shown' = [shown EXCEPT !.asked = @ \cup {"service"}]
    /\ Send(Request("service", "PANEL", page.session, 0))
    /\ UNCHANGED <<timers, timer>> /\ Panel

\* setCampaign: another operation stops the known poll and is asked for at once.
Show(s, v) ==
    IF v.cycle = shown.service.cycle
      THEN shown' = [shown EXCEPT !.service = v, !.loaded = TRUE] /\ Close(s) /\ UNCHANGED <<timers, timer>>
      ELSE /\ timers' = timers \ {timer} /\ timer' = 0
           /\ IF v.cycle = 0
                THEN shown' = [shown EXCEPT !.service = v, !.cycle = 0, !.live = FALSE] /\ Close(s)
                ELSE /\ shown' = [shown EXCEPT !.service = v, !.loaded = TRUE]
                     /\ Follow(s, Request("operation", "PANEL", page.session, v.cycle))

Ignore(s) == Close(s) /\ UNCHANGED panelVars

AfterService(s) ==
    /\ Answered(s, "service")
    /\ IF Succeeded(s) THEN Show(s, calls[s].service) ELSE Ignore(s)
    /\ Panel

\* Mutation: only while its cycle is known to be under way.
RefreshingLive == shown.service.on /\ shown.live

Refreshing == shown.service.on

\* The interval of an active campaign.
Refresh ==
    /\ PanelsShown /\ Refreshing
    /\ Send(Request("refresh", "PANEL", page.session, shown.service.id))
    /\ UNCHANGED panelVars /\ Panel

AfterRefresh(s) ==
    /\ Answered(s, "refresh")
    /\ IF Succeeded(s) /\ calls[s].service.id = calls[s].ask THEN Show(s, calls[s].service) ELSE Ignore(s)
    /\ Panel

\* toggleService asks for the opposite of what is shown.
Toggle ==
    /\ PanelsShown /\ focus = "JASEB" /\ shown.loaded /\ ~Under("switch")
    /\ Send(Request("switch", "PANEL", page.session, IF shown.service.on THEN 0 ELSE 1))
    /\ UNCHANGED panelVars /\ Panel

AfterSwitch(s) ==
    /\ Answered(s, "switch")
    /\ IF Succeeded(s) THEN Show(s, IF calls[s].ask = 1 THEN calls[s].service ELSE NoService) ELSE Ignore(s)
    /\ Panel

\* tick: an error ends the poll.
AfterOperation(s) ==
    /\ Answered(s, "operation")
    /\ IF Succeeded(s)
         THEN /\ shown' = [shown EXCEPT !.cycle = calls[s].ask, !.live = calls[s].live]
              /\ timers' = (IF calls[s].live THEN timers \cup {calls[s].ask} ELSE timers)
              /\ timer' = (IF calls[s].live THEN calls[s].ask ELSE timer)
              /\ Close(s)
         ELSE Ignore(s)
    /\ Panel

TimerFires(n) ==
    /\ PanelsShown /\ n \in timers
    /\ timers' = timers \ {n}
    /\ Send(Request("operation", "PANEL", page.session, n))
    /\ UNCHANGED <<shown, timer>> /\ Panel

(* The panel of the auto-comments: every change is followed by a new load. *)

LoadDivision ==
    /\ focus = "AUTO_COMMENT" /\ PanelsShown /\ "division" \notin shown.asked
    /\ shown' = [shown EXCEPT !.asked = @ \cup {"division"}]
    /\ Send(Request("division", "PANEL", page.session, 0))
    /\ UNCHANGED <<timers, timer>> /\ Panel

AfterDivision(s) ==
    /\ Answered(s, "division")
    /\ IF Succeeded(s)
         THEN shown' = [shown EXCEPT !.division = calls[s].division, !.loaded = TRUE] /\ UNCHANGED <<timers, timer>> /\ Close(s)
         ELSE Ignore(s)
    /\ Panel

\* The row is busy until the load after its change is over.
RowBusy == \E s \in Slot : calls[s].kind = "put" \/ (calls[s].kind = "division" /\ calls[s].ask = 1)

\* changeDivisionMode and toggleDivisionActive send the whole row as shown, with
\* one field changed.
Edited(f) == IF f = "mode" THEN [shown.division EXCEPT !.approval = ~@]
                           ELSE [shown.division EXCEPT !.active = ~@]

Edit(f) ==
    /\ PanelsShown /\ focus = "AUTO_COMMENT" /\ shown.loaded /\ ~RowBusy /\ edits < MaxEdits
    /\ edits' = edits + 1
    /\ Send([Request("put", f, page.session, 0) EXCEPT !.edit = Edited(f)])
    /\ UNCHANGED <<focus, opening, openings, sessions, user, service, running, division, cycles, stored, page, panelVars>>

AfterPut(s) ==
    /\ Answered(s, "put")
    /\ IF Succeeded(s) THEN Follow(s, Request("division", "PANEL", calls[s].token, 1)) ELSE Close(s)
    /\ UNCHANGED panelVars /\ Panel

\* A change of another row, which loads everything as well.
OtherEdit ==
    /\ PanelsShown /\ focus = "AUTO_COMMENT" /\ shown.loaded
    /\ Send(Request("division", "PANEL", page.session, 0))
    /\ UNCHANGED panelVars /\ Panel

After(s) == AfterExchange(s) \/ AfterUser(s) \/ AfterStorefront(s) \/ AfterAccounts(s) \/ AfterAdmin(s)
            \/ AfterAction(s) \/ AfterCheck(s) \/ AfterService(s) \/ AfterRefresh(s) \/ AfterSwitch(s)
            \/ AfterOperation(s) \/ AfterDivision(s) \/ AfterPut(s)

Next ==
    \/ \E s \in Slot : ServeExchange(s) \/ Serve(s) \/ Lose(s) \/ After(s)
    \/ \E n \in Session : Expire(n) \/ Prune(n)
    \/ Pay \/ Cycle \/ CycleEnds \/ AutoStop \/ Age
    \/ Mount \/ Retry \/ Reload \/ Reopen \/ AccountAction \/ CheckPayment
    \/ LoadService \/ Refresh \/ Toggle \/ \E n \in 1..MaxCycles : TimerFires(n)
    \/ LoadDivision \/ OtherEdit \/ \E f \in {"mode", "active"} : Edit(f)

Spec == Init /\ [][Next]_vars

Reply(s) == calls[s].kind = "refresh" /\ Serve(s) /\ calls'[s].answer # "FAILED"

\* Requests are answered or lost and their answers applied; an API that is asked
\* again and again answers one time; timers fire.
Fairness ==
    /\ \A s \in Slot : WF_vars(ServeExchange(s) \/ Serve(s) \/ Lose(s)) /\ WF_vars(After(s))
    /\ SF_vars(Refresh)
    /\ \A s \in Slot : SF_vars(Reply(s))
    /\ WF_vars(\E n \in 1..MaxCycles : TimerFires(n))

FairSpec == Spec /\ Fairness

\* A page that exchanges its init data does not stay on the loading screen,
\* whatever is lost or denied on the way: it opens or says what went wrong
\* (App.tsx authenticate, openSession, loadBuyer).
Waiting == page.screen = "CHECKING" \/ (page.screen = "READY" /\ page.session # None /\ ~page.role)
LeftAgain == page = Blank /\ Free = Slot
FreshOpeningEnds == Under("exchange") ~> (~Waiting \/ LeftAgain)

\* A campaign the engine stopped does not go on being shown as active, in spite of
\* lost and overtaken answers: "refresh periodically while a campaign is active so
\* a new cycle or an auto-stop shows up here" (JasebPanel.tsx:172).
StoppedUnseen == shown.service.on /\ shown.service.id = service.id /\ ~service.on
CanSee == PanelsShown /\ Live(page.session)
AutoStopIsSeen == (CanSee /\ StoppedUnseen) ~> (~CanSee \/ ~StoppedUnseen)

(* Refuted: see README. *)

\* The loading screen is waiting for something.
CheckingIsBusy == page.screen = "CHECKING" => page = Blank \/ Free # Slot

\* While its init data is recent, "Coba lagi" of an error can succeed
\* (App.tsx:200).
RetryCanSucceed == page.screen = "ERROR" /\ opening = "FRESH" /\ stored = None => ~Exchanged

\* The end of a cycle is shown, also after an error of the poll: "transient; the
\* next campaign refresh or lastOperationId change retries" (JasebPanel.tsx:161).
EndUnseen == shown.service.on /\ shown.live /\ shown.cycle = service.cycle /\ ~running
PollIsResumed == (CanSee /\ EndUnseen) ~> (~CanSee \/ ~EndUnseen)

\* A panel left alone shows whether the service runs.
Wrong == shown.service.on # service.on
ServiceIsShown == (CanSee /\ focus = "JASEB" /\ shown.loaded /\ Wrong) ~> (~CanSee \/ ~Wrong)

\* A change of one field of a division leaves the other as it is.
OnlyTheFieldChanges ==
    [][division' # division =>
         \E s \in Slot : /\ calls[s].kind = "put"
                         /\ calls[s].then = "mode" => division'.active = division.active
                         /\ calls[s].then = "active" => division'.approval = division.approval]_vars
==============================================================================
