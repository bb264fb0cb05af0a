# A TLA+ model of the Jaseb / Auto Komentar system

The system sells two services on Telegram. *Jaseb* (jasa sebar) posts a user's
material to a list of groups, once or in recurring cycles, through a shared
worker account or the user's own account (userbot). *Auto Komentar* watches
channels and comments on posts that match. Most decisions are taken in
PostgreSQL functions (`supabase/migrations`); engine processes
(`apps/engine/src`) claim work from it, talk to Telegram and report back; the
API (`apps/api/src`) turns what users do into calls of the same functions, and
the Mini App (`apps/web/src`) is what users see of it. Later migrations replace
the functions of earlier ones: the modules follow the last version of each,
named in the comments and in `PROJECT.json`.

## 1. Inventory

| Part | State | Operations | Hard behaviour |
| --- | --- | --- | --- |
| Account leases, account runner | `account_leases` (owner, token, expiry), recorded status; run: token, `leaseLost` | acquire, renew, release, load session, record result, heartbeat, drain, logout, detach | two engines on one session; stale writes; a logout that resets tokens |
| Broadcast delivery | `broadcast_targets.delivery_*`, `workflow_operations.status`, account gate | claim, validate, send, finish, recover, cancel | a send whose outcome is unknown; caches of the status by many writers |
| Broadcast preparation | `preparation_status`, check counts, approval time | claim, check, join, recheck, time out | answers after a lost lease; waiting on people |
| Campaigns | `broadcast_campaigns`, failure count and its anchor | start, stop, toggle, reconcile, claim due, create cycle, fail, edits | schedulers in every process holding stale claims |
| Account supervisor, sharding | pending, inFlight, deferredUntil, wakeups | reconcile, pump, wake up, release idle, stop | starvation, lost wakeups, orderly stop |
| Candidates, review, comment delivery | candidates, reviews, one command each | create, notify, decide, claim, validate, send, finish, recover | stale reviews; switching off and on again; unknown outcomes |
| Channels and their preparation | channel targets, preparation status and owner | create, update, delete, switch account, claim, check, join | quota counted before the write; results about an older configuration |
| Central monitor | checkpoint, event inbox; session: sources, queue | prepare, read history, recover, live post, notify | three tasks on the same posts; nothing is fenced |
| Telegram login | `telegram_account_auth_flows` (status, version) | begin, step, complete, cancel, expire | two requests on one flow; a process that dies in a Telegram call |
| Account sessions, key ring | sealed session, key versions of each process | seal, open, rotate, deploy, give up, retry | staggered deployment; a verdict about an older session |
| Payments, entitlements, lapse, worker | orders, entitlements, assignments | order, refresh, webhook, fulfil, grant, extend, revoke, sweep | webhook twice; renewal racing a lapse |
| Process life | state, parts started, readiness, exit code | start, roll back, probe, drain, close | failing halfway; signals and fatal errors during a drain |
| Mini App, API sessions | session token, copies of what the API says | open, exchange, poll, toggle, edit, reload | answers lost or overtaken |
| Retention | old rows of all tables | prune | deletes what others still refer to |
| Packages, admin pages, routes, bot, benchmarks | | | see `PROJECT.json` for each and why it is left out |

They interact through the database: engines learn of work by `NOTIFY` and
polling, every claim and every result carries the lease (owner, fencing token)
of the account, and edits reach running work through triggers. Only the leases
keep engines apart: a process that stalls goes on with what it has in memory.

What makes each part correct: leases, one run at a time passes the fencing test
and a crashed one is replaced; delivery, no target is posted twice, statuses tell
the truth and are final, posts are paced; preparation, nothing is sent where the
account is not a member, every wait ends; campaigns, nothing runs after a stop,
each cycle counts once, none is stranded; supervisor, due accounts get a slot and
a stop ends; comments, one per candidate and only of one that was approved and
is current; channels, a ready one is ready for what it now is, and within the
quota; monitor, no post lost and none answered that nobody asked for; login, a
flow's state is used by one request at a time and ends in the right row;
sessions, a rotation costs no account; entitlements, no paid day is lost or
given twice; process life, the database closes last and the exit code is true;
Mini App, an opening ends in a page that comes to show what is so.

## 2. Plan

In order of importance; all but the last are done.

1. `AccountLease`, refining `ExclusiveOwner`; proofs. **Done**
2. `BroadcastDelivery`; proofs. **Done**
3. `BroadcastPreparation`; proofs. **Done**
4. `BroadcastCampaign`; proofs. **Done**
5. `AccountSupervisor`: slots, deferral, wakeups, idle release and stop; proofs of what
   stop() leaves behind. **Done**
6. `AutoComment`, refining `CandidateContract`; proofs. **Done**
7. `CentralMonitor`: preparation, history and recovery against live posts; proofs. **Done**
8. `AuthFlow`: versions, expiry, completion; two requests and a crash; with its
   client `LoginDialog`; proofs of both. **Done**
9. `Subscription`: orders, webhook, stacking, expiry, lapse, worker; proofs. **Done**
10. `Lifecycle`, `ChannelTargets`, `AccountSession`; proofs of the three. `MiniApp`. **Done**
11. Next: retention over candidates and monitor events, and several engines of one
    shard composed with `AccountLease`.

## 3. Modules

Conventions. A database function, with the triggers it fires, is one atomic
step: it is one transaction, and the rows it decides on are locked, or a lost
race ends as one of the modelled orders. `Subscription` is the exception: what it
is about is the order of statements of functions that run at the same time.
What happens between awaits of a TypeScript function is separated into steps,
named by the program counter `pc`. "The answer is lost" means that the database
did it and the process never learned. Variables marked *history* are not in the
code; they record what properties need. `Mutation:` operators are plausible
bugs, which the runs must detect; no specification uses them.

**ExclusiveOwner** - an account is owned by at most one run; a new owner means a
new epoch; only owners write.

**AccountLease** - one account, runs on instances (`Host`). `lease` is the row
(owner, token, remaining time), `account` its status, retry time and recorded
connection; per run `pc` follows `runBroadcastAccount`, `tok` is the token it was
given, `lost` its `leaseLost`. Actions: `Acquire` and `AcquireLost`, `Heartbeat`
and `HeartbeatError`, `LoadSession`, `Connect`, `RecordConnected`, `Work`,
`EndDrain`, `Disconnect`, `Release`, `Fail`, `Crash`, `Tick` (the database clock),
`BackoffElapses`, `Logout`, `Reauthorize`, `Detach`. A host that crashed is gone for good,
as its id is. `grants`, `gen`, `written` and `faults` are history.

**BroadcastDelivery** - the targets of operations on one account. `delivery`,
`attempts`, `claim`, `cancelled`, `waiting` and `status` are columns, `gate` is
`broadcast_next_eligible_at` of the account, `cur` and `out` what a run holds and
is about to report. A run does `StartRun`, `Claim` (`ClaimRefused`,
`ClaimNothing`, `ClaimNext`, each with its recovery of `SENDING` targets of a
dead run), `Execute` (`RejectPayload`, `Authorize`, `FencedOut`, `Unauthorized`,
`ValidateError`, `Send`), `Finish` or `FinishLost`, `EndRun`, `Release`. Around
it: `CancelOperation`, `StopService`, `ChangeTarget`, `AccountUnavailable`,
`AccountReady`, `EntitlementExpires`, `Disconnect`, `DeactivateLapsed`, `Renew`,
`Crash`, `Lapse`, `CommandLeaseExpires`, `WaitElapses`, `Tick`. A process that crashed is
started again under a new id, so that what bears the old one, the lease and the claims, is
nobody's until a run recovers it; of the tokens only those that a row or a run remembers
are told apart (`IsNextToken`), so that processes may die any number of times. History: `delivered`
counts what Telegram really posted, `quiet` the ticks since a success was
recorded, `since` those since a message was posted.

**BroadcastPreparation** - the targets of one operation before that: `prep`,
`due`, `asked`, `tries`, `claim`; `member` is Telegram's own view. A run claims
(`ClaimPreparation`, `ClaimDelivery`), validates (`Authorize` and its three other
outcomes), does `Check` and `Join`, and moves the row (`ApplyMove`, `MoveLost`),
which is `transition_broadcast_preparation`; `BecomesDue` and `Decide` (the
administrators of a group) run the wait for approval. `Deliver` keeps of delivery
what writes the shared status, which three functions compute in three ways
(`TransitionSummary`, `FinishSummary`, `RecomputeSummary`). Crashes and tokens are as in
`BroadcastDelivery`. `verified` is history.

**BroadcastCampaign** - one user's campaigns. Per engine a scheduler that
reconciles (`Reconcile`), claims what is due (`ClaimDue`, kept in `todo`), creates
the cycle (`RunCycle`, `SkipCycle`) and on any error stops the campaign
(`RefuseCycle`, `CycleError`, then `Fail` or `FailLost`). The user starts, stops,
toggles, runs once, edits targets and material, with the triggers of the edits
(`TakeOut`, `TakeIn`, `Renew`); accounts go and come (`Withdraw`, `Restore`).
Operations are open, sending or ended. `off`, `halted`, `folded` are history.

**AccountSupervisor** - the supervisor of one engine's shard: the discovery `loop`
(`Reconcile`, `List`, `Handle`, `Wait`), the pool of `run`s with their drains, idle
sessions and `wake` flags, the deferrals, the wakeup subscription, and `Stop` in its
two halves. Everything between two awaits is one step. `queue` is what
`list_broadcast_runtime_accounts` would return.

**AutoComment** - candidates of one account from the match to the posted comment:
`cand`, `review`, `cmd`, `op`, `claim` are columns, `pc`, `cur`, `out` the run's.
`Create`, `CreateAgain`, `Notify`, `Decide`; `Claim`, the last look, send, `Finish`
and `FinishLost`; `SwitchOff`, `SwitchOn`, `Edit`, `FitChanges`, `PreparationFails`,
`Crash`, `Lapse`. `posted` and `withdrawn` are history: the comments Telegram really
has, and the candidates taken out before a run was let through. It implements **CandidateContract**, the life of a candidate as
`packages/auto-comment-contract` promises it. What `Create` does is
`create_auto_comment_candidate`, which the matcher and the central monitor both
call; the matcher's own poll is not started in production (`core.ts` supplies
none), the central monitor took its place.

**CentralMonitor** - one source channel and the sessions of one `MONITOR` account.
A session is three concurrent tasks (the first refresh, later refreshes, the drain
of live posts), whose calls are one step each: `Refresh`, `Prepare`, `ListHistory`,
`ListBackfill`, `TakePlanned`, `ListPending`, `Recover`, `Deliver`, `TakeLive`,
`Process` (which may find the source gone since, `Abandon`), with their failures, and `End`
and `Lapse` of a session. Divisions `Subscribe`, become ready, are paused, resumed, edited
and switched off. The triggers of the target move two columns: an activation moves `since`
to the present, naming the source moves `start` to the checkpoint. A session keeps the rules
it has loaded, so `bound`, history, is what `since` was when it began.

**AuthFlow** - login flows with their versions, the requests that advance them
(`Begin`, `StartClaims`, `RequestCode`, `Claim`, `SignIn`, `Resolve`, `Complete`,
`Cancel`, ...), and the rows and profiles a login ends in. A request may die at
every await, come twice, or carry an old version.

**LoginDialog** - the dialog of the mini app and of the admin panel as a client of
`AuthFlow`: it holds a copy of the flow (`shown`, `held`, `face`) that only answers
bring up to date. `Start`, `Submit` and `Close` are `AuthFlow`'s actions with what the
dialog does at a refusal; `Answer` is a step of the request with, at its last, what
the dialog makes of the answer; `Leave`, `Lose` and `Die` part it from its request,
which goes on. One dialog at a time; a second tab is answered `AUTH_FLOW_CONFLICT`.

**ChannelTargets** - the channels a user lets be commented, as the routes and the
runs change them: a request counts (`AskCreate`, `AskUpdate`) and then writes
(`Create`, `Update`), a run claims, checks, joins and reports, while the profile is
switched or detached and the limit of the subscription changes. `MCAccountSetup`
puts it beside `AuthFlow` in one run; a behaviour has a focus: login requests of any
kind, a login dialog, the runs that prepare a channel while it is changed
(`PrepareNext`), or overlapping requests for channels, no run at work (`QuotaNext`).
Comments that wait for a channel which fails are `AutoComment`'s.

**Subscription** - one user's orders, entitlements and worker, statement by
statement: `Begin`, `Lock`, `Mark`, `Commit` of a fulfilment by a refresh or a
webhook, `GrantMarks` and `GrantCommits`, `Sweep` or `Revoke` and `EndCommits`,
`Admit` and `Assign`. `now()` is the start of a transaction.

**AccountSession** - the sealed session of one account, the key ring each process
has read at its start, the operator's `AddKey`, `Activate`, `RemoveKey` and
deployments, logins, and what a run makes of a session that does not open or that
Telegram refuses.

**Lifecycle** - the engine or the API process: parts started in order and rolled
back, tasks that use the database, probes, signals and fatal errors, the drain and
the exit code. Two tasks are the central monitor's and not its loop's: `livePosts`, the
queue of a session, which nobody awaits, and `lateSession`, a session that was being made
when `stop()` looked for one, which nobody asks to end and which `stop()` waits for.

**MiniApp** - the page and the API: requests are sent, served or lost, and applied
in three steps and any order; the session, the account list, the return from a
checkout, the service panel with its polls, the division rows.

`MC*` modules give the instances, `*_proofs` hold the theorems. `MCAccountSetup`,
`MCAccountSession` and `MCCentralMonitor` declare an instance of a module under other
names, with its assumptions, so that one proofs module can speak of it and of another
module at once.

## 4. Runs

Passing runs, each exhaustive within its bounds:

| Run | Shows | Instance |
| --- | --- | --- |
| AccountLease | `HolderIsLatestGrant`, the refinement of `ExclusiveOwner`; `CrashIsRecovered`: an account whose holder crashed is worked again | three runs on two engines, 3 grants and 1 fault in all, lease of 2 ticks |
| BroadcastDelivery | `StatusTellsTruth`, `StatusSummarises`, `SendsArePaced`; `SendingIsResolved`: a target does not stay `SENDING` | 1 engine, started again after each crash, 2 targets of one operation, 1 attempt, 4 tokens told apart |
| BroadcastPreparation | `OnlyMembersAreReady`, `OverMeansOver`; `WorkIsTakenUp`: lost work is taken up; `WaitIsBounded`: the wait for approval ends | 1 engine, started again after each crash, 2 targets with 1 mishap, or 1 target with any, 2 checks, 4 tokens told apart |
| BroadcastCampaign | `DisabledStaysQuiet`; `CountedOnce` while rows are kept; `NotStranded`: an active campaign runs or stops | 1 engine with crashes, 1 target, 1 campaign, 2 operations, threshold 2 |
| AccountSupervisor | `DueIsServed`: with a batch larger than the pool, due work is looked after; `StopEnds` | 2 accounts, 1 slot, batch 1 or 2 |
| AutoComment | `CommentTellsTruth`, `AskedOnce`, `WithdrawnStaysQuiet`, the refinement of `CandidateContract`; `ClaimIsResolved` | 2 engines, 1 candidate, 2 tokens |
| CentralMonitor | `OnlyWanted`; `PendingIsProcessed`: an event somebody is to look at is processed | 1 session at a time, 1 division, 2 posts, 2 upsets, both within a budget of 4 |
| AccountSetup | `StateUsedOnce`, `SessionIsBound` of logins; `DialogCanGoOn` of their dialogs; `ReadyIsCurrent`, `QuotaHolds` of channels | 2 requests, 2 users, 1 Telegram account, 3 types, 2 flows, claims below version 6; 2 accounts and 2 channels, with either 1 target, 1 request, 2 runs and 2 changes, or 2 targets, 2 requests and 4 changes; quota 1 |
| Subscription | `PaidOnce`, `DaysAreKept`, `CoveredKeepsWorker` | 2 orders of 1 and 2 days, 2 requests, 3 entitlements, a clock of 2 days |
| AccountSession | `KeysOnlyDelay`, `StoredIsUsed`, `EndIsNoticed` | 1 API process, 2 runs, 2 keys, all types, 1 login, 1 upset |
| Lifecycle | `DatabaseOutlivesTasks`, `ExitTellsTruth`, `NeverReadyAgain`; `EverythingStops`, if a late session of the monitor ends | both programs, threshold 2 |
| MiniApp | `FreshOpeningEnds`, `AutoStopIsSeen` | 2 requests at a time, 2 openings, 2 campaigns, 1 cycle, 1 edit |

The type invariants of the proved modules, `OneClaim`, `WorkingIsRecorded`,
`TerminalIsFinal`, `PreparationIsFinal`, `StoppedIsFinal`, `CommandIsFinal`,
`OverIsOver`, `CheckpointAdvances`, `StoppedIsClean`, `NoStartAfterStop` and, for a
careful operator, `StoredKeyIsKept` are theorems (section 7) and not among the runs'
properties; the proofs hold for any number of engines, targets, campaigns, requests,
orders, sessions and keys, which the runs of these modules keep small.

Why these bounds do. The leases need two engines, and a third run on one of them
lets the same owner name return with a new token. What goes wrong for a run (a failed
call, a stalled heartbeat, a detach) is a fault, and costs a run its grant at most: with
three grants and one fault the crashed holder has one, the fault may take the next, and
the account is still to be worked with the last; a crash when fewer are left demands
nothing (`CrashedHolder`). Of the modules that work under a lease, `AutoComment` is checked
with two engines. In the broadcast runs one engine dies, loses its lease and is started
again under a new id, which gives what a second would: rows of an owner that is gone, a
stalled run that is fenced, and another live run that finds and resolves what they left.
What any number at once can do to a row is proved. Two targets are needed for summaries and
pacing, since both compare a target with another; an operation with two is prepared with
one mishap (`MaxUpsets` of `MCBroadcastPreparation`), the other target being ready to be
delivered before, and one whose second target is removed first with any number. Two operations
reach the failure threshold, and the second reconciliation finds the first
operation already counted. One slot for two accounts is the smallest pool that is
full. Two requests are what a double click, a webhook and a refresh, or two tabs
are. Two posts come live, from the history and from a recovery in any order, an old one
after a new one too; or one post comes while the division is paused and resumed, which
moves its activation, or while two calls fail: `Budget` is for posts, each counted twice,
and upsets (a pause or an edit are two) together. `OnlyWanted` has been checked by hand
with a budget of 6, where the activation moves between two posts, and both properties with
two divisions, one post and one upset, where an event fails halfway. Two channels and a
quota of one are the smallest race for a last place: two requests each find it free, and a
third and a fourth change switch one off and on again or move the limit in between. A claim below version 6 lets a code be
accepted and the password after it refused, or the code be refused twice.
`AccountSession` has been run by hand with two logins (safety for all types,
`FairSpec` for userbots). Counters that the code does not bound (tokens, grants, rows,
versions, changes) are bounded by constants named `Max...`; liveness is excused
when such a bound, and not the code, ends the run. In `BroadcastDelivery` and
`BroadcastPreparation` tokens are only compared for equality, so one that nothing remembers
any more is used again (`IsNextToken`) and crashes need no excuse. In `MiniApp` a behaviour
has a focus, one part of the page the user works with, since the parts meet in the
session only; requests that a reload drops unserved are not served later.
Stopping is legitimate in most runs (a user may have nothing to do), so deadlock
is not checked there; `AccountSession` and `MiniApp` check it.

Two more properties hold and are checked by hand: `LoginIsFreed` (a flow whose request
died does not keep its user out for ever; `AuthFlowRefuted.cfg`) and
`PaidIsServed` (a completed payment is fulfilled; `SubscriptionRefuted.cfg`).

## 5. Disagreements

Where a document, a comment, a constraint or a screen of the repository says one
thing and the code does another. `PROJECT.json` has a finding with the quotation
for each. The configurations (of `Lifecycle`, the commented lines of `Lifecycle.cfg`) are
run by hand, one property at a time, for example
`tlc -config BroadcastCampaignRefuted.cfg MCBroadcastCampaign` (of `AccountSession` and
`CentralMonitor`, with the module itself); each ends in a counterexample.

* `AccountLeaseRefuted`. `NoOverlap` (`PROJECT_WORKFLOW.md:348`): after a stalled
  heartbeat two engines are connected at once; fencing only stops the writes of the
  older. `LogoutAfterRelease` (`FOUNDATION_SPEC.md:119`): a logout does not wait
  until the engine released the session.
* `BroadcastDeliveryRefuted`. `NoTargetStranded`: one uncertain target strands its
  siblings. `CancelSettles`: a cancel during a send that then asks for a retry leaves
  the target neither open nor ended. `IntervalKept` (`FOUNDATION_SPEC.md:116`): a
  post of unknown outcome does not start the interval. `OperationIsFinal`
  (`FOUNDATION_SPEC.md:120`): a cancel after the end rewrites the status.
* `BroadcastPreparationRefuted`. `EndsWithItsTargets`: an operation gets `READY` after
  its last target is over, and blocks the user from then on. `AsksOnce`
  (`FOUNDATION_SPEC.md:91`): after a crash in a recheck the account asks to join
  again. `CancelledOnlyWhenWithdrawn` (`FOUNDATION_SPEC.md:92`): an engine that merely
  lost its lease cancels the target.
* `BroadcastCampaignRefuted`. `FailuresAreReal`: cycles that were cancelled, by the
  user or by an edit, count as delivery failures. `StopCancels` (the comment at
  `20260910160000_automation_lifecycle_guards.sql:225`): stopping a campaign the
  scheduler stopped leaves its cycle running. `RemovalTakesEffect` (the constraint at
  `20260901150000_broadcast_campaigns.sql:138`): the last target of an active campaign
  cannot be removed. `CountsAreRight` (the comment at
  `20260901160000_broadcast_campaign_reconciliation.sql:16`), with `Threshold = 3`:
  retention makes an old cycle count twice.
* `AutoCommentRefuted`. `StoppedIsSettled`: a cancellation that races a send which ends
  retryable leaves a command that nothing takes or cancels. `QueuedHasCommand`: the
  recovery of a stale claim leaves the candidate `COMMENT_QUEUED` for ever.
* `CentralMonitorRefuted`. `NothingPassedOver`: posts that arrive while a target becomes
  ready in a refresh, or when listing fails, are passed over by the checkpoint.
  `ProcessedIsAnswered`: an event is completed without the candidates it should have.
  `PendingIsAttended`: an event whose insertion was applied and not acknowledged waits
  for the next change or session. `NoReplay` (the comment at
  `20260910160000_automation_lifecycle_guards.sql:47`): a session that has not yet
  reloaded its rules comments on a post older than the activation now in force.
* `Lifecycle.cfg`. `NothingOutlivesDatabase` (`EVIDENCE_LEDGER.md:752`): the drain of the
  live posts is started with `void` (`central-monitor/service.ts:191`, `:210`), `run()` does
  not await it, and the database is closed under it. `StopAlwaysEnds`: `stop()` that comes
  while the loop acquires the lease or loads the session finds no session to end
  (`service.ts:424-457`, `482-489`), and waits for as long as the one then made goes on.
* `AuthFlowRefuted`. `LoginIsStored`: the `MONITOR` branch of the completion reads
  `FOUND` after a second `UPDATE`, and raises where it should store. `OpenIsUsable`: a
  request that dies in a Telegram call locks its user out until the flow is late.
  `ActiveIsShown`: the user's dialog ignores the flow that comes with
  `AUTH_FLOW_ACTIVE`, which the administrator's takes, so "Ganti nomor" or a reload
  locks the user out as well. (Run with `MCAccountSetup`.)
* `ChannelTargetsRefuted`. `InterruptedIsResumed`: a channel whose run died is not
  listed as due work. `ActiveIsPrepared`: a channel inserted after a switch keeps the
  old account. `JoinIsWanted`: a preparation claimed before a switch off, or before
  the channel is deleted, still joins. (`DueIsPrepared` passes there.)
* `SubscriptionRefuted`. `NoDayIsLost`: an admin's extension is lost under a fulfilment
  that takes another lock. `WorkerIsCovered`: an operation created during a revocation
  keeps a worker nobody pays for.
* `AccountSessionRefuted`. `FreshLoginSurvives`: a run's verdict about the old session
  ends a login stored meanwhile. `StoredKeyIsKept`: a row may come to reference a key
  already removed. `LoginOpens`: a login continued by a process without its key ends.
* `MiniAppRefuted`. `CheckingIsBusy`, `RetryCanSucceed`, `PollIsResumed`,
  `ServiceIsShown`, `OnlyTheFieldChanges`: a loading screen with nothing under way, a
  retry that cannot succeed, a poll an error ends for good, a service switched on
  elsewhere that is never shown, a row written back as it was shown.

What else was seen while modelling, without a property of its own:

* Login: nothing calls `expireAuthFlows`, flows expire when somebody comes. A login
  whose completion fails stays authorized at Telegram, neither stored nor logged out.
* Login dialog: one that missed an answer is told `AUTH_FLOW_CONFLICT` from then on,
  without the flow. So is one whose flow failed at the password: its "Tutup" asks for
  a cancellation that is refused, and it stays open until the time is over.
* Mini App: an older poll still under way may overwrite the status of a newer operation.
* Supervisor: with a batch not larger than the pool, accounts behind a head that
  always has old work can starve (production: 1 slot, batch 10). `onWakeup` releases
  idle sessions even when slots are free, where `account-supervisor.test.ts:242` says
  "when capacity is full".
* Central monitor: a lost `NOTIFY` leaves new targets unmonitored until the
  next one. Switching the service on again comments on posts made while it was off,
  if no other division kept the source listed.
* Candidates: a crash between creation and notification leaves `PENDING_REVIEW`
  without anybody asked, which the code documents as best effort.
* Subscription: `AdminPanel.tsx:690` offers "Perpanjang" for revoked rows too; the
  extension revives them, beside another active one of the type.
* Sessions: `SESSION_CONFLICT` after a mere lapse of the lease degrades the account
  until its user logs in again (`AUDIT_NEXO.md:44-48`).
* Delivery: a cancellation locks an operation and then its targets, validation and
  finish the other way round; PostgreSQL ends the deadlock by an error, which is the
  lost answer of the model.

## 6. Fairness

`FairSpec` assumes of the code's scheduling only what it provides. A run goes on
(`WF` of its steps): Node.js resumes awaits and each has a deadline. An engine that
keeps looking for work eventually gets some when work is offered again and again
(`SF` of `Claim` and of a scheduler's database calls): the supervisor and the
scheduler repeat their query for ever, and not each attempt fails. A broadcast process that
died is started again (`WF`), as the platform does (`railway.ts`), though it may die
again at once. In
`BroadcastPreparation` this is `SF` of a claim whose answer arrives, of `EndRun`
(a run has a budget of actions and an idle deadline) and of a `Release` that
reaches the database. Time passes (`WF` of `Tick`, `Lapse`, `BecomesDue`, `ComesDue`,
`CommandLeaseExpires`). Nothing is assumed of users, of crashes, of Telegram or
of the administrators of a group; a lapse is only sure for a lease nobody renews.

* `AccountSupervisor`: `WF` of the loop, of the steps and deferrals of each run and of
  unsubscribing; `SF` of a listing that succeeds. The idle timer is not counted on.
* `AutoComment`: as delivery.
* `AccountLease`: `WF` of the runs' steps, of the clock and of a backoff's end.
* `CentralMonitor`: `WF` of refreshes, each with the processing it does, of the drain's, and
  of a dead session's lease lapsing and a session being started.
* `AuthFlow`: `WF` of the requests' steps and of a flow's expiry; `SF` of a user who
  begins again.
* `Subscription`: a payment is asked about for ever (the page and the provider repeat),
  and of each such request not all fail: `SF` of its steps.
* `Lifecycle`: `WF` of tasks, probes and stops: a drain has no deadline of its own, so
  that tasks end is an assumption about them. It is not made of a late session of the monitor,
  which nobody has asked to end: `EverythingStops` says what follows if it ends.
* `MiniApp`: a request is answered or lost and its answer applied (`WF`), timers fire;
  the page refreshes for ever and not every answer is lost (`SF`).
* `AccountSession`: a run whose time has come acquires and goes on (`WF`), a retry
  becomes due, and a rollout reaches every engine (`SF`): a deployment drains the old
  process (`railway.ts`).
* `ChannelTargets` (by hand): an account listed as due is started, a due channel
  claimed, and a check or a join answered (`SF`).

## 7. Proofs

The theorems hold for any sets of engines, runs, targets, campaigns, candidates,
requests, orders, accounts and channels and any values of the bounds that satisfy the
named assumptions of each module. These say that a null value is not one of the things
it stands beside, that bounds are naturals, and little else: an operation has targets
(`OpOfAssumption`), a package has days (`DaysAssumption`), an order is not called
`"ADMIN"` (`OrderAssumption`), a process of the API runs no account (`KeyAssumption`),
a user's channels are finitely many (`ChannelAssumption`, of `MCAccountSetup`). Each
invariant was checked by TLC on the run's instance before it was proved inductive.

* **AccountLease**: `LeaseInv` is `TypeOK`, `HolderIsLatestGrant`,
  `WorkingIsRecorded` and `InFlightOnce`: an engine has one run of an account at a
  time. The last is what the fencing test alone does not give: a logout restarts
  the tokens, so two runs under one owner name could hold equal ones. `OneClaim`
  follows, and each step maps to a step or a stutter of `ExclusiveOwner`.
* **BroadcastDelivery**: `DeliveryInv` is `TypeOK`, `StatusTellsTruth` and what
  makes it inductive: no two runs hold one target (`OneRunPerTarget`), a claim in
  memory is that of the row as long as the run is not fenced (`ClaimIsOwn`), and a
  run about to report knows what Telegram did (`RunTellsTruth`). From it follow
  `TerminalIsFinal`; `SendsArePaced`, by `Paced` (whoever may still send claimed
  after the interval, and no success was recorded since); and `StatusSummarises`,
  by a lemma for each function that ranks statuses.
* **BroadcastPreparation**: `PreparationInv` is `TypeOK`, `RunSane` (a run about to
  report `READY` has seen the membership), `RowSane` (the two statuses of a target
  fit together) and `OverMeansOver`. Every action is first shown to be one of the
  seven moves of a row (`RowMoves`), from which all the rest follows.
* **BroadcastCampaign**: `CampaignInv` is `TypeOK`, `FailuresBelow` (an active
  campaign is below the threshold), `Quiet` (with the service off even a running
  send has nothing left to send) and `Claimed`. `StoppedIsFinal` follows from
  the steps a campaign's life can take (`Lives`). `CountedOnce` says that
  the counts are right as long as no operation's row was deleted (`RowsKept`):
  `CountInv` says that whatever
  was counted is not younger than the anchor. Together with `CountsAreRight` of
  `BroadcastCampaignRefuted.cfg` it shows that retention is the only way to count
  twice.

* **AutoComment**: `CommentInv` is `TypeOK`, `CommentTellsTruth`, `AskedOnce` and what
  makes them inductive, which is what the delivery of a broadcast needs, with a command
  for a target (`OneRunPerCommand`, `ClaimIsOwn`, `RunTellsTruth`), and three facts of
  its own: a notification is on its way once and before any decision (`AskedInOrder`),
  commands come after the candidate (`CommandComesLast`), and a run that may still
  finish its command finds the candidate queued or withdrawn (`FinishIsExpected`), so
  that no finish can bring back what the owner took out. From it follow `CommandIsFinal`
  and that each step maps to a step or a stutter of `CandidateContract`.
  `WithdrawnStaysQuiet` needs `QuietInv`: a candidate withdrawn before it was let through
  has no command or a stopped or ended one, and the run that holds it has not been
  authorized, which only an unstopped command is.
* **AuthFlow** and **LoginDialog** (`AccountSetup_proofs`): `AuthInv` adds to the
  properties that a request under way has a flow of its own, which waits for no user
  meanwhile (`OneAtWork`): every claim compares the version and takes the flow out of the
  steps a second request could claim, so that of the two requests of a double click one
  is refused. A request that Telegram let in knows its account (`AdmittedIsKnown`) and a
  stored session belongs to a row and a flow that exist (`SessionHasRow`). `DialogInv`
  adds that a dialog waits for one request at a time, about the flow it shows
  (`AskedIsShown`), and that nobody else works on that flow unless an answer was lost
  (`NobodyElse`); a dialog's step is shown to be one of `AuthFlow`'s or to change nothing
  there, so that the theorems hold with the client too.
* **ChannelTargets** (`AccountSetup_proofs`, for the instance of `MCAccountSetup`):
  `ChannelInv` says that the discussion a run has found is that of the channel it claimed
  (`DutyIsTrue`), that rows, deleted ones included, are ready only for the account and
  channel they have (`RowIsTrue`), and that the only row a run owns in the middle of a
  preparation is the one it is at, with the channel it was claimed for (`OwnerIsAtWork`):
  this is what makes a late result about an older configuration miss. `QuotaHolds`
  follows from the guard of the write, under the lock, and a lemma on what one row more
  does to a cardinality, for any number of channels and requests; the count of the route
  before it is of no use to the proof.
* **Subscription**: `PaidInv` says that one fulfilment at a time is past the lock, of an
  order not yet paid (`OneInside`), that a paid order has exactly one entitlement and any
  other none (`OrderHasItsOwn`), that what a fulfilment has read and marked covers what is
  active as long as no admin came (`CalmIsCurrent`), and the same of a lapse
  (`LapseIsCurrent`). That one of some entitlements ends last is a lemma, from the
  well-foundedness of strict inclusion on finite sets.
* **Lifecycle**: `LifeInv` says that the database is up before any other part and that all
  others are gone before it goes (`DatabaseIsBase`), that a part is down only once its
  task is over (`DownIsQuiet`), and what the exit code says so far (`CodeSoFar`).
  `DatabaseOutlivesTasks` is of all tasks but the live posts of the central monitor, of
  which section 5 shows the contrary; that the monitor's late session is over too is a
  matter of `stop()` waiting for it.

* **AccountSupervisor** (`Lifecycle_proofs`): `NoStartAfterStop`, and `StoppedIsClean`, by
  the invariant that a connection that still listens is held by the supervisor or its
  closing has failed (`ListenerIsHeld`): a subscription that arrives after `stop()` has
  nobody else to close it.
* **CentralMonitor** (`AutoComment_proofs`, for the instance of `MCCentralMonitor`):
  nothing fences a session of the monitor, so `MonitorInv` cannot say that one session is
  current. It says that whatever any session has in hand is wanted by it: the rules it has
  loaded take no post older than the activation its division had when the session began
  (`Rule`, `bound`), and every plan, queue and job of it is of posts that were posted and
  that a division wants by that measure. What else happens only adds to what a session wants
  (`WantedGrows`): an activation moves forward only, and a session that began earlier keeps
  its own. Of the activation now in force the same is false (`NoReplay`, section 5).
  `OnlyWanted` and `CheckpointAdvances` follow. That a session has a least post to go
  on with comes from the well-foundedness of `<`.
* **AccountSession** (`AccountLease_proofs`, for the instance of `MCAccountSession`):
  `SessionInv` says that a run that works, or is about to record more than a delay, has
  asked Telegram (`AskedFirst`), from which `KeysOnlyDelay` follows, since only a record
  degrades a ready account. `SealedIsKept` says, where the operator also keeps a key that
  a process of the API seals with (`Careful`), that those keys, that of the row, and that
  of a login about to be completed are configured: `StoredKeyIsKept` then holds, which
  `AccountSessionRefuted.cfg` shows violated under the documented rule alone.

Only model-checked, because the prover does not handle fairness: the liveness properties
(`CrashIsRecovered`, `SendingIsResolved`, `WorkIsTakenUp`, `WaitIsBounded`, `NotStranded`,
`StopEnds`, `DueIsServed`, `ClaimIsResolved`, `PendingIsProcessed`, `StoredIsUsed`,
`EndIsNoticed`, `EverythingStops`, `FreshOpeningEnds`, `AutoStopIsSeen`), and with them all
of `MiniApp`. Because its lists are made with recursive selections, of which the prover
knows nothing: that the supervisor's pool never exceeds its slots (its `TypeOK`) and that
a listing reaches other accounts (`ListingReachesOthers`), which TLC confirms by hand on
the instance of the run. Every safety and action property of a passing run, and each
refinement, is a theorem.

## 8. Not modelled

* Measurement tools (`apps/engine/src/benchmark`, the smoke tests), configuration
  parsing, the catalogue of packages, listings and the pages of the administrator:
  single statements or no state of their own.
* Presentation: of the web application what is rendered, the forms and their
  validation, and the dialogs but that of a login; of the routes the
  parsing of requests, except where
  their own order of calls matters; of the bot the wording.
* Cryptography: a sealed value opens with its key, for its own account or flow only.
* Inside the modelled parts: the target cache and hydration, the order of claims among
  equals, exact lengths of intervals (a lease, a delay or a cycle has come due or
  not), the 50-target limit of a campaign, more than one account per user in
  `BroadcastCampaign`, row locks within a function, the limits of 500 and 100 posts of
  the central monitor, several sources and changes of keywords and templates, the
  choice among workers, several package types, and idempotency keys of single runs.
* The poll of the auto-comment matcher, which production does not start.
* Prechecks of the routes that a database trigger repeats under an advisory lock
  (targets of Jaseb): a refused edit changes nothing. For channels both steps are in
  `ChannelTargets`.
