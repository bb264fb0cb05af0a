------------------------- MODULE AccountSupervisor -------------------------
(***************************************************************************)
(* One engine's supervisor of the accounts of its shard: the discovery     *)
(* loop, the pool of account runs with their idle sessions, the wakeups    *)
(* PostgreSQL sends, the deferrals of contended and failed accounts, and   *)
(* the graceful stop.  Everything between two awaits is one step.          *)
(*                                                                         *)
(* `queue' is what list_broadcast_runtime_accounts would return: the       *)
(* accounts with due work, the longest due first.  What a run does for its *)
(* account is in AccountLease and the Broadcast modules; here a run takes  *)
(* work off the queue, fails, or waits idle with its session connected.    *)
(***************************************************************************)
EXTENDS Naturals, Sequences, FiniteSets, SequencesExt

CONSTANTS Account,     \* the accounts of this shard (others' wakeups are ignored)
          Slots,       \* policy.maxConcurrentAccounts
          MaxBatch,    \* the largest policy.discoveryBatchSize tried
          MaxActions   \* policy.maxActionsPerRun

ASSUME SlotsAssumption == Slots \in Nat \ {0}
ASSUME MaxBatchAssumption == MaxBatch \in Nat \ {0}
ASSUME MaxActionsAssumption == MaxActions \in Nat \ {0}

VARIABLES batch,         \* policy.discoveryBatchSize, which stays as it is
          state,         \* RUNNING, the two halves of STOPPING, STOPPED
          loop,          \* where the discovery loop is
          limit,         \* the limit of the listing under way
          due,           \* the answer to it
          pending,       \* accounts waiting for a slot, in order
          run,           \* what the run of each account is doing
          actions,       \* the actions its drain has counted
          wake,          \* the flags of its AccountWakeupSignal
          deferred,      \* accounts whose deferredUntil is in the future
          subscription,  \* the supervisor holds a wakeup subscription
          listening,     \* the database connection is subscribed
          complaint,     \* cleanupErrorCodes is not empty
          queue

loopVars == <<loop, limit, due>>
runVars == <<run, actions, wake>>
subVars == <<subscription, listening, complaint>>
vars == <<batch, state, loopVars, pending, runVars, deferred, subVars, queue>>

Stopping == {"CLOSING", "JOINING"}
State == {"RUNNING", "STOPPED"} \cup Stopping
Loop == {"START", "TOP", "SUBSCRIBING", "RECONCILE", "LISTING", "LISTED", "WAIT", "OVER"}
Run == {"NONE", "BUSY", "CHECKED", "IDLE", "DRAINED", "FAILED"}

InFlight == {a \in Account : run[a] # "NONE"}
Lists == {s \in SeqOf(Account, Cardinality(Account)) : IsInjective(s)}

\* Each part of the state has its type; the pool never exceeds its slots, and
\* an account waits for a slot at most once and never while it has one.
TypeOK ==
    /\ batch \in 1..MaxBatch
    /\ state \in State
    /\ loop \in Loop
    /\ limit \in 0..(MaxBatch + 2 * Cardinality(Account))
    /\ due \in Lists
    /\ pending \in Lists
    /\ run \in [Account -> Run]
    /\ actions \in [Account -> 0..MaxActions]
    /\ wake \in [Account -> SUBSET {"WORK", "RELEASE"}]
    /\ deferred \subseteq Account
    /\ subscription \in BOOLEAN
    /\ listening \in BOOLEAN
    /\ complaint \in BOOLEAN
    /\ queue \in Lists
    /\ Cardinality(InFlight) <= Slots
    /\ ToSet(pending) \cap InFlight = {}

Init ==
    /\ batch \in 1..MaxBatch
    /\ state = "RUNNING"
    /\ loop = "START"
    /\ limit = 0
    /\ due = <<>>
    /\ pending = <<>>
    /\ run = [a \in Account |-> "NONE"]
    /\ actions = [a \in Account |-> 0]
    /\ wake = [a \in Account |-> {}]
    /\ deferred = {}
    /\ subscription = FALSE
    /\ listening = FALSE
    /\ complaint = FALSE
    /\ queue \in Lists

-----------------------------------------------------------------------------
(* The runs.  A step of the supervisor may notify the accounts N of work, ask *)
(* the accounts R to release an idle session, and start the accounts S.       *)
(* notifyWork and releaseIdle resume a waiting run at once; otherwise the flag *)
(* stays for its next wait, where a release outranks and silences the work.   *)

RunAfter(a, N, R, S) ==
    IF a \in S THEN "BUSY"
    ELSE IF run[a] # "IDLE" THEN run[a]
    ELSE IF a \in N THEN "BUSY"
    ELSE IF a \in R THEN "DRAINED" ELSE "IDLE"

WakeAfter(a, N, R, S) ==
    IF a \in S THEN {}
    ELSE IF a \in R THEN {"RELEASE"}
    ELSE IF a \in N /\ run[a] # "IDLE" /\ wake[a] = {} THEN {"WORK"}
    ELSE wake[a]

Signal(N, R, S) ==
    /\ run' = [a \in Account |-> RunAfter(a, N, R, S)]
    /\ wake' = [a \in Account |-> WakeAfter(a, N, R, S)]
    /\ actions' = [a \in Account |-> IF a \in S THEN 0 ELSE actions[a]]

-----------------------------------------------------------------------------
(* The pool: pump() goes through the waiting accounts in order until the    *)
(* slots are full, dropping the ones in flight and the deferred ones.       *)

Startable(waiting, held) ==
    {k \in DOMAIN waiting : waiting[k] \notin InFlight \cup held}

\* Mutation: the pool forgets the runs already in flight.
ReachedAfresh(waiting, held) ==
    {k \in DOMAIN waiting :
        Cardinality({j \in Startable(waiting, held) : j < k}) < Slots}

\* The positions pump() reaches.
Reached(waiting, held) ==
    {k \in DOMAIN waiting :
        Cardinality({j \in Startable(waiting, held) : j < k})
            < Slots - Cardinality(InFlight)}

\* Mutation: the state is not tested again after the listing's await.
PumpAlways(waiting, held, N, R) ==
    LET reached == Reached(waiting, held)
        started == {waiting[k] : k \in reached \cap Startable(waiting, held)}
    IN  /\ pending' = SubSeq(waiting, Cardinality(reached) + 1, Len(waiting))
        /\ deferred' = held \ started
        /\ Signal(N, R, started)

\* pump(), at the end of a step that signals N and R.
Pump(waiting, held, N, R) ==
    IF state = "RUNNING"
    THEN LET reached == Reached(waiting, held)
             started == {waiting[k] : k \in reached \cap Startable(waiting, held)}
         IN  /\ pending' = SubSeq(waiting, Cardinality(reached) + 1, Len(waiting))
             /\ deferred' = held \ started
             /\ Signal(N, R, started)
    ELSE /\ pending' = waiting
         /\ deferred' = held
         /\ Signal(N, R, {})

-----------------------------------------------------------------------------
(* The discovery loop. *)

\* ensureSubscription() is done: the loop starts, or goes on to reconcile.
AfterSubscribing == IF loop = "START" THEN "TOP" ELSE "RECONCILE"

SubscribeFails ==
    /\ loop \in {"START", "SUBSCRIBING"}
    /\ loop' = AfterSubscribing
    /\ UNCHANGED <<batch, state, limit, due, pending, runVars, deferred, subVars, queue>>

\* Mutation: a subscription that arrives after stop() is kept.
SubscribedLate ==
    /\ loop \in {"START", "SUBSCRIBING"}
    /\ loop' = AfterSubscribing
    /\ listening' = TRUE
    /\ subscription' = TRUE
    /\ UNCHANGED <<batch, state, limit, due, pending, runVars, deferred, complaint, queue>>

\* The subscription is there; after a stop() it is closed again at once, which
\* may fail.
Subscribed ==
    /\ loop \in {"START", "SUBSCRIBING"}
    /\ loop' = AfterSubscribing
    /\ \/ state = "RUNNING" /\ subscription' = TRUE /\ listening' = TRUE
          /\ UNCHANGED complaint
       \/ state # "RUNNING" /\ UNCHANGED subVars
       \/ state # "RUNNING" /\ listening' = TRUE /\ complaint' = TRUE
          /\ UNCHANGED subscription
    /\ UNCHANGED <<batch, state, limit, due, pending, runVars, deferred, queue>>

\* The head of the loop: without a subscription it tries for one, unless
\* nextSubscriptionAttemptAt is still in the future.
Turn ==
    /\ loop = "TOP"
    /\ \/ state # "RUNNING" /\ loop' = "OVER"
       \/ state = "RUNNING" /\ loop' = "RECONCILE"
       \/ state = "RUNNING" /\ ~subscription /\ loop' = "SUBSCRIBING"
    /\ UNCHANGED <<batch, state, limit, due, pending, runVars, deferred, subVars, queue>>

\* Mutation: accounts that cannot be started use up the listing.
ReconcileShort ==
    /\ loop = "RECONCILE"
    /\ state = "RUNNING"
    /\ Pump(pending, deferred, {}, {})
    /\ limit' = batch
    /\ loop' = "LISTING"
    /\ UNCHANGED <<batch, state, due, subVars, queue>>

\* Fill the free slots, then ask for the due accounts: as many as a batch, and
\* one more for each account the answer may name in vain.
Reconcile ==
    /\ loop = "RECONCILE"
    /\ state = "RUNNING"
    /\ Pump(pending, deferred, {}, {})
    /\ limit' = batch + Cardinality({a \in Account : run'[a] # "NONE"})
                      + Cardinality(deferred')
    /\ loop' = "LISTING"
    /\ UNCHANGED <<batch, state, due, subVars, queue>>

ReconcileStopped ==
    /\ loop = "RECONCILE"
    /\ state # "RUNNING"
    /\ loop' = "OVER"
    /\ UNCHANGED <<batch, state, limit, due, pending, runVars, deferred, subVars, queue>>

\* The database answers listDue.
List ==
    /\ loop = "LISTING"
    /\ due' = SubSeq(queue, 1, IF limit < Len(queue) THEN limit ELSE Len(queue))
    /\ limit' = 0
    /\ loop' = "LISTED"
    /\ UNCHANGED <<batch, state, pending, runVars, deferred, subVars, queue>>

\* reconcile() is over: nextDelay() and the wait, or the end of the loop.
AfterReconcile == IF state = "RUNNING" THEN "WAIT" ELSE "OVER"

ListFails ==
    /\ loop = "LISTING"
    /\ limit' = 0
    /\ loop' = AfterReconcile
    /\ UNCHANGED <<batch, state, due, pending, runVars, deferred, subVars, queue>>

\* Mutation: idle sessions keep their slots although accounts wait for one.
HandleQuietly ==
    /\ loop = "LISTED"
    /\ LET fresh == SelectSeq(due, LAMBDA a :
                        a \notin InFlight \cup ToSet(pending) \cup deferred)
       IN  Pump(pending \o fresh, deferred, ToSet(due) \cap InFlight, {})
    /\ due' = <<>>
    /\ loop' = AfterReconcile
    /\ UNCHANGED <<batch, state, limit, subVars, queue>>

\* The answer is handled: a due account in flight is woken, the others join
\* the pending ones unless deferred, and if some must wait while the slots are
\* full every idle session is to be released.
Handle ==
    /\ loop = "LISTED"
    /\ LET fresh == SelectSeq(due, LAMBDA a :
                        a \notin InFlight \cup ToSet(pending) \cup deferred)
           waiting == pending \o fresh
           woken == ToSet(due) \cap InFlight
           full == waiting # <<>> /\ Cardinality(InFlight) >= Slots
       IN  Pump(waiting, deferred, woken, IF full THEN InFlight ELSE {})
    /\ due' = <<>>
    /\ loop' = AfterReconcile
    /\ UNCHANGED <<batch, state, limit, subVars, queue>>

\* The delay of the loop ends: nextDelay() never exceeds the reconciliation
\* interval, and the end of a run, a wakeup or stop() may cut it short.
Wait ==
    /\ loop = "WAIT"
    /\ loop' = "TOP"
    /\ UNCHANGED <<batch, state, limit, due, pending, runVars, deferred, subVars, queue>>

LoopStep ==
    \/ SubscribeFails \/ Subscribed \/ Turn \/ Reconcile \/ ReconcileStopped
    \/ List \/ ListFails \/ Handle \/ Wait

-----------------------------------------------------------------------------
(* Wakeups.  A notification may be lost while the connection is being made   *)
(* again, repeated, late, or about work that is not due yet.                 *)

Wakeup(a) ==
    /\ listening
    /\ state = "RUNNING"
    /\ deferred' = deferred \ {a}
    /\ IF a \in InFlight THEN Signal({a}, {}, {}) ELSE Signal({}, InFlight, {})
    /\ UNCHANGED <<batch, state, loopVars, pending, subVars, queue>>

\* The retry time of a deferred account comes.
Lapse(a) ==
    /\ a \in deferred
    /\ deferred' = deferred \ {a}
    /\ UNCHANGED <<batch, state, loopVars, pending, runVars, subVars, queue>>

-----------------------------------------------------------------------------
(* The runs of the accounts. *)

\* What the queue may be after an action for the account: it has no more due
\* work, or more that is as old, or more that came due later.
QueuesAfter(a) == {Remove(queue, a), queue, Append(Remove(queue, a), a)}

\* The drain finds due work and does it.  It goes on until its budget is used
\* up; a retryable failure, a degraded account or an uncertain outcome ends it
\* before.
Work(a) ==
    /\ run[a] = "BUSY"
    /\ a \in ToSet(queue)
    /\ queue' \in QueuesAfter(a)
    /\ actions' = [actions EXCEPT ![a] = @ + 1]
    /\ \E next \in {"BUSY", "DRAINED"} :
        /\ actions[a] + 1 = MaxActions => next = "DRAINED"
        /\ run' = [run EXCEPT ![a] = next]
    /\ UNCHANGED <<batch, state, loopVars, pending, wake, deferred, subVars>>

\* The lease is another's, the account not runnable, the lease lost, or the
\* run throws.
Fail(a) ==
    /\ run[a] = "BUSY"
    /\ run' = [run EXCEPT ![a] = "FAILED"]
    /\ UNCHANGED <<batch, state, loopVars, pending, actions, wake, deferred, subVars, queue>>

\* The drain finds no due work.
NoWork(a) ==
    /\ run[a] = "BUSY"
    /\ a \notin ToSet(queue)
    /\ run' = [run EXCEPT ![a] = "CHECKED"]
    /\ UNCHANGED <<batch, state, loopVars, pending, actions, wake, deferred, subVars, queue>>

\* idleWakeup.wait: a pending release ends the run, pending work resumes it,
\* and otherwise it waits.
Idle(a) ==
    /\ run[a] = "CHECKED"
    /\ run' = [run EXCEPT ![a] = IF "RELEASE" \in wake[a] THEN "DRAINED"
                                 ELSE IF "WORK" \in wake[a] THEN "BUSY" ELSE "IDLE"]
    /\ wake' = [wake EXCEPT ![a] = @ \ {"WORK"}]
    /\ UNCHANGED <<batch, state, loopVars, pending, actions, deferred, subVars, queue>>

\* The idle deadline has passed when the drain comes to it.
IdleOver(a) ==
    /\ run[a] = "CHECKED"
    /\ run' = [run EXCEPT ![a] = "DRAINED"]
    /\ UNCHANGED <<batch, state, loopVars, pending, actions, wake, deferred, subVars, queue>>

\* The timer of an idle wait: the drain looks for work once more.
IdleTimer(a) ==
    /\ run[a] = "IDLE"
    /\ run' = [run EXCEPT ![a] = "BUSY"]
    /\ UNCHANGED <<batch, state, loopVars, pending, actions, wake, deferred, subVars, queue>>

\* The run has disconnected and released its lease: its result decides the
\* deferral, and its slot is free.
End(a) ==
    /\ run[a] \in {"DRAINED", "FAILED"}
    /\ deferred' = IF run[a] = "FAILED" THEN deferred \cup {a} ELSE deferred \ {a}
    /\ run' = [run EXCEPT ![a] = "NONE"]
    /\ wake' = [wake EXCEPT ![a] = {}]
    /\ actions' = [actions EXCEPT ![a] = 0]
    /\ UNCHANGED <<batch, state, loopVars, pending, subVars, queue>>

RunStep(a) == Work(a) \/ Fail(a) \/ NoWork(a) \/ Idle(a) \/ End(a)

-----------------------------------------------------------------------------
(* The work of the accounts comes due and goes away. *)

Due(a) ==
    /\ a \notin ToSet(queue)
    /\ queue' = Append(queue, a)
    /\ UNCHANGED <<batch, state, loopVars, pending, runVars, deferred, subVars>>

Withdrawn(a) ==
    /\ a \in ToSet(queue)
    /\ queue' = Remove(queue, a)
    /\ UNCHANGED <<batch, state, loopVars, pending, runVars, deferred, subVars>>

-----------------------------------------------------------------------------
(* stop(). *)

\* Mutation: stop() leaves the idle sessions to their timers.
StopQuietly ==
    /\ state = "RUNNING"
    /\ loop # "START"
    /\ state' = IF subscription THEN "CLOSING" ELSE "JOINING"
    /\ UNCHANGED <<batch, loopVars, pending, runVars, deferred, subVars, queue>>

Stop ==
    /\ state = "RUNNING"
    /\ loop # "START"
    /\ state' = IF subscription THEN "CLOSING" ELSE "JOINING"
    /\ Signal({}, InFlight, {})
    /\ UNCHANGED <<batch, loopVars, pending, deferred, subVars, queue>>

\* subscription.close() returns, or throws and is only noted.
Unsubscribe ==
    /\ state = "CLOSING"
    /\ state' = "JOINING"
    /\ \/ listening' = FALSE /\ UNCHANGED complaint
       \/ complaint' = TRUE /\ UNCHANGED listening
    /\ UNCHANGED <<batch, loopVars, pending, runVars, deferred, subscription, queue>>

\* The loop and every execution have come to an end.
Stopped ==
    /\ state = "JOINING"
    /\ loop = "OVER"
    /\ InFlight = {}
    /\ state' = "STOPPED"
    /\ pending' = <<>>
    /\ UNCHANGED <<batch, loopVars, runVars, deferred, subVars, queue>>

Next ==
    \/ LoopStep \/ Stop \/ Unsubscribe \/ Stopped
    \/ \E a \in Account :
        \/ Wakeup(a) \/ Lapse(a) \/ RunStep(a) \/ IdleOver(a) \/ IdleTimer(a)
        \/ Due(a) \/ Withdrawn(a)

Spec == Init /\ [][Next]_vars

\* Timers and answers come, a run that is not waiting idle gets on, and the
\* listing does not fail for ever.  The idle timer is not counted on.
Fairness ==
    /\ WF_vars(LoopStep)
    /\ SF_vars(List)
    /\ WF_vars(Unsubscribe \/ Stopped)
    /\ \A a \in Account : WF_vars(RunStep(a)) /\ WF_vars(Lapse(a))

FairSpec == Spec /\ Fairness

-----------------------------------------------------------------------------

\* Once stop() was called no run begins, although the loop may be in the middle
\* of a listing whose answer names due accounts.
NoStartAfterStop ==
    [][state # "RUNNING" => \A a \in Account : run[a] = "NONE" => run'[a] = "NONE"]_vars

\* A stopped supervisor leaves nothing behind: no run, no loop, no account
\* waiting, and no subscription whose closing has not failed, even if the
\* subscription was still being made when stop() was called.
StoppedIsClean ==
    state = "STOPPED" =>
        /\ loop = "OVER"
        /\ InFlight = {}
        /\ pending = <<>>
        /\ listening => complaint

\* stop() ends, although idle sessions may have a long grace left.
StopEnds == state \in Stopping ~> state = "STOPPED"

\* A listing is never taken up by accounts that are running or deferred: it
\* names as many others as a batch holds, or all there are, although runs end
\* and wakeups come between the question and the answer.
Others(s) == ToSet(s) \ (InFlight \cup deferred)

ListingReachesOthers ==
    [][loop = "LISTING" /\ loop' = "LISTED" =>
        \/ Others(queue) \subseteq ToSet(due')
        \/ Cardinality(Others(due')) >= batch]_vars

\* With a batch larger than the pool, an account with due work is looked after,
\* although accounts with older work keep failing or keep having work, idle
\* sessions fill the slots, and notifications are lost: a run of it drains, or
\* it has no due work any more.
DueIsServed ==
    batch > Slots =>
        \A a \in Account :
            a \in ToSet(queue) ~> \/ run[a] = "BUSY"
                                  \/ a \notin ToSet(queue)
                                  \/ state # "RUNNING"
=============================================================================
