---------------------------- MODULE Subscription ----------------------------
(***************************************************************************)
(* What one user pays for: orders, their payment at the provider, their    *)
(* fulfilment by refreshes and webhooks, the entitlements it makes, what   *)
(* an admin does to these, their expiry, and the worker of the pool that   *)
(* an operation of the user reserves and a lapse gives back.               *)
(*                                                                         *)
(* Orders and entitlements are of one package type.  The database runs at  *)
(* READ COMMITTED: a function of several statements is several steps, each *)
(* with a snapshot of its own, and what it writes is seen once it commits. *)
(* Time is in days.                                                        *)
(***************************************************************************)
EXTENDS Integers, FiniteSets

CONSTANTS Order,      \* the orders the user may make
          Days,       \* what each buys
          Request,    \* refreshes and webhooks in progress at a time
          MaxNow,     \* bound: the clock
          MaxEnt,     \* bound: entitlements
          MaxExpiry   \* bound: the last day an admin's gift may end, less one for an extension

ASSUME OrderAssumption == Order \cap {"NONE", "ADMIN"} = {}
ASSUME DaysAssumption == Days \in [Order -> Nat \ {0}]
ASSUME BoundAssumption == MaxNow \in Nat /\ MaxEnt \in Nat /\ MaxExpiry \in Nat

VARIABLES now,
          order,      \* status of each order
          completed,  \* orders the provider has the money for
          made,       \* entitlements made so far, numbered from 1; an extension,
                      \* to keep it bounded, takes a number too
          status, expires,
          for,        \* the order an entitlement was made for, "ADMIN" if none
          pc, about,  \* where each request is, and its order
          at,         \* the time its transaction began
          kept,       \* the expiry it has read
          hit,        \* the entitlements it is about to revoke
          calm,       \* no admin came between its read and its commit
          grant,      \* an admin's grant in progress: the entitlements it is about to revoke
          began,      \* when that grant began, or -1
          ending,     \* the entitlements a sweep or a revocation in progress has struck
          endAs,      \* what they become
          release,    \* it has found the worker to release
          quiet,      \* no entitlement of an admin came since, directly or under a payment
          worker,     \* the user holds a worker
          assigning   \* an operation of the user is being created

entVars == <<made, status, expires, for>>
reqVars == <<pc, about, at, kept, hit, calm>>
grantVars == <<grant, began>>
endVars == <<ending, endAs, release, quiet>>
workVars == <<worker, assigning>>
vars == <<now, order, completed, entVars, reqVars, grantVars, endVars, workVars>>

None == "NONE"
Ent == 1..MaxEnt
Time == -1..(MaxNow + MaxExpiry + 10)

TypeOK ==
    /\ now \in 0..MaxNow /\ order \in [Order -> {"NONE", "PENDING", "PAID"}]
    /\ completed \subseteq Order /\ made \in 0..MaxEnt
    /\ status \in [Ent -> {"NONE", "ACTIVE", "REVOKED", "EXPIRED"}] /\ expires \in [Ent -> Int]
    /\ for \in [Ent -> Order \cup {None, "ADMIN"}]
    /\ pc \in [Request -> {"IDLE", "ASKING", "VERIFIED", "WAITING", "READ", "MARKED"}]
    /\ about \in [Request -> Order \cup {None}]
    /\ at \in [Request -> Int] /\ kept \in [Request -> Int]
    /\ hit \in [Request -> SUBSET Ent] /\ calm \in [Request -> BOOLEAN]
    /\ grant \subseteq Ent /\ began \in Int
    /\ ending \subseteq Ent /\ endAs \in {"NONE", "REVOKED", "EXPIRED"}
    /\ release \in BOOLEAN /\ quiet \in BOOLEAN
    /\ worker \in BOOLEAN /\ assigning \in BOOLEAN

Init ==
    /\ now = 0 /\ order = [o \in Order |-> "NONE"] /\ completed = {} /\ made = 0
    /\ status = [e \in Ent |-> "NONE"] /\ expires = [e \in Ent |-> 0]
    /\ for = [e \in Ent |-> None]
    /\ pc = [r \in Request |-> "IDLE"] /\ about = [r \in Request |-> None]
    /\ at = [r \in Request |-> 0] /\ kept = [r \in Request |-> 0]
    /\ hit = [r \in Request |-> {}] /\ calm = [r \in Request |-> TRUE]
    /\ grant = {} /\ began = -1
    /\ ending = {} /\ endAs = "NONE" /\ release = FALSE /\ quiet = TRUE
    /\ worker = FALSE /\ assigning = FALSE

Active == {e \in Ent : status[e] = "ACTIVE"}
Running(t) == {e \in Active : expires[e] > t}
Latest(s) == IF s = {} THEN 0 ELSE CHOOSE x \in {expires[e] : e \in s} : \A e \in s : x >= expires[e]
Later(x, y) == IF x > y THEN x ELSE y

Tick == now < MaxNow /\ now' = now + 1 /\ UNCHANGED <<order, completed, entVars, reqVars, grantVars, endVars, workVars>>

\* A new entitlement until day t instead of the active ones among s.
Replace(s, t, o) ==
    /\ made < MaxEnt /\ made' = made + 1
    /\ status' = [e \in Ent |-> IF e = made + 1 THEN "ACTIVE"
                                ELSE IF e \in s \cap Active THEN "REVOKED" ELSE status[e]]
    /\ expires' = [expires EXCEPT ![made + 1] = t]
    /\ for' = [for EXCEPT ![made + 1] = o]

-----------------------------------------------------------------------------
(* Orders and their payment. *)

\* create: with no subscription running; a pending order of the package is used again.
Create(o) ==
    /\ Running(now) = {} /\ order[o] = "NONE"
    /\ order' = [order EXCEPT ![o] = "PENDING"]
    /\ UNCHANGED <<now, completed, entVars, reqVars, grantVars, endVars, workVars>>

\* The user pays; the provider is told and remembers.
Pay(o) ==
    /\ order[o] = "PENDING"
    /\ completed' = completed \cup {o}
    /\ UNCHANGED <<now, order, entVars, reqVars, grantVars, endVars, workVars>>

\* An order that is not paid is looked at.
Ask(r, o) ==
    /\ pc[r] = "IDLE" /\ order[o] = "PENDING"
    /\ pc' = [pc EXCEPT ![r] = "ASKING"]
    /\ about' = [about EXCEPT ![r] = o]
    /\ UNCHANGED <<now, order, completed, entVars, at, kept, hit, calm, grantVars, endVars, workVars>>

\* The user checks his payment, whether he has made it or not.
Refresh(r, o) == Ask(r, o)

\* The provider tells of an order, again, late or in anyone's name.
Webhook(r, o) == Ask(r, o)

End(r) ==
    /\ pc' = [pc EXCEPT ![r] = "IDLE"] /\ about' = [about EXCEPT ![r] = None]
    /\ at' = [at EXCEPT ![r] = 0] /\ kept' = [kept EXCEPT ![r] = 0]
    /\ hit' = [hit EXCEPT ![r] = {}] /\ calm' = [calm EXCEPT ![r] = TRUE]

\* What the provider answers about a transaction is good.
Verified(o) == o \in completed

Fetch(r) ==
    /\ pc[r] = "ASKING" /\ Verified(about[r])
    /\ pc' = [pc EXCEPT ![r] = "VERIFIED"]
    /\ UNCHANGED <<now, order, completed, entVars, about, at, kept, hit, calm, grantVars, endVars, workVars>>

\* The transaction is not completed, the provider does not answer, the replica dies or a
\* connection is lost: what was not committed is undone.
Abort(r) ==
    /\ pc[r] # "IDLE"
    /\ End(r)
    /\ UNCHANGED <<now, order, completed, entVars, grantVars, endVars, workVars>>

-----------------------------------------------------------------------------
(* fulfill_payment_order *)

Begin(r) ==
    /\ pc[r] = "VERIFIED"
    /\ pc' = [pc EXCEPT ![r] = "WAITING"]
    /\ at' = [at EXCEPT ![r] = now]
    /\ UNCHANGED <<now, order, completed, entVars, about, kept, hit, calm, grantVars, endVars, workVars>>

Inside(r) == pc[r] \in {"READ", "MARKED"}

\* Mutation: only the row of the order is locked.
RowFree(r) == \A q \in Request : Inside(q) => about[q] # about[r]

\* The row of the order and the advisory lock of the user and package type.
LocksFree(r) == \A q \in Request : ~Inside(q)

\* Mutation: the order's status is not looked at again.
Unpaid(r) == TRUE

Payable(r) == order[about[r]] = "PENDING"

Lock(r) ==
    /\ pc[r] = "WAITING" /\ LocksFree(r)
    /\ IF Payable(r)
         THEN /\ pc' = [pc EXCEPT ![r] = "READ"]
              /\ kept' = [kept EXCEPT ![r] = Latest(Running(at[r]))]
              /\ UNCHANGED <<about, at, hit, calm>>
         ELSE End(r)
    /\ UNCHANGED <<now, order, completed, entVars, grantVars, endVars, workVars>>

\* The update that revokes sees the entitlements active by now.
Mark(r) ==
    /\ pc[r] = "READ"
    /\ pc' = [pc EXCEPT ![r] = "MARKED"]
    /\ hit' = [hit EXCEPT ![r] = Active]
    /\ UNCHANGED <<now, order, completed, entVars, about, at, kept, calm, grantVars, endVars, workVars>>

\* The update waits for a sweep or a revocation that has struck one of its rows.  Two
\* updates that mark the same rows commit in either order, with the same outcome.
Free(s) == s \cap ending = {}

Commit(r) ==
    LET o == about[r] IN
    /\ pc[r] = "MARKED" /\ Free(hit[r])
    /\ Replace(hit[r], Later(kept[r], at[r]) + Days[o], o)
    /\ order' = [order EXCEPT ![o] = "PAID"]
    /\ End(r)
    /\ quiet' = (quiet /\ calm[r])
    /\ UNCHANGED <<now, completed, grantVars, ending, endAs, release, workVars>>

-----------------------------------------------------------------------------
(* What admins do. *)

Disturb ==
    /\ calm' = [r \in Request |-> calm[r] /\ ~Inside(r)]
    /\ quiet' = (ending = {})

\* grant_entitlement: read and replaced without a lock.
GrantMarks ==
    /\ began = -1 /\ now < MaxExpiry
    /\ grant' = Active /\ began' = now
    /\ UNCHANGED <<now, order, completed, entVars, reqVars, endVars, workVars>>

GrantCommits ==
    /\ began # -1 /\ Free(grant)
    /\ Replace(grant, began + 1, "ADMIN")
    /\ grant' = {} /\ began' = -1
    /\ Disturb
    /\ UNCHANGED <<now, order, completed, pc, about, at, kept, hit, ending, endAs, release, workVars>>

\* Rows that no transaction in progress has updated.
Untouched(s) == s \cap (grant \cup ending \cup UNION {hit[r] : r \in Request}) = {}

\* extend_entitlement: whatever became of it.
Extend(e) ==
    /\ status[e] # "NONE" /\ Untouched({e})
    /\ made < MaxEnt /\ made' = made + 1 /\ Later(expires[e], now) <= MaxExpiry
    /\ expires' = [expires EXCEPT ![e] = Later(@, now) + 1]
    /\ status' = [status EXCEPT ![e] = "ACTIVE"]
    /\ Disturb
    /\ UNCHANGED <<now, order, completed, for, pc, about, at, kept, hit, grantVars,
                   ending, endAs, release, workVars>>

-----------------------------------------------------------------------------
(* Lapses: rows are struck, then the cascade asks what is left of the user. *)

\* Mutation: the worker goes with the entitlement that ended.
Uncovered(s) == TRUE

\* No running entitlement is left but those in s.
Lapsed(s) == Running(now) \ s = {}

Strike(s, st) ==
    /\ ending = {} /\ s # {} /\ Untouched(s)
    /\ ending' = s /\ endAs' = st
    /\ release' = (worker /\ Lapsed(s))
    /\ UNCHANGED <<now, order, completed, entVars, reqVars, grantVars, quiet, workVars>>

\* The engine's sweep.
Sweep == Strike(Active \ Running(now), "EXPIRED")

\* An admin's revocation.
Revoke(e) == e \in Active /\ Strike({e}, "REVOKED")

EndCommits ==
    /\ ending # {}
    /\ status' = [e \in Ent |-> IF e \in ending THEN endAs ELSE status[e]]
    /\ worker' = (worker /\ ~release)
    /\ ending' = {} /\ endAs' = "NONE" /\ release' = FALSE /\ quiet' = TRUE
    /\ UNCHANGED <<now, order, completed, made, expires, for, pc, about, at, kept, hit, grantVars, assigning>>
    /\ calm' = [r \in Request |-> calm[r] /\ ~(Inside(r) /\ endAs = "REVOKED")]

\* create_broadcast_operation: the subscription is looked at, then a worker reserved.
Admit ==
    /\ ~assigning /\ Running(now) # {}
    /\ assigning' = TRUE
    /\ UNCHANGED <<now, order, completed, entVars, reqVars, grantVars, endVars, worker>>

Assign ==
    /\ assigning
    /\ worker' = TRUE /\ assigning' = FALSE
    /\ UNCHANGED <<now, order, completed, entVars, reqVars, grantVars, endVars>>

Fulfil(r) == Begin(r) \/ Lock(r) \/ Mark(r) \/ Commit(r)

Next ==
    \/ Tick
    \/ \E o \in Order : Create(o) \/ Pay(o)
    \/ \E r \in Request :
          \/ \E o \in Order : Refresh(r, o) \/ Webhook(r, o)
          \/ Fetch(r) \/ Abort(r) \/ Fulfil(r)
    \/ GrantMarks \/ GrantCommits
    \/ \E e \in Ent : Extend(e) \/ Revoke(e)
    \/ Sweep \/ EndCommits
    \/ Admit \/ Assign

Spec == Init /\ [][Next]_vars

\* The user who has paid checks again, or the provider tells again, until one such
\* request is not cut off; a transaction of the engine or an admin ends.
Fairness ==
    /\ \A o \in Order :
          /\ SF_vars(\E r \in Request : Refresh(r, o) \/ Webhook(r, o))
          /\ SF_vars(\E r \in Request : about[r] = o /\ Fetch(r))
          /\ SF_vars(\E r \in Request : about[r] = o /\ Begin(r))
          /\ SF_vars(\E r \in Request : about[r] = o /\ Lock(r))
          /\ SF_vars(\E r \in Request : about[r] = o /\ Mark(r))
          /\ SF_vars(\E r \in Request : about[r] = o /\ Commit(r))
    /\ WF_vars(EndCommits)

FairSpec == Spec /\ Fairness

-----------------------------------------------------------------------------
(* Properties. *)

\* 20260909130000:265: exactly-once fulfilment: an order makes one entitlement, and only
\* once the provider has the money, however many refreshes and webhooks come.
PaidOnce ==
    \A o \in Order :
        /\ Cardinality({e \in Ent : for[e] = o}) = (IF order[o] = "PAID" THEN 1 ELSE 0)
        /\ order[o] = "PAID" => o \in completed

\* 20260909130000:268: a fulfilment preserves the remaining time: its days come on top
\* of what the user had when it was committed, unless an admin came in between.
DaysAreKept ==
    [][\A r \in Request :
          pc[r] = "MARKED" /\ order[about[r]] = "PENDING" /\ order'[about[r]] = "PAID" /\ calm[r]
          => expires'[made'] >= Later(Latest(Running(now)), at[r]) + Days[about[r]]]_vars

\* 20260903000000:78: a user covered by another entitlement keeps his worker when one
\* ends: a sweep or a revocation never takes the worker of the one who has just paid,
\* unless an admin gave him something meanwhile.
CoveredKeepsWorker ==
    [][worker /\ ~worker' /\ quiet => {e \in Ent : status'[e] = "ACTIVE" /\ expires'[e] > now} = {}]_vars

\* A payment the provider has completed is fulfilled, as long as there is room for it.
PaidIsServed ==
    \A o \in Order : o \in completed ~> order[o] = "PAID" \/ made = MaxEnt

\* DaysAreKept with admins at work at the same time.
NoDayIsLost ==
    [][\A r \in Request :
          pc[r] = "MARKED" /\ order[about[r]] = "PENDING" /\ order'[about[r]] = "PAID"
          => expires'[made'] >= Later(Latest(Running(now)), at[r]) + Days[about[r]]]_vars

\* 20260903000000:4: a lapse releases worker assignments: who holds a worker has an
\* entitlement, or at least one the next sweep ends.
WorkerIsCovered == worker => Active # {}
=============================================================================
