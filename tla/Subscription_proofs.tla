------------------------- MODULE Subscription_proofs -------------------------
(***************************************************************************)
(* Proofs about Subscription, for any orders, days, concurrent requests    *)
(* and bounds.                                                             *)
(***************************************************************************)
EXTENDS Subscription, FiniteSetTheorems, TLAPS

\* A request asks about an order the provider has confirmed, and was not begun ahead of time.
RequestIsSound ==
    \A r \in Request :
        /\ pc[r] # "IDLE" => about[r] \in Order
        /\ pc[r] \notin {"IDLE", "ASKING"} => about[r] \in completed
        /\ at[r] >= 0 /\ at[r] <= now

\* One request at a time fulfils, and its order is not paid yet.
OneInside ==
    /\ \A r \in Request : Inside(r) => order[about[r]] = "PENDING"
    /\ \A r, q \in Request : Inside(r) /\ Inside(q) => r = q

\* An entitlement has a number handed out; an order paid has one, any other none.
OrderHasItsOwn ==
    /\ \A e \in Ent : status[e] # "NONE" \/ for[e] # None => e <= made
    /\ \A o \in Order : order[o] = "PAID" =>
          o \in completed /\ \E e \in Ent : \A d \in Ent : for[d] = o <=> d = e
    /\ \A o \in Order : order[o] # "PAID" => \A e \in Ent : for[e] # o

\* What a fulfilment has read and marked covers what is active, as long as no admin came.
CalmIsCurrent ==
    \A r \in Request :
        /\ Inside(r) /\ calm[r] => \A e \in Running(now) : expires[e] <= Later(kept[r], at[r])
        /\ pc[r] = "MARKED" /\ calm[r] => Active \subseteq hit[r]

\* What a lapse has struck stays active until it commits, and while no admin came what
\* else runs is nothing if it is going to release the worker.
LapseIsCurrent ==
    /\ ending \subseteq Active
    /\ ending = {} => ~release
    /\ ending # {} => endAs \in {"REVOKED", "EXPIRED"}
    /\ release /\ quiet => Running(now) \subseteq ending

PaidInv ==
    /\ TypeOK /\ RequestIsSound /\ OneInside /\ OrderHasItsOwn /\ CalmIsCurrent /\ LapseIsCurrent

-----------------------------------------------------------------------------
(* The last day of several entitlements. *)

\* Among some entitlements there is one that ends last.
LEMMA LastExists ==
    ASSUME expires \in [Ent -> Int], NEW s \in SUBSET Ent, s # {}
    PROVE  \E m \in s : \A e \in s : expires[m] >= expires[e]
<1> DEFINE Above(e) == {d \in s : expires[d] > expires[e]}
           Aboves == {Above(e) : e \in s}
<1>1. IsFiniteSet(Ent)
  BY FS_Interval, BoundAssumption DEF Ent
<1>2. Aboves \subseteq FiniteSubsetsOf(Ent) /\ Aboves # {}
  <2>1. FiniteSubsetsOf(Ent) = SUBSET Ent
    BY <1>1, FS_FiniteSubsetsOfFinite
  <2>2. \A e \in s : Above(e) \in SUBSET Ent
    OBVIOUS
  <2>3. Aboves # {}
    <3>1. PICK e \in s : TRUE
      OBVIOUS
    <3>2. Above(e) \in Aboves
      BY <3>1
    <3> QED
      BY <3>2
  <2> QED
    BY <2>1, <2>2, <2>3
<1>3. PICK least \in Aboves : \A other \in Aboves : ~(<<other, least>> \in StrictSubsetOrdering(Ent))
  <2> HIDE DEF Aboves
  <2> QED
    BY <1>2, FS_StrictSubsetOrderingWellFounded, WFMin
<1>4. PICK m \in s : least = Above(m)
  BY <1>3
<1>5. ASSUME NEW e \in s, expires[e] > expires[m] PROVE FALSE
  <2>1. Above(e) \subseteq Above(m) /\ e \in Above(m) /\ e \notin Above(e)
    BY <1>5
  <2>2. <<Above(e), Above(m)>> \in StrictSubsetOrdering(Ent)
    BY <2>1 DEF StrictSubsetOrdering
  <2> QED
    BY <1>3, <1>4, <2>2
<1> QED
  BY <1>5

\* Latest is the last day of a set that is not empty.
LEMMA LatestBounds ==
    ASSUME expires \in [Ent -> Int], NEW s \in SUBSET Ent
    PROVE  /\ Latest(s) \in Int
           /\ \A e \in s : expires[e] <= Latest(s)
           /\ \A n \in Int : n >= 0 /\ (\A e \in s : expires[e] <= n) => Latest(s) <= n
<1>1. CASE s = {}
  BY <1>1 DEF Latest
<1>2. CASE s # {}
  <2> DEFINE P(x) == x \in {expires[e] : e \in s} /\ \A e \in s : x >= expires[e]
  <2>1. \E x : P(x)
    BY <1>2, LastExists
  <2>2. Latest(s) = CHOOSE x : P(x)
    <3>1. (CHOOSE x \in {expires[e] : e \in s} : \A e \in s : x >= expires[e])
          = CHOOSE x : x \in {expires[e] : e \in s} /\ \A e \in s : x >= expires[e]
      OBVIOUS
    <3> QED
      BY <1>2, <3>1 DEF Latest
  <2>3. P(Latest(s))
    <3> HIDE DEF P
    <3> QED
      BY <2>1, <2>2
  <2> QED
    BY <2>3
<1> QED
  BY <1>1, <1>2

-----------------------------------------------------------------------------
(* Types. *)

\* A new entitlement keeps the types.
LEMMA ReplaceType ==
    ASSUME TypeOK, NEW s \in SUBSET Ent, NEW t \in Int, NEW o \in Order \cup {"ADMIN"}, Replace(s, t, o)
    PROVE  /\ made + 1 \in Ent /\ made' = made + 1 /\ made' \in 0..MaxEnt
           /\ status' \in [Ent -> {"NONE", "ACTIVE", "REVOKED", "EXPIRED"}]
           /\ expires' \in [Ent -> Int] /\ for' \in [Ent -> Order \cup {None, "ADMIN"}]
<1>1. made + 1 \in Ent /\ made' = made + 1 /\ made' \in 0..MaxEnt
  BY BoundAssumption DEF TypeOK, Replace, Ent
<1>2. for' \in [Ent -> Order \cup {None, "ADMIN"}] /\ expires' \in [Ent -> Int]
  BY <1>1 DEF TypeOK, Replace
<1>3. status' \in [Ent -> {"NONE", "ACTIVE", "REVOKED", "EXPIRED"}]
  BY DEF TypeOK, Replace
<1> QED
  BY <1>1, <1>2, <1>3

\* So does a request that is over.
LEMMA EndType ==
    ASSUME TypeOK, NEW r \in Request, End(r)
    PROVE  /\ pc' \in [Request -> {"IDLE", "ASKING", "VERIFIED", "WAITING", "READ", "MARKED"}]
           /\ about' \in [Request -> Order \cup {None}]
           /\ at' \in [Request -> Int] /\ kept' \in [Request -> Int]
           /\ hit' \in [Request -> SUBSET Ent] /\ calm' \in [Request -> BOOLEAN]
<1>1. {} \in SUBSET Ent
  OBVIOUS
<1> QED
  BY <1>1 DEF TypeOK, End

\* Every step keeps the types.
LEMMA TypeStep ==
    ASSUME PaidInv, [Next]_vars
    PROVE  TypeOK'
<1> USE DEF entVars, reqVars, grantVars, endVars, workVars
<1>0. TypeOK /\ Active \in SUBSET Ent /\ \A t : Running(t) \in SUBSET Ent
  BY DEF PaidInv, Active, Running
<1>1. CASE Tick
  <2>1. now' \in 0..MaxNow
    BY <1>0, <1>1, BoundAssumption DEF TypeOK, Tick
  <2> QED
    BY <1>0, <1>1, <2>1 DEF TypeOK, Tick
<1>2. ASSUME NEW o \in Order, Create(o) PROVE TypeOK'
  BY <1>0, <1>2 DEF TypeOK, Create
<1>3. ASSUME NEW o \in Order, Pay(o) PROVE TypeOK'
  BY <1>0, <1>3 DEF TypeOK, Pay
<1>4. ASSUME NEW r \in Request, NEW o \in Order, Ask(r, o) PROVE TypeOK'
  BY <1>0, <1>4 DEF TypeOK, Ask
<1>5. ASSUME NEW r \in Request, Fetch(r) PROVE TypeOK'
  BY <1>0, <1>5 DEF TypeOK, Fetch
<1>6. ASSUME NEW r \in Request, Abort(r) PROVE TypeOK'
  BY <1>0, <1>6, EndType DEF TypeOK, Abort
<1>7. ASSUME NEW r \in Request, Begin(r) PROVE TypeOK'
  <2>1. now \in Int
    BY <1>0 DEF TypeOK
  <2> QED
    BY <1>0, <1>7, <2>1 DEF TypeOK, Begin
<1>8. ASSUME NEW r \in Request, Lock(r) PROVE TypeOK'
  <2>1. CASE End(r)
    BY <1>0, <1>8, <2>1, EndType DEF TypeOK, Lock
  <2>2. CASE ~End(r)
    <3>1. Latest(Running(at[r])) \in Int
      BY <1>0, LatestBounds DEF TypeOK
    <3> QED
      BY <1>0, <1>8, <2>2, <3>1 DEF TypeOK, Lock
  <2> QED
    BY <2>1, <2>2
<1>9. ASSUME NEW r \in Request, Mark(r) PROVE TypeOK'
  BY <1>0, <1>9 DEF TypeOK, Mark
<1>10. ASSUME NEW r \in Request, Commit(r) PROVE TypeOK'
  <2>1. about[r] \in Order
    BY <1>10 DEF PaidInv, RequestIsSound, Commit
  <2>2. hit[r] \in SUBSET Ent /\ Later(kept[r], at[r]) + Days[about[r]] \in Int
    BY <1>0, <2>1, DaysAssumption DEF TypeOK, Later
  <2>3. Replace(hit[r], Later(kept[r], at[r]) + Days[about[r]], about[r]) /\ End(r)
    BY <1>10 DEF Commit
  <2>4. /\ made' \in 0..MaxEnt
        /\ status' \in [Ent -> {"NONE", "ACTIVE", "REVOKED", "EXPIRED"}]
        /\ expires' \in [Ent -> Int] /\ for' \in [Ent -> Order \cup {None, "ADMIN"}]
    BY <1>0, <2>1, <2>2, <2>3, ReplaceType
  <2>5. /\ order' \in [Order -> {"NONE", "PENDING", "PAID"}]
        /\ quiet' \in BOOLEAN
    <3>1. quiet \in BOOLEAN /\ calm[r] \in BOOLEAN /\ quiet' = (quiet /\ calm[r])
      BY <1>0, <1>10 DEF TypeOK, Commit
    <3>2. order' \in [Order -> {"NONE", "PENDING", "PAID"}]
      BY <1>0, <1>10 DEF TypeOK, Commit
    <3> QED
      BY <3>1, <3>2
  <2>6. UNCHANGED <<now, completed, grantVars, ending, endAs, release, workVars>>
    BY <1>10 DEF Commit
  <2> QED
    BY <1>0, <2>3, <2>4, <2>5, <2>6, EndType DEF TypeOK
<1>11. CASE GrantMarks
  BY <1>0, <1>11 DEF TypeOK, GrantMarks
<1>12. ASSUME Disturb PROVE calm' \in [Request -> BOOLEAN] /\ quiet' \in BOOLEAN
  BY <1>0, <1>12 DEF TypeOK, Disturb
<1>13. CASE GrantCommits
  <2>1. /\ made' \in 0..MaxEnt
        /\ status' \in [Ent -> {"NONE", "ACTIVE", "REVOKED", "EXPIRED"}]
        /\ expires' \in [Ent -> Int] /\ for' \in [Ent -> Order \cup {None, "ADMIN"}]
    <3>1. grant \in SUBSET Ent /\ began + 1 \in Int /\ Replace(grant, began + 1, "ADMIN")
      BY <1>0, <1>13 DEF TypeOK, GrantCommits
    <3> QED
      BY <1>0, <3>1, ReplaceType
  <2> QED
    BY <1>0, <1>12, <1>13, <2>1 DEF TypeOK, GrantCommits
<1>14. ASSUME NEW e \in Ent, Extend(e) PROVE TypeOK'
  <2>1. made' \in 0..MaxEnt /\ Later(expires[e], now) + 1 \in Int
    BY <1>0, <1>14, BoundAssumption DEF TypeOK, Extend, Later
  <2>2. expires' = [expires EXCEPT ![e] = Later(expires[e], now) + 1]
    BY <1>14 DEF Extend
  <2>3. expires' \in [Ent -> Int] /\ status' \in [Ent -> {"NONE", "ACTIVE", "REVOKED", "EXPIRED"}]
    BY <1>0, <1>14, <2>1, <2>2 DEF TypeOK, Extend
  <2> QED
    BY <1>0, <1>12, <1>14, <2>1, <2>3 DEF TypeOK, Extend
<1>15. ASSUME NEW s \in SUBSET Ent, NEW st \in {"EXPIRED", "REVOKED"}, Strike(s, st) PROVE TypeOK'
  BY <1>0, <1>15 DEF TypeOK, Strike
<1>16. CASE EndCommits
  <2>1. status' \in [Ent -> {"NONE", "ACTIVE", "REVOKED", "EXPIRED"}]
    BY <1>0, <1>16 DEF TypeOK, EndCommits
  <2>2. calm' \in [Request -> BOOLEAN]
    BY <1>0, <1>16 DEF TypeOK, EndCommits
  <2>3. worker' \in BOOLEAN
    BY <1>0, <1>16, Zenon DEF TypeOK, EndCommits
  <2> QED
    BY <1>0, <1>16, <2>1, <2>2, <2>3 DEF TypeOK, EndCommits
<1>17. CASE Admit \/ Assign
  BY <1>0, <1>17 DEF TypeOK, Admit, Assign
<1>18. CASE UNCHANGED vars
  BY <1>0, <1>18 DEF TypeOK, vars
<1> QED
  BY <1>0, <1>1, <1>2, <1>3, <1>4, <1>5, <1>6, <1>7, <1>8, <1>9, <1>10, <1>11, <1>13, <1>14, <1>15, <1>16,
     <1>17, <1>18 DEF Next, Refresh, Webhook, Fulfil, Sweep, Revoke

-----------------------------------------------------------------------------
(* The invariant. *)

\* It holds at the start.
LEMMA PaidInit == Init => PaidInv
<1> SUFFICES ASSUME Init PROVE PaidInv
  OBVIOUS
<1>1. TypeOK
  <2>1. /\ now \in 0..MaxNow /\ made \in 0..MaxEnt /\ completed \subseteq Order
        /\ order \in [Order -> {"NONE", "PENDING", "PAID"}]
        /\ status \in [Ent -> {"NONE", "ACTIVE", "REVOKED", "EXPIRED"}] /\ expires \in [Ent -> Int]
        /\ for \in [Ent -> Order \cup {None, "ADMIN"}]
    BY BoundAssumption DEF Init
  <2>2. /\ pc \in [Request -> {"IDLE", "ASKING", "VERIFIED", "WAITING", "READ", "MARKED"}]
        /\ about \in [Request -> Order \cup {None}]
        /\ at \in [Request -> Int] /\ kept \in [Request -> Int]
    BY DEF Init
  <2>3. hit \in [Request -> SUBSET Ent] /\ calm \in [Request -> BOOLEAN]
    <3>1. {} \in SUBSET Ent /\ TRUE \in BOOLEAN
      OBVIOUS
    <3> QED
      BY <3>1, Zenon DEF Init
  <2>4. /\ grant \subseteq Ent /\ began \in Int /\ ending \subseteq Ent /\ endAs \in {"NONE", "REVOKED", "EXPIRED"}
    BY DEF Init
  <2>5. release \in BOOLEAN /\ quiet \in BOOLEAN /\ worker \in BOOLEAN /\ assigning \in BOOLEAN
    BY DEF Init
  <2> QED
    BY <2>1, <2>2, <2>3, <2>4, <2>5 DEF TypeOK
<1>2. RequestIsSound /\ OneInside /\ OrderHasItsOwn
  BY OrderAssumption DEF Init, RequestIsSound, OneInside, OrderHasItsOwn, Inside, None
<1>3. CalmIsCurrent /\ LapseIsCurrent
  BY DEF Init, CalmIsCurrent, LapseIsCurrent, Inside, Active
<1> QED
  BY <1>1, <1>2, <1>3 DEF PaidInv

\* Every request but r is where it was.
OthersWait(r) ==
    \A q \in Request \ {r} :
        /\ pc'[q] = pc[q] /\ about'[q] = about[q] /\ at'[q] = at[q]
        /\ kept'[q] = kept[q] /\ hit'[q] = hit[q] /\ calm'[q] = calm[q]

\* Time goes by, orders are made and paid for, admins and operations of the user begin.
LEMMA OutsideStep ==
    ASSUME PaidInv, TypeOK', UNCHANGED <<entVars, reqVars, endVars>>, now' >= now, completed \subseteq completed',
           \A o \in Order : order'[o] = order[o] \/ (order[o] = "NONE" /\ order'[o] = "PENDING")
    PROVE  PaidInv'
<1> USE DEF entVars, reqVars, endVars
<1>1. RequestIsSound'
  BY DEF PaidInv, RequestIsSound, TypeOK
<1>2. OneInside'
  BY DEF PaidInv, OneInside, Inside, RequestIsSound
<1>3. OrderHasItsOwn'
  BY DEF PaidInv, OrderHasItsOwn
<1>4. Active' = Active /\ Running(now)' \subseteq Running(now)
  BY DEF Active, Running, PaidInv, TypeOK
<1>5. CalmIsCurrent' /\ LapseIsCurrent'
  BY <1>4 DEF PaidInv, CalmIsCurrent, LapseIsCurrent, Inside
<1> QED
  BY <1>1, <1>2, <1>3, <1>5 DEF PaidInv

\* A request that is not inside the transaction: it asks, is answered, begins or ends.
LEMMA RequestStep ==
    ASSUME PaidInv, TypeOK', NEW r \in Request, OthersWait(r), ~Inside(r)',
           UNCHANGED <<now, order, completed, entVars, endVars>>,
           /\ pc'[r] # "IDLE" => about'[r] \in Order
           /\ pc'[r] \notin {"IDLE", "ASKING"} => about'[r] \in completed
           /\ at'[r] >= 0 /\ at'[r] <= now
    PROVE  PaidInv'
<1> USE DEF entVars, endVars
<1>1. RequestIsSound'
  BY DEF PaidInv, RequestIsSound, OthersWait
<1>2. \A q \in Request : Inside(q)' => q # r /\ Inside(q)
  BY DEF OthersWait, Inside
<1>3. OneInside'
  BY <1>2 DEF PaidInv, OneInside, OthersWait
<1>4. OrderHasItsOwn'
  BY DEF PaidInv, OrderHasItsOwn
<1>5. Active' = Active /\ Running(now)' = Running(now)
  BY DEF Active, Running
<1>6. CalmIsCurrent'
  <2> SUFFICES ASSUME NEW q \in Request, Inside(q)', calm'[q]
               PROVE  /\ \A e \in Running(now)' : expires'[e] <= Later(kept'[q], at'[q])
                      /\ pc'[q] = "MARKED" => Active' \subseteq hit'[q]
    BY DEF CalmIsCurrent, Inside
  <2>1. q # r /\ Inside(q)
    BY <1>2
  <2> QED
    BY <1>5, <2>1 DEF PaidInv, CalmIsCurrent, OthersWait
<1>7. LapseIsCurrent'
  BY <1>5 DEF PaidInv, LapseIsCurrent
<1> QED
  BY <1>1, <1>3, <1>4, <1>6, <1>7 DEF PaidInv

\* A request has the locks: it finds its order still to be paid for, and reads until when
\* the user is covered.
LEMMA LockStep ==
    ASSUME PaidInv, TypeOK', NEW r \in Request, Lock(r)
    PROVE  PaidInv'
<1> USE DEF entVars, reqVars, endVars
<1>0. /\ pc[r] = "WAITING" /\ LocksFree(r) /\ UNCHANGED <<now, order, completed, entVars, endVars>>
      /\ about[r] \in Order /\ about[r] \in completed /\ at[r] >= 0 /\ at[r] <= now /\ at[r] \in Int /\ now \in Int
  BY DEF Lock, PaidInv, RequestIsSound, TypeOK
<1>1. CASE End(r)
  <2>1. OthersWait(r) /\ pc'[r] = "IDLE" /\ at'[r] = 0
    BY <1>1 DEF End, OthersWait, PaidInv, TypeOK
  <2>2. 0 <= now
    BY <1>0
  <2> QED
    BY <1>0, <2>1, <2>2, RequestStep DEF Inside
<1>2. CASE /\ Payable(r) /\ pc' = [pc EXCEPT ![r] = "READ"]
           /\ kept' = [kept EXCEPT ![r] = Latest(Running(at[r]))]
           /\ UNCHANGED <<about, at, hit, calm>>
  <2>1. /\ pc'[r] = "READ" /\ kept'[r] = Latest(Running(at[r])) /\ OthersWait(r)
    BY <1>2 DEF OthersWait, PaidInv, TypeOK
  <2>2. RequestIsSound'
    BY <1>0, <1>2, <2>1 DEF PaidInv, RequestIsSound, OthersWait
  <2>3. \A q \in Request : Inside(q)' => q = r
    BY <1>0, <2>1 DEF OthersWait, Inside, LocksFree
  <2>4. OneInside'
    BY <1>0, <1>2, <2>3 DEF OneInside, Payable
  <2>5. OrderHasItsOwn'
    BY <1>0 DEF PaidInv, OrderHasItsOwn
  <2>6. Active' = Active /\ Running(now)' = Running(now) /\ Running(now) \subseteq Running(at[r])
        /\ Running(at[r]) \in SUBSET Ent
    BY <1>0 DEF Active, Running, PaidInv, TypeOK
  <2>7. \A e \in Running(now)' : expires'[e] <= Later(kept'[r], at'[r])
    <3>1. \A e \in Running(now)' : expires'[e] \in Int /\ expires'[e] <= kept'[r]
      BY <1>0, <2>1, <2>6, LatestBounds DEF PaidInv, TypeOK
    <3>2. kept'[r] \in Int /\ at'[r] \in Int
      BY DEF TypeOK
    <3> QED
      BY <3>1, <3>2 DEF Later
  <2>8. CalmIsCurrent'
    BY <2>1, <2>3, <2>7 DEF CalmIsCurrent, Inside
  <2>9. LapseIsCurrent'
    BY <1>0, <2>6 DEF PaidInv, LapseIsCurrent
  <2> QED
    BY <2>2, <2>4, <2>5, <2>8, <2>9 DEF PaidInv
<1> QED
  BY <1>1, <1>2 DEF Lock

\* It marks what is active.
LEMMA MarkStep ==
    ASSUME PaidInv, TypeOK', NEW r \in Request, Mark(r)
    PROVE  PaidInv'
<1> USE DEF entVars, reqVars, endVars
<1>0. /\ pc[r] = "READ" /\ pc' = [pc EXCEPT ![r] = "MARKED"] /\ hit' = [hit EXCEPT ![r] = Active]
      /\ UNCHANGED <<now, order, completed, entVars, endVars, about, at, kept, calm>>
  BY DEF Mark
<1>1. OthersWait(r) /\ pc'[r] = "MARKED" /\ hit'[r] = Active
  BY <1>0 DEF OthersWait, PaidInv, TypeOK
<1>2. RequestIsSound'
  BY <1>0, <1>1 DEF PaidInv, RequestIsSound, OthersWait
<1>3. \A q \in Request : Inside(q)' => Inside(q)
  BY <1>0, <1>1 DEF OthersWait, Inside
<1>4. OneInside' /\ OrderHasItsOwn'
  BY <1>0, <1>3 DEF PaidInv, OneInside, OrderHasItsOwn
<1>5. Active' = Active /\ Running(now)' = Running(now)
  BY <1>0 DEF Active, Running
<1>6. CalmIsCurrent'
  <2> SUFFICES ASSUME NEW q \in Request, Inside(q)', calm'[q]
               PROVE  /\ \A e \in Running(now)' : expires'[e] <= Later(kept'[q], at'[q])
                      /\ pc'[q] = "MARKED" => Active' \subseteq hit'[q]
    BY DEF CalmIsCurrent, Inside
  <2>1. \A e \in Running(now)' : expires'[e] <= Later(kept'[q], at'[q])
    BY <1>0, <1>3, <1>5 DEF PaidInv, CalmIsCurrent
  <2>2. ASSUME pc'[q] = "MARKED" PROVE Active' \subseteq hit'[q]
    BY <1>0, <1>1, <1>5, <2>2 DEF PaidInv, CalmIsCurrent, OthersWait
  <2> QED
    BY <2>1, <2>2
<1>7. LapseIsCurrent'
  BY <1>0, <1>5 DEF PaidInv, LapseIsCurrent
<1> QED
  BY <1>2, <1>4, <1>6, <1>7 DEF PaidInv

\* A new entitlement has a number of its own and leaves what a lapse has struck alone.
LEMMA ReplaceEffect ==
    ASSUME PaidInv, NEW s \in SUBSET Ent, NEW t \in Int, NEW o \in Order \cup {"ADMIN"},
           Replace(s, t, o), Free(s)
    PROVE  /\ made + 1 \in Ent /\ for[made + 1] = None /\ for'[made + 1] = o
           /\ made' = made + 1 /\ expires'[made + 1] = t
           /\ \A e \in Ent \ {made + 1} : for'[e] = for[e]
           /\ \A e \in Ent : status'[e] # "NONE" \/ for'[e] # None => e <= made'
           /\ ending \subseteq Active'
<1>1. made + 1 \in Ent /\ made' = made + 1 /\ made \in Nat
  BY BoundAssumption DEF Replace, Ent, PaidInv, TypeOK
<1>2. /\ for'[made + 1] = o /\ expires'[made + 1] = t
      /\ \A e \in Ent \ {made + 1} : for'[e] = for[e]
  BY <1>1 DEF Replace, PaidInv, TypeOK
<1>3. for[made + 1] = None
  BY <1>1 DEF PaidInv, OrderHasItsOwn
<1>4. \A e \in Ent : status'[e] = IF e = made + 1 THEN "ACTIVE"
                                  ELSE IF e \in s \cap Active THEN "REVOKED" ELSE status[e]
  BY DEF Replace
<1>5. ASSUME NEW e \in Ent, status'[e] # "NONE" \/ for'[e] # None PROVE e <= made'
  <2>1. CASE e = made + 1
    BY <1>1, <2>1
  <2>2. CASE e # made + 1
    <3>1. status[e] # "NONE" \/ for[e] # None
      BY <1>2, <1>4, <1>5, <2>2 DEF Active
    <3>2. e <= made /\ e \in Int
      BY <3>1 DEF PaidInv, OrderHasItsOwn, Ent
    <3> QED
      BY <1>1, <3>2
  <2> QED
    BY <2>1, <2>2
<1>6. ending \subseteq Active'
  <2> SUFFICES ASSUME NEW e \in ending PROVE e \in Ent /\ status'[e] = "ACTIVE"
    BY DEF Active
  <2>1. e \in Active /\ e \notin s
    BY DEF PaidInv, LapseIsCurrent, Free
  <2> QED
    BY <1>4, <2>1 DEF Active
<1> QED
  BY <1>1, <1>2, <1>3, <1>5, <1>6

\* The order is paid and its entitlement made.
LEMMA CommitStep ==
    ASSUME PaidInv, TypeOK', NEW r \in Request, Commit(r)
    PROVE  PaidInv'
<1> USE DEF entVars, reqVars, endVars
<1> DEFINE o == about[r]
<1>0. /\ pc[r] = "MARKED" /\ Inside(r) /\ o \in Order /\ o \in completed /\ order[o] = "PENDING"
      /\ order' = [order EXCEPT ![o] = "PAID"] /\ quiet' = (quiet /\ calm[r])
      /\ UNCHANGED <<now, completed, ending, endAs, release>>
      /\ End(r) /\ Free(hit[r]) /\ Replace(hit[r], Later(kept[r], at[r]) + Days[o], o)
      /\ hit[r] \in SUBSET Ent /\ Later(kept[r], at[r]) + Days[o] \in Int
  <2>1. pc[r] = "MARKED" /\ Inside(r) /\ o \in Order /\ o \in completed /\ order[o] = "PENDING"
    BY DEF Commit, PaidInv, RequestIsSound, OneInside, Inside
  <2>2. hit[r] \in SUBSET Ent /\ Later(kept[r], at[r]) + Days[o] \in Int
    BY <2>1, DaysAssumption DEF PaidInv, TypeOK, Later
  <2> QED
    BY <2>1, <2>2 DEF Commit
<1>1. /\ for[made + 1] = None /\ for'[made + 1] = o /\ made + 1 \in Ent
      /\ \A e \in Ent \ {made + 1} : for'[e] = for[e]
      /\ \A e \in Ent : status'[e] # "NONE" \/ for'[e] # None => e <= made'
      /\ ending \subseteq Active'
  BY <1>0, ReplaceEffect
<1>2. OthersWait(r) /\ pc'[r] = "IDLE" /\ at'[r] = 0 /\ 0 <= now
  BY <1>0 DEF End, OthersWait, PaidInv, TypeOK
<1>3. RequestIsSound'
  BY <1>0, <1>2 DEF PaidInv, RequestIsSound, OthersWait
<1>4. \A q \in Request : ~Inside(q)'
  <2>1. \A q \in Request \ {r} : ~Inside(q)
    BY <1>0 DEF PaidInv, OneInside
  <2> QED
    BY <1>2, <2>1 DEF OthersWait, Inside
<1>5. OneInside'
  BY <1>4 DEF OneInside
<1>6. OrderHasItsOwn'
  <2>1. ASSUME NEW p \in Order, order'[p] = "PAID"
        PROVE  p \in completed' /\ \E e \in Ent : \A d \in Ent : for'[d] = p <=> d = e
    <3>1. CASE p = o
      <4>1. \A d \in Ent : for[d] # o
        BY <1>0 DEF PaidInv, OrderHasItsOwn
      <4>2. \A d \in Ent : for'[d] = o <=> d = made + 1
        BY <1>1, <4>1
      <4> QED
        BY <1>0, <1>1, <3>1, <4>2
    <3>2. CASE p # o
      <4>1. order[p] = "PAID"
        BY <1>0, <2>1, <3>2 DEF PaidInv, TypeOK
      <4>2. PICK e \in Ent : \A d \in Ent : for[d] = p <=> d = e
        BY <4>1 DEF PaidInv, OrderHasItsOwn
      <4>3. p # None
        BY OrderAssumption DEF None
      <4>4. \A d \in Ent : for'[d] = p <=> d = e
        BY <1>1, <3>2, <4>2, <4>3
      <4> QED
        BY <1>0, <4>1, <4>4 DEF PaidInv, OrderHasItsOwn
    <3> QED
      BY <3>1, <3>2
  <2>2. ASSUME NEW p \in Order, order'[p] # "PAID" PROVE \A e \in Ent : for'[e] # p
    <3>1. p # o /\ order[p] # "PAID"
      BY <1>0, <2>2 DEF PaidInv, TypeOK
    <3> QED
      BY <1>1, <3>1 DEF PaidInv, OrderHasItsOwn
  <2> QED
    BY <1>1, <2>1, <2>2 DEF OrderHasItsOwn
<1>7. CalmIsCurrent'
  BY <1>4 DEF CalmIsCurrent, Inside
<1>8. LapseIsCurrent'
  <2>1. ASSUME ending # {} PROVE ~calm[r]
    BY <1>0, <2>1 DEF PaidInv, CalmIsCurrent, LapseIsCurrent, Free
  <2> QED
    BY <1>0, <1>1, <2>1 DEF PaidInv, LapseIsCurrent
<1> QED
  BY <1>3, <1>5, <1>6, <1>7, <1>8 DEF PaidInv

\* An admin changes the entitlements: what was read before is no longer trusted.
LEMMA DisturbStep ==
    ASSUME PaidInv, TypeOK', Disturb, UNCHANGED <<now, order, completed, pc, about, at, ending, endAs, release>>,
           ending \subseteq Active',
           \A e \in Ent : status'[e] # "NONE" \/ for'[e] # None => e <= made',
           \A e \in Ent, o \in Order : for'[e] = o <=> for[e] = o
    PROVE  PaidInv'
<1>1. RequestIsSound' /\ OneInside'
  BY DEF PaidInv, RequestIsSound, OneInside, Inside
<1>2. OrderHasItsOwn'
  <2>1. ASSUME NEW p \in Order, order'[p] = "PAID"
        PROVE  p \in completed' /\ \E e \in Ent : \A d \in Ent : for'[d] = p <=> d = e
    <3>1. PICK e \in Ent : \A d \in Ent : for[d] = p <=> d = e
      BY <2>1 DEF PaidInv, OrderHasItsOwn
    <3>2. p \in completed'
      BY <2>1 DEF PaidInv, OrderHasItsOwn
    <3> QED
      BY <3>1, <3>2
  <2> QED
    BY <2>1 DEF PaidInv, OrderHasItsOwn
<1>3. \A r \in Request : Inside(r)' => ~calm'[r]
  BY DEF Disturb, Inside
<1>4. CalmIsCurrent'
  BY <1>3 DEF CalmIsCurrent, Inside
<1>5. LapseIsCurrent'
  BY DEF Disturb, PaidInv, LapseIsCurrent
<1> QED
  BY <1>1, <1>2, <1>4, <1>5 DEF PaidInv

\* A grant or an extension is committed.
LEMMA AdminStep ==
    ASSUME PaidInv, TypeOK', GrantCommits \/ (\E e \in Ent : Extend(e))
    PROVE  PaidInv'
<1>1. CASE GrantCommits
  <2>1. grant \in SUBSET Ent /\ began + 1 \in Int
    BY DEF PaidInv, TypeOK
  <2>2. /\ for[made + 1] = None /\ for'[made + 1] = "ADMIN" /\ made + 1 \in Ent
        /\ \A e \in Ent \ {made + 1} : for'[e] = for[e]
        /\ \A e \in Ent : status'[e] # "NONE" \/ for'[e] # None => e <= made'
        /\ ending \subseteq Active'
    BY <1>1, <2>1, ReplaceEffect DEF GrantCommits
  <2>3. \A e \in Ent, o \in Order : for'[e] = o <=> for[e] = o
    BY <2>2, OrderAssumption DEF None
  <2> QED
    BY <1>1, <2>2, <2>3, DisturbStep DEF GrantCommits
<1>2. ASSUME NEW e \in Ent, Extend(e) PROVE PaidInv'
  <2>1. made' = made + 1 /\ made \in Int /\ \A d \in Ent : d \in Int
    BY <1>2 DEF Extend, PaidInv, TypeOK, Ent
  <2>2. \A d \in Ent : status[d] # "NONE" \/ for[d] # None => d <= made
    BY DEF PaidInv, OrderHasItsOwn
  <2>3. status[e] # "NONE" /\ status' = [status EXCEPT ![e] = "ACTIVE"] /\ for' = for
    BY <1>2 DEF Extend
  <2>4. \A d \in Ent : status'[d] # "NONE" \/ for'[d] # None => d <= made'
    BY <2>1, <2>2, <2>3 DEF PaidInv, TypeOK
  <2>5. ending \subseteq Active'
    BY <2>3 DEF PaidInv, LapseIsCurrent, Active, TypeOK
  <2> QED
    BY <1>2, <2>3, <2>4, <2>5, DisturbStep DEF Extend
<1> QED
  BY <1>1, <1>2

\* A sweep or a revocation strikes.
LEMMA StrikeStep ==
    ASSUME PaidInv, TypeOK', NEW s \in SUBSET Active, NEW st \in {"EXPIRED", "REVOKED"}, Strike(s, st)
    PROVE  PaidInv'
<1> USE DEF entVars, reqVars
<1>0. /\ s # {} /\ ending' = s /\ endAs' = st /\ release' = (worker /\ Lapsed(s))
      /\ UNCHANGED <<now, order, completed, entVars, reqVars, quiet>>
  BY DEF Strike
<1>1. RequestIsSound' /\ OneInside'
  BY <1>0 DEF PaidInv, RequestIsSound, OneInside, Inside
<1>2. OrderHasItsOwn'
  BY <1>0 DEF PaidInv, OrderHasItsOwn
<1>3. Active' = Active /\ Running(now)' = Running(now)
  BY <1>0 DEF Active, Running
<1>4. CalmIsCurrent'
  BY <1>0, <1>3 DEF PaidInv, CalmIsCurrent, Inside
<1>5. LapseIsCurrent'
  BY <1>0, <1>3 DEF LapseIsCurrent, Lapsed
<1> QED
  BY <1>1, <1>2, <1>4, <1>5 DEF PaidInv

\* It commits: fewer entitlements are active.
LEMMA EndStep ==
    ASSUME PaidInv, TypeOK', EndCommits
    PROVE  PaidInv'
<1>0. /\ status' = [e \in Ent |-> IF e \in ending THEN endAs ELSE status[e]]
      /\ endAs \in {"REVOKED", "EXPIRED"} /\ ending \subseteq Active /\ ending' = {} /\ release' = FALSE
      /\ UNCHANGED <<now, order, completed, made, expires, for, pc, about, at, kept, hit>>
      /\ \A r \in Request : calm'[r] => calm[r]
  BY DEF EndCommits, PaidInv, LapseIsCurrent
<1>1. RequestIsSound' /\ OneInside'
  BY <1>0 DEF PaidInv, RequestIsSound, OneInside, Inside
<1>2. Active' \subseteq Active /\ Running(now)' \subseteq Running(now)
  BY <1>0 DEF Active, Running
<1>3. OrderHasItsOwn'
  <2>1. \A e \in Ent : status'[e] # "NONE" => status[e] # "NONE"
    BY <1>0 DEF Active
  <2> QED
    BY <1>0, <2>1 DEF PaidInv, OrderHasItsOwn
<1>4. CalmIsCurrent'
  BY <1>0, <1>2 DEF PaidInv, CalmIsCurrent, Inside
<1>5. LapseIsCurrent'
  BY <1>0 DEF LapseIsCurrent
<1> QED
  BY <1>1, <1>3, <1>4, <1>5 DEF PaidInv

\* A request before or outside the transaction asks, is answered, begins or ends.
LEMMA AskStep ==
    ASSUME PaidInv, TypeOK', NEW r \in Request,
           (\E o \in Order : Ask(r, o)) \/ Fetch(r) \/ Begin(r) \/ Abort(r)
    PROVE  PaidInv'
<1> USE DEF entVars, reqVars, endVars
<1>0. UNCHANGED <<now, order, completed, entVars, endVars>>
  BY DEF Ask, Fetch, Begin, Abort
<1>1. /\ about[r] \in Order \/ pc[r] = "IDLE"
      /\ at[r] >= 0 /\ at[r] <= now /\ 0 <= now /\ now <= now
      /\ pc[r] \notin {"IDLE", "ASKING"} => about[r] \in completed
  BY DEF PaidInv, RequestIsSound, TypeOK
<1>2. OthersWait(r)
  BY DEF Ask, Fetch, Begin, Abort, End, OthersWait, PaidInv, TypeOK
<1>3. CASE \E o \in Order : Ask(r, o)
  <2>1. pc'[r] = "ASKING" /\ about'[r] \in Order /\ at'[r] = at[r]
    BY <1>3 DEF Ask, PaidInv, TypeOK
  <2> QED
    BY <1>0, <1>1, <1>2, <2>1, RequestStep DEF Inside
<1>4. CASE Fetch(r)
  <2>1. pc'[r] = "VERIFIED" /\ about'[r] = about[r] /\ at'[r] = at[r] /\ about[r] \in completed /\ about[r] \in Order
    BY <1>1, <1>4 DEF Fetch, Verified, PaidInv, TypeOK
  <2> QED
    BY <1>0, <1>1, <1>2, <2>1, RequestStep DEF Inside
<1>5. CASE Begin(r)
  <2>1. pc'[r] = "WAITING" /\ about'[r] = about[r] /\ at'[r] = now /\ about[r] \in completed /\ about[r] \in Order
    BY <1>1, <1>5 DEF Begin, PaidInv, TypeOK
  <2> QED
    BY <1>0, <1>1, <1>2, <2>1, RequestStep DEF Inside
<1>6. CASE Abort(r)
  <2>1. pc'[r] = "IDLE" /\ at'[r] = 0
    BY <1>6 DEF Abort, End, PaidInv, TypeOK
  <2> QED
    BY <1>0, <1>1, <1>2, <2>1, RequestStep DEF Inside
<1> QED
  BY <1>3, <1>4, <1>5, <1>6

\* Every step keeps the invariant.
LEMMA PaidStep == PaidInv /\ [Next]_vars => PaidInv'
<1> SUFFICES ASSUME PaidInv, [Next]_vars PROVE PaidInv'
  OBVIOUS
<1>0. TypeOK' /\ now \in Int /\ now + 1 \in Int /\ now <= now /\ now <= now + 1
  BY TypeStep DEF PaidInv, TypeOK
<1>1. CASE Tick \/ GrantMarks \/ Admit \/ Assign \/ UNCHANGED vars \/ (\E o \in Order : Create(o) \/ Pay(o))
  <2>1. UNCHANGED <<entVars, reqVars, endVars>>
    BY <1>1 DEF Tick, GrantMarks, Admit, Assign, vars, Create, Pay
  <2>2. now' = now \/ now' = now + 1
    BY <1>1 DEF Tick, GrantMarks, Admit, Assign, vars, Create, Pay
  <2>3. completed \subseteq completed'
    BY <1>1 DEF Tick, GrantMarks, Admit, Assign, vars, Create, Pay
  <2>4. order' = order \/ \E o \in Order : order[o] = "NONE" /\ order' = [order EXCEPT ![o] = "PENDING"]
    BY <1>1 DEF Tick, GrantMarks, Admit, Assign, vars, Create, Pay
  <2>5. \A o \in Order : order'[o] = order[o] \/ (order[o] = "NONE" /\ order'[o] = "PENDING")
    BY <2>4 DEF PaidInv, TypeOK
  <2> QED
    BY <1>0, <2>1, <2>2, <2>3, <2>5, OutsideStep
<1>2. ASSUME NEW s \in SUBSET Active, NEW st \in {"EXPIRED", "REVOKED"}, Strike(s, st) PROVE PaidInv'
  BY <1>0, <1>2, StrikeStep
<1>3. CASE Sweep \/ (\E e \in Ent : Revoke(e))
  <2>1. Active \ Running(now) \in SUBSET Active /\ \A e \in Active : {e} \in SUBSET Active
    OBVIOUS
  <2> QED
    BY <1>2, <1>3, <2>1 DEF Sweep, Revoke
<1> QED
  BY <1>0, <1>1, <1>3, AskStep, LockStep, MarkStep, CommitStep, AdminStep, EndStep
     DEF Next, Refresh, Webhook, Fulfil

-----------------------------------------------------------------------------
(* The theorems. *)

\* Whatever users, admins, the provider and time do, the invariant holds.
THEOREM SubscriptionInvariant == Spec => []PaidInv
<1> QED
  BY PaidInit, PaidStep, PTL DEF Spec

\* Each part of the state always has its type.
THEOREM SubscriptionTypeOK == Spec => []TypeOK
<1>1. PaidInv => TypeOK
  BY DEF PaidInv
<1> QED
  BY SubscriptionInvariant, <1>1, PTL

\* An order makes one entitlement, and only once the provider has the money, however
\* many refreshes and webhooks tell of it.
THEOREM SubscriptionPaidOnce == Spec => []PaidOnce
<1>1. ASSUME PaidInv PROVE PaidOnce
  <2> SUFFICES ASSUME NEW o \in Order
               PROVE  /\ Cardinality({e \in Ent : for[e] = o}) = (IF order[o] = "PAID" THEN 1 ELSE 0)
                      /\ order[o] = "PAID" => o \in completed
    BY DEF PaidOnce
  <2>1. CASE order[o] = "PAID"
    <3>1. PICK e \in Ent : \A d \in Ent : for[d] = o <=> d = e
      BY <1>1, <2>1 DEF PaidInv, OrderHasItsOwn
    <3>2. {d \in Ent : for[d] = o} = {e}
      BY <3>1
    <3>3. Cardinality({e}) = 1
      BY FS_Singleton
    <3>4. o \in completed
      BY <1>1, <2>1 DEF PaidInv, OrderHasItsOwn
    <3> QED
      BY <2>1, <3>2, <3>3, <3>4
  <2>2. CASE order[o] # "PAID"
    <3>1. {d \in Ent : for[d] = o} = {}
      BY <1>1, <2>2 DEF PaidInv, OrderHasItsOwn
    <3>2. Cardinality({}) = 0
      BY FS_EmptySet
    <3> QED
      BY <2>2, <3>1, <3>2
  <2> QED
    BY <2>1, <2>2
<1> QED
  BY SubscriptionInvariant, <1>1, PTL

\* Only a commit makes an order paid.
LEMMA PaidByCommit ==
    ASSUME PaidInv, [Next]_vars, NEW o \in Order, order[o] = "PENDING", order'[o] = "PAID"
    PROVE  \E r \in Request : Commit(r) /\ about[r] = o
<1> USE DEF entVars, reqVars, endVars
<1>1. order \in [Order -> {"NONE", "PENDING", "PAID"}]
  BY DEF PaidInv, TypeOK
<1>2. ASSUME NEW p \in Order, Create(p) PROVE FALSE
  BY <1>1, <1>2 DEF Create
<1>3. order' # order
  OBVIOUS
<1>4. CASE UNCHANGED vars
  BY <1>3, <1>4 DEF vars
<1>5. CASE \E r \in Request : Commit(r)
  <2>1. PICK r \in Request : Commit(r)
    BY <1>5
  <2>2. order' = [order EXCEPT ![about[r]] = "PAID"]
    BY <2>1 DEF Commit
  <2>3. about[r] = o
    BY <1>1, <2>2
  <2> QED
    BY <2>1, <2>3
<1>6. CASE \E r \in Request : \/ \E p \in Order : Refresh(r, p) \/ Webhook(r, p)
                              \/ Fetch(r) \/ Abort(r) \/ Begin(r) \/ Lock(r) \/ Mark(r)
  BY <1>3, <1>6 DEF Refresh, Webhook, Ask, Fetch, Abort, Begin, Lock, Mark
<1>7. CASE \/ Tick \/ GrantMarks \/ GrantCommits \/ EndCommits \/ Admit \/ Assign \/ Sweep
           \/ \E e \in Ent : Extend(e) \/ Revoke(e)
           \/ \E p \in Order : Pay(p)
  BY <1>3, <1>7 DEF Tick, GrantMarks, GrantCommits, EndCommits, Admit, Assign, Sweep, Extend, Revoke, Strike, Pay
<1> QED
  BY <1>2, <1>4, <1>5, <1>6, <1>7 DEF Next, Fulfil

\* The days of a fulfilment come on top of what the user had when it was committed, unless
\* an admin came in between.
THEOREM SubscriptionDaysAreKept == Spec => DaysAreKept
<1>1. ASSUME PaidInv, [Next]_vars, NEW r \in Request, pc[r] = "MARKED",
             order[about[r]] = "PENDING", order'[about[r]] = "PAID", calm[r]
      PROVE  expires'[made'] >= Later(Latest(Running(now)), at[r]) + Days[about[r]]
  <2>0. Inside(r) /\ about[r] \in Order /\ at[r] \in Int /\ at[r] >= 0 /\ kept[r] \in Int
    BY <1>1 DEF PaidInv, TypeOK, RequestIsSound, Inside
  <2>1. PICK q \in Request : Commit(q) /\ about[q] = about[r]
    BY <1>1, <2>0, PaidByCommit
  <2>2. q = r
    <3>1. Inside(q)
      BY <2>1 DEF Commit, Inside
    <3> QED
      BY <1>1, <2>0, <3>1 DEF PaidInv, OneInside
  <2>3. Later(kept[r], at[r]) \in Int /\ Later(kept[r], at[r]) >= at[r] /\ Days[about[r]] \in Int
    BY <2>0, DaysAssumption DEF Later
  <2>4. expires'[made'] = Later(kept[r], at[r]) + Days[about[r]]
    <3>1. hit[r] \in SUBSET Ent /\ Later(kept[r], at[r]) + Days[about[r]] \in Int
      BY <1>1, <2>3 DEF PaidInv, TypeOK
    <3>2. Free(hit[r]) /\ Replace(hit[r], Later(kept[r], at[r]) + Days[about[r]], about[r])
      BY <2>1, <2>2 DEF Commit
    <3>3. /\ made' = made + 1
          /\ expires'[made + 1] = Later(kept[r], at[r]) + Days[about[r]]
      BY <1>1, <2>0, <3>1, <3>2, ReplaceEffect
    <3> QED
      BY <3>3
  <2>5. Latest(Running(now)) \in Int /\ Latest(Running(now)) <= Later(kept[r], at[r])
    <3>1. \A e \in Running(now) : expires[e] <= Later(kept[r], at[r])
      BY <1>1, <2>0 DEF PaidInv, CalmIsCurrent
    <3>2. expires \in [Ent -> Int] /\ Running(now) \in SUBSET Ent /\ Later(kept[r], at[r]) >= 0
      BY <1>1, <2>0, <2>3 DEF PaidInv, TypeOK, Running, Active
    <3> QED
      BY <2>3, <3>1, <3>2, LatestBounds
  <2>6. Later(Latest(Running(now)), at[r]) <= Later(kept[r], at[r]) /\ Later(Latest(Running(now)), at[r]) \in Int
    BY <2>0, <2>3, <2>5 DEF Later
  <2> QED
    BY <2>3, <2>4, <2>6
<1>2. PaidInv /\ [Next]_vars =>
        [\A r \in Request :
            pc[r] = "MARKED" /\ order[about[r]] = "PENDING" /\ order'[about[r]] = "PAID" /\ calm[r]
            => expires'[made'] >= Later(Latest(Running(now)), at[r]) + Days[about[r]]]_vars
  BY <1>1
<1> QED
  BY SubscriptionInvariant, <1>2, PTL DEF Spec, DaysAreKept

\* Only the end of a lapse takes the worker.
LEMMA WorkerTakenByEnd ==
    ASSUME PaidInv, [Next]_vars, worker, ~worker'
    PROVE  EndCommits
<1> USE DEF workVars
<1>1. worker' # worker
  OBVIOUS
<1>2. CASE UNCHANGED vars
  BY <1>1, <1>2 DEF vars
<1>3. CASE \E r \in Request : \/ \E o \in Order : Refresh(r, o) \/ Webhook(r, o)
                              \/ Fetch(r) \/ Abort(r) \/ Fulfil(r)
  BY <1>1, <1>3 DEF Refresh, Webhook, Ask, Fetch, Abort, Fulfil, Begin, Lock, Mark, Commit
<1>4. CASE \/ Tick \/ GrantMarks \/ GrantCommits \/ Admit \/ Assign \/ Sweep
           \/ \E e \in Ent : Extend(e) \/ Revoke(e)
           \/ \E o \in Order : Create(o) \/ Pay(o)
  BY <1>1, <1>4 DEF Tick, GrantMarks, GrantCommits, Admit, Assign, Sweep, Extend, Revoke, Strike, Create, Pay
<1> QED
  BY <1>2, <1>3, <1>4 DEF Next

\* A sweep or a revocation never takes the worker of a user who is still covered, unless an
\* admin gave him something meanwhile: a payment in between waits for the lapse.
THEOREM SubscriptionCoveredKeepsWorker == Spec => CoveredKeepsWorker
<1>1. ASSUME PaidInv, [Next]_vars, worker, ~worker', quiet
      PROVE  {e \in Ent : status'[e] = "ACTIVE" /\ expires'[e] > now} = {}
  <2>1. EndCommits
    BY <1>1, WorkerTakenByEnd
  <2>2. /\ release /\ endAs \in {"REVOKED", "EXPIRED"} /\ expires' = expires
        /\ \A e \in Ent : status'[e] = IF e \in ending THEN endAs ELSE status[e]
    BY <1>1, <2>1 DEF EndCommits, PaidInv, LapseIsCurrent, TypeOK
  <2>3. Running(now) \subseteq ending
    BY <1>1, <2>2 DEF PaidInv, LapseIsCurrent
  <2> QED
    BY <2>2, <2>3 DEF Running, Active
<1>2. PaidInv /\ [Next]_vars =>
        [worker /\ ~worker' /\ quiet => {e \in Ent : status'[e] = "ACTIVE" /\ expires'[e] > now} = {}]_vars
  BY <1>1
<1> QED
  BY SubscriptionInvariant, <1>2, PTL DEF Spec, CoveredKeepsWorker
===============================================================================
