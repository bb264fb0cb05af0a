--------------------- MODULE BroadcastPreparation_proofs ---------------------
(***************************************************************************)
(* Proofs about BroadcastPreparation, for every number of engine processes *)
(* and targets and every bound on the checks of an approval.               *)
(***************************************************************************)
EXTENDS BroadcastPreparation, TLAPS

\* A run that works on a target has one, and what it is about to report is true.
RunSane ==
    \A i \in Instance :
        /\ pc[i] \in Preparing \cup {"SENDING"} => cur[i] \in Target
        /\ pc[i] \in {"MOVE", "SETTLE"} => goal[i] \in Move
        /\ goal[i] = "READY" => pc[i] \in {"MOVE", "SETTLE"} /\ verified[cur[i]]

\* The two statuses of a target fit together.
RowSane ==
    \A t \in Target :
        /\ delivery[t] \in {"SENDING", "FAILED_RETRYABLE", "SUCCEEDED"} => prep[t] = "READY"
        /\ prep[t] \in {"FAILED_FINAL", "CANCELLED"} => delivery[t] \in Terminal
        /\ prep[t] = "READY" => verified[t]

PreparationInv == TypeOK /\ RunSane /\ RowSane /\ OverMeansOver

Unsettled == Waiting \cup Working
DeliveryStatus == Open \cup {"SENDING"} \cup Terminal

\* What a step may do to the row of a target.
RowMoves(t) ==
    \/ prep'[t] = prep[t] /\ delivery'[t] = delivery[t]
    \/ prep'[t] = prep[t] /\ delivery[t] = "SENDING"
    \/ prep'[t] = prep[t] /\ delivery[t] \in Open /\ delivery'[t] = "CANCELLED"
    \/ prep'[t] = prep[t] /\ prep[t] = "READY" /\ delivery[t] \in Open /\ delivery'[t] = "SENDING"
    \/ prep[t] \in Unsettled /\ prep'[t] \in Unsettled /\ delivery'[t] = delivery[t]
    \/ prep[t] \in Unsettled /\ prep'[t] = "READY" /\ verified'[t] /\ delivery'[t] = delivery[t]
    \/ /\ prep[t] \in Unsettled /\ prep'[t] \in {"FAILED_FINAL", "CANCELLED"}
       /\ delivery'[t] \in Terminal \ {"SUCCEEDED"}

\* A settled preparation stays as it is in this step.
StaysSettled == \A t \in Target : prep[t] \in Settled => prep'[t] = prep[t]

LEMMA RowStep ==
    ASSUME PreparationInv, TypeOK', \A t \in Target : RowMoves(t),
           \A t \in Target : verified[t] => verified'[t]
    PROVE  RowSane' /\ StaysSettled
<1> USE DEF PreparationInv, RowMoves, Unsettled, Waiting, Working, Settled, Open, Terminal, Over
<1>1. RowSane'
  BY DEF RowSane
<1>2. StaysSettled
  BY DEF StaysSettled
<1> QED  BY <1>1, <1>2

\* A summary is a status, and says that the operation is over only if it is.
LEMMA SummaryOver ==
    ASSUME NEW p, NEW d \in [Target -> DeliveryStatus]
    PROVE  /\ FinishSummary(d) \in OperationStatus /\ RecomputeSummary(p, d) \in OperationStatus
           /\ FinishSummary(d) \in Over => \A t \in Target : d[t] \in Terminal
           /\ RecomputeSummary(p, d) \in Over => \A t \in Target : d[t] \in Terminal
BY DEF FinishSummary, RecomputeSummary, LiveOr, SomeIn, OperationStatus, DeliveryStatus,
       Open, Terminal, Over

LEMMA TransitionOver ==
    ASSUME NEW p \in [Target -> Unsettled \cup Settled], NEW s
    PROVE  /\ TransitionSummary(p, s) \in OperationStatus
           /\ TransitionSummary(p, s) \in Over =>
                 \A t \in Target : p[t] \in {"FAILED_FINAL", "CANCELLED"}
BY DEF TransitionSummary, SomeIn, OperationStatus, Unsettled, Waiting, Working, Settled,
       Terminal, Over

LEMMA NobodyType == Nobody \in Identity
BY DEF Nobody, Identity

\* A cancellation keeps the types and moves the rows as it may.
LEMMA CancellationEffect ==
    ASSUME PreparationInv, NEW T \in SUBSET Target, RequestCancellation(T)
    PROVE  /\ prep' \in [Target -> Unsettled \cup Settled]
           /\ claim' \in [Target -> Identity]
           /\ delivery' \in [Target -> DeliveryStatus]
           /\ cancelled' \in [Target -> BOOLEAN]
           /\ \A t \in Target : RowMoves(t)
<1> USE DEF PreparationInv, TypeOK, RequestCancellation, Unsettled, Waiting, Working, Settled,
            DeliveryStatus, Open, Terminal, Over
<1>1. prep' \in [Target -> Unsettled \cup Settled] /\ delivery' \in [Target -> DeliveryStatus]
  OBVIOUS
<1>2. claim' \in [Target -> Identity] /\ cancelled' \in [Target -> BOOLEAN]
  BY NobodyType
<1>3. \A t \in Target : RowMoves(t)
  BY DEF RowSane, RowMoves
<1> QED  BY <1>1, <1>2, <1>3

\* Steps of the environment that cancel targets and summarise them.
LEMMA CancellationStep ==
    ASSUME PreparationInv, NEW T \in SUBSET Target, RequestCancellation(T),
           status' = RecomputeSummary(prep', delivery'),
           grant' \in {"GRANTED", "EXPIRED", "WITHDRAWN"},
           UNCHANGED <<lease, runVars, telegram>>
    PROVE  PreparationInv' /\ StaysSettled
<1> USE DEF runVars, telegram
<1>1. TypeOK'
  BY CancellationEffect, SummaryOver
     DEF PreparationInv, TypeOK, RequestCancellation, Unsettled, DeliveryStatus
<1>2. RunSane'
  BY DEF PreparationInv, RunSane
<1>3. RowSane' /\ StaysSettled
  BY <1>1, CancellationEffect, RowStep
<1>4. OverMeansOver'
  BY CancellationEffect, SummaryOver DEF OverMeansOver
<1> QED  BY <1>1, <1>2, <1>3, <1>4 DEF PreparationInv

\* Steps that touch no row and no status.
LEMMA QuietStep ==
    ASSUME PreparationInv, TypeOK', RunSane', UNCHANGED <<prep, delivery, status>>,
           \A t \in Target : verified[t] => verified'[t]
    PROVE  PreparationInv' /\ StaysSettled
<1>1. RowSane' /\ StaysSettled
  BY RowStep DEF RowMoves
<1>2. OverMeansOver'
  BY DEF PreparationInv, OverMeansOver
<1> QED  BY <1>1, <1>2 DEF PreparationInv

-----------------------------------------------------------------------------
(* The steps of a run. *)

LEMMA InitPreparation == Init => PreparationInv
<1> SUFFICES ASSUME Init PROVE PreparationInv
  OBVIOUS
<1>1. TypeOK
  BY NobodyType, BoundAssumption
     DEF Init, TypeOK, Waiting, Working, Settled, Open, Terminal, Over, OperationStatus, PC,
         Preparing
<1>2. RunSane
  BY DEF Init, RunSane, Preparing
<1>3. RowSane /\ OverMeansOver
  BY DEF Init, RowSane, OverMeansOver, Over
<1> QED  BY <1>1, <1>2, <1>3 DEF PreparationInv

\* Where a run starts, idles, is validated or ends.
LEMMA RunStep ==
    ASSUME PreparationInv, NEW i \in Instance,
           \/ StartRun(i) \/ ClaimRefused(i) \/ EndRun(i) \/ Authorize(i) \/ FencedOut(i)
           \/ ValidateError(i) \/ Release(i) \/ Crash(i)
    PROVE  PreparationInv' /\ StaysSettled
<1> USE DEF Goto, LetGo, Plan, targetVars, runVars, telegram
<1>1. UNCHANGED <<grant, prep, due, asked, tries, delivery, cancelled, status, telegram>>
  BY DEF StartRun, ClaimRefused, EndRun, Authorize, FencedOut, ValidateError, Release, Crash
<1>2. lease' \in [owner: Instance \cup {NoInstance}, token: Nat, live: BOOLEAN]
  <2>1. CASE StartRun(i)
    BY <2>1 DEF PreparationInv, TypeOK, StartRun
  <2>2. CASE Release(i)
    BY <2>2 DEF PreparationInv, TypeOK, Release
  <2>3. CASE Crash(i)
    BY <2>3 DEF PreparationInv, TypeOK, Crash
  <2>4. CASE ~StartRun(i) /\ ~Release(i) /\ ~Crash(i)
    BY <2>4 DEF PreparationInv, TypeOK, ClaimRefused, EndRun, Authorize, FencedOut,
                ValidateError
  <2> QED  BY <2>1, <2>2, <2>3, <2>4
<1>3. claim' \in [Target -> Identity]
  <2>1. CASE Crash(i)
    BY <2>1, NobodyType DEF PreparationInv, TypeOK, Crash
  <2>2. CASE ~Crash(i)
    BY <2>2 DEF PreparationInv, TypeOK, StartRun, ClaimRefused, EndRun, Authorize, FencedOut,
                ValidateError, Release
  <2> QED  BY <2>1, <2>2
<1>4. pc' \in [Instance -> PC] /\ tok' \in [Instance -> Nat]
  BY DEF PreparationInv, TypeOK, StartRun, ClaimRefused, EndRun, Authorize, FencedOut,
         ValidateError, Release, Crash, PC, Preparing, Gate
<1>5. /\ cur' \in [Instance -> Target \cup {NoTarget}]
      /\ prev' \in [Instance -> Waiting \cup {"NONE"}]
      /\ current' \in [Instance -> Working]
      /\ goal' \in [Instance -> Move \cup {"NONE"}]
  BY DEF PreparationInv, TypeOK, StartRun, ClaimRefused, EndRun, Authorize, FencedOut,
         ValidateError, Release, Crash, Working, Move
<1>6. TypeOK'
  BY <1>1, <1>2, <1>3, <1>4, <1>5 DEF PreparationInv, TypeOK
<1>7. RunSane'
  <2>1. \/ cur' = cur /\ goal' = goal /\ pc'[i] \notin {"MOVE", "SETTLE", "SENDING"}
           /\ (pc'[i] \in Preparing => pc[i] \in Preparing) /\ pc[i] \notin {"MOVE", "SETTLE"}
        \/ cur'[i] = NoTarget /\ goal'[i] = "NONE" /\ pc'[i] \in {"CLOSING", "OFF"}
        \/ cur' = cur /\ goal'[i] = "FAILED_FINAL" /\ pc'[i] = "SETTLE" /\ pc[i] \in Preparing
    BY DEF PreparationInv, TypeOK, StartRun, ClaimRefused, EndRun, Authorize, FencedOut,
           ValidateError, Release, Crash, Preparing, Gate
  <2>2. \A j \in Instance \ {i} : pc'[j] = pc[j] /\ cur'[j] = cur[j] /\ goal'[j] = goal[j]
    BY DEF PreparationInv, TypeOK, StartRun, ClaimRefused, EndRun, Authorize, FencedOut,
           ValidateError, Release, Crash
  <2> QED  BY <1>1, <2>1, <2>2 DEF PreparationInv, RunSane, Preparing, Move
<1> QED  BY <1>1, <1>6, <1>7, QuietStep DEF telegram

\* What a claim recovers is unsettled before and after.
LEMMA RecoveryEffect ==
    ASSUME PreparationInv, NEW i \in Instance
    PROVE  /\ Recovered(i) \in [Target -> Unsettled \cup Settled]
           /\ DueAgain(i) \in [Target -> BOOLEAN]
           /\ Unclaimed(i) \in [Target -> Identity]
           /\ \A t \in Target :
                 \/ Recovered(i)[t] = prep[t]
                 \/ prep[t] \in Unsettled /\ Recovered(i)[t] \in Unsettled
<1>0. TypeOK /\ \A t \in Target : Abandoned(i, t) => prep[t] \in Unsettled
  BY DEF PreparationInv, Abandoned, Unsettled
<1>1. Recovered(i) \in [Target -> Unsettled \cup Settled]
  BY <1>0 DEF TypeOK, Recovered, Unsettled, Waiting
<1>2. DueAgain(i) \in [Target -> BOOLEAN]
  BY <1>0 DEF TypeOK, DueAgain, Abandoned
<1>3. Unclaimed(i) \in [Target -> Identity]
  BY <1>0, NobodyType DEF TypeOK, Unclaimed
<1>4. \A t \in Target :
         \/ Recovered(i)[t] = prep[t]
         \/ prep[t] \in Unsettled /\ Recovered(i)[t] \in Unsettled
  BY <1>0 DEF Recovered, Unsettled, Waiting
<1> QED  BY <1>1, <1>2, <1>3, <1>4

LEMMA MyIdentity ==
    ASSUME TypeOK, NEW i \in Instance
    PROVE  Me(i) \in Identity
BY DEF TypeOK, Me, Identity

LEMMA ClaimStep ==
    ASSUME PreparationInv, NEW i \in Instance,
           NothingToPrepare(i) \/ \E t \in Target : ClaimPreparation(i, t)
    PROVE  PreparationInv' /\ StaysSettled
<1> USE DEF Goto, telegram
<1>0. TypeOK
  BY DEF PreparationInv
<1>1. /\ UNCHANGED <<lease, grant, asked, delivery, cancelled, status, tok, current, goal, member,
                      verified>>
      /\ pc[i] = "LOOP"
      /\ \/ pc' = [pc EXCEPT ![i] = "DELIVER"] /\ UNCHANGED <<cur, prev>>
         \/ pc' = [pc EXCEPT ![i] = "CLOSING"] /\ UNCHANGED <<cur, prev>>
         \/ /\ pc' = [pc EXCEPT ![i] = "CLAIMED"]
            /\ \E t \in Target, s \in Waiting :
                  cur' = [cur EXCEPT ![i] = t] /\ prev' = [prev EXCEPT ![i] = s]
  BY DEF NothingToPrepare, ClaimPreparation
<1>2. /\ prep' \in [Target -> Unsettled \cup Settled]
      /\ due' \in [Target -> BOOLEAN]
      /\ claim' \in [Target -> Identity]
      /\ tries' \in [Target -> 0..MaxChecks]
      /\ \A t \in Target : RowMoves(t)
  <2>1. CASE NothingToPrepare(i)
    BY <1>0, <1>1, <2>1, RecoveryEffect DEF NothingToPrepare, TypeOK, RowMoves
  <2>2. ASSUME NEW t \in Target, ClaimPreparation(i, t)
        PROVE  /\ prep' \in [Target -> Unsettled \cup Settled]
               /\ due' \in [Target -> BOOLEAN]
               /\ claim' \in [Target -> Identity]
               /\ tries' \in [Target -> 0..MaxChecks]
               /\ \A u \in Target : RowMoves(u)
    <3>1. prep' = [Recovered(i) EXCEPT ![t] = "CHECKING"] /\ Recovered(i)[t] \in Waiting
      BY <2>2 DEF ClaimPreparation
    <3>2. prep' \in [Target -> Unsettled \cup Settled]
      BY <3>1, RecoveryEffect DEF Unsettled, Working
    <3>3. \A u \in Target : RowMoves(u)
      BY <1>1, <3>1, RecoveryEffect DEF RowMoves, Unsettled, Working
    <3>4. due' \in [Target -> BOOLEAN] /\ claim' \in [Target -> Identity]
      BY <1>0, <2>2, RecoveryEffect, MyIdentity DEF ClaimPreparation
    <3>5. tries' \in [Target -> 0..MaxChecks]
      BY <1>0, <2>2, BoundAssumption DEF ClaimPreparation, Counted, TypeOK
    <3> QED  BY <3>2, <3>3, <3>4, <3>5
  <2> QED  BY <2>1, <2>2
<1>3. TypeOK'
  <2>1. /\ pc' \in [Instance -> PC]
        /\ cur' \in [Instance -> Target \cup {NoTarget}]
        /\ prev' \in [Instance -> Waiting \cup {"NONE"}]
    BY <1>0, <1>1 DEF TypeOK, PC, Preparing
  <2> QED  BY <1>0, <1>1, <1>2, <2>1 DEF TypeOK, Unsettled
<1>4. RunSane'
  BY <1>0, <1>1 DEF PreparationInv, RunSane, TypeOK, Preparing, Move
<1>5. RowSane' /\ StaysSettled
  BY <1>1, <1>2, <1>3, RowStep
<1>6. OverMeansOver'
  BY <1>1 DEF PreparationInv, OverMeansOver
<1> QED  BY <1>3, <1>4, <1>5, <1>6 DEF PreparationInv

LEMMA UnauthorizedStep ==
    ASSUME PreparationInv, NEW i \in Instance, Unauthorized(i)
    PROVE  PreparationInv' /\ StaysSettled
<1> USE DEF Goto, LetGo, telegram
<1>0. TypeOK /\ cur[i] \in Target /\ prep[cur[i]] \in Working
  BY DEF PreparationInv, RunSane, Unauthorized, Gate, Preparing, Mine
<1>1. /\ prep' \in [Target -> Unsettled \cup Settled]
      /\ delivery' \in [Target -> DeliveryStatus]
      /\ claim' \in [Target -> Identity]
      /\ cancelled' \in [Target -> BOOLEAN]
  BY <1>0, NobodyType
     DEF Unauthorized, TypeOK, Unsettled, Settled, DeliveryStatus, Terminal, Over
<1>2. TypeOK'
  <2>1. /\ pc' \in [Instance -> PC] /\ cur' \in [Instance -> Target \cup {NoTarget}]
        /\ prev' \in [Instance -> Waiting \cup {"NONE"}]
        /\ current' \in [Instance -> Working] /\ goal' \in [Instance -> Move \cup {"NONE"}]
    BY <1>0 DEF Unauthorized, TypeOK, PC, Working
  <2>2. status' \in OperationStatus
    BY <1>1, SummaryOver DEF Unauthorized
  <2> QED  BY <1>0, <1>1, <2>1, <2>2 DEF Unauthorized, TypeOK, Unsettled, DeliveryStatus
<1>3. RunSane'
  BY <1>0 DEF PreparationInv, RunSane, Unauthorized, TypeOK, Preparing
<1>4. \A t \in Target : RowMoves(t)
  BY <1>0 DEF Unauthorized, TypeOK, RowMoves, Unsettled, Terminal, Over
<1>5. RowSane' /\ StaysSettled
  BY <1>2, <1>4, RowStep DEF Unauthorized
<1>6. OverMeansOver'
  BY <1>1, SummaryOver DEF Unauthorized, OverMeansOver
<1> QED  BY <1>2, <1>3, <1>5, <1>6 DEF PreparationInv

\* Where a run talks to Telegram.
LEMMA TelegramStep ==
    ASSUME PreparationInv, NEW i \in Instance, Check(i) \/ Join(i)
    PROVE  PreparationInv' /\ StaysSettled
<1> USE DEF Plan, Goto
<1>0. TypeOK /\ cur[i] \in Target
  BY DEF PreparationInv, RunSane, Check, Join, Preparing
<1>1. /\ UNCHANGED <<lease, grant, targetVars, tok, cur, prev, current>>
      /\ member' \in [Target -> {"OUT", "ASKED", "MEMBER"}]
      /\ verified' \in [Target -> BOOLEAN]
      /\ \A t \in Target : verified[t] => verified'[t]
  <2>1. CASE Check(i)
    <3>1. UNCHANGED <<lease, grant, targetVars, tok, member, cur, prev, current>>
      BY <2>1 DEF Check
    <3>2. verified' = verified \/ verified' = [verified EXCEPT ![cur[i]] = TRUE]
      BY <2>1 DEF Check
    <3> QED  BY <1>0, <3>1, <3>2 DEF TypeOK
  <2>2. CASE Join(i)
    <3>1. UNCHANGED <<lease, grant, targetVars, tok, cur, prev, current>>
      BY <2>2 DEF Join
    <3>2. \E m \in {"OUT", "ASKED", "MEMBER"} : member' = [member EXCEPT ![cur[i]] = m]
      BY <1>0, <2>2 DEF Join, TypeOK
    <3>3. \/ verified' = verified
          \/ \E b \in BOOLEAN : verified' = [verified EXCEPT ![cur[i]] = verified[cur[i]] \/ b]
      BY <1>0, <2>2 DEF Join
    <3> QED  BY <1>0, <3>1, <3>2, <3>3 DEF TypeOK
  <2> QED  BY <2>1, <2>2
<1>2. /\ \E l \in {"MOVE", "SETTLE"} : pc' = [pc EXCEPT ![i] = l]
      /\ \E s \in Move :
            goal' = [goal EXCEPT ![i] = s] /\ (s = "READY" => verified'[cur[i]])
  <2>1. CASE Check(i)
    BY <1>0, <2>1 DEF Check, TypeOK, ErrorMoves, Move
  <2>2. CASE Join(i)
    BY <1>0, <2>2 DEF Join, TypeOK, ErrorMoves, JoinAnswers, Move
  <2> QED  BY <2>1, <2>2
<1>3. TypeOK'
  BY <1>0, <1>1, <1>2 DEF TypeOK, targetVars, PC, Preparing
<1>4. RunSane'
  BY <1>0, <1>1, <1>2 DEF PreparationInv, RunSane, TypeOK, Preparing
<1> QED  BY <1>1, <1>3, <1>4, QuietStep DEF targetVars

\* The row that a move leaves, with the status computed from all of them.
LEMMA MoveEffect ==
    ASSUME PreparationInv, NEW i \in Instance, cur[i] \in Target, goal[i] \in Move,
           goal[i] = "READY" => verified[cur[i]], Applies(i), ApplyMove(i)
    PROVE  /\ prep' \in [Target -> Unsettled \cup Settled]
           /\ due' \in [Target -> BOOLEAN] /\ asked' \in [Target -> BOOLEAN]
           /\ claim' \in [Target -> Identity]
           /\ delivery' \in [Target -> DeliveryStatus]
           /\ status' \in OperationStatus
           /\ status' \in Over => \A t \in Target : prep'[t] \in {"FAILED_FINAL", "CANCELLED"}
           /\ \A t \in Target : RowMoves(t)
<1>0. TypeOK /\ prep[cur[i]] \in Working
  BY DEF PreparationInv, Applies, Mine
<1>1. /\ prep' = [prep EXCEPT ![cur[i]] = goal[i]]
      /\ delivery' = [delivery EXCEPT ![cur[i]] =
                        IF goal[i] = "FAILED_FINAL" THEN goal[i] ELSE delivery[cur[i]]]
      /\ status' = TransitionSummary(prep', goal[i])
      /\ verified' = verified
  BY DEF ApplyMove, telegram
<1>2. prep' \in [Target -> Unsettled \cup Settled]
  BY <1>0, <1>1 DEF TypeOK, Move, Unsettled, Waiting, Working, Settled
<1>3. due' \in [Target -> BOOLEAN] /\ asked' \in [Target -> BOOLEAN]
  <2>1. due' = [due EXCEPT ![cur[i]] = due[cur[i]] /\ goal[i] \notin Waiting]
    BY DEF ApplyMove
  <2>2. asked' = [asked EXCEPT ![cur[i]] = asked[cur[i]] \/ goal[i] = "WAITING_APPROVAL"]
    BY DEF ApplyMove
  <2> QED  BY <1>0, <2>1, <2>2 DEF TypeOK
<1>4. claim' \in [Target -> Identity]
  BY <1>0, NobodyType DEF ApplyMove, TypeOK
<1>5. delivery' \in [Target -> DeliveryStatus]
  BY <1>0, <1>1 DEF TypeOK, DeliveryStatus, Terminal, Over
<1>6. /\ status' \in OperationStatus
      /\ status' \in Over => \A t \in Target : prep'[t] \in {"FAILED_FINAL", "CANCELLED"}
  BY <1>1, <1>2, TransitionOver
<1>7. \A t \in Target : RowMoves(t)
  BY <1>0, <1>1 DEF TypeOK, RowMoves, Unsettled, Waiting, Working, Move, Terminal, Over
<1> QED  BY <1>2, <1>3, <1>4, <1>5, <1>6, <1>7

\* What a run keeps of a target after a move of it.
LEMMA MoveRun ==
    ASSUME PreparationInv, NEW i \in Instance, Proceed(i) \/ Settle(i) \/ MoveLost(i)
    PROVE  /\ pc' \in [Instance -> PC] /\ tok' = tok
           /\ cur' \in [Instance -> Target \cup {NoTarget}]
           /\ prev' \in [Instance -> Waiting \cup {"NONE"}]
           /\ current' \in [Instance -> Working] /\ goal' \in [Instance -> Move \cup {"NONE"}]
           /\ verified' = verified /\ member' = member
           /\ RunSane'
<1> USE DEF Goto, LetGo, Plan
<1>0. /\ TypeOK /\ RunSane
      /\ pc[i] \in {"MOVE", "SETTLE"} /\ cur[i] \in Target
  BY DEF PreparationInv, RunSane, Proceed, Settle, MoveLost, Preparing
<1>1. tok' = tok /\ verified' = verified /\ member' = member
  BY DEF Proceed, Settle, MoveLost, ApplyMove, telegram
<1>2. \/ LetGo(i, "CLOSING") \/ LetGo(i, "DELIVER") \/ Plan(i, "SETTLE", "FAILED_FINAL")
      \/ /\ pc' = [pc EXCEPT ![i] = "REVALIDATE"] /\ goal' = [goal EXCEPT ![i] = "NONE"]
         /\ current' = [current EXCEPT ![i] = "JOINING"] /\ UNCHANGED <<cur, prev>>
  BY DEF Proceed, Settle, MoveLost
<1>3. /\ pc' \in [Instance -> PC]
      /\ cur' \in [Instance -> Target \cup {NoTarget}]
      /\ prev' \in [Instance -> Waiting \cup {"NONE"}]
      /\ current' \in [Instance -> Working] /\ goal' \in [Instance -> Move \cup {"NONE"}]
  BY <1>0, <1>2 DEF TypeOK, PC, Preparing, Working, Move
<1>4. RunSane'
  <2>1. \/ cur' = cur /\ goal'[i] = "FAILED_FINAL" /\ pc'[i] = "SETTLE"
        \/ cur' = cur /\ goal'[i] = "NONE" /\ pc'[i] = "REVALIDATE"
        \/ goal'[i] = "NONE" /\ pc'[i] \in {"CLOSING", "DELIVER"}
    BY <1>0, <1>2 DEF TypeOK
  <2>2. \A j \in Instance \ {i} : pc'[j] = pc[j] /\ cur'[j] = cur[j] /\ goal'[j] = goal[j]
    BY <1>0, <1>2 DEF TypeOK
  <2> QED  BY <1>0, <1>1, <2>1, <2>2 DEF RunSane, Preparing, Move
<1> QED  BY <1>1, <1>3, <1>4

LEMMA MoveStep ==
    ASSUME PreparationInv, NEW i \in Instance, Proceed(i) \/ Settle(i) \/ MoveLost(i)
    PROVE  PreparationInv' /\ StaysSettled
<1>0. /\ TypeOK /\ RunSane
      /\ pc[i] \in {"MOVE", "SETTLE"} /\ cur[i] \in Target
      /\ goal[i] \in Move /\ (goal[i] = "READY" => verified[cur[i]])
  BY DEF PreparationInv, RunSane, Proceed, Settle, MoveLost, Preparing
<1>1. \/ Applies(i) /\ ApplyMove(i)
      \/ UNCHANGED <<lease, grant, targetVars, tok, telegram>>
  BY DEF Proceed, Settle, MoveLost
<1>2. CASE Applies(i) /\ ApplyMove(i)
  <2>1. UNCHANGED <<lease, grant, tries, cancelled>>
    BY <1>2 DEF ApplyMove
  <2>2. TypeOK'
    BY <1>0, <1>2, <2>1, MoveEffect, MoveRun DEF TypeOK, Unsettled, DeliveryStatus
  <2>3. RowSane' /\ StaysSettled
    BY <1>0, <1>2, <2>2, MoveEffect, MoveRun, RowStep
  <2>4. OverMeansOver'
    BY <1>0, <1>2, <2>3, MoveEffect DEF OverMeansOver, RowSane
  <2> QED  BY <2>2, <2>3, <2>4, MoveRun DEF PreparationInv
<1>3. CASE UNCHANGED <<lease, grant, targetVars, tok, telegram>>
  <2>1. TypeOK'
    BY <1>0, <1>3, MoveRun DEF TypeOK, targetVars, telegram
  <2> QED  BY <1>3, <2>1, MoveRun, QuietStep DEF targetVars, telegram
<1> QED  BY <1>1, <1>2, <1>3

\* A claim of a delivery gives up on some and may start one.
LEMMA ClaimDeliveryStep ==
    ASSUME PreparationInv, NEW i \in Instance, ClaimDelivery(i)
    PROVE  PreparationInv' /\ StaysSettled
<1> USE DEF Goto
<1>0. TypeOK /\ RunSane /\ RowSane /\ OverMeansOver
  BY DEF PreparationInv
<1>1. PICK expired \in BOOLEAN :
         LET lost == GivenUp(i, expired)
             d == [t \in Target |-> IF t \in lost THEN "SIDE_EFFECT_UNCERTAIN" ELSE delivery[t]]
             c == [t \in Target |-> IF t \in lost THEN Nobody ELSE claim[t]]
             s == IF Live /\ SomeIn({"SIDE_EFFECT_UNCERTAIN"}, d)
                  THEN "SIDE_EFFECT_UNCERTAIN" ELSE status
         IN \/ \E t \in Target :
                  /\ grant = "GRANTED" /\ s \notin Terminal
                  /\ prep[t] = "READY" /\ d[t] \in Open /\ ~cancelled[t]
                  /\ delivery' = [d EXCEPT ![t] = "SENDING"]
                  /\ claim' = [c EXCEPT ![t] = Me(i)]
                  /\ status' = "SENDING"
                  /\ \/ Goto(i, "SENDING") /\ cur' = [cur EXCEPT ![i] = t]
                     \/ Goto(i, "CLOSING") /\ UNCHANGED cur
            \/ /\ delivery' = d /\ claim' = c /\ status' = s
               /\ Goto(i, "LOOP") \/ Goto(i, "CLOSING")
               /\ UNCHANGED cur
  BY DEF ClaimDelivery
<1> DEFINE lost == GivenUp(i, expired)
           d == [t \in Target |-> IF t \in lost THEN "SIDE_EFFECT_UNCERTAIN" ELSE delivery[t]]
           c == [t \in Target |-> IF t \in lost THEN Nobody ELSE claim[t]]
           s == IF Live /\ SomeIn({"SIDE_EFFECT_UNCERTAIN"}, d)
                THEN "SIDE_EFFECT_UNCERTAIN" ELSE status
<1>2. /\ UNCHANGED <<lease, grant, prep, due, asked, tries, cancelled, tok, prev,
                      current, goal, member, verified>>
      /\ pc[i] = "DELIVER"
  BY DEF ClaimDelivery, telegram
<1>3. /\ d \in [Target -> DeliveryStatus] /\ c \in [Target -> Identity]
      /\ s \in OperationStatus
      /\ s \in Over => s = status
      /\ \A t \in Target : d[t] = delivery[t] \/ delivery[t] = "SENDING"
      /\ \A t \in Target : delivery[t] \in Terminal => d[t] = delivery[t]
  <2>1. \A t \in lost : delivery[t] = "SENDING"
    BY DEF GivenUp
  <2>2. d \in [Target -> DeliveryStatus]
    BY <1>0 DEF TypeOK, DeliveryStatus, Terminal, Over
  <2>3. c \in [Target -> Identity]
    BY <1>0, NobodyType DEF TypeOK
  <2>4. s \in OperationStatus /\ (s \in Over => s = status)
    BY <1>0 DEF TypeOK, OperationStatus, Terminal, Over
  <2> QED  BY <2>1, <2>2, <2>3, <2>4 DEF Terminal, Over
<1>4. \/ \E t \in Target :
            /\ prep[t] = "READY" /\ d[t] \in Open
            /\ delivery' = [d EXCEPT ![t] = "SENDING"]
            /\ claim' = [c EXCEPT ![t] = Me(i)]
            /\ status' = "SENDING"
            /\ \/ pc' = [pc EXCEPT ![i] = "SENDING"] /\ cur' = [cur EXCEPT ![i] = t]
               \/ pc' = [pc EXCEPT ![i] = "CLOSING"] /\ UNCHANGED cur
      \/ /\ delivery' = d /\ claim' = c /\ status' = s
         /\ \E l \in {"LOOP", "CLOSING"} : pc' = [pc EXCEPT ![i] = l]
         /\ UNCHANGED cur
  BY <1>1
<1> HIDE DEF d, c, s, lost
<1>5. /\ delivery' \in [Target -> DeliveryStatus] /\ claim' \in [Target -> Identity]
      /\ status' \in OperationStatus
  BY <1>0, <1>3, <1>4, MyIdentity DEF DeliveryStatus, OperationStatus
<1>6. /\ pc' \in [Instance -> PC] /\ cur' \in [Instance -> Target \cup {NoTarget}]
      /\ cur'[i] \in Target \/ pc'[i] \in {"LOOP", "CLOSING"}
      /\ pc'[i] \in {"SENDING", "LOOP", "CLOSING"}
      /\ \A j \in Instance \ {i} : pc'[j] = pc[j] /\ cur'[j] = cur[j]
  BY <1>0, <1>4 DEF TypeOK, PC, Preparing
<1>7. TypeOK'
  BY <1>0, <1>2, <1>5, <1>6 DEF TypeOK, DeliveryStatus
<1>8. RunSane'
  BY <1>0, <1>2, <1>6 DEF RunSane, Preparing
<1>9. \A t \in Target : RowMoves(t)
  BY <1>2, <1>3, <1>4 DEF RowMoves, Open
<1>10. RowSane' /\ StaysSettled
  BY <1>2, <1>7, <1>9, RowStep
<1>11. OverMeansOver'
  BY <1>0, <1>3, <1>4 DEF OverMeansOver, Over, Terminal
<1> QED  BY <1>7, <1>8, <1>10, <1>11 DEF PreparationInv

LEMMA DeliverStep ==
    ASSUME PreparationInv, NEW i \in Instance, Deliver(i)
    PROVE  PreparationInv' /\ StaysSettled
<1> USE DEF Goto, LetGo
<1>0. TypeOK /\ RunSane /\ RowSane /\ OverMeansOver /\ cur[i] \in Target
  BY DEF PreparationInv, RunSane, Deliver
<1>1. UNCHANGED <<lease, grant, prep, due, asked, tries, tok, member, verified>>
  BY DEF Deliver, telegram
<1>2. LetGo(i, "CLOSING") \/ LetGo(i, "LOOP")
  BY DEF Deliver
<1>3. /\ pc' \in [Instance -> PC] /\ cur' \in [Instance -> Target \cup {NoTarget}]
      /\ prev' \in [Instance -> Waiting \cup {"NONE"}]
      /\ current' \in [Instance -> Working] /\ goal' \in [Instance -> Move \cup {"NONE"}]
  BY <1>0, <1>2 DEF TypeOK, PC, Working
<1>4. RunSane'
  BY <1>0, <1>1, <1>2 DEF TypeOK, RunSane, Preparing
<1>5. \/ UNCHANGED <<claim, delivery, cancelled, status>>
      \/ /\ delivery[cur[i]] = "SENDING"
         /\ claim' = [claim EXCEPT ![cur[i]] = Nobody]
         /\ \E s \in DeliveryStatus : delivery' = [delivery EXCEPT ![cur[i]] = s]
         /\ status' = FinishSummary(delivery') \/ status' = RecomputeSummary(prep, delivery')
         /\ cancelled' = cancelled \/ cancelled' = [cancelled EXCEPT ![cur[i]] = TRUE]
  BY DEF Deliver, DeliveryStatus, Open, Terminal, Over
<1>6. /\ delivery' \in [Target -> DeliveryStatus] /\ claim' \in [Target -> Identity]
      /\ cancelled' \in [Target -> BOOLEAN] /\ status' \in OperationStatus
  <2>1. CASE UNCHANGED <<claim, delivery, cancelled, status>>
    BY <1>0, <2>1 DEF TypeOK, DeliveryStatus
  <2>2. CASE ~UNCHANGED <<claim, delivery, cancelled, status>>
    <3>1. delivery' \in [Target -> DeliveryStatus]
      BY <1>0, <1>5, <2>2 DEF TypeOK, DeliveryStatus
    <3>2. claim' \in [Target -> Identity] /\ cancelled' \in [Target -> BOOLEAN]
      <4>1. claim' = [claim EXCEPT ![cur[i]] = Nobody]
        BY <1>5, <2>2
      <4>2. cancelled' = cancelled \/ cancelled' = [cancelled EXCEPT ![cur[i]] = TRUE]
        BY <1>5, <2>2
      <4> QED  BY <1>0, <4>1, <4>2, NobodyType DEF TypeOK
    <3>3. status' \in OperationStatus
      <4>1. \/ status' = FinishSummary(delivery')
            \/ status' = RecomputeSummary(prep, delivery')
        BY <1>5, <2>2
      <4> QED  BY <3>1, <4>1, SummaryOver
    <3> QED  BY <3>1, <3>2, <3>3
  <2> QED  BY <2>1, <2>2
<1>7. TypeOK'
  BY <1>0, <1>1, <1>3, <1>6 DEF TypeOK, DeliveryStatus
<1>8. \A t \in Target : RowMoves(t)
  BY <1>0, <1>1, <1>5 DEF TypeOK, RowMoves
<1>9. RowSane' /\ StaysSettled
  BY <1>1, <1>7, <1>8, RowStep
<1>10. OverMeansOver'
  BY <1>0, <1>5, <1>6, SummaryOver DEF OverMeansOver
<1> QED  BY <1>4, <1>7, <1>9, <1>10 DEF PreparationInv

-----------------------------------------------------------------------------
(* The steps of everyone else, and the theorems. *)

\* DeactivateLapsed where the profile is gone already: every open target is
\* cancelled, and the operation with it unless it is sending.
LEMMA LateDeactivation ==
    ASSUME PreparationInv, DeactivateLapsed, ~(grant = "EXPIRED" /\ Live)
    PROVE  PreparationInv' /\ StaysSettled
<1>0. TypeOK /\ RunSane /\ RowSane /\ OverMeansOver
  BY DEF PreparationInv
<1>1. /\ UNCHANGED <<lease, prep, due, asked, tries, claim, cancelled, runVars, telegram>>
      /\ grant' = "WITHDRAWN"
      /\ delivery' = [t \in Target |-> IF delivery[t] \in Open THEN "CANCELLED" ELSE delivery[t]]
      /\ status' = IF Live /\ ~SomeIn({"SENDING"}, delivery) THEN "CANCELLED" ELSE status
  BY DEF DeactivateLapsed
<1>2. delivery' \in [Target -> DeliveryStatus]
  BY <1>0, <1>1 DEF TypeOK, DeliveryStatus, Terminal, Over
<1>3. TypeOK'
  BY <1>0, <1>1, <1>2 DEF TypeOK, runVars, telegram, OperationStatus, Terminal, Over,
                          DeliveryStatus
<1>4. RunSane'
  BY <1>0, <1>1 DEF RunSane, runVars, telegram
<1>5. RowSane' /\ StaysSettled
  BY <1>0, <1>1, <1>3, RowStep DEF RowMoves, telegram
<1>6. OverMeansOver'
  BY <1>0, <1>1 DEF TypeOK, OverMeansOver, SomeIn, Open, Terminal, Over
<1> QED  BY <1>3, <1>4, <1>5, <1>6 DEF PreparationInv

\* Time passes, an entitlement is renewed, or a group decides.
LEMMA OutsideStep ==
    ASSUME PreparationInv,
           \/ EntitlementExpires \/ Renew \/ Lapse
           \/ \E t \in Target : BecomesDue(t) \/ Decide(t)
           \/ UNCHANGED vars
    PROVE  PreparationInv' /\ StaysSettled
<1> USE DEF targetVars, runVars, telegram
<1>0. TypeOK /\ RunSane
  BY DEF PreparationInv
<1>1. UNCHANGED <<prep, asked, tries, claim, delivery, cancelled, status, runVars, verified>>
  BY DEF EntitlementExpires, Renew, Lapse, BecomesDue, Decide, vars
<1>2. /\ lease' \in [owner: Instance \cup {NoInstance}, token: Nat, live: BOOLEAN]
      /\ grant' \in {"GRANTED", "EXPIRED", "WITHDRAWN"}
  BY <1>0 DEF TypeOK, EntitlementExpires, Renew, Lapse, BecomesDue, Decide, vars
<1>3. due' \in [Target -> BOOLEAN] /\ member' \in [Target -> {"OUT", "ASKED", "MEMBER"}]
  BY <1>0 DEF TypeOK, EntitlementExpires, Renew, Lapse, BecomesDue, Decide, vars
<1>4. TypeOK'
  BY <1>0, <1>1, <1>2, <1>3 DEF TypeOK
<1>5. RunSane'
  BY <1>0, <1>1 DEF RunSane
<1> QED  BY <1>1, <1>4, <1>5, QuietStep

LEMMA PreparationNext ==
    ASSUME PreparationInv, [Next]_vars
    PROVE  PreparationInv' /\ StaysSettled
<1>1. ASSUME NEW i \in Instance,
             Run(i) \/ ValidateError(i) \/ MoveLost(i) \/ EndRun(i) \/ Crash(i)
      PROVE  PreparationInv' /\ StaysSettled
  BY <1>1, RunStep, ClaimStep, UnauthorizedStep, TelegramStep, MoveStep, ClaimDeliveryStep,
     DeliverStep DEF Run, Prepare, Claim
<1>2. CASE CancelOperation
  BY <1>2, CancellationStep DEF CancelOperation, PreparationInv, TypeOK
<1>3. CASE \E t \in Target : ChangeTarget(t)
  BY <1>3, CancellationStep DEF ChangeTarget, PreparationInv, TypeOK
<1>4. CASE Withdraw
  <2>1. CASE Live
    BY <1>4, <2>1, CancellationStep DEF Withdraw
  <2>2. CASE ~Live
    <3>1. /\ UNCHANGED <<lease, targetVars, runVars, telegram>>
          /\ grant' = "WITHDRAWN"
      BY <1>4, <2>2 DEF Withdraw
    <3>2. TypeOK' /\ RunSane'
      BY <3>1 DEF PreparationInv, TypeOK, RunSane, targetVars, runVars, telegram
    <3> QED  BY <3>1, <3>2, QuietStep DEF targetVars, telegram
  <2> QED  BY <2>1, <2>2
<1>5. CASE DeactivateLapsed
  BY <1>5, LateDeactivation, CancellationStep DEF DeactivateLapsed
<1>6. CASE \/ EntitlementExpires \/ Renew \/ Lapse
           \/ \E t \in Target : BecomesDue(t) \/ Decide(t)
           \/ UNCHANGED vars
  BY <1>6, OutsideStep
<1> QED  BY <1>1, <1>2, <1>3, <1>4, <1>5, <1>6 DEF Next

LEMMA PreparationInvariant == Spec => []PreparationInv
<1>1. PreparationInv /\ [Next]_vars => PreparationInv'
  BY PreparationNext
<1> QED  BY <1>1, InitPreparation, PTL DEF Spec

\* Each variable keeps its type, whatever two runs, the users and the group do.
THEOREM PreparationTypeOK == Spec => []TypeOK
<1>1. PreparationInv => TypeOK
  BY DEF PreparationInv
<1> QED  BY <1>1, PreparationInvariant, PTL

\* No target is ready, sent to or served whose membership no run has seen.
THEOREM PreparationOnlyMembers == Spec => []OnlyMembersAreReady
<1>1. PreparationInv => OnlyMembersAreReady
  BY DEF PreparationInv, RowSane, OnlyMembersAreReady
<1> QED  BY <1>1, PreparationInvariant, PTL

\* None of the three rankings ends an operation that still has work.
THEOREM PreparationOverMeansOver == Spec => []OverMeansOver
<1>1. PreparationInv => OverMeansOver
  BY DEF PreparationInv
<1> QED  BY <1>1, PreparationInvariant, PTL

\* No step takes up a settled preparation again.
THEOREM PreparationSettled == Spec => PreparationIsFinal
<1>1. PreparationInv /\ [Next]_vars =>
         [\A t \in Target : prep[t] \in Settled => prep'[t] = prep[t]]_vars
  BY PreparationNext DEF StaysSettled
<1> QED  BY <1>1, PreparationInvariant, PTL DEF Spec, PreparationIsFinal
=============================================================================
