--------------------------- MODULE JudgeRunProofs ---------------------------
(***************************************************************************)
(* Proofs about the evaluation judge, for any number of requests, packages *)
(* and prices: it uses the ledger only as budgets.py lets it, so it keeps  *)
(* the books, and each judgement is accounted for.                         *)
(***************************************************************************)
EXTENDS JudgeRun, TLAPS

PCs == {"new", "look", "create", "reserve", "start", "call", "answer", "settle", "record",
        "finish", "fail", "save_failed", "done"}
RunRow == [package : Packages \cup {None},
           status : {"none", "queued", "running", "succeeded", "failed"}]
RequestState == [pc : PCs, package : Packages \cup {None}, usage : Nat \X Nat]

JudgeTypeOK ==
    /\ package \in Packages
    /\ run \in [Requests -> RunRow]
    /\ order \in Seq(Requests)
    /\ results \subseteq Requests
    /\ request \in [Requests -> RequestState]

\* The usage that goes to settle_budget was validated.
UsageInv == \A q \in Requests : request[q].pc = "settle" =>
                request[q].usage[1] \in Tokens /\ request[q].usage[2] \in Tokens

RequestInv == JudgeTypeOK /\ UsageInv

IsSettled(q) == reservation[q] # None /\ reservation[q].status = "settled"

\* What the money of a judgement says of its run and of its request.
Accounted(q) ==
    /\ request[q].pc \in {"record", "finish"} => IsSettled(q)
    /\ request[q].pc = "finish" => q \in results
    /\ q \in results => IsSettled(q)
    /\ run[q].status = "succeeded" => q \in results
    /\ request[q].pc = "save_failed" => ~B!IsReserved(q)
    /\ run[q].status = "failed" => ~B!IsReserved(q) /\ request[q].pc = "done"

AccountInv == \A q \in Requests : Accounted(q)

-----------------------------------------------------------------------------
(* The requests.                                                           *)

\* One request moves on; its run and the results may change with it.
LEMMA RequestMoves ==
    ASSUME RequestInv, NEW q \in Requests, NEW s \in RequestState,
           request' = [request EXCEPT ![q] = s],
           s.pc = "settle" => s.usage[1] \in Tokens /\ s.usage[2] \in Tokens,
           package' \in Packages, run' \in [Requests -> RunRow], order' \in Seq(Requests),
           results' \subseteq Requests
    PROVE  RequestInv'
<1>1. JudgeTypeOK'
  BY DEF RequestInv, JudgeTypeOK
<1>2. UsageInv'
  BY DEF RequestInv, JudgeTypeOK, UsageInv
<1>. QED  BY <1>1, <1>2 DEF RequestInv

LEMMA RequestGoto ==
    ASSUME RequestInv, NEW q \in Requests, NEW pc \in PCs, Goto(q, pc), pc # "settle",
           package' \in Packages, run' \in [Requests -> RunRow], order' \in Seq(Requests),
           results' \subseteq Requests
    PROVE  RequestInv'
<1> DEFINE s == [request[q] EXCEPT !.pc = pc]
<1>1. request[q] \in RequestState
  BY DEF RequestInv, JudgeTypeOK
<1>2. s \in RequestState /\ s.pc = pc
  BY <1>1 DEF RequestState
<1>3. request' = [request EXCEPT ![q] = s]
  BY DEF Goto, RequestInv, JudgeTypeOK
<1> HIDE DEF s
<1>. QED  BY <1>2, <1>3, RequestMoves

\* Every step leaves rows and requests well formed.
LEMMA RequestInvNext == RequestInv /\ [Next]_vars => RequestInv'
<1> SUFFICES ASSUME RequestInv, [Next]_vars PROVE RequestInv'
  OBVIOUS
<1>0. /\ package \in Packages
      /\ run \in [Requests -> RunRow]
      /\ order \in Seq(Requests)
      /\ results \subseteq Requests
  BY DEF RequestInv, JudgeTypeOK
<1>1. ASSUME NEW q \in Requests, RequestStep(q) \/ Crash(q) PROVE RequestInv'
  <2>0. request[q] \in RequestState /\ run[q] \in RunRow
    BY DEF RequestInv, JudgeTypeOK
  <2>1. CASE Load(q)
    <3> DEFINE s == [request[q] EXCEPT !.pc = "look", !.package = package]
    <3>1. s \in RequestState /\ s.pc = "look"
      BY <1>0, <2>0 DEF RequestState, PCs
    <3>2. /\ request' = [request EXCEPT ![q] = s]
          /\ UNCHANGED <<package, run, order, results>>
      BY <2>1 DEF Load, RequestInv, JudgeTypeOK
    <3> HIDE DEF s
    <3>. QED  BY <1>0, <3>1, <3>2, RequestMoves
  <2>2. CASE Look(q)
    <3>1. Goto(q, "done") \/ Goto(q, "create")
      BY <2>2 DEF Look
    <3>. QED  BY <1>0, <2>2, <3>1, RequestGoto DEF Look, PCs
  <2>3. CASE Create(q)
    <3> DEFINE row == [package |-> request[q].package, status |-> "queued"]
    <3>1. row \in RunRow
      BY <2>0 DEF RequestState, RunRow
    <3>2. run' \in [Requests -> RunRow]
      BY <1>0, <2>3, <3>1 DEF Create
    <3>3. order' \in Seq(Requests)
      BY <1>0, <2>3 DEF Create
    <3>. QED  BY <1>0, <2>3, <3>2, <3>3, RequestGoto DEF Create, PCs
  <2>4. CASE Start(q) \/ Finish(q) \/ SaveFailed(q)
    <3>1. PICK status \in {"running", "succeeded", "failed"}, pc \in {"call", "done"} :
            /\ run' = [run EXCEPT ![q].status = status]
            /\ Goto(q, pc)
            /\ UNCHANGED <<package, order, results>>
      BY <2>4 DEF Start, Finish, SaveFailed
    <3> DEFINE row == [run[q] EXCEPT !.status = status]
    <3>2. row \in RunRow
      BY <2>0 DEF RunRow
    <3>3. run' = [run EXCEPT ![q] = row]
      BY <1>0, <3>1
    <3> HIDE DEF row
    <3>4. run' \in [Requests -> RunRow]
      BY <1>0, <3>2, <3>3
    <3>5. pc \in PCs /\ pc # "settle"
      BY DEF PCs
    <3>. QED  BY <1>0, <3>1, <3>4, <3>5, RequestGoto
  <2>5. CASE Answer(q)
    <3>1. CASE Goto(q, "fail")
      BY <1>0, <2>5, <3>1, RequestGoto DEF Answer, PCs
    <3>2. CASE \E i, o \in Tokens :
                 request' = [request EXCEPT ![q].pc = "settle", ![q].usage = <<i, o>>]
      <4>1. PICK i \in Tokens, o \in Tokens :
                 request' = [request EXCEPT ![q].pc = "settle", ![q].usage = <<i, o>>]
        BY <3>2
      <4> DEFINE s == [request[q] EXCEPT !.pc = "settle", !.usage = <<i, o>>]
      <4>2. <<i, o>> \in Nat \X Nat
        BY JudgeLedgerAssumption
      <4>3. s \in RequestState /\ s.pc = "settle" /\ s.usage = <<i, o>>
        BY <2>0, <4>2 DEF RequestState, PCs
      <4>4. request' = [request EXCEPT ![q] = s]
        BY <4>1 DEF RequestInv, JudgeTypeOK
      <4> HIDE DEF s
      <4>5. s.usage[1] \in Tokens /\ s.usage[2] \in Tokens
        BY <4>3
      <4>6. UNCHANGED <<package, run, order, results>>
        BY <2>5 DEF Answer
      <4>. QED  BY <1>0, <4>3, <4>4, <4>5, <4>6, RequestMoves
    <3>. QED  BY <2>5, <3>1, <3>2 DEF Answer
  <2>6. CASE Reserve(q) \/ Call(q) \/ Settle(q) \/ Record(q) \/ Fail(q) \/ Crash(q)
    <3>1. PICK pc \in {"start", "fail", "answer", "record", "done", "finish", "save_failed"} :
            Goto(q, pc)
      BY <2>6 DEF Reserve, Call, Settle, Record, Fail, Crash
    <3>2. UNCHANGED <<package, run, order>> /\ results' \subseteq results \cup {q}
      BY <2>6 DEF Reserve, Call, Settle, Record, Fail, Crash
    <3>3. pc \in PCs /\ pc # "settle"
      BY DEF PCs
    <3>. QED  BY <1>0, <3>1, <3>2, <3>3, RequestGoto
  <2>. QED  BY <1>1, <2>1, <2>2, <2>3, <2>4, <2>5, <2>6 DEF RequestStep
<1>2. ASSUME NEW q \in Requests, ReservationExpires(q) PROVE RequestInv'
  BY <1>2 DEF ReservationExpires, RequestInv, JudgeTypeOK, UsageInv
<1>3. CASE Repackage
  BY <1>3 DEF Repackage, RequestInv, JudgeTypeOK, UsageInv
<1>4. CASE ExpireReservations
  BY <1>4 DEF ExpireReservations, RequestInv, JudgeTypeOK, UsageInv
<1>5. CASE UNCHANGED vars
  BY <1>5 DEF vars, RequestInv, JudgeTypeOK, UsageInv
<1>. QED  BY <1>1, <1>2, <1>3, <1>4, <1>5 DEF Next

LEMMA RequestInvInit == Init => RequestInv
<1> SUFFICES ASSUME Init PROVE RequestInv
  OBVIOUS
<1> DEFINE s == [pc |-> "new", package |-> None, usage |-> <<0, 0>>]
<1>1. NoRun \in RunRow /\ s \in RequestState /\ s.pc = "new"
  BY DEF NoRun, RunRow, RequestState, PCs
<1>2. request = [q \in Requests |-> s]
  BY DEF Init
<1> HIDE DEF s
<1>. QED  BY <1>1, <1>2 DEF Init, RequestInv, JudgeTypeOK, UsageInv

\* Requests, runs and results of judge.py are well formed, and only validated
\* usage reaches settle_budget.
THEOREM JudgeTypeCorrect == Spec => []RequestInv
  BY RequestInvInit, RequestInvNext, PTL DEF Spec

-----------------------------------------------------------------------------
(* The judge as a use of the ledger.                                       *)

LEMMA StepIsLedgerStep ==
    ASSUME RequestInv, Next PROVE B!Next \/ UNCHANGED B!vars
<1>1. CASE \E q \in Requests : Reserve(q)
  <2>1. PICK q \in Requests :
          \/ B!ReserveBudget(q, JudgeProfile, Profile[JudgeProfile].maxIn,
                             Profile[JudgeProfile].maxOut, {})
          \/ UNCHANGED budgetVars
    BY <1>1 DEF Reserve
  <2>2. {} \in SUBSET Requests
    OBVIOUS
  <2>. QED  BY <2>1, <2>2, JudgeProfileAssumption, JudgeCeilingAssumption
            DEF B!Next, budgetVars, B!vars
<1>2. CASE \E q \in Requests : Settle(q)
  <2>1. PICK q \in Requests : Settle(q)
    BY <1>2
  <2>2. request[q].usage[1] \in Tokens /\ request[q].usage[2] \in Tokens
    BY <2>1 DEF Settle, RequestInv, UsageInv
  <2>. QED  BY <2>1, <2>2 DEF Settle, B!Next, budgetVars, B!vars
<1>3. CASE \E q \in Requests : Fail(q)
  BY <1>3 DEF Fail, B!Next, budgetVars, B!vars
<1>4. CASE \E q \in Requests : ReservationExpires(q)
  BY <1>4 DEF ReservationExpires, B!Next
<1>5. CASE ExpireReservations
  <2>1. {} \in SUBSET Requests
    OBVIOUS
  <2>. QED  BY <1>5, <2>1 DEF ExpireReservations, B!Next
<1>6. CASE \/ \E q \in Requests :
                \/ Load(q) \/ Look(q) \/ Create(q) \/ Start(q) \/ Call(q) \/ Answer(q)
                \/ Record(q) \/ Finish(q) \/ SaveFailed(q) \/ Crash(q)
           \/ Repackage
  <2>1. UNCHANGED budgetVars
    BY <1>6 DEF Load, Look, Create, Start, Call, Answer, Record, Finish, SaveFailed, Crash,
       Repackage
  <2>. QED  BY <2>1 DEF budgetVars, B!vars
<1>. QED  BY <1>1, <1>2, <1>3, <1>4, <1>5, <1>6 DEF Next, RequestStep

\* The judge, its crashes and the sweeps between its statements implement the
\* abstract ledger: judge.py writes the budget tables only as budgets.py does.
THEOREM JudgeRefinesBudget == Spec => JudgeImplementsBudget
<1>1. Init => B!Init
  BY DEF Init
<1>2. RequestInv /\ [Next]_vars => [B!Next]_B!vars
  <2>1. ASSUME RequestInv, UNCHANGED vars PROVE UNCHANGED B!vars
    BY <2>1 DEF vars, budgetVars, B!vars
  <2>. QED  BY <2>1, StepIsLedgerStep
<1>. QED  BY <1>1, <1>2, JudgeTypeCorrect, PTL DEF Spec, JudgeImplementsBudget, B!Spec

-----------------------------------------------------------------------------
(* What the ledger proves of itself therefore holds of the judge.          *)

L == INSTANCE BudgetProofs WITH Runs <- Requests

\* The judge's constants are what BudgetProofs assumes of the ledger's.
LEMMA LedgerConstants ==
    /\ L!RunsAssumption /\ L!ProfileAssumption /\ L!UnitAssumption
    /\ L!MonthsAssumption /\ L!TokensAssumption /\ L!NoneAssumption
BY JudgeLedgerAssumption DEF L!RunsAssumption, L!ProfileAssumption, L!UnitAssumption,
   L!MonthsAssumption, L!TokensAssumption, L!NoneAssumption, B!ProfileRow, L!ProfileRow,
   B!PeriodRow, L!PeriodRow, B!Reservation, L!Reservation, B!Statuses, L!Statuses, IsFiniteSet,
   L!IsFiniteSet

\* B and L are two names of one specification.
LEMMA SameLedger == (B!Init => L!Init) /\ (B!Next => L!Next) /\ B!vars = L!vars
<1>1. (B!Init => L!Init) /\ B!vars = L!vars
  BY DEF B!Init, L!Init, B!vars, L!vars
<1>2. B!Next => L!Next
  BY DEF B!Next, L!Next, B!ReserveBudget, L!ReserveBudget, B!SettleBudget, L!SettleBudget,
     B!ChargeReservedBudget, L!ChargeReservedBudget, B!ReleaseBudget, L!ReleaseBudget,
     B!ExpireReservations, L!ExpireReservations, B!ReservationExpires, L!ReservationExpires,
     B!NextMonth, L!NextMonth, B!CanReserve, L!CanReserve, B!Cost, L!Cost, B!Sum, L!Sum,
     B!Rows, L!Rows, B!ReservedCost, L!ReservedCost, B!PeriodForUpdate, L!PeriodForUpdate,
     B!Expirable, L!Expirable, B!Entry, L!Entry, B!ReleaseRows, L!ReleaseRows,
     B!ReleaseEntries, L!ReleaseEntries, B!StillReserved, L!StillReserved,
     B!SettleAt, L!SettleAt, B!IsReserved, L!IsReserved, B!Cardinality, L!Cardinality
<1>. QED  BY <1>1, <1>2

LEMMA SameProperties ==
    /\ L!TypeOK => B!TypeOK
    /\ L!Accounting => B!Accounting
    /\ L!WithinLimit => B!WithinLimit
<1>1. L!TypeOK => B!TypeOK
  BY DEF B!TypeOK, L!TypeOK, B!PeriodRow, L!PeriodRow, B!Reservation, L!Reservation,
     B!LedgerRow, L!LedgerRow, B!Statuses, L!Statuses
<1>2. L!Accounting => B!Accounting
  BY DEF B!Accounting, L!Accounting, B!Sum, L!Sum, B!Rows, L!Rows, B!ReservedCost,
     L!ReservedCost, B!SettledCost, L!SettledCost, B!Statuses, L!Statuses,
     B!Cardinality, L!Cardinality
<1>3. L!WithinLimit => B!WithinLimit
  BY DEF B!WithinLimit, L!WithinLimit
<1>. QED  BY <1>1, <1>2, <1>3

\* Requests that race for the last of the month's money never overspend it.
THEOREM JudgeKeepsTheBooks == Spec => [](B!TypeOK /\ B!Accounting /\ B!WithinLimit)
<1>1. B!Init => L!Init
  BY SameLedger
<1>2. [B!Next]_B!vars => [L!Next]_L!vars
  BY SameLedger DEF B!vars, L!vars
<1>3. L!TypeOK /\ L!Accounting /\ L!WithinLimit => B!TypeOK /\ B!Accounting /\ B!WithinLimit
  BY SameProperties
<1>4. /\ L!RunsAssumption /\ L!ProfileAssumption /\ L!UnitAssumption
      /\ L!MonthsAssumption /\ L!TokensAssumption /\ L!NoneAssumption
  BY LedgerConstants
<1>5. Spec => L!Spec
  BY <1>1, <1>2, JudgeRefinesBudget, PTL DEF JudgeImplementsBudget, B!Spec, L!Spec
<1>6. L!Spec => []L!TypeOK
  BY <1>4, L!BudgetTypeCorrect, PTL
<1>7. L!Spec => []L!Accounting
  BY <1>4, L!TotalsAreSums, PTL
<1>8. L!Spec => []L!WithinLimit
  BY <1>4, L!MonthWithinLimit, PTL
<1>. QED  BY <1>3, <1>5, <1>6, <1>7, <1>8, PTL

-----------------------------------------------------------------------------
(* Every judgement is accounted for.                                       *)

\* What a step may do to the reservation of a request it does not work for: a
\* sweep releases it while it is open.
SpareOrSweep(q) ==
    \/ reservation'[q] = reservation[q]
    \/ B!IsReserved(q) /\ ~B!IsReserved(q)'

LEMMA Swept ==
    ASSUME B!TypeOK, NEW q \in Requests, NEW E,
           E \subseteq {r \in Requests : B!IsReserved(r)},
           reservation'[q] = B!ReleaseRows(E)[q]
    PROVE  SpareOrSweep(q)
<1>1. CASE q \notin E
  BY <1>1 DEF SpareOrSweep, B!ReleaseRows
<1>2. CASE q \in E
  <2>1. reservation[q] \in B!Reservation /\ B!IsReserved(q)
    BY <1>2 DEF B!TypeOK, B!IsReserved
  <2>2. reservation'[q] = [reservation[q] EXCEPT !.status = "released"]
    BY <1>2 DEF B!ReleaseRows
  <2>3. reservation'[q].status = "released"
    BY <2>1, <2>2 DEF B!Reservation
  <2>. QED  BY <2>1, <2>3 DEF SpareOrSweep, B!IsReserved
<1>. QED  BY <1>1, <1>2

LEMMA ExpirableReserved ==
    \A m : B!Expirable(m, {}) \subseteq {r \in Requests : B!IsReserved(r)}
BY DEF B!Expirable, B!Rows, B!IsReserved

LEMMA ReserveSpares ==
    ASSUME B!TypeOK, NEW r \in Requests, NEW p, NEW i, NEW o, B!ReserveBudget(r, p, i, o, {}),
           NEW q \in Requests, q # r
    PROVE  SpareOrSweep(q)
<1>1. reservation'[q] = B!ReleaseRows(B!Expirable(month, {}))[q]
  BY DEF B!ReserveBudget, B!ReleaseRows
<1>. QED  BY <1>1, Swept, ExpirableReserved

LEMMA SweepSpares ==
    ASSUME B!TypeOK, B!ExpireReservations({}), NEW q \in Requests
    PROVE  SpareOrSweep(q)
<1> DEFINE E == UNION {B!Expirable(m, {}) : m \in Months}
<1>1. E \subseteq {r \in Requests : B!IsReserved(r)}
  BY ExpirableReserved
<1>2. reservation'[q] = B!ReleaseRows(E)[q]
  BY DEF B!ExpireReservations
<1> HIDE DEF E
<1>. QED  BY <1>1, <1>2, Swept

LEMMA CostIsNat ==
    ASSUME NEW p \in Profiles, NEW i \in Tokens, NEW o \in Tokens PROVE B!Cost(p, i, o) \in Nat
<1>0. i \in Nat /\ o \in Nat
  BY JudgeLedgerAssumption
<1>1. Profile[p].inPrice \in Nat /\ Profile[p].outPrice \in Nat
  BY JudgeLedgerAssumption DEF B!ProfileRow
<1>2. i * Profile[p].inPrice \in Nat /\ o * Profile[p].outPrice \in Nat
  BY <1>0, <1>1
<1>. QED  BY <1>2, JudgeLedgerAssumption DEF B!Cost

LEMMA SettleEffect ==
    ASSUME B!TypeOK, NEW q \in Requests, NEW i \in Tokens, NEW o \in Tokens,
           B!SettleBudget(q, i, o)
    PROVE  IsSettled(q)' /\ \A r \in Requests \ {q} : reservation'[r] = reservation[r]
<1> DEFINE actual == B!Cost(reservation[q].profile, i, o)
<1>1. reservation[q] \in B!Reservation
  BY DEF B!TypeOK, B!SettleBudget, B!IsReserved
<1>2. B!SettleAt(q, actual) /\ actual \in Nat
  BY <1>1, CostIsNat DEF B!SettleBudget, B!Reservation
<1> HIDE DEF actual
<1>3. reservation'[q] = [reservation[q] EXCEPT !.status = "settled", !.settledCost = actual]
  BY <1>2 DEF B!TypeOK, B!SettleAt
<1>4. reservation'[q] \in B!Reservation /\ reservation'[q].status = "settled"
  BY <1>1, <1>2, <1>3 DEF B!Reservation, B!Statuses
<1>5. \A r \in Requests \ {q} : reservation'[r] = reservation[r]
  BY <1>2 DEF B!TypeOK, B!SettleAt
<1>. QED  BY <1>4, <1>5, JudgeLedgerAssumption DEF IsSettled

LEMMA ReleaseEffect ==
    ASSUME B!TypeOK, NEW q \in Requests, B!ReleaseBudget(q)
    PROVE  ~B!IsReserved(q)' /\ \A r \in Requests \ {q} : reservation'[r] = reservation[r]
<1>1. reservation[q] \in B!Reservation
  BY DEF B!TypeOK, B!ReleaseBudget, B!IsReserved
<1>2. reservation' = B!ReleaseRows({q})
  BY DEF B!ReleaseBudget
<1>3. reservation'[q] = [reservation[q] EXCEPT !.status = "released"]
  BY <1>2 DEF B!ReleaseRows
<1>4. reservation'[q].status = "released"
  BY <1>1, <1>3 DEF B!Reservation
<1>5. \A r \in Requests \ {q} : reservation'[r] = reservation[r]
  BY <1>2 DEF B!ReleaseRows
<1>. QED  BY <1>4, <1>5 DEF B!IsReserved

\* A request that a step does not work for stays accounted for.
LEMMA OthersAccounted ==
    ASSUME NEW q \in Requests, Accounted(q), SpareOrSweep(q), request'[q] = request[q],
           run'[q] = run[q], q \in results' <=> q \in results
    PROVE  Accounted(q)'
BY DEF Accounted, SpareOrSweep, IsSettled, B!IsReserved

\* The request at work: one step of run_fixed_judge, or its loss.
LEMMA WorkerAccounted ==
    ASSUME B!TypeOK, RequestInv, NEW q \in Requests, Accounted(q), RequestStep(q) \/ Crash(q)
    PROVE  Accounted(q)'
<1>0. request[q] \in RequestState /\ run[q] \in RunRow
  BY DEF RequestInv, JudgeTypeOK
<1>1. \A pc : Goto(q, pc) => request'[q].pc = pc
  BY <1>0 DEF Goto, RequestInv, JudgeTypeOK, RequestState
<1>2. request[q].pc # "done" => run[q].status # "failed"
  BY DEF Accounted
<1>3. CASE Load(q)
  <2>1. request'[q].pc = "look"
    BY <1>0, <1>3 DEF Load, RequestInv, JudgeTypeOK, RequestState
  <2>. QED  BY <1>2, <1>3, <2>1 DEF Load, Accounted, IsSettled, B!IsReserved, budgetVars
<1>4. CASE Look(q)
  <2>1. request'[q].pc \in {"done", "create"}
    BY <1>1, <1>4 DEF Look
  <2>. QED  BY <1>2, <1>4, <2>1 DEF Look, Accounted, IsSettled, B!IsReserved, budgetVars
<1>5. CASE Create(q)
  <2>1. request'[q].pc = "reserve"
    BY <1>1, <1>5 DEF Create
  <2>2. run'[q].status = "queued"
    BY <1>5 DEF Create, RequestInv, JudgeTypeOK
  <2>. QED  BY <1>5, <2>1, <2>2 DEF Create, Accounted, IsSettled, B!IsReserved, budgetVars
<1>6. CASE Reserve(q)
  <2>1. request'[q].pc \in {"start", "fail"}
    BY <1>1, <1>6 DEF Reserve
  <2>2. run' = run /\ results' = results
    BY <1>6 DEF Reserve
  <2>3. q \notin results \/ reservation' = reservation
    BY <1>6 DEF Reserve, B!ReserveBudget, B!CanReserve, Accounted, IsSettled, budgetVars
  <2>. QED  BY <1>2, <1>6, <2>1, <2>2, <2>3 DEF Reserve, Accounted, IsSettled
<1>7. CASE Start(q)
  <2>1. request'[q].pc = "call"
    BY <1>1, <1>7 DEF Start
  <2>2. run'[q].status = "running"
    BY <1>0, <1>7 DEF Start, RequestInv, JudgeTypeOK, RunRow
  <2>. QED  BY <1>7, <2>1, <2>2 DEF Start, Accounted, IsSettled, budgetVars
<1>8. CASE Call(q)
  <2>1. request'[q].pc \in {"fail", "answer"}
    BY <1>1, <1>8 DEF Call
  <2>. QED  BY <1>2, <1>8, <2>1 DEF Call, Accounted, IsSettled, budgetVars
<1>9. CASE Answer(q)
  <2>1. request'[q].pc \in {"fail", "settle"}
    BY <1>0, <1>1, <1>9 DEF Answer, RequestInv, JudgeTypeOK, RequestState
  <2>. QED  BY <1>2, <1>9, <2>1 DEF Answer, Accounted, IsSettled, budgetVars
<1>10. CASE Settle(q)
  <2>1. run' = run /\ results' = results /\ request[q].pc = "settle"
    BY <1>10 DEF Settle
  <2>2. CASE B!SettleBudget(q, request[q].usage[1], request[q].usage[2]) /\ Goto(q, "record")
    <3>1. PICK i \in Tokens, o \in Tokens : i = request[q].usage[1] /\ o = request[q].usage[2]
      BY <2>1 DEF RequestInv, UsageInv
    <3>2. IsSettled(q)'
      BY <2>2, <3>1, SettleEffect
    <3>. QED  BY <1>1, <1>2, <2>1, <2>2, <3>2 DEF Accounted
  <2>3. CASE ~B!IsReserved(q) /\ Goto(q, "done") /\ UNCHANGED budgetVars
    BY <1>1, <1>2, <2>1, <2>3 DEF Accounted, IsSettled, budgetVars
  <2>. QED  BY <1>10, <2>2, <2>3 DEF Settle
<1>11. CASE Record(q)
  <2>1. /\ reservation' = reservation
        /\ run' = run
        /\ IsSettled(q)
        /\ q \in results => q \in results'
    BY <1>11 DEF Record, budgetVars, Accounted
  <2>2. \/ request'[q].pc = "finish" /\ q \in results'
        \/ request'[q].pc = "fail"
    BY <1>1, <1>11 DEF Record
  <2>. QED  BY <1>2, <1>11, <2>1, <2>2 DEF Record, Accounted, IsSettled
<1>12. CASE Finish(q)
  <2>1. request'[q].pc = "done" /\ q \in results /\ IsSettled(q)
    BY <1>1, <1>12 DEF Finish, Accounted
  <2>2. run'[q].status = "succeeded"
    BY <1>0, <1>12 DEF Finish, RequestInv, JudgeTypeOK, RunRow
  <2>. QED  BY <1>12, <2>1, <2>2 DEF Finish, Accounted, IsSettled, budgetVars
<1>13. CASE Fail(q)
  <2>1. request'[q].pc = "save_failed" /\ request[q].pc = "fail"
    BY <1>1, <1>13 DEF Fail
  <2>2. run' = run /\ results' = results
    BY <1>13 DEF Fail
  <2>3. ~B!IsReserved(q)'
    BY <1>13, ReleaseEffect DEF Fail, budgetVars, B!IsReserved
  <2>4. q \in results => IsSettled(q)'
    BY <1>13 DEF Fail, budgetVars, B!ReleaseBudget, B!IsReserved, Accounted, IsSettled
  <2>. QED  BY <1>2, <2>1, <2>2, <2>3, <2>4 DEF Accounted
<1>14. CASE SaveFailed(q)
  <2>1. request'[q].pc = "done" /\ ~B!IsReserved(q)
    BY <1>1, <1>14 DEF SaveFailed, Accounted
  <2>2. run'[q].status = "failed"
    BY <1>0, <1>14 DEF SaveFailed, RequestInv, JudgeTypeOK, RunRow
  <2>. QED  BY <1>14, <2>1, <2>2 DEF SaveFailed, Accounted, IsSettled, B!IsReserved, budgetVars
<1>15. CASE Crash(q)
  <2>1. request'[q].pc = "done"
    BY <1>1, <1>15 DEF Crash
  <2>. QED  BY <1>2, <1>15, <2>1 DEF Crash, Accounted, IsSettled, B!IsReserved, budgetVars
<1>. QED  BY <1>3, <1>4, <1>5, <1>6, <1>7, <1>8, <1>9, <1>10, <1>11, <1>12, <1>13, <1>14, <1>15
          DEF RequestStep

\* ... and what such a step leaves of the others.
LEMMA WorkerSpares ==
    ASSUME B!TypeOK, RequestInv, NEW q \in Requests, RequestStep(q) \/ Crash(q),
           NEW r \in Requests, r # q
    PROVE  /\ SpareOrSweep(r)
           /\ request'[r] = request[r]
           /\ run'[r] = run[r]
           /\ r \in results' <=> r \in results
<1>1. request'[r] = request[r]
  BY DEF RequestStep, Load, Look, Create, Reserve, Start, Call, Answer, Settle, Record, Finish,
     Fail, SaveFailed, Crash, Goto, RequestInv, JudgeTypeOK
<1>2. run'[r] = run[r]
  BY DEF RequestStep, Load, Look, Create, Reserve, Start, Call, Answer, Settle, Record, Finish,
     Fail, SaveFailed, Crash, RequestInv, JudgeTypeOK
<1>3. r \in results' <=> r \in results
  BY DEF RequestStep, Load, Look, Create, Reserve, Start, Call, Answer, Settle, Record, Finish,
     Fail, SaveFailed, Crash
<1>4. SpareOrSweep(r)
  <2>1. CASE Reserve(q)
    BY <2>1, ReserveSpares DEF Reserve, budgetVars, SpareOrSweep
  <2>2. CASE Settle(q)
    <3>1. PICK i \in Tokens, o \in Tokens : i = request[q].usage[1] /\ o = request[q].usage[2]
      BY <2>2 DEF Settle, RequestInv, UsageInv
    <3>. QED  BY <2>2, <3>1, SettleEffect DEF Settle, budgetVars, SpareOrSweep
  <2>3. CASE Fail(q)
    BY <2>3, ReleaseEffect DEF Fail, budgetVars, SpareOrSweep
  <2>4. CASE UNCHANGED budgetVars
    BY <2>4 DEF budgetVars, SpareOrSweep
  <2>. QED  BY <2>1, <2>2, <2>3, <2>4 DEF RequestStep, Load, Look, Create, Start, Call, Answer,
               Record, Finish, SaveFailed, Crash
<1>. QED  BY <1>1, <1>2, <1>3, <1>4

LEMMA AccountInvNext == B!TypeOK /\ RequestInv /\ AccountInv /\ [Next]_vars => AccountInv'
<1> SUFFICES ASSUME B!TypeOK, RequestInv, AccountInv, [Next]_vars, NEW r \in Requests
             PROVE  Accounted(r)'
  BY DEF AccountInv
<1>0. Accounted(r)
  BY DEF AccountInv
<1>1. ASSUME NEW q \in Requests, RequestStep(q) \/ Crash(q) PROVE Accounted(r)'
  <2>1. CASE r = q
    BY <1>0, <1>1, <2>1, WorkerAccounted
  <2>2. CASE r # q
    BY <1>0, <1>1, <2>2, WorkerSpares, OthersAccounted
  <2>. QED  BY <2>1, <2>2
<1>2. CASE ExpireReservations
  <2>1. SpareOrSweep(r)
    BY <1>2, SweepSpares DEF ExpireReservations
  <2>. QED  BY <1>0, <1>2, <2>1, OthersAccounted DEF ExpireReservations
<1>3. CASE \/ \E q \in Requests : ReservationExpires(q)
           \/ Repackage
           \/ UNCHANGED vars
  <2>1. UNCHANGED <<reservation, run, results, request>>
    BY <1>3 DEF ReservationExpires, B!ReservationExpires, Repackage, vars, budgetVars
  <2>. QED  BY <1>0, <2>1 DEF Accounted, IsSettled, B!IsReserved
<1>. QED  BY <1>1, <1>2, <1>3 DEF Next

LEMMA AccountInvInit == Init => AccountInv
  BY DEF Init, B!Init, AccountInv, Accounted, NoRun, IsSettled, B!IsReserved

\* The inductive invariant of a judgement's money: what is stored was settled,
\* and what failed, or is about to be saved as failed, holds nothing.
THEOREM AccountInvariant == Spec => []AccountInv
  BY AccountInvInit, AccountInvNext, JudgeKeepsTheBooks, JudgeTypeCorrect, PTL DEF Spec

\* However requests, crashes and expiry sweeps fall between the statements of
\* run_fixed_judge, a stored judgement is paid for and a failed one is not.
THEOREM JudgementsAreAccounted == Spec => []JudgementIsAccounted
<1>1. RequestInv /\ AccountInv => JudgementIsAccounted
  BY DEF RequestInv, JudgeTypeOK, AccountInv, Accounted, IsSettled, JudgementIsAccounted
<1>. QED  BY <1>1, AccountInvariant, JudgeTypeCorrect, PTL
=============================================================================
