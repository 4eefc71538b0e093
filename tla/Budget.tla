------------------------------- MODULE Budget -------------------------------
(***************************************************************************)
(* The model-spend ledger of backend/agents/budgets.py.                    *)
(*                                                                         *)
(* Every public function of that file is one database transaction, and so  *)
(* one action here.  A request the code answers with an exception          *)
(* (UnknownModelPrice, BudgetRequestConflict, BudgetExhausted) rolls its   *)
(* transaction back, and an idempotent replay returns the stored row: both *)
(* leave the tables alone, so neither is a step.                           *)
(*                                                                         *)
(* Token counts matter only through the price they are converted to; that  *)
(* conversion rounds up to a whole micro-dollar, as Cost does.             *)
(***************************************************************************)
EXTENDS Integers, FiniteSets

CONSTANTS
    Runs,       \* identities of the agent runs that may ask for budget
    Profiles,   \* names of the allowlisted model profiles
    Profile,    \* their rows: price, token ceilings and routing policy
    Unit,       \* tokens per quoted price (1_000_000 in the code)
    Months,     \* an interval of month numbers
    Tokens,     \* the token counts a caller may pass
    None        \* SQL NULL, or no such row

ProfileRow == [priced: BOOLEAN, inPrice: Nat, outPrice: Nat, maxIn: Nat,
               maxOut: Nat, perRun: Nat, monthly: Nat]

Statuses == {"reserved", "settled", "released"}
PeriodRow == [limit: Nat, reserved: Nat, settled: Nat]
Reservation == [status: Statuses, profile: Profiles, month: Months,
                cost: Nat, settledCost: Nat]
LedgerRow == [run: Runs, type: Statuses, cost: Nat]

ASSUME RunsAssumption == IsFiniteSet(Runs)
ASSUME ProfileAssumption == Profile \in [Profiles -> ProfileRow]
ASSUME UnitAssumption == Unit \in Nat \ {0}
ASSUME MonthsAssumption == Months \subseteq Nat /\ 1 \in Months
ASSUME TokensAssumption == Tokens \subseteq Nat
ASSUME NoneAssumption == None \notin PeriodRow \cup Reservation

VARIABLES
    month,        \* the calendar month of timezone.now()
    period,       \* BudgetPeriod: one row per month, None until it is created
    reservation,  \* BudgetReservation: one row per run, None until reserved
    ledger,       \* BudgetLedgerRecord: the append-only audit rows
    expired       \* runs whose reservation.expires_at has passed

vars == <<month, period, reservation, ledger, expired>>


-----------------------------------------------------------------------------
(* Pure helpers.                                                           *)

\* The price of a number of input and output tokens, rounded up.
Cost(p, i, o) ==
    (i * Profile[p].inPrice + o * Profile[p].outPrice + (Unit - 1)) \div Unit

\* The sum of c over S, counted as the size of a disjoint union.
Sum(c, S) == Cardinality(UNION {{r} \X (1..c[r]) : r \in S})

Rows(status, m) == {r \in Runs : /\ reservation[r] # None
                                 /\ reservation[r].status = status
                                 /\ reservation[r].month = m}

ReservedCost == [r \in Runs |->
                    IF reservation[r] = None THEN 0 ELSE reservation[r].cost]

SettledCost == [r \in Runs |->
                   IF reservation[r] = None THEN 0 ELSE reservation[r].settledCost]

\* The row _period_for_update works on: get_or_create with the policy's limit.
PeriodForUpdate(p) ==
    IF period[month] = None
      THEN [limit |-> Profile[p].monthly, reserved |-> 0, settled |-> 0]
      ELSE period[month]

\* Reservations of month m past their expiry, except those of a Hermes run that
\* is still active or quarantined (held), which keep their money.
Expirable(m, held) == (Rows("reserved", m) \cap expired) \ held

Entry(r, type, cost) == [run |-> r, type |-> type, cost |-> cost]

ReleaseRows(E) ==
    [r \in Runs |-> IF r \in E THEN [reservation[r] EXCEPT !.status = "released"]
                               ELSE reservation[r]]

\* A mistake: the expiry sweep forgets its audit rows.
ReleaseEntriesForgotten(E) == {}

ReleaseEntries(E) == {Entry(r, "released", reservation[r].cost) : r \in E}

-----------------------------------------------------------------------------
Init ==
    /\ month = 1
    /\ period = [m \in Months |-> None]
    /\ reservation = [r \in Runs |-> None]
    /\ ledger = {}
    /\ expired = {}

\* What is left of the month's reservations once the expired ones are released.
StillReserved(p, held) ==
    PeriodForUpdate(p).reserved - Sum(ReservedCost, Expirable(month, held))

\* reserve_budget's checks: a known price, the profile's token limits, and the
\* per-run and the monthly limit.
CanReserve(r, p, i, o, held) ==
    LET row == PeriodForUpdate(p)
    IN  /\ reservation[r] = None
        /\ Profile[p].priced
        /\ i <= Profile[p].maxIn
        /\ o <= Profile[p].maxOut
        /\ Cost(p, i, o) <= Profile[p].perRun
        /\ row.limit = Profile[p].monthly
        /\ StillReserved(p, held) + row.settled + Cost(p, i, o) <= row.limit

\* reserve_budget: expire what can be expired in this month, then reserve the
\* estimate.
ReserveBudget(r, p, i, o, held) ==
    LET cost == Cost(p, i, o)
        E    == Expirable(month, held)
    IN  /\ CanReserve(r, p, i, o, held)
        /\ reservation' = [ReleaseRows(E) EXCEPT ![r] =
               [status |-> "reserved", profile |-> p, month |-> month,
                cost |-> cost, settledCost |-> 0]]
        /\ period' = [period EXCEPT ![month] =
               [PeriodForUpdate(p) EXCEPT !.reserved = StillReserved(p, held) + cost]]
        /\ ledger' = ledger \cup ReleaseEntries(E) \cup {Entry(r, "reserved", cost)}
        /\ UNCHANGED <<month, expired>>

\* The two assignments every settlement makes: money moves from the period's
\* reserved column to its settled column, at the actual cost.
SettleAt(r, actual) ==
    LET m == reservation[r].month
    IN  /\ period' = [period EXCEPT
               ![m].reserved = @ - reservation[r].cost,
               ![m].settled = @ + actual]
        /\ reservation' = [reservation EXCEPT
               ![r].status = "settled", ![r].settledCost = actual]
        /\ ledger' = ledger \cup {Entry(r, "settled", actual)}
        /\ UNCHANGED <<month, expired>>

\* A mistake: a settled reservation is taken for an open one.
IsNotReleased(r) == reservation[r] # None /\ reservation[r].status # "released"

IsReserved(r) == reservation[r] # None /\ reservation[r].status = "reserved"

\* A mistake: the monthly limit is checked at reservation time only.
SettleBudgetUnlimited(r, i, o) ==
    LET p      == reservation[r].profile
        actual == Cost(p, i, o)
    IN  /\ IsReserved(r)
        /\ i <= Profile[p].maxIn
        /\ o <= Profile[p].maxOut
        /\ actual <= Profile[p].perRun
        /\ SettleAt(r, actual)

\* settle_budget: charge the reported usage.
SettleBudget(r, i, o) ==
    LET p      == reservation[r].profile
        actual == Cost(p, i, o)
        row    == period[reservation[r].month]
    IN  /\ IsReserved(r)
        /\ i <= Profile[p].maxIn
        /\ o <= Profile[p].maxOut
        /\ actual <= Profile[p].perRun
        /\ row.settled + row.reserved + actual - reservation[r].cost <= row.limit
        /\ SettleAt(r, actual)

\* charge_reserved_budget: usage is unknown, so the whole reservation is charged.
ChargeReservedBudget(r) ==
    /\ IsReserved(r)
    /\ SettleAt(r, reservation[r].cost)

\* A mistake: the reservation is closed but the period keeps its total.
ReleaseBudgetKeepsTotal(r) ==
    /\ IsReserved(r)
    /\ reservation' = ReleaseRows({r})
    /\ ledger' = ledger \cup ReleaseEntries({r})
    /\ UNCHANGED <<month, period, expired>>

\* release_budget: nothing was spent, so the reservation is given back.
ReleaseBudget(r) ==
    /\ IsReserved(r)
    /\ period' = [period EXCEPT ![reservation[r].month].reserved =
                      @ - reservation[r].cost]
    /\ reservation' = ReleaseRows({r})
    /\ ledger' = ledger \cup ReleaseEntries({r})
    /\ UNCHANGED <<month, expired>>

\* expire_reservations: the same clean-up for every month, in one transaction.
ExpireReservations(held) ==
    LET E == UNION {Expirable(m, held) : m \in Months}
    IN  /\ E # {}
        /\ period' = [m \in Months |->
               IF period[m] = None THEN None
               ELSE [period[m] EXCEPT !.reserved =
                        @ - Sum(ReservedCost, Expirable(m, held))]]
        /\ reservation' = ReleaseRows(E)
        /\ ledger' = ledger \cup ReleaseEntries(E)
        /\ UNCHANGED <<month, expired>>

\* The clock: a reservation's expires_at passes, or a month ends.
ReservationExpires(r) ==
    /\ reservation[r] # None
    /\ r \notin expired
    /\ expired' = expired \cup {r}
    /\ UNCHANGED <<month, period, reservation, ledger>>

NextMonth ==
    /\ month + 1 \in Months
    /\ month' = month + 1
    /\ UNCHANGED <<period, reservation, ledger, expired>>

\* The callers decide which runs are active or quarantined, hence held.
Next ==
    \/ \E r \in Runs, p \in Profiles, i, o \in Tokens, held \in SUBSET Runs :
           ReserveBudget(r, p, i, o, held)
    \/ \E r \in Runs, i, o \in Tokens : SettleBudget(r, i, o)
    \/ \E r \in Runs : ChargeReservedBudget(r)
    \/ \E r \in Runs : ReleaseBudget(r)
    \/ \E held \in SUBSET Runs : ExpireReservations(held)
    \/ \E r \in Runs : ReservationExpires(r)
    \/ NextMonth

Spec == Init /\ [][Next]_vars

-----------------------------------------------------------------------------
(* Properties.                                                             *)

\* Every table holds rows of its declared shape; in particular the unsigned
\* columns reserved_microusd and settled_microusd never go below zero.
TypeOK ==
    /\ month \in Months
    /\ period \in [Months -> PeriodRow \cup {None}]
    /\ reservation \in [Runs -> Reservation \cup {None}]
    /\ ledger \subseteq LedgerRow
    /\ expired \subseteq Runs

\* The two running totals budgets.py keeps by incrementing and decrementing a
\* period row equal, at all times, the sums over the reservation rows, whatever
\* interleaving of reserve, settle, charge, release and expiry produced them.
Accounting ==
    \A m \in Months :
        IF period[m] = None
          THEN \A s \in Statuses : Rows(s, m) = {}
          ELSE /\ period[m].reserved = Sum(ReservedCost, Rows("reserved", m))
               /\ period[m].settled = Sum(SettledCost, Rows("settled", m))

\* What has been spent plus what is promised never exceeds the month's limit,
\* also when the settled usage is dearer than the estimate it was reserved at.
WithinLimit ==
    \A m \in Months : period[m] # None =>
        period[m].reserved + period[m].settled <= period[m].limit

\* The audit rows tell the same story as the reservation rows: one "reserved"
\* row per reservation, a "settled" or a "released" row exactly when it was
\* closed that way, so the unique (run, entry_type) constraint never fires.
LedgerReconciles ==
    ledger = UNION {
        IF reservation[r] = None THEN {}
        ELSE {Entry(r, "reserved", reservation[r].cost)} \cup
             CASE reservation[r].status = "reserved" -> {}
               [] reservation[r].status = "settled" ->
                    {Entry(r, "settled", reservation[r].settledCost)}
               [] reservation[r].status = "released" ->
                    {Entry(r, "released", reservation[r].cost)}
        : r \in Runs}

\* The three records of a run's money, totals, reservation and audit rows, agree.
BooksReconcile == Accounting /\ LedgerReconciles

\* A settled or released reservation is final: no later call, replay or expiry
\* changes it (otherwise a retry would charge or refund a run twice).
ClosedForGood ==
    [][\A r \in Runs :
          (reservation[r] # None /\ reservation[r].status # "reserved")
              => reservation'[r] = reservation[r]]_vars

=============================================================================
