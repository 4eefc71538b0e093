---------------------------- MODULE BudgetProofs ----------------------------
(***************************************************************************)
(* Machine-checked proofs about Budget, for any number of runs, months,    *)
(* profiles and prices.                                                    *)
(***************************************************************************)
EXTENDS Budget, FiniteSetTheorems, TLAPS

-----------------------------------------------------------------------------
(* Sums.                                                                   *)

Blocks(c, S) == {{r} \X (1..c[r]) : r \in S}

\* The disjoint union that Sum counts is finite.
LEMMA BlocksFinite ==
    ASSUME NEW S, IsFiniteSet(S), NEW c, \A r \in S : c[r] \in Nat
    PROVE  IsFiniteSet(UNION Blocks(c, S))
<1> DEFINE f == [r \in S |-> {r} \X (1..c[r])]
<1>1. f \in Surjection(S, Blocks(c, S))
  BY DEF Surjection, Blocks
<1>2. IsFiniteSet(Blocks(c, S))
  BY <1>1, FS_Surjection
<1>3. ASSUME NEW r \in S PROVE IsFiniteSet({r} \X (1..c[r]))
  <2>1. c[r] \in Nat
    OBVIOUS
  <2>2. IsFiniteSet(1..c[r])
    BY <2>1, FS_Interval
  <2>3. IsFiniteSet({r})
    BY FS_Singleton
  <2> QED
    BY <2>2, <2>3, FS_Product
<1>4. \A T \in Blocks(c, S) : IsFiniteSet(T)
  BY <1>3 DEF Blocks
<1> QED
  BY <1>2, <1>4, FS_UNION

LEMMA SumNat ==
    ASSUME NEW S, IsFiniteSet(S), NEW c, \A r \in S : c[r] \in Nat
    PROVE  Sum(c, S) \in Nat
BY BlocksFinite, FS_CardinalityType DEF Sum, Blocks

LEMMA SumEmpty == ASSUME NEW c PROVE Sum(c, {}) = 0
<1>1. UNION {{r} \X (1..c[r]) : r \in {}} = {}
  OBVIOUS
<1> QED
  BY <1>1, FS_EmptySet DEF Sum

LEMMA SumSingle ==
    ASSUME NEW r, NEW c, c[r] \in Nat
    PROVE  Sum(c, {r}) = c[r]
<1>1. UNION {{q} \X (1..c[q]) : q \in {r}} = {r} \X (1..c[r])
  OBVIOUS
<1>2. IsFiniteSet({r}) /\ Cardinality({r}) = 1
  BY FS_Singleton
<1>3. IsFiniteSet(1..c[r]) /\ Cardinality(1..c[r]) = c[r]
  BY FS_Interval
<1>4. Cardinality({r} \X (1..c[r])) = Cardinality({r}) * Cardinality(1..c[r])
  BY <1>2, <1>3, FS_Product
<1> QED
  BY <1>1, <1>2, <1>3, <1>4 DEF Sum

LEMMA CardinalityDisjoint ==
    ASSUME NEW A, NEW B, IsFiniteSet(A), IsFiniteSet(B), A \cap B = {}
    PROVE  Cardinality(A \cup B) = Cardinality(A) + Cardinality(B)
<1>1. Cardinality(A \cup B) = Cardinality(A) + Cardinality(B) - Cardinality(A \cap B)
  BY FS_Union
<1>2. Cardinality(A \cap B) = 0
  BY FS_EmptySet
<1>3. Cardinality(A) \in Nat /\ Cardinality(B) \in Nat
  BY FS_CardinalityType
<1> QED
  BY <1>1, <1>2, <1>3

\* A sum over two sets that do not meet.
LEMMA SumUnion ==
    ASSUME NEW S, NEW T, IsFiniteSet(S), IsFiniteSet(T), S \cap T = {},
           NEW c, \A r \in S \cup T : c[r] \in Nat
    PROVE  Sum(c, S \cup T) = Sum(c, S) + Sum(c, T)
<1> DEFINE A == UNION Blocks(c, S)
           B == UNION Blocks(c, T)
<1>1. UNION Blocks(c, S \cup T) = A \cup B
  BY DEF Blocks
<1>2. A \cap B = {}
  BY DEF Blocks
<1>3. IsFiniteSet(A) /\ IsFiniteSet(B)
  BY BlocksFinite
<1>4. Cardinality(A \cup B) = Cardinality(A) + Cardinality(B)
  <2> HIDE DEF A, B
  <2> QED
    BY <1>2, <1>3, CardinalityDisjoint
<1> QED
  BY <1>1, <1>4 DEF Sum, Blocks

\* What is left of a sum when some of its terms are taken out.
LEMMA SumDifference ==
    ASSUME NEW S, NEW T, IsFiniteSet(S), T \subseteq S,
           NEW c, \A r \in S : c[r] \in Nat
    PROVE  /\ Sum(c, S \ T) = Sum(c, S) - Sum(c, T)
           /\ Sum(c, S \ T) \in Nat
           /\ Sum(c, T) \in Nat
<1>1. IsFiniteSet(T) /\ IsFiniteSet(S \ T)
  BY FS_Subset
<1>2. (S \ T) \cup T = S /\ (S \ T) \cap T = {}
  OBVIOUS
<1>3. Sum(c, (S \ T) \cup T) = Sum(c, S \ T) + Sum(c, T)
  BY <1>1, <1>2, SumUnion
<1>4. Sum(c, S) = Sum(c, S \ T) + Sum(c, T)
  BY <1>2, <1>3, Zenon
<1>5. Sum(c, S \ T) \in Nat /\ Sum(c, T) \in Nat
  BY <1>1, SumNat
<1> QED
  BY <1>4, <1>5

LEMMA SumAdd ==
    ASSUME NEW S, IsFiniteSet(S), NEW r, r \notin S,
           NEW c, \A q \in S \cup {r} : c[q] \in Nat
    PROVE  Sum(c, S \cup {r}) = Sum(c, S) + c[r]
<1>1. IsFiniteSet({r})
  BY FS_Singleton
<1>2. S \cap {r} = {}
  OBVIOUS
<1>3. Sum(c, S \cup {r}) = Sum(c, S) + Sum(c, {r})
  BY <1>1, <1>2, SumUnion
<1> QED
  BY <1>3, SumSingle

LEMMA SumSame ==
    ASSUME NEW S, NEW c, NEW d, \A r \in S : c[r] = d[r]
    PROVE  Sum(c, S) = Sum(d, S)
<1>1. {{r} \X (1..c[r]) : r \in S} = {{r} \X (1..d[r]) : r \in S}
  OBVIOUS
<1> QED
  BY <1>1 DEF Sum

-----------------------------------------------------------------------------
(* The inductive invariant.  TypeOK alone is not inductive: that a period's *)
(* reserved column stays above zero when a reservation is closed needs the *)
(* Accounting of the others.                                               *)

BudgetInv == TypeOK /\ Accounting /\ WithinLimit /\ LedgerReconciles

\* The audit rows that a reservation's row calls for.
Entries(r) ==
    IF reservation[r] = None THEN {}
    ELSE {Entry(r, "reserved", reservation[r].cost)} \cup
         CASE reservation[r].status = "reserved" -> {}
           [] reservation[r].status = "settled" ->
                {Entry(r, "settled", reservation[r].settledCost)}
           [] reservation[r].status = "released" ->
                {Entry(r, "released", reservation[r].cost)}

LEMMA LedgerByRun == LedgerReconciles <=> ledger = UNION {Entries(r) : r \in Runs}
BY DEF LedgerReconciles, Entries

\* The ledger still reconciles when it gains what each row's entries gain.
LEMMA LedgerGrows ==
    ASSUME LedgerReconciles, NEW D, \A r \in Runs : Entries(r)' = Entries(r) \cup D[r],
           ledger' = ledger \cup UNION {D[r] : r \in Runs}
    PROVE  LedgerReconciles'
<1>1. ledger = UNION {Entries(r) : r \in Runs}
  BY LedgerByRun
<1>2. ledger' = UNION {Entries(r)' : r \in Runs}
  BY <1>1
<1> QED
  BY <1>2 DEF LedgerReconciles, Entries

LEMMA CostNat ==
    ASSUME NEW p \in Profiles, NEW i \in Nat, NEW o \in Nat
    PROVE  Cost(p, i, o) \in Nat
<1>1. Profile[p].inPrice \in Nat /\ Profile[p].outPrice \in Nat
  BY ProfileAssumption DEF ProfileRow
<1>2. i * Profile[p].inPrice \in Nat /\ o * Profile[p].outPrice \in Nat
  BY <1>1
<1>3. i * Profile[p].inPrice + o * Profile[p].outPrice + (Unit - 1) \in Nat
  BY <1>2, UnitAssumption
<1> QED
  BY <1>3, UnitAssumption DEF Cost

LEMMA RowsTyped ==
    ASSUME TypeOK
    PROVE  /\ \A r \in Runs : reservation[r] # None => reservation[r] \in Reservation
           /\ \A m \in Months : period[m] # None => period[m] \in PeriodRow
           /\ \A st, m : Rows(st, m) \subseteq Runs /\ IsFiniteSet(Rows(st, m))
           /\ \A r \in Runs : ReservedCost[r] \in Nat /\ SettledCost[r] \in Nat
<1>1. \A r \in Runs : reservation[r] # None => reservation[r] \in Reservation
  BY DEF TypeOK
<1>2. \A m \in Months : period[m] # None => period[m] \in PeriodRow
  BY DEF TypeOK
<1>3. ASSUME NEW st, NEW m
      PROVE  Rows(st, m) \subseteq Runs /\ IsFiniteSet(Rows(st, m))
  <2>1. Rows(st, m) \subseteq Runs
    BY DEF Rows
  <2> QED
    BY <2>1, RunsAssumption, FS_Subset
<1>4. \A r \in Runs : ReservedCost[r] \in Nat /\ SettledCost[r] \in Nat
  BY <1>1 DEF ReservedCost, SettledCost, Reservation
<1> QED
  BY <1>1, <1>2, <1>3, <1>4

LEMMA BudgetInvInit == Init => BudgetInv
<1> SUFFICES ASSUME Init PROVE BudgetInv
  OBVIOUS
<1>1. TypeOK
  BY MonthsAssumption DEF Init, TypeOK
<1>2. Accounting /\ WithinLimit
  BY DEF Init, Accounting, WithinLimit, Rows
<1>3. LedgerReconciles
  <2>1. \A r \in Runs : Entries(r) = {}
    BY DEF Init, Entries
  <2> QED
    BY <2>1, LedgerByRun DEF Init
<1> QED
  BY <1>1, <1>2, <1>3 DEF BudgetInv

-----------------------------------------------------------------------------
(* Releasing reservations: ReleaseBudget and the expiry sweeps.            *)

Open == {r \in Runs : IsReserved(r)}

\* What a release of the open reservations E does to the sums over the table.
LEMMA ReleasedRows ==
    ASSUME TypeOK, NEW E \in SUBSET Open, reservation' = ReleaseRows(E)
    PROVE  /\ reservation' \in [Runs -> Reservation \cup {None}]
           /\ \A m : Rows("reserved", m)' = Rows("reserved", m) \ E
           /\ \A m : Rows("settled", m)' = Rows("settled", m)
           /\ \A m : Rows("released", m)' = Rows("released", m) \cup {r \in E : reservation[r].month = m}
           /\ \A r \in Runs : /\ ReservedCost'[r] = ReservedCost[r]
                               /\ SettledCost'[r] = SettledCost[r]
           /\ \A r \in Runs : reservation'[r] = None <=> reservation[r] = None
<1>1. \A r \in E : /\ r \in Runs /\ reservation[r] # None
                  /\ reservation[r] \in Reservation /\ reservation[r].status = "reserved"
  BY RowsTyped DEF Open, IsReserved
<1>2. ASSUME NEW r \in E
      PROVE  /\ reservation'[r] = [reservation[r] EXCEPT !.status = "released"]
             /\ reservation'[r] \in Reservation
             /\ reservation'[r] # None
             /\ reservation'[r].status = "released"
             /\ reservation'[r].month = reservation[r].month
             /\ reservation'[r].cost = reservation[r].cost
             /\ reservation'[r].settledCost = reservation[r].settledCost
  <2>1. reservation'[r] = [reservation[r] EXCEPT !.status = "released"]
    BY <1>1 DEF ReleaseRows
  <2>2. reservation'[r] \in Reservation
    BY <1>1, <2>1 DEF Reservation, Statuses
  <2> QED
    BY <1>1, <2>1, <2>2, NoneAssumption DEF Reservation
<1>3. \A r \in Runs \ E : reservation'[r] = reservation[r]
  BY DEF ReleaseRows
<1>4. reservation' \in [Runs -> Reservation \cup {None}]
  <2>1. reservation' = [r \in Runs |-> reservation'[r]]
    BY DEF ReleaseRows
  <2>2. \A r \in Runs : reservation'[r] \in Reservation \cup {None}
    BY <1>2, <1>3 DEF TypeOK
  <2> QED
    BY <2>1, <2>2
<1>5. ASSUME NEW m
      PROVE  /\ Rows("reserved", m)' = Rows("reserved", m) \ E
             /\ Rows("settled", m)' = Rows("settled", m)
             /\ Rows("released", m)' = Rows("released", m)
                                        \cup {r \in E : reservation[r].month = m}
  <2>1. ASSUME NEW r \in E
        PROVE  /\ r \in Rows("released", m)' <=> reservation[r].month = m
               /\ r \notin Rows("reserved", m)' /\ r \notin Rows("settled", m)'
               /\ r \notin Rows("settled", m) /\ r \notin Rows("released", m)
    BY <1>1, <1>2 DEF Rows
  <2>2. ASSUME NEW r \in Runs \ E
        PROVE  \A st : r \in Rows(st, m)' <=> r \in Rows(st, m)
    BY <1>3 DEF Rows
  <2>3. \A st : Rows(st, m) \subseteq Runs /\ Rows(st, m)' \subseteq Runs
    BY DEF Rows
  <2> QED
    BY <1>1, <2>1, <2>2, <2>3
<1>6. \A r \in Runs : /\ ReservedCost'[r] = ReservedCost[r]
                     /\ SettledCost'[r] = SettledCost[r]
  BY <1>1, <1>2, <1>3 DEF ReservedCost, SettledCost
<1>7. \A r \in Runs : reservation'[r] = None <=> reservation[r] = None
  BY <1>1, <1>2, <1>3
<1> QED
  BY <1>4, <1>5, <1>6, <1>7

\* ... to the audit rows ...
LEMMA ReleasedEntries ==
    ASSUME TypeOK, NEW E \in SUBSET Open, reservation' = ReleaseRows(E)
    PROVE  /\ ReleaseEntries(E) \subseteq LedgerRow
           /\ \A r \in E : Entries(r)' = Entries(r) \cup {Entry(r, "released", reservation[r].cost)}
           /\ \A r \in Runs \ E : Entries(r)' = Entries(r)
<1>1. \A r \in E : /\ r \in Runs /\ reservation[r] # None
                  /\ reservation[r] \in Reservation /\ reservation[r].status = "reserved"
  BY RowsTyped DEF Open, IsReserved
<1>2. ReleaseEntries(E) \subseteq LedgerRow
  BY <1>1 DEF ReleaseEntries, Entry, LedgerRow, Reservation, Statuses
<1>3. ASSUME NEW r \in E
      PROVE  Entries(r)' = Entries(r) \cup {Entry(r, "released", reservation[r].cost)}
  <2>1. reservation'[r] = [reservation[r] EXCEPT !.status = "released"]
    BY <1>1 DEF ReleaseRows
  <2>2. reservation'[r] # None
    BY <1>1, ReleasedRows
  <2>3. reservation'[r].status = "released" /\ reservation'[r].cost = reservation[r].cost
    BY <1>1, <2>1 DEF Reservation
  <2>4. Entries(r) = {Entry(r, "reserved", reservation[r].cost)}
    BY <1>1 DEF Entries
  <2>5. Entries(r)' = {Entry(r, "reserved", reservation[r].cost)}
                      \cup {Entry(r, "released", reservation[r].cost)}
    BY <2>2, <2>3 DEF Entries, Entry
  <2> QED
    BY <2>4, <2>5
<1>4. \A r \in Runs \ E : reservation'[r] = reservation[r]
  BY DEF ReleaseRows
<1>5. \A r \in Runs \ E : Entries(r)' = Entries(r)
  BY <1>4 DEF Entries, Entry
<1> QED
  BY <1>2, <1>3, <1>5

\* ... and to the month's totals.
LEMMA ReleasedTotals ==
    ASSUME TypeOK, Accounting, WithinLimit,
           NEW E \in SUBSET Open, reservation' = ReleaseRows(E),
           NEW m \in Months,
           period[m] = None => period'[m] = None,
           period[m] # None => period'[m] = [period[m] EXCEPT !.reserved =
               @ - Sum(ReservedCost, E \cap Rows("reserved", m))]
    PROVE  /\ period'[m] \in PeriodRow \cup {None}
           /\ IF period'[m] = None
                THEN \A st \in Statuses : Rows(st, m)' = {}
                ELSE /\ period'[m].reserved = Sum(ReservedCost', Rows("reserved", m)')
                     /\ period'[m].settled = Sum(SettledCost', Rows("settled", m)')
                     /\ period'[m].reserved + period'[m].settled <= period'[m].limit
<1> DEFINE R == Rows("reserved", m)
           X == E \cap R
<1>1. CASE period[m] = None
  <2>1. \A st \in Statuses : Rows(st, m) = {}
    BY <1>1 DEF Accounting
  <2>2. \A r \in E : r \in Runs /\ reservation[r].month # m
    BY <2>1 DEF Open, IsReserved, Rows, Statuses
  <2>3. \A st \in Statuses : Rows(st, m)' = {}
    BY <2>1, <2>2, ReleasedRows DEF Statuses
  <2> QED
    BY <1>1, <2>3
<1>2. CASE period[m] # None
  <2>1. /\ period[m] \in PeriodRow
        /\ period[m].reserved = Sum(ReservedCost, R)
        /\ period[m].settled = Sum(SettledCost, Rows("settled", m))
        /\ period[m].reserved + period[m].settled <= period[m].limit
    BY <1>2, RowsTyped DEF Accounting, WithinLimit
  <2>2. /\ Sum(ReservedCost, R \ X) = Sum(ReservedCost, R) - Sum(ReservedCost, X)
        /\ Sum(ReservedCost, R \ X) \in Nat
        /\ Sum(ReservedCost, X) \in Nat
    <3>1. IsFiniteSet(R) /\ X \subseteq R /\ \A r \in R : ReservedCost[r] \in Nat
      BY RowsTyped
    <3> HIDE DEF R, X
    <3> QED
      BY <3>1, SumDifference
  <2>3. period'[m] \in PeriodRow /\ period'[m] # None
    <3>1. period[m].reserved - Sum(ReservedCost, X) \in Nat
      BY <2>1, <2>2
    <3>2. period'[m] \in PeriodRow
      BY <1>2, <2>1, <3>1 DEF PeriodRow
    <3> QED
      BY <3>2, NoneAssumption
  <2>4. /\ period'[m].reserved = Sum(ReservedCost, R \ X)
        /\ period'[m].settled = period[m].settled
        /\ period'[m].limit = period[m].limit
    BY <1>2, <2>1, <2>2 DEF PeriodRow
  <2>5. Rows("reserved", m)' = R \ X /\ Rows("settled", m)' = Rows("settled", m)
    BY ReleasedRows
  <2>6. Sum(ReservedCost', Rows("reserved", m)') = Sum(ReservedCost, R \ X)
    <3>1. \A r \in R \ X : ReservedCost'[r] = ReservedCost[r]
      BY ReleasedRows, RowsTyped
    <3> QED
      BY <2>5, <3>1, SumSame
  <2>7. Sum(SettledCost', Rows("settled", m)') = Sum(SettledCost, Rows("settled", m))
    <3>1. \A r \in Rows("settled", m) : SettledCost'[r] = SettledCost[r]
      BY ReleasedRows, RowsTyped
    <3> QED
      BY <2>5, <3>1, SumSame
  <2>8. period'[m].reserved + period'[m].settled <= period'[m].limit
    BY <2>1, <2>2, <2>4 DEF PeriodRow
  <2> QED
    BY <2>1, <2>3, <2>4, <2>6, <2>7, <2>8
<1> QED
  BY <1>1, <1>2

\* A step that releases the open reservations E and books that in every month.
LEMMA ReleaseStep ==
    ASSUME BudgetInv, NEW E \in SUBSET Open, reservation' = ReleaseRows(E),
           period' = [m \in Months |-> period'[m]],
           \A m \in Months :
               /\ period[m] = None => period'[m] = None
               /\ period[m] # None => period'[m] = [period[m] EXCEPT !.reserved =
                      @ - Sum(ReservedCost, E \cap Rows("reserved", m))],
           ledger' = ledger \cup ReleaseEntries(E),
           UNCHANGED <<month, expired>>
    PROVE  BudgetInv'
<1> USE DEF BudgetInv
<1>1. ASSUME NEW m \in Months
      PROVE  /\ period'[m] \in PeriodRow \cup {None}
             /\ IF period'[m] = None
                  THEN \A st \in Statuses : Rows(st, m)' = {}
                  ELSE /\ period'[m].reserved = Sum(ReservedCost', Rows("reserved", m)')
                       /\ period'[m].settled = Sum(SettledCost', Rows("settled", m)')
                       /\ period'[m].reserved + period'[m].settled <= period'[m].limit
  BY ReleasedTotals
<1>2. period' \in [Months -> PeriodRow \cup {None}]
  BY <1>1
<1>3. TypeOK'
  BY <1>2, ReleasedRows, ReleasedEntries DEF TypeOK
<1>4. Accounting' /\ WithinLimit'
  BY <1>1 DEF Accounting, WithinLimit
<1>5. LedgerReconciles'
  <2> DEFINE D == [r \in Runs |-> IF r \in E THEN {Entry(r, "released", reservation[r].cost)}
                                              ELSE {}]
  <2>1. \A r \in Runs : Entries(r)' = Entries(r) \cup D[r]
    BY ReleasedEntries
  <2>2. ReleaseEntries(E) = UNION {D[r] : r \in Runs}
    <3>1. E \subseteq Runs
      BY DEF Open
    <3> QED
      BY <3>1 DEF ReleaseEntries
  <2> HIDE DEF D
  <2> QED
    BY <2>1, <2>2, LedgerGrows
<1> QED
  BY <1>3, <1>4, <1>5

LEMMA ReleaseBudgetKeeps ==
    ASSUME BudgetInv, NEW r \in Runs, ReleaseBudget(r) PROVE BudgetInv'
<1> DEFINE k == reservation[r].month
<1>1. /\ reservation[r] \in Reservation /\ reservation[r].status = "reserved"
      /\ reservation[r] # None /\ k \in Months /\ r \in Rows("reserved", k)
  BY RowsTyped DEF BudgetInv, ReleaseBudget, IsReserved, Reservation, Rows
<1>2. {r} \in SUBSET Open /\ reservation' = ReleaseRows({r})
  BY DEF Open, ReleaseBudget
<1>3. period' = [m \in Months |-> period'[m]]
  BY DEF ReleaseBudget, BudgetInv, TypeOK
<1>4. ASSUME NEW m \in Months
      PROVE  /\ period[m] = None => period'[m] = None
             /\ period[m] # None => period'[m] = [period[m] EXCEPT !.reserved =
                    @ - Sum(ReservedCost, {r} \cap Rows("reserved", m))]
  <2>1. CASE m = k
    <3>1. period[k] # None
      BY <1>1 DEF BudgetInv, Accounting, Statuses
    <3>2. {r} \cap Rows("reserved", m) = {r}
      BY <1>1, <2>1
    <3>3. Sum(ReservedCost, {r}) = reservation[r].cost
      <4>1. ReservedCost[r] = reservation[r].cost /\ ReservedCost[r] \in Nat
        BY <1>1, RowsTyped DEF BudgetInv, ReservedCost
      <4> QED
        BY <4>1, SumSingle
    <3>4. period'[k] = [period[k] EXCEPT !.reserved = @ - reservation[r].cost]
      BY <1>1 DEF ReleaseBudget, BudgetInv, TypeOK
    <3> QED
      BY <2>1, <3>1, <3>2, <3>3, <3>4
  <2>2. CASE m # k
    <3>1. {r} \cap Rows("reserved", m) = {}
      BY <2>2 DEF Rows
    <3>2. Sum(ReservedCost, {r} \cap Rows("reserved", m)) = 0
      BY <3>1, SumEmpty
    <3>3. period'[m] = period[m]
      BY <2>2 DEF ReleaseBudget, BudgetInv, TypeOK
    <3>4. period[m] # None => period[m] = [period[m] EXCEPT !.reserved = @ - 0]
      BY RowsTyped DEF BudgetInv, PeriodRow
    <3> QED
      BY <3>2, <3>3, <3>4
  <2> QED
    BY <2>1, <2>2
<1> QED
  BY <1>2, <1>3, <1>4, ReleaseStep DEF ReleaseBudget

LEMMA ExpireReservationsKeeps ==
    ASSUME BudgetInv, NEW held, ExpireReservations(held) PROVE BudgetInv'
<1> DEFINE E == UNION {Expirable(m, held) : m \in Months}
<1>1. E \in SUBSET Open
  BY DEF Expirable, Rows, Open, IsReserved
<1>2. reservation' = ReleaseRows(E) /\ ledger' = ledger \cup ReleaseEntries(E)
      /\ UNCHANGED <<month, expired>>
  BY DEF ExpireReservations
<1>3. period' = [m \in Months |-> period'[m]]
  BY DEF ExpireReservations
<1>4. ASSUME NEW m \in Months
      PROVE  /\ period[m] = None => period'[m] = None
             /\ period[m] # None => period'[m] = [period[m] EXCEPT !.reserved =
                    @ - Sum(ReservedCost, E \cap Rows("reserved", m))]
  <2>1. E \cap Rows("reserved", m) = Expirable(m, held)
    BY DEF Expirable, Rows
  <2>2. period'[m] = IF period[m] = None THEN None
                     ELSE [period[m] EXCEPT !.reserved =
                             @ - Sum(ReservedCost, Expirable(m, held))]
    BY DEF ExpireReservations
  <2> QED
    BY <2>1, <2>2, Zenon
<1> HIDE DEF E
<1> QED
  BY <1>1, <1>2, <1>3, <1>4, ReleaseStep

-----------------------------------------------------------------------------
(* Settling a reservation at its actual cost.                              *)

LEMMA SettleStep ==
    ASSUME BudgetInv, NEW r \in Runs, IsReserved(r), NEW actual \in Nat,
           SettleAt(r, actual),
           LET row == period[reservation[r].month]
           IN  row.settled + row.reserved + actual - reservation[r].cost <= row.limit
    PROVE  BudgetInv'
<1>0. PICK k \in Months : k = reservation[r].month
  BY RowsTyped DEF BudgetInv, IsReserved, Reservation
<1> DEFINE R == Rows("reserved", k)
           S == Rows("settled", k)
<1>1. /\ reservation[r] \in Reservation /\ reservation[r].status = "reserved"
      /\ reservation[r] # None /\ k \in Months /\ r \in R /\ r \notin S
      /\ reservation[r].cost \in Nat
  BY <1>0, RowsTyped DEF BudgetInv, IsReserved, Reservation, Rows
<1>2. /\ reservation'[r] = [reservation[r] EXCEPT !.status = "settled", !.settledCost = actual]
      /\ \A q \in Runs \ {r} : reservation'[q] = reservation[q]
      /\ reservation' = [q \in Runs |-> reservation'[q]]
  BY DEF SettleAt, BudgetInv, TypeOK
<1>3. /\ reservation'[r] \in Reservation /\ reservation'[r] # None
      /\ reservation'[r].status = "settled" /\ reservation'[r].month = k
      /\ reservation'[r].cost = reservation[r].cost /\ reservation'[r].settledCost = actual
  <2>1. reservation'[r] \in Reservation
    BY <1>1, <1>2 DEF Reservation, Statuses
  <2>2. reservation'[r] # None
    BY <2>1, NoneAssumption
  <2>3. /\ reservation'[r].status = "settled" /\ reservation'[r].month = k
        /\ reservation'[r].cost = reservation[r].cost /\ reservation'[r].settledCost = actual
    BY <1>0, <1>1, <1>2 DEF Reservation
  <2> QED
    BY <2>1, <2>2, <2>3
<1>4. /\ period[k] \in PeriodRow /\ period[k] # None
      /\ period[k].reserved = Sum(ReservedCost, R)
      /\ period[k].settled = Sum(SettledCost, S)
  <2>1. period[k] # None
    BY <1>1 DEF BudgetInv, Accounting, Statuses
  <2> QED
    BY <1>1, <2>1, RowsTyped DEF BudgetInv, Accounting
<1>5. /\ period'[k] = [period[k] EXCEPT !.reserved = @ - reservation[r].cost,
                                       !.settled = @ + actual]
      /\ \A m \in Months \ {k} : period'[m] = period[m]
      /\ period' = [m \in Months |-> period'[m]]
  BY <1>0, <1>1 DEF SettleAt, BudgetInv, TypeOK
<1>6. /\ \A q \in Runs : ReservedCost'[q] = ReservedCost[q]
      /\ \A q \in Runs \ {r} : SettledCost'[q] = SettledCost[q]
      /\ SettledCost'[r] = actual /\ ReservedCost[r] = reservation[r].cost
  BY <1>1, <1>2, <1>3 DEF ReservedCost, SettledCost
<1>7. /\ \A m : m # k => \A st : Rows(st, m)' = Rows(st, m)
      /\ Rows("reserved", k)' = R \ {r}
      /\ Rows("settled", k)' = S \cup {r}
  <2>1. \A m, st : \A q \in Runs \ {r} : q \in Rows(st, m)' <=> q \in Rows(st, m)
    BY <1>2 DEF Rows
  <2>2. /\ \A m, st : r \in Rows(st, m)' <=> st = "settled" /\ m = k
        /\ \A m, st : r \in Rows(st, m) <=> st = "reserved" /\ m = k
    BY <1>0, <1>1, <1>3 DEF Rows
  <2>3. \A m, st : Rows(st, m) \subseteq Runs /\ Rows(st, m)' \subseteq Runs
    BY DEF Rows
  <2>4. ASSUME NEW m, m # k, NEW st PROVE Rows(st, m)' = Rows(st, m)
    <3>1. \A q \in Runs : q \in Rows(st, m)' <=> q \in Rows(st, m)
      BY <2>1, <2>2, <2>4
    <3> QED
      BY <2>3, <3>1
  <2>5. Rows("reserved", k)' = Rows("reserved", k) \ {r}
    BY <2>1, <2>2, <2>3
  <2>6. Rows("settled", k)' = Rows("settled", k) \cup {r}
    BY <2>1, <2>2, <2>3
  <2> QED
    BY <2>4, <2>5, <2>6
<1>8. /\ Sum(ReservedCost', Rows("reserved", k)') = Sum(ReservedCost, R) - reservation[r].cost
      /\ Sum(ReservedCost, R) - reservation[r].cost \in Nat
  <2>1. IsFiniteSet(R) /\ {r} \subseteq R /\ \A q \in R : ReservedCost[q] \in Nat
    BY <1>1, RowsTyped DEF BudgetInv
  <2>2. \A q \in R \ {r} : ReservedCost'[q] = ReservedCost[q]
    BY <1>6, RowsTyped DEF BudgetInv
  <2>3. Sum(ReservedCost, {r}) = reservation[r].cost
    BY <1>1, <1>6, SumSingle
  <2>4. Sum(ReservedCost', Rows("reserved", k)') = Sum(ReservedCost', R \ {r})
    BY <1>7
  <2> HIDE DEF R
  <2>5. Sum(ReservedCost', R \ {r}) = Sum(ReservedCost, R \ {r})
    BY <2>2, SumSame
  <2> QED
    BY <2>1, <2>3, <2>4, <2>5, SumDifference
<1>9. Sum(SettledCost', Rows("settled", k)') = Sum(SettledCost, S) + actual
  <2>1. IsFiniteSet(S) /\ S \subseteq Runs /\ \A q \in S : SettledCost[q] \in Nat
    BY RowsTyped DEF BudgetInv
  <2>2. \A q \in S : SettledCost'[q] = SettledCost[q]
    BY <1>1, <1>6, <2>1
  <2>3. \A q \in S \cup {r} : SettledCost'[q] \in Nat
    BY <1>6, <2>1, <2>2
  <2>4. Sum(SettledCost', Rows("settled", k)') = Sum(SettledCost', S \cup {r})
    BY <1>7
  <2> HIDE DEF S
  <2>5. Sum(SettledCost', S \cup {r}) = Sum(SettledCost', S) + SettledCost'[r]
    BY <1>1, <2>1, <2>3, SumAdd
  <2>6. Sum(SettledCost', S) = Sum(SettledCost, S)
    BY <2>2, SumSame
  <2> QED
    BY <1>6, <2>4, <2>5, <2>6
<1>10. /\ period'[k] \in PeriodRow
       /\ period'[k].reserved = Sum(ReservedCost', Rows("reserved", k)')
       /\ period'[k].settled = Sum(SettledCost', Rows("settled", k)')
       /\ period'[k].reserved + period'[k].settled <= period'[k].limit
  <2>1. period[k].reserved - reservation[r].cost \in Nat /\ period[k].settled + actual \in Nat
    BY <1>4, <1>8 DEF PeriodRow
  <2>2. /\ period'[k].reserved = period[k].reserved - reservation[r].cost
        /\ period'[k].settled = period[k].settled + actual
        /\ period'[k].limit = period[k].limit
        /\ period'[k] \in PeriodRow
    BY <1>4, <1>5, <2>1 DEF PeriodRow
  <2>3. period'[k].reserved + period'[k].settled <= period'[k].limit
    BY <1>0, <1>1, <1>4, <2>2 DEF PeriodRow
  <2> QED
    BY <1>4, <1>8, <1>9, <2>2, <2>3
<1>11. TypeOK'
  <2>1. period' \in [Months -> PeriodRow \cup {None}]
    BY <1>5, <1>10 DEF BudgetInv, TypeOK
  <2>2. reservation' \in [Runs -> Reservation \cup {None}]
    BY <1>2, <1>3 DEF BudgetInv, TypeOK
  <2>3. ledger' \subseteq LedgerRow
    BY DEF BudgetInv, TypeOK, SettleAt, Entry, LedgerRow, Statuses
  <2> QED
    BY <2>1, <2>2, <2>3 DEF BudgetInv, TypeOK, SettleAt
<1>12. ASSUME NEW m \in Months, m # k
       PROVE  /\ Sum(ReservedCost', Rows("reserved", m)') = Sum(ReservedCost, Rows("reserved", m))
              /\ Sum(SettledCost', Rows("settled", m)') = Sum(SettledCost, Rows("settled", m))
  <2>1. \A q \in Rows("reserved", m) : ReservedCost'[q] = ReservedCost[q]
    BY <1>6 DEF Rows
  <2>2. \A q \in Rows("settled", m) : SettledCost'[q] = SettledCost[q]
    BY <1>1, <1>6 DEF Rows
  <2> QED
    BY <1>7, <1>12, <2>1, <2>2, SumSame
<1>13. Accounting' /\ WithinLimit'
  <2>1. period'[k] # None
    BY <1>10, NoneAssumption
  <2>2. ASSUME NEW m \in Months, m # k
        PROVE  /\ period'[m] = period[m]
               /\ \A st : Rows(st, m)' = Rows(st, m)
    BY <1>5, <1>7, <2>2
  <2> HIDE DEF R, S
  <2>3. ASSUME NEW m \in Months
        PROVE  IF period'[m] = None
                 THEN \A st \in Statuses : Rows(st, m)' = {}
                 ELSE /\ period'[m].reserved = Sum(ReservedCost', Rows("reserved", m)')
                      /\ period'[m].settled = Sum(SettledCost', Rows("settled", m)')
    <3>1. CASE m = k
      BY <1>10, <2>1, <3>1
    <3>2. CASE m # k
      BY <1>12, <2>2, <3>2 DEF BudgetInv, Accounting
    <3> QED
      BY <3>1, <3>2
  <2>4. WithinLimit'
    BY <1>10, <2>1, <2>2 DEF BudgetInv, WithinLimit
  <2> QED
    BY <2>3, <2>4 DEF Accounting
<1>14. LedgerReconciles'
  <2> DEFINE D == [q \in Runs |-> IF q = r THEN {Entry(r, "settled", actual)} ELSE {}]
  <2>1. Entries(r) = {Entry(r, "reserved", reservation[r].cost)}
    BY <1>1 DEF Entries
  <2>2. Entries(r)' = {Entry(r, "reserved", reservation[r].cost)} \cup {Entry(r, "settled", actual)}
    BY <1>3 DEF Entries, Entry
  <2>3. \A q \in Runs \ {r} : Entries(q)' = Entries(q)
    BY <1>2 DEF Entries, Entry
  <2>4. \A q \in Runs : Entries(q)' = Entries(q) \cup D[q]
    BY <2>1, <2>2, <2>3
  <2>5. {Entry(r, "settled", actual)} = UNION {D[q] : q \in Runs}
    OBVIOUS
  <2>6. ledger' = ledger \cup {Entry(r, "settled", actual)}
    BY DEF SettleAt
  <2> HIDE DEF D
  <2> QED
    BY <2>4, <2>5, <2>6, LedgerGrows DEF BudgetInv
<1> QED
  BY <1>11, <1>13, <1>14 DEF BudgetInv

LEMMA SettleBudgetKeeps ==
    ASSUME BudgetInv, NEW r \in Runs, NEW i \in Tokens, NEW o \in Tokens,
           SettleBudget(r, i, o)
    PROVE  BudgetInv'
<1>1. IsReserved(r) /\ reservation[r].profile \in Profiles
  BY RowsTyped DEF BudgetInv, SettleBudget, IsReserved, Reservation
<1>2. Cost(reservation[r].profile, i, o) \in Nat
  BY <1>1, TokensAssumption, CostNat
<1> QED
  BY <1>1, <1>2, SettleStep DEF SettleBudget

LEMMA ChargeReservedBudgetKeeps ==
    ASSUME BudgetInv, NEW r \in Runs, ChargeReservedBudget(r) PROVE BudgetInv'
<1>1. IsReserved(r) /\ reservation[r].cost \in Nat /\ reservation[r].month \in Months
  BY RowsTyped DEF BudgetInv, ChargeReservedBudget, IsReserved, Reservation
<1>2. LET row == period[reservation[r].month]
      IN  row.settled + row.reserved + reservation[r].cost - reservation[r].cost <= row.limit
  <2>1. period[reservation[r].month] # None
    BY <1>1 DEF BudgetInv, Accounting, Statuses, IsReserved, Rows
  <2> QED
    BY <1>1, <2>1, RowsTyped DEF BudgetInv, WithinLimit, PeriodRow
<1> QED
  BY <1>1, <1>2, SettleStep DEF ChargeReservedBudget

-----------------------------------------------------------------------------
(* Reserving an estimate, after the expired reservations are released.     *)

LEMMA ReserveBudgetKeeps ==
    ASSUME BudgetInv, NEW r \in Runs, NEW p \in Profiles, NEW i \in Tokens, NEW o \in Tokens,
           NEW held, ReserveBudget(r, p, i, o, held)
    PROVE  BudgetInv'
<1>0. PICK k \in Months : k = month
  BY DEF BudgetInv, TypeOK
<1>c. PICK cost \in Nat : cost = Cost(p, i, o)
  BY TokensAssumption, CostNat
<1> DEFINE E == Expirable(month, held)
           R == Rows("reserved", k)
           S == Rows("settled", k)
           new == [status |-> "reserved", profile |-> p, month |-> month,
                   cost |-> cost, settledCost |-> 0]
           row == PeriodForUpdate(p)
<1>1. /\ reservation[r] = None /\ E \subseteq R /\ E \in SUBSET Open /\ E \subseteq Runs /\ r \notin E
      /\ \A m : r \notin Rows("reserved", m) /\ r \notin Rows("settled", m) /\ r \notin Rows("released", m)
  BY <1>0 DEF ReserveBudget, CanReserve, Expirable, Rows, Open, IsReserved
<1>2. /\ new \in Reservation /\ new # None
      /\ reservation'[r] = new
      /\ \A q \in E : reservation'[q] = [reservation[q] EXCEPT !.status = "released"]
      /\ \A q \in Runs : q \notin E /\ q # r => reservation'[q] = reservation[q]
      /\ reservation' = [q \in Runs |-> reservation'[q]]
  <2>1. new \in Reservation
    BY DEF Reservation, Statuses, BudgetInv, TypeOK
  <2>2. reservation' = [ReleaseRows(E) EXCEPT ![r] = new]
    BY <1>c DEF ReserveBudget
  <2>3. ReleaseRows(E) = [q \in Runs |-> IF q \in E THEN [reservation[q] EXCEPT !.status = "released"]
                                                    ELSE reservation[q]]
    BY DEF ReleaseRows
  <2> HIDE DEF E, new
  <2> QED
    BY <1>1, <2>1, <2>2, <2>3, NoneAssumption
<1>3. ASSUME NEW q \in E
      PROVE  /\ reservation[q] \in Reservation /\ reservation[q] # None
             /\ reservation[q].status = "reserved" /\ reservation[q].month = k
             /\ reservation'[q] \in Reservation /\ reservation'[q] # None
             /\ reservation'[q].status = "released" /\ reservation'[q].month = k
             /\ reservation'[q].cost = reservation[q].cost
             /\ reservation'[q].settledCost = reservation[q].settledCost
  <2>1. reservation[q] \in Reservation /\ reservation[q] # None
        /\ reservation[q].status = "reserved" /\ reservation[q].month = k
    BY <1>0, <1>1, RowsTyped DEF BudgetInv, Expirable, Rows
  <2>2. reservation'[q] \in Reservation
    BY <1>2, <2>1 DEF Reservation, Statuses
  <2> QED
    BY <1>2, <2>1, <2>2, NoneAssumption DEF Reservation
<1>4. /\ \A q \in Runs \ {r} : ReservedCost'[q] = ReservedCost[q] /\ SettledCost'[q] = SettledCost[q]
      /\ ReservedCost'[r] = cost
  <2>1. ASSUME NEW q \in Runs \ {r}
        PROVE  ReservedCost'[q] = ReservedCost[q] /\ SettledCost'[q] = SettledCost[q]
    <3>1. CASE q \in E
      BY <1>3, <3>1 DEF ReservedCost, SettledCost
    <3>2. CASE q \notin E
      BY <1>2, <3>2 DEF ReservedCost, SettledCost
    <3> QED
      BY <3>1, <3>2
  <2>2. ReservedCost'[r] = cost
    BY <1>2 DEF ReservedCost
  <2> QED
    BY <2>1, <2>2
<1>5. /\ \A m : m # k => \A st : Rows(st, m)' = Rows(st, m)
      /\ Rows("reserved", k)' = (R \ E) \cup {r}
      /\ Rows("settled", k)' = S
  <2>1. \A m, st : \A q \in Runs : q \notin E /\ q # r => (q \in Rows(st, m)' <=> q \in Rows(st, m))
    BY <1>2 DEF Rows
  <2>2. \A m, st : \A q \in E : /\ q \in Rows(st, m)' <=> st = "released" /\ m = k
                                /\ q \in Rows(st, m) <=> st = "reserved" /\ m = k
    BY <1>1, <1>3 DEF Rows
  <2>3. \A m, st : /\ r \in Rows(st, m)' <=> st = "reserved" /\ m = k
                  /\ r \notin Rows(st, m)
    BY <1>0, <1>1, <1>2 DEF Rows
  <2>4. \A m, st : Rows(st, m) \subseteq Runs /\ Rows(st, m)' \subseteq Runs
    BY DEF Rows
  <2>5. ASSUME NEW m, m # k, NEW st PROVE Rows(st, m)' = Rows(st, m)
    <3>1. \A q \in Runs : q \in Rows(st, m)' <=> q \in Rows(st, m)
      <4> HIDE DEF E
      <4> QED
        BY <2>1, <2>2, <2>3, <2>5
    <3> QED
      BY <2>4, <3>1
  <2>6. Rows("reserved", k)' = (R \ E) \cup {r}
    <3>1. \A q \in Runs : q \in Rows("reserved", k)' <=> q \in (R \ E) \cup {r}
      <4> HIDE DEF E
      <4> QED
        BY <2>1, <2>2, <2>3
    <3> QED
      BY <2>4, <3>1
  <2>7. Rows("settled", k)' = S
    <3>1. \A q \in Runs : q \in Rows("settled", k)' <=> q \in S
      <4> HIDE DEF E
      <4> QED
        BY <2>1, <2>2, <2>3
    <3> QED
      BY <2>4, <3>1
  <2> QED
    BY <2>5, <2>6, <2>7
<1>6. /\ row \in PeriodRow
      /\ row.reserved = Sum(ReservedCost, R)
      /\ row.settled = Sum(SettledCost, S)
  <2>1. CASE period[k] = None
    <3>1. R = {} /\ S = {}
      BY <2>1 DEF BudgetInv, Accounting, Statuses
    <3>2. row = [limit |-> Profile[p].monthly, reserved |-> 0, settled |-> 0]
      BY <1>0, <2>1 DEF PeriodForUpdate
    <3>3. Profile[p].monthly \in Nat
      BY ProfileAssumption DEF ProfileRow
    <3>4. Sum(ReservedCost, R) = 0 /\ Sum(SettledCost, S) = 0
      <4> HIDE DEF R, S
      <4> QED
        BY <3>1, SumEmpty
    <3> QED
      BY <3>2, <3>3, <3>4 DEF PeriodRow
  <2>2. CASE period[k] # None
    <3>1. row = period[k]
      BY <1>0, <2>2 DEF PeriodForUpdate
    <3> QED
      BY <2>2, <3>1, RowsTyped DEF BudgetInv, Accounting
  <2> QED
    BY <2>1, <2>2
<1>7. PICK still \in Nat : still = StillReserved(p, held) /\ still = Sum(ReservedCost, R \ E)
  <2>1. IsFiniteSet(R) /\ E \subseteq R /\ \A q \in R : ReservedCost[q] \in Nat
    BY <1>1, RowsTyped DEF BudgetInv
  <2>2. StillReserved(p, held) = Sum(ReservedCost, R) - Sum(ReservedCost, E)
    BY <1>6 DEF StillReserved
  <2> HIDE DEF R, E
  <2> QED
    BY <2>1, <2>2, SumDifference
<1>8. Sum(ReservedCost', Rows("reserved", k)') = still + cost
  <2>1. IsFiniteSet(R \ E) /\ r \notin R \ E /\ \A q \in R \ E : q \in Runs \ {r}
    <3>1. IsFiniteSet(R) /\ R \subseteq Runs /\ r \notin R
      BY <1>1, RowsTyped DEF BudgetInv
    <3> HIDE DEF R, E
    <3> QED
      BY <3>1, FS_Difference
  <2>2. \A q \in R \ E : ReservedCost'[q] = ReservedCost[q] /\ ReservedCost[q] \in Nat
    BY <1>4, <2>1, RowsTyped DEF BudgetInv
  <2>3. Sum(ReservedCost', Rows("reserved", k)') = Sum(ReservedCost', (R \ E) \cup {r})
    BY <1>5
  <2> HIDE DEF R, E
  <2>4. \A q \in (R \ E) \cup {r} : ReservedCost'[q] \in Nat
    BY <1>4, <2>2
  <2>5. Sum(ReservedCost', (R \ E) \cup {r}) = Sum(ReservedCost', R \ E) + ReservedCost'[r]
    BY <2>1, <2>4, SumAdd
  <2>6. Sum(ReservedCost', R \ E) = Sum(ReservedCost, R \ E)
    BY <2>2, SumSame
  <2> QED
    BY <1>4, <1>7, <2>3, <2>5, <2>6
<1>9. ASSUME NEW m \in Months
      PROVE  Sum(SettledCost', Rows("settled", m)') = Sum(SettledCost, Rows("settled", m))
  <2>1. \A q \in Rows("settled", m) : SettledCost'[q] = SettledCost[q]
    BY <1>1, <1>4 DEF Rows
  <2>2. Rows("settled", m)' = Rows("settled", m)
    BY <1>5
  <2> QED
    BY <2>1, <2>2, SumSame
<1>10. ASSUME NEW m \in Months, m # k
       PROVE  Sum(ReservedCost', Rows("reserved", m)') = Sum(ReservedCost, Rows("reserved", m))
  <2>1. \A q \in Rows("reserved", m) : ReservedCost'[q] = ReservedCost[q]
    BY <1>1, <1>4 DEF Rows
  <2>2. Rows("reserved", m)' = Rows("reserved", m)
    BY <1>5, <1>10
  <2> QED
    BY <2>1, <2>2, SumSame
<1>11. /\ period'[k] = [row EXCEPT !.reserved = still + cost]
       /\ \A m \in Months \ {k} : period'[m] = period[m]
       /\ period' = [m \in Months |-> period'[m]]
  BY <1>0, <1>c, <1>7 DEF ReserveBudget, BudgetInv, TypeOK
<1>12. /\ period'[k] \in PeriodRow
       /\ period'[k] # None
       /\ period'[k].reserved = Sum(ReservedCost', Rows("reserved", k)')
       /\ period'[k].settled = Sum(SettledCost', Rows("settled", k)')
       /\ period'[k].reserved + period'[k].settled <= period'[k].limit
  <2>1. still + row.settled + cost <= row.limit
    BY <1>c, <1>7 DEF ReserveBudget, CanReserve
  <2> HIDE DEF row
  <2>2. /\ period'[k] \in PeriodRow
        /\ period'[k].reserved = still + cost
        /\ period'[k].settled = row.settled
        /\ period'[k].limit = row.limit
        /\ row.settled \in Nat /\ row.limit \in Nat
    BY <1>6, <1>11 DEF PeriodRow
  <2>3. period'[k] # None
    BY <2>2, NoneAssumption
  <2>4. period'[k].reserved + period'[k].settled <= period'[k].limit
    BY <2>1, <2>2
  <2> QED
    BY <1>6, <1>8, <1>9, <2>2, <2>3, <2>4
<1>13. TypeOK'
  <2>1. period' \in [Months -> PeriodRow \cup {None}]
    BY <1>11, <1>12 DEF BudgetInv, TypeOK
  <2>2. reservation' \in [Runs -> Reservation \cup {None}]
    <3>1. \A q \in Runs : reservation'[q] \in Reservation \cup {None}
      BY <1>2, <1>3 DEF BudgetInv, TypeOK
    <3> QED
      BY <1>2, <3>1
  <2>3. ReleaseEntries(E) \subseteq LedgerRow
    BY <1>1, <1>3 DEF ReleaseEntries, Entry, LedgerRow, Reservation, Statuses
  <2>4. Entry(r, "reserved", cost) \in LedgerRow
    BY DEF Entry, LedgerRow, Statuses
  <2> QED
    BY <1>c, <2>1, <2>2, <2>3, <2>4 DEF BudgetInv, TypeOK, ReserveBudget
<1>14. Accounting'
  <2>1. ASSUME NEW m \in Months
        PROVE  IF period'[m] = None
                 THEN \A st \in Statuses : Rows(st, m)' = {}
                 ELSE /\ period'[m].reserved = Sum(ReservedCost', Rows("reserved", m)')
                      /\ period'[m].settled = Sum(SettledCost', Rows("settled", m)')
    <3>1. CASE m = k
      BY <1>12, <3>1
    <3>2. CASE m # k
      BY <1>5, <1>9, <1>10, <1>11, <3>2 DEF BudgetInv, Accounting
    <3> QED
      BY <3>1, <3>2
  <2> QED
    BY <2>1 DEF Accounting
<1>15. WithinLimit'
  BY <1>11, <1>12 DEF BudgetInv, WithinLimit
<1>16. LedgerReconciles'
  <2> DEFINE D == [q \in Runs |->
                     IF q = r THEN {Entry(r, "reserved", cost)}
                     ELSE IF q \in E THEN {Entry(q, "released", reservation[q].cost)} ELSE {}]
  <2>1. Entries(r) = {} /\ Entries(r)' = {Entry(r, "reserved", cost)}
    BY <1>1, <1>2 DEF Entries, Entry
  <2>2. ASSUME NEW q \in E
        PROVE  Entries(q)' = Entries(q) \cup {Entry(q, "released", reservation[q].cost)}
    <3>1. Entries(q) = {Entry(q, "reserved", reservation[q].cost)}
      BY <1>3 DEF Entries
    <3>2. Entries(q)' = {Entry(q, "reserved", reservation[q].cost)}
                        \cup {Entry(q, "released", reservation[q].cost)}
      BY <1>3 DEF Entries, Entry
    <3> QED
      BY <3>1, <3>2
  <2>3. \A q \in Runs : q \notin E /\ q # r => Entries(q)' = Entries(q)
    BY <1>2 DEF Entries, Entry
  <2>4. \A q \in Runs : Entries(q)' = Entries(q) \cup D[q]
    <3> HIDE DEF E
    <3> QED
      BY <1>1, <2>1, <2>2, <2>3
  <2>5. ReleaseEntries(E) \cup {Entry(r, "reserved", cost)} = UNION {D[q] : q \in Runs}
    <3> HIDE DEF E
    <3> QED
      BY <1>1 DEF ReleaseEntries
  <2>6. ledger' = ledger \cup (ReleaseEntries(E) \cup {Entry(r, "reserved", cost)})
    BY <1>c DEF ReserveBudget
  <2> HIDE DEF D
  <2> QED
    BY <2>4, <2>5, <2>6, LedgerGrows DEF BudgetInv
<1> QED
  BY <1>13, <1>14, <1>15, <1>16 DEF BudgetInv

-----------------------------------------------------------------------------
(* The theorems.                                                           *)

LEMMA BudgetInvNext == BudgetInv /\ [Next]_vars => BudgetInv'
<1> SUFFICES ASSUME BudgetInv, [Next]_vars PROVE BudgetInv'
  OBVIOUS
<1>1. ASSUME NEW r \in Runs, NEW p \in Profiles, NEW i \in Tokens, NEW o \in Tokens,
             NEW held \in SUBSET Runs, ReserveBudget(r, p, i, o, held)
      PROVE  BudgetInv'
  BY <1>1, ReserveBudgetKeeps
<1>2. ASSUME NEW r \in Runs, NEW i \in Tokens, NEW o \in Tokens, SettleBudget(r, i, o)
      PROVE  BudgetInv'
  BY <1>2, SettleBudgetKeeps
<1>3. ASSUME NEW r \in Runs, ChargeReservedBudget(r) PROVE BudgetInv'
  BY <1>3, ChargeReservedBudgetKeeps
<1>4. ASSUME NEW r \in Runs, ReleaseBudget(r) PROVE BudgetInv'
  BY <1>4, ReleaseBudgetKeeps
<1>5. ASSUME NEW held \in SUBSET Runs, ExpireReservations(held) PROVE BudgetInv'
  BY <1>5, ExpireReservationsKeeps
<1>6. ASSUME UNCHANGED <<period, reservation, ledger>>,
             month' \in Months, expired' \subseteq Runs
      PROVE  BudgetInv'
  <2>1. TypeOK'
    BY <1>6 DEF BudgetInv, TypeOK
  <2>2. Accounting'
    BY <1>6 DEF BudgetInv, Accounting, Rows, ReservedCost, SettledCost
  <2>3. WithinLimit'
    BY <1>6 DEF BudgetInv, WithinLimit
  <2>4. LedgerReconciles'
    BY <1>6 DEF BudgetInv, LedgerReconciles
  <2> QED
    BY <2>1, <2>2, <2>3, <2>4 DEF BudgetInv
<1>7. ASSUME NEW r \in Runs, ReservationExpires(r) PROVE BudgetInv'
  BY <1>6, <1>7 DEF ReservationExpires, BudgetInv, TypeOK
<1>8. CASE NextMonth
  BY <1>6, <1>8 DEF NextMonth, BudgetInv, TypeOK
<1>9. CASE UNCHANGED vars
  BY <1>6, <1>9 DEF vars, BudgetInv, TypeOK
<1> QED
  BY <1>1, <1>2, <1>3, <1>4, <1>5, <1>7, <1>8, <1>9 DEF Next

\* The strengthening of the ledger's properties that every transaction of
\* budgets.py preserves.
THEOREM BudgetInvariant == Spec => []BudgetInv
BY BudgetInvInit, BudgetInvNext, PTL DEF Spec

\* The tables keep their shape; no unsigned total of a BudgetPeriod underflows.
THEOREM BudgetTypeCorrect == Spec => []TypeOK
BY BudgetInvariant, PTL DEF BudgetInv

\* The running totals of a BudgetPeriod are the sums over its reservations,
\* whatever reservations, settlements, releases and sweeps came before.
THEOREM TotalsAreSums == Spec => []Accounting
BY BudgetInvariant, PTL DEF BudgetInv

\* Spent and promised money together never exceed the month's limit.
THEOREM MonthWithinLimit == Spec => []WithinLimit
BY BudgetInvariant, PTL DEF BudgetInv

\* The append-only audit rows and the reservation rows tell the same story.
THEOREM LedgerMatchesRows == Spec => []LedgerReconciles
BY BudgetInvariant, PTL DEF BudgetInv

\* Totals, reservations and audit rows agree after every call of budgets.py.
THEOREM BooksAlwaysReconcile == Spec => []BooksReconcile
BY TotalsAreSums, LedgerMatchesRows, PTL DEF BooksReconcile

\* No call, replay or sweep changes a reservation that was settled or released.
THEOREM ClosedStaysClosed == Spec => ClosedForGood
<1> DEFINE Kept == \A r \in Runs : (reservation[r] # None /\ reservation[r].status # "reserved")
                                     => reservation'[r] = reservation[r]
<1>1. ASSUME BudgetInv, [Next]_vars PROVE [Kept]_vars
  <2> SUFFICES ASSUME NEW q \in Runs, reservation[q] # None, reservation[q].status # "reserved",
                      Next
               PROVE  reservation'[q] = reservation[q]
    BY <1>1
  <2>1. ASSUME NEW E, q \notin E PROVE ReleaseRows(E)[q] = reservation[q]
    BY <2>1 DEF ReleaseRows
  <2>2. ASSUME NEW m, NEW held PROVE q \notin Expirable(m, held)
    BY DEF Expirable, Rows
  <2>3. reservation \in [Runs -> Reservation \cup {None}]
    BY <1>1 DEF BudgetInv, TypeOK
  <2>4. ASSUME NEW r \in Runs, NEW p \in Profiles, NEW i \in Tokens, NEW o \in Tokens,
               NEW held \in SUBSET Runs, ReserveBudget(r, p, i, o, held)
        PROVE  reservation'[q] = reservation[q]
    <3>1. q # r
      BY <2>4 DEF ReserveBudget, CanReserve
    <3>2. reservation'[q] = ReleaseRows(Expirable(month, held))[q]
      BY <2>4, <3>1 DEF ReserveBudget, ReleaseRows
    <3> QED
      BY <2>1, <2>2, <3>2
  <2>5. ASSUME NEW r \in Runs, NEW actual, IsReserved(r), SettleAt(r, actual)
        PROVE  reservation'[q] = reservation[q]
    BY <2>3, <2>5 DEF IsReserved, SettleAt
  <2>6. ASSUME NEW r \in Runs, ReleaseBudget(r) PROVE reservation'[q] = reservation[q]
    BY <2>1, <2>6 DEF ReleaseBudget, IsReserved
  <2>7. ASSUME NEW held \in SUBSET Runs, ExpireReservations(held)
        PROVE  reservation'[q] = reservation[q]
    BY <2>1, <2>2, <2>7 DEF ExpireReservations
  <2>8. ASSUME UNCHANGED reservation PROVE reservation'[q] = reservation[q]
    BY <2>8
  <2> QED
    BY <2>4, <2>5, <2>6, <2>7, <2>8
       DEF Next, SettleBudget, ChargeReservedBudget, ReservationExpires, NextMonth
<1> QED
  BY <1>1, BudgetInvariant, PTL DEF Spec, ClosedForGood

=============================================================================
