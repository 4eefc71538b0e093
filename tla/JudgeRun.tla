------------------------------ MODULE JudgeRun ------------------------------
(***************************************************************************)
(* The advisory evaluation judge, backend/evaluations/judge.py, as the web *)
(* view launchloop/views.py:workflow_evaluate calls it.                    *)
(*                                                                         *)
(* run_fixed_judge runs in one web request and outside any transaction:    *)
(* each of its statements commits by itself.  A request is a process that  *)
(* is served once; it creates at most one AgentRun, so the request names   *)
(* the run.                                                                *)
(***************************************************************************)
EXTENDS Integers, Sequences, FiniteSets

CONSTANTS
    Profiles, Profile, Unit, Months, Tokens, None,  \* see Budget
    Requests,      \* POSTs to workflow_evaluate, hence possible AgentRuns
    Packages,      \* package hashes the workflow goes through
    JudgeProfile   \* the fixed model profile

ASSUME JudgeProfileAssumption == JudgeProfile \in Profiles
ASSUME JudgeNoneAssumption == None \notin Packages

VARIABLES
    month, period, reservation, ledger, expired,  \* the budget tables
    package,   \* Workflow.package_hash
    run,       \* AgentRun of each request
    order,     \* the workflow's AgentRuns by created_at
    results,   \* runs with an EvaluationResult
    request    \* local state of each request

budgetVars == <<month, period, reservation, ledger, expired>>
vars == <<budgetVars, package, run, order, results, request>>

B == INSTANCE Budget WITH Runs <- Requests

\* What Budget assumes of its constants; and a judgement reserves its ceiling.
ASSUME JudgeLedgerAssumption ==
    /\ IsFiniteSet(Requests)
    /\ Profile \in [Profiles -> B!ProfileRow]
    /\ Unit \in Nat \ {0}
    /\ Months \subseteq Nat /\ 1 \in Months
    /\ Tokens \subseteq Nat
    /\ None \notin B!PeriodRow \cup B!Reservation
ASSUME JudgeCeilingAssumption ==
    {Profile[JudgeProfile].maxIn, Profile[JudgeProfile].maxOut} \subseteq Tokens

NoRun == [package |-> None, status |-> "none"]

Goto(q, pc) == request' = [request EXCEPT ![q].pc = pc]

-----------------------------------------------------------------------------
Init ==
    /\ B!Init
    /\ package \in Packages
    /\ run = [q \in Requests |-> NoRun]
    /\ order = <<>>
    /\ results = {}
    /\ request = [q \in Requests |-> [pc |-> "new", package |-> None, usage |-> <<0, 0>>]]

\* workflow_for: the object the rest of the request works with.
Load(q) ==
    /\ request[q].pc = "new"
    /\ request' = [request EXCEPT ![q].pc = "look", ![q].package = package]
    /\ UNCHANGED <<budgetVars, package, run, order, results>>

\* The lookup of the workflow's latest run: one of the same package is returned.
Look(q) ==
    LET judged == order # <<>> /\ run[order[Len(order)]].package = request[q].package
    IN  /\ request[q].pc = "look"
        /\ Goto(q, IF judged THEN "done" ELSE "create")
        /\ UNCHANGED <<budgetVars, package, run, order, results>>

\* _new_run: no lock and no constraint ties it to the lookup.
Create(q) ==
    /\ request[q].pc = "create"
    /\ run' = [run EXCEPT ![q] = [package |-> request[q].package, status |-> "queued"]]
    /\ order' = Append(order, q)
    /\ Goto(q, "reserve")
    /\ UNCHANGED <<budgetVars, package, results>>

\* reserve_budget for the largest judgement there can be.  No expiry sweep is
\* told to spare a judgement that is under way.
Reserve(q) ==
    LET i == Profile[JudgeProfile].maxIn
        o == Profile[JudgeProfile].maxOut
    IN  /\ request[q].pc = "reserve"
        /\ \/ B!ReserveBudget(q, JudgeProfile, i, o, {}) /\ Goto(q, "start")
           \/ /\ ~B!CanReserve(q, JudgeProfile, i, o, {})
              /\ Goto(q, "fail")
              /\ UNCHANGED budgetVars
        /\ UNCHANGED <<package, run, order, results>>

\* The run and its step are marked running.
Start(q) ==
    /\ request[q].pc = "start"
    /\ run' = [run EXCEPT ![q].status = "running"]
    /\ Goto(q, "call")
    /\ UNCHANGED <<budgetVars, package, order, results>>

\* No healthy connection or no secret, or the one provider call.
Call(q) ==
    /\ request[q].pc = "call"
    /\ Goto(q, "fail") \/ Goto(q, "answer")
    /\ UNCHANGED <<budgetVars, package, run, order, results>>

\* evaluate and _validated_response: a provider error, an output that is not
\* what the contract says, or a judgement with its usage within the profile.
Answer(q) ==
    /\ request[q].pc = "answer"
    /\ \/ Goto(q, "fail")
       \/ \E i, o \in Tokens :
              /\ i <= Profile[JudgeProfile].maxIn
              /\ o <= Profile[JudgeProfile].maxOut
              /\ request' = [request EXCEPT ![q].pc = "settle", ![q].usage = <<i, o>>]
    /\ UNCHANGED <<budgetVars, package, run, order, results>>

\* A mistake: a judgement whose reservation is gone is recorded all the same.
SettleUnfunded(q) ==
    /\ request[q].pc = "settle"
    /\ \/ B!SettleBudget(q, request[q].usage[1], request[q].usage[2])
       \/ ~B!IsReserved(q) /\ UNCHANGED budgetVars
    /\ Goto(q, "record")
    /\ UNCHANGED <<package, run, order, results>>

\* settle_budget.  Its BudgetRequestConflict, for a reservation an expiry sweep
\* has released, is none of the exceptions run_fixed_judge handles.
Settle(q) ==
    /\ request[q].pc = "settle"
    /\ \/ /\ B!SettleBudget(q, request[q].usage[1], request[q].usage[2])
          /\ Goto(q, "record")
       \/ /\ ~B!IsReserved(q)
          /\ Goto(q, "done")
          /\ UNCHANGED budgetVars
    /\ UNCHANGED <<package, run, order, results>>

\* The EvaluationResult is stored, or its summary is refused as unsafe.
Record(q) ==
    /\ request[q].pc = "record"
    /\ \/ results' = results \cup {q} /\ Goto(q, "finish")
       \/ Goto(q, "fail") /\ UNCHANGED results
    /\ UNCHANGED <<budgetVars, package, run, order>>

\* The step and the run are marked succeeded.
Finish(q) ==
    /\ request[q].pc = "finish"
    /\ run' = [run EXCEPT ![q].status = "succeeded"]
    /\ Goto(q, "done")
    /\ UNCHANGED <<budgetVars, package, order, results>>

\* A mistake: a failed judgement gives its money back without telling the period
\* and the ledger.
FailUnbooked(q) ==
    /\ request[q].pc = "fail"
    /\ reservation' = IF B!IsReserved(q) THEN B!ReleaseRows({q}) ELSE reservation
    /\ Goto(q, "save_failed")
    /\ UNCHANGED <<month, period, ledger, expired, package, run, order, results>>

\* _fail: release what is reserved; then, in another statement, save the run.
Fail(q) ==
    /\ request[q].pc = "fail"
    /\ B!ReleaseBudget(q) \/ (~B!IsReserved(q) /\ UNCHANGED budgetVars)
    /\ Goto(q, "save_failed")
    /\ UNCHANGED <<package, run, order, results>>

SaveFailed(q) ==
    /\ request[q].pc = "save_failed"
    /\ run' = [run EXCEPT ![q].status = "failed"]
    /\ Goto(q, "done")
    /\ UNCHANGED <<budgetVars, package, order, results>>

\* The web process is lost; nothing takes the run up again.
Crash(q) ==
    /\ request[q].pc \notin {"new", "done"}
    /\ Goto(q, "done")
    /\ UNCHANGED <<budgetVars, package, run, order, results>>

\* The workflow gets another package.
Repackage ==
    /\ \E p \in Packages \ {package} : package' = p
    /\ UNCHANGED <<budgetVars, run, order, results, request>>

\* The reservation's fifteen minutes pass; a sweep releases it.
ReservationExpires(q) ==
    /\ B!ReservationExpires(q)
    /\ UNCHANGED <<package, run, order, results, request>>

ExpireReservations ==
    /\ B!ExpireReservations({})
    /\ UNCHANGED <<package, run, order, results, request>>

RequestStep(q) ==
    \/ Load(q) \/ Look(q) \/ Create(q) \/ Reserve(q) \/ Start(q) \/ Call(q) \/ Answer(q)
    \/ Settle(q) \/ Record(q) \/ Finish(q) \/ Fail(q) \/ SaveFailed(q)

Next ==
    \/ \E q \in Requests : RequestStep(q) \/ Crash(q) \/ ReservationExpires(q)
    \/ Repackage
    \/ ExpireReservations

Spec == Init /\ [][Next]_vars

-----------------------------------------------------------------------------
(* Properties.                                                             *)

\* Every judgement is accounted for: a stored one, hence a succeeded run, is
\* settled, also when expiry sweeps ran between the call and the settlement, and
\* a failed one holds no money, whichever step it failed at.
JudgementIsAccounted ==
    /\ \A q \in results : reservation[q] # None /\ reservation[q].status = "settled"
    /\ \A q \in Requests : /\ run[q].status = "succeeded" => q \in results
                          /\ run[q].status = "failed" => ~B!IsReserved(q)

\* The judge as a whole is a use of the budget ledger.
JudgeImplementsBudget == B!Spec

=============================================================================
