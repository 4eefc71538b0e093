----------------------------- MODULE HermesLane -----------------------------
(***************************************************************************)
(* The Hermes admission lane and its worker: backend/agents/tasks.py, the  *)
(* part of backend/agents/hermes.py that starts and stops the remote agent *)
(* process, and backend/agents/budgets.py through the module Budget.       *)
(*                                                                         *)
(* Every transaction of tasks.py begins by locking the lane's only row, so *)
(* a transaction is one action; what interleaves is transactions of the    *)
(* web process, of Celery workers and of the broker, and the network calls *)
(* a worker makes between its transactions.                                *)
(*                                                                         *)
(* The failure categories are abstracted to the run status they lead to:   *)
(* "cancelled" for the category cancelled, "failed" for every other one.   *)
(***************************************************************************)
EXTENDS Integers, FiniteSets

CONSTANTS
    Runs, Profiles, Profile, Unit, Months, Tokens, None,  \* see Budget
    LaneProfile,   \* the model profile the settings select for the lane
    Judgements,    \* runs of the evaluation judge, which share the budget
    JudgeProfile,  \* the model profile of the judge
    Keys,          \* idempotency keys the owner's browser may send
    Workers,       \* Celery worker processes
    Faults,        \* which kinds of fault may happen
    MaxFaults      \* how many of them

FaultKinds == {"crash", "redeliver", "commit", "dispatch", "dispatch_lost",
               "finish_lost", "revoke", "accounting", "config"}

ASSUME LaneProfileAssumption == LaneProfile \in Profiles /\ JudgeProfile \in Profiles
ASSUME JudgementsAssumption == Runs \cap Judgements = {}
ASSUME FaultsAssumption == Faults \subseteq FaultKinds /\ MaxFaults \in Nat
ASSUME NoneNotRun == None \notin Runs

VARIABLES
    month, period, reservation, ledger, expired,  \* the budget tables
    enabled,     \* settings.CIVICLOOP_HERMES_ENABLED
    lane,        \* HermesAdmissionLane: the singleton lock and quarantine row
    run,         \* AgentRun.status, "none" before the row exists
    control,     \* AgentRunControl and the WorkflowCapability it points to
    authorized,  \* runs whose actor, session, revision and package still hold
    receipt,     \* HermesStartReceipt: idempotency key -> run
    dispatch,    \* the web process's on_commit hook of each run
    queue,       \* deliveries of execute_hermes_run(run) waiting in the broker
    worker,      \* local state of each worker process
    remote,      \* the agent process of each run, behind the Hermes adapter
    faults       \* faults so far

budgetVars == <<month, period, reservation, ledger, expired>>
dbVars == <<lane, run, control, receipt>>
envVars == <<enabled, authorized>>
vars == <<budgetVars, dbVars, envVars, dispatch, queue, worker, remote, faults>>

B == INSTANCE Budget WITH Runs <- Runs \cup Judgements

\* What Budget assumes of its constants; and a run reserves its profile's ceiling.
ASSUME LedgerAssumption ==
    /\ IsFiniteSet(Runs \cup Judgements)
    /\ Profile \in [Profiles -> B!ProfileRow]
    /\ Unit \in Nat \ {0}
    /\ Months \subseteq Nat /\ 1 \in Months
    /\ Tokens \subseteq Nat
    /\ None \notin B!PeriodRow \cup B!Reservation
ASSUME CeilingAssumption == {Profile[LaneProfile].maxIn, Profile[LaneProfile].maxOut} \subseteq Tokens

Active == {"queued", "running"}
RunStatuses == Active \cup {"none", "succeeded", "failed", "cancelled"}
WorkerPC == {"idle", "execute", "send", "await", "accept", "cleanup", "finish"}

IdleWorker == [pc |-> "idle", run |-> None, outcome |-> "failed", billable |-> FALSE,
               redelivery |-> FALSE, quarantine |-> FALSE, cleanupOk |-> FALSE]
NewControl == [cancel |-> FALSE, capability |-> "none", disabled |-> FALSE]

\* A fault happens: it must be one this instance allows, and not one too many.
Fault(kind) == kind \in Faults /\ faults < MaxFaults /\ faults' = faults + 1

\* Revoking and accounting inside one transaction each work or, as a fault, fail.
Losses(revoked, accounted) ==
    LET n == (IF revoked THEN 0 ELSE 1) + (IF accounted THEN 0 ELSE 1)
    IN  /\ revoked \/ "revoke" \in Faults
        /\ accounted \/ "accounting" \in Faults
        /\ n > 0 => faults + n <= MaxFaults
        /\ faults' = faults + n

\* A mistake: only quarantined runs keep an expired reservation.
HeldQuarantined == {r \in Runs : control[r].disabled}

\* Runs whose reservation no expiry may release.
Held == {r \in Runs : run[r] \in Active \/ control[r].disabled}

-----------------------------------------------------------------------------
Init ==
    /\ B!Init
    /\ enabled = TRUE
    /\ lane = [activeRun |-> None, disabled |-> FALSE]
    /\ run = [r \in Runs |-> "none"]
    /\ control = [r \in Runs |-> NewControl]
    /\ authorized = Runs
    /\ receipt = [k \in Keys |-> None]
    /\ dispatch = [r \in Runs |-> "none"]
    /\ queue = [r \in Runs |-> 0]
    /\ worker = [w \in Workers |-> IdleWorker]
    /\ remote = [r \in Runs |-> "none"]
    /\ faults = 0

-----------------------------------------------------------------------------
(* Transactions shared by several callers.                                 *)

\* A mistake: the cancellation, as a request and as a revoked capability, is not
\* looked at again.
CheckNoCancel(r, withCapability) ==
    CASE ~enabled -> "cancelled"
      [] enabled -> IF r \in authorized \ expired THEN "ok" ELSE "failed"

\* _check: what stands in the way of a run right now, in the code's order.
Check(r, withCapability) ==
    CASE control[r].cancel \/ ~enabled -> "cancelled"
      [] ~(control[r].cancel \/ ~enabled) /\ r \in expired -> "failed"
      [] ~(control[r].cancel \/ ~enabled) /\ r \notin expired ->
            IF r \in authorized /\ (withCapability => control[r].capability = "live")
              THEN "ok" ELSE "failed"

\* should_cancel_hermes_run, the poll of a worker that waits for the agent.
ShouldCancel(r) == Check(r, TRUE) # "ok" \/ run[r] # "running"

\* _revoke_record on the control row; only a stored capability can fail it.
Revoked(r) == IF control[r].capability = "none" THEN "none" ELSE "revoked"

\* Mistakes: the lane is not freed; books left open do not quarantine the run.
TerminalKeepsLane(r, outcome, billable, accounted, capability, disabled, cancel) ==
    /\ IF accounted /\ B!IsReserved(r)
         THEN IF billable THEN B!ChargeReservedBudget(r) ELSE B!ReleaseBudget(r)
         ELSE UNCHANGED budgetVars
    /\ run' = [run EXCEPT ![r] = outcome]
    /\ control' = [control EXCEPT ![r] =
           [cancel |-> cancel, capability |-> capability,
            disabled |-> @.disabled \/ disabled \/ ~accounted]]
    /\ lane' = [lane EXCEPT !.disabled = @ \/ disabled \/ ~accounted]

TerminalOpenBooks(r, outcome, billable, accounted, capability, disabled, cancel) ==
    /\ IF accounted /\ B!IsReserved(r)
         THEN IF billable THEN B!ChargeReservedBudget(r) ELSE B!ReleaseBudget(r)
         ELSE UNCHANGED budgetVars
    /\ run' = [run EXCEPT ![r] = outcome]
    /\ control' = [control EXCEPT ![r] =
           [cancel |-> cancel, capability |-> capability,
            disabled |-> @.disabled \/ disabled]]
    /\ lane' = [activeRun |-> IF lane.activeRun = r THEN None ELSE lane.activeRun,
                disabled |-> lane.disabled \/ disabled]

\* _terminal: close the books of the run, or quarantine the lane if they
\* cannot be closed, write the terminal status and free the lane.
Terminal(r, outcome, billable, accounted, capability, disabled, cancel) ==
    /\ IF accounted /\ B!IsReserved(r)
         THEN IF billable THEN B!ChargeReservedBudget(r) ELSE B!ReleaseBudget(r)
         ELSE UNCHANGED budgetVars
    /\ run' = [run EXCEPT ![r] = outcome]
    /\ control' = [control EXCEPT ![r] =
           [cancel |-> cancel, capability |-> capability,
            disabled |-> @.disabled \/ disabled \/ ~accounted]]
    /\ lane' = [activeRun |-> IF lane.activeRun = r THEN None ELSE lane.activeRun,
                disabled |-> lane.disabled \/ disabled \/ ~accounted]

\* Mistakes: the run's status is not read again before it is ended; the
\* caller's word that nothing was spent is taken; an unconfirmed cleanup
\* does not quarantine the lane.
FinishUnread(r, outcome, billable, cleanupOk) ==
    \E revoked, accounted \in BOOLEAN :
        /\ control[r].capability = "none" => revoked
        /\ Losses(revoked, accounted)
        /\ Terminal(r, outcome, billable, accounted,
                    IF revoked THEN Revoked(r) ELSE control[r].capability,
                    ~cleanupOk \/ ~revoked, control[r].cancel)

FinishTrusting(r, outcome, billable, cleanupOk) ==
    IF run[r] \notin Active
      THEN UNCHANGED <<budgetVars, run, control, lane, faults>>
      ELSE FinishUnread(r, outcome, billable, cleanupOk)

FinishUnclean(r, outcome, billable, cleanupOk) ==
    IF run[r] \notin Active
      THEN UNCHANGED <<budgetVars, run, control, lane, faults>>
      ELSE FinishUnread(r, outcome, billable \/ run[r] = "running", TRUE)

\* _finish: end a run that is still active.  A caller that believes nothing
\* was spent is overruled when the row says the run had started.
Finish(r, outcome, billable, cleanupOk) ==
    IF run[r] \notin Active
      THEN UNCHANGED <<budgetVars, run, control, lane, faults>>
      ELSE \E revoked, accounted \in BOOLEAN :
             LET contradicted == run[r] = "running" /\ ~billable
                 clean == cleanupOk /\ ~contradicted /\ revoked
                 final == IF clean /\ control[r].cancel THEN "cancelled" ELSE outcome
             IN  /\ control[r].capability = "none" => revoked
                 /\ Losses(revoked, accounted)
                 /\ Terminal(r, final, billable \/ contradicted, accounted,
                             IF revoked THEN Revoked(r) ELSE control[r].capability,
                             ~clean, control[r].cancel)

-----------------------------------------------------------------------------
(* The web process.                                                        *)

\* _owner_ready and _ready: the owner's session, role, revision and package.
OwnerReady(r) == enabled /\ r \in authorized

\* queue_hermes_run: with the lane free and nothing quarantined, reserve the
\* largest cost the run can have, take the lane and register the hook.
QueueHermesRun(r) ==
    /\ run[r] = "none"
    /\ ~lane.disabled
    /\ \A q \in Runs : ~control[q].disabled
    /\ lane.activeRun = None
    /\ \A q \in Runs : run[q] \notin Active
    /\ OwnerReady(r)
    /\ B!ReserveBudget(r, LaneProfile, Profile[LaneProfile].maxIn,
                       Profile[LaneProfile].maxOut, Held)
    /\ run' = [run EXCEPT ![r] = "queued"]
    /\ lane' = [lane EXCEPT !.activeRun = r]
    /\ dispatch' = [dispatch EXCEPT ![r] = "pending"]
    /\ UNCHANGED <<control, envVars, queue, worker, remote, faults>>

\* start_hermes_run with a new key: the queued run and the receipt commit
\* together.  A known key returns its run or conflicts, and changes nothing.
StartHermesRun(k, r) ==
    /\ receipt[k] = None
    /\ QueueHermesRun(r)
    /\ receipt' = [receipt EXCEPT ![k] = r]

\* _dispatch: publish the task.  The broker client may raise although the
\* message was published; the hook may also die before it publishes anything.
Dispatch(r) ==
    /\ dispatch[r] = "pending"
    /\ \/ /\ dispatch' = [dispatch EXCEPT ![r] = "done"]
          /\ queue' = [queue EXCEPT ![r] = @ + 1]
          /\ UNCHANGED faults
       \/ /\ Fault("dispatch")
          /\ dispatch' = [dispatch EXCEPT ![r] = "failed"]
          /\ \E published \in {0, 1} : queue' = [queue EXCEPT ![r] = @ + published]
       \/ /\ Fault("dispatch_lost")
          /\ dispatch' = [dispatch EXCEPT ![r] = "done"]
          /\ UNCHANGED queue
    /\ UNCHANGED <<budgetVars, dbVars, envVars, worker, remote>>

\* _dispatch, after delay() raised: no worker owns the run, as far as it knows.
DispatchFailed(r) ==
    /\ dispatch[r] = "failed"
    /\ dispatch' = [dispatch EXCEPT ![r] = "done"]
    /\ \/ Finish(r, "failed", FALSE, TRUE)
       \/ Fault("finish_lost") /\ UNCHANGED <<budgetVars, run, control, lane>>
    /\ UNCHANGED <<receipt, envVars, queue, worker, remote>>

\* cancel_hermes_run: revoke the capability at once; a queued run ends here,
\* a running one is ended by its worker.
CancelHermesRun(r) ==
    /\ run[r] \in Active
    /\ ~control[r].cancel
    /\ \E revoked, accounted \in BOOLEAN :
         LET capability == IF revoked THEN Revoked(r) ELSE control[r].capability
         IN  /\ control[r].capability = "none" => revoked
             /\ run[r] = "running" => accounted
             /\ Losses(revoked, accounted)
             /\ IF run[r] = "queued"
                  THEN Terminal(r, "cancelled", FALSE, accounted, capability,
                                ~revoked, TRUE)
                  ELSE /\ control' = [control EXCEPT ![r] =
                              [cancel |-> TRUE, capability |-> capability,
                               disabled |-> @.disabled \/ ~revoked]]
                       /\ lane' = [lane EXCEPT !.disabled = @ \/ ~revoked]
                       /\ UNCHANGED <<budgetVars, run>>
    /\ UNCHANGED <<receipt, envVars, dispatch, queue, worker, remote>>

-----------------------------------------------------------------------------
(* The worker: _execute_hermes_run.                                        *)

\* A mistake: a redelivered run is taken up again instead of being ended.
HandlerRetrying(r, outcome, billable, redelivery, quarantine) ==
    [pc |-> IF redelivery THEN "execute" ELSE IF billable THEN "cleanup" ELSE "finish",
     run |-> r, outcome |-> outcome, billable |-> billable, redelivery |-> redelivery,
     quarantine |-> quarantine, cleanupOk |-> ~billable]

\* The exception handler: with nothing billable there is nothing to clean up.
Handler(r, outcome, billable, redelivery, quarantine) ==
    [pc |-> IF billable THEN "cleanup" ELSE "finish", run |-> r, outcome |-> outcome,
     billable |-> billable, redelivery |-> redelivery, quarantine |-> quarantine,
     cleanupOk |-> ~billable]

Go(w, pc) == worker' = [worker EXCEPT ![w].pc = pc]

\* The exceptions raised once the claim has committed.
Raise(w, outcome, quarantine) ==
    worker' = [worker EXCEPT ![w] = Handler(@.run, outcome, TRUE, FALSE, quarantine)]

\* The first transaction: take a delivery and claim the run, or find out that
\* it is over, already started by another delivery, or no longer admissible.
\* With the fault "commit" the claim commits but the worker is told it did not.
Claim(w, r) ==
    LET refused == \/ lane.activeRun # r \/ lane.disabled \/ control[r].disabled
                   \/ Check(r, FALSE) # "ok"
        outcome == IF lane.activeRun # r \/ lane.disabled \/ control[r].disabled
                     THEN "failed" ELSE Check(r, FALSE)
    IN
    /\ worker[w].pc = "idle"
    /\ queue[r] > 0
    /\ queue' = [queue EXCEPT ![r] = @ - 1]
    /\ \/ /\ run[r] \notin Active
          /\ UNCHANGED <<run, control, worker, faults>>
       \/ /\ run[r] = "running"
          /\ worker' = [worker EXCEPT ![w] = Handler(r, "failed", TRUE, TRUE, FALSE)]
          /\ UNCHANGED <<run, control, faults>>
       \/ /\ run[r] = "queued" /\ refused
          /\ worker' = [worker EXCEPT ![w] = Handler(r, outcome, FALSE, FALSE, FALSE)]
          /\ UNCHANGED <<run, control, faults>>
       \/ /\ run[r] = "queued" /\ ~refused /\ Fault("config")
          /\ worker' = [worker EXCEPT ![w] = Handler(r, "failed", FALSE, FALSE, FALSE)]
          /\ UNCHANGED <<run, control>>
       \/ /\ run[r] = "queued" /\ ~refused
          /\ run' = [run EXCEPT ![r] = "running"]
          /\ control' = [control EXCEPT ![r].capability = "live"]
          /\ \/ /\ worker' = [worker EXCEPT ![w] =
                       [IdleWorker EXCEPT !.pc = "execute", !.run = r, !.billable = TRUE]]
                /\ UNCHANGED faults
             \/ /\ Fault("commit")
                /\ worker' = [worker EXCEPT ![w] = Handler(r, "failed", FALSE, FALSE, FALSE)]
    /\ UNCHANGED <<budgetVars, lane, receipt, envVars, dispatch, remote>>

\* HermesClient.execute before it sends: poll for cancellation, then read the
\* reservation and the capability again.
Prepare(w) ==
    LET r == worker[w].run IN
    /\ worker[w].pc = "execute"
    /\ IF ShouldCancel(r) THEN Raise(w, "cancelled", FALSE)
       ELSE IF B!IsReserved(r) /\ r \notin expired THEN Go(w, "send")
       ELSE Raise(w, "failed", FALSE)
    /\ UNCHANGED <<budgetVars, dbVars, envVars, dispatch, queue, remote, faults>>

\* HermesClient._request: the launch request leaves the worker.
Send(w) ==
    /\ worker[w].pc = "send"
    /\ Go(w, "await")
    /\ remote' = [remote EXCEPT ![worker[w].run] = "sent"]
    /\ UNCHANGED <<budgetVars, dbVars, envVars, dispatch, queue, faults>>

\* The adapter confirms a cancellation only of the run it accepted last, and
\* only once that run's agent can act no more.
Known(r) == remote[r] \in {"alive", "ended"}

\* HermesClient.execute waits: the agent's result arrives, or the wait is given
\* up (cancellation, deadline, broken connection).  Giving up, execute tells
\* the adapter to cancel; if that is not confirmed the category says so.
Await(w) ==
    LET r == worker[w].run IN
    /\ worker[w].pc = "await"
    /\ \/ /\ remote[r] \in {"ended", "refused"} /\ ~ShouldCancel(r)
          /\ Go(w, "accept")
          /\ UNCHANGED remote
       \/ /\ \/ Raise(w, "failed", FALSE)
             \/ ShouldCancel(r) /\ Raise(w, "cancelled", FALSE)
          /\ Known(r)
          /\ remote' = [remote EXCEPT ![r] = "ended"]
       \/ Raise(w, "failed", FALSE) /\ UNCHANGED remote
    /\ UNCHANGED <<budgetVars, dbVars, envVars, dispatch, queue, faults>>

\* _validate_result refuses what came back, or reports the agent's own failure.
ResultRefused(w) == \E outcome \in {"failed", "cancelled"} : Raise(w, outcome, FALSE)

\* The second transaction: accept the result if the run, the lane and every
\* authority it was started under still stand; revoke, settle and free the lane.
\* With the fault "commit" all of it commits but the worker is told it did not.
Accept(w) ==
    LET r == worker[w].run
        stale == run[r] # "running" \/ lane.disabled \/ lane.activeRun # r
    IN
    /\ worker[w].pc = "accept"
    /\ \/ /\ stale \/ Check(r, TRUE) # "ok"
          /\ Raise(w, IF stale THEN "failed" ELSE Check(r, TRUE), FALSE)
          /\ UNCHANGED <<budgetVars, dbVars, faults>>
       \/ /\ ~stale /\ Check(r, TRUE) = "ok"
          /\ \/ /\ ResultRefused(w)
                /\ UNCHANGED <<budgetVars, dbVars, faults>>
             \/ /\ Fault("revoke")
                /\ Raise(w, "failed", TRUE)
                /\ UNCHANGED <<budgetVars, dbVars>>
             \/ /\ Fault("accounting")
                /\ Raise(w, "failed", FALSE)
                /\ UNCHANGED <<budgetVars, dbVars>>
             \/ /\ remote[r] = "ended"
                /\ \E i, o \in Tokens : B!SettleBudget(r, i, o)
                /\ run' = [run EXCEPT ![r] = "succeeded"]
                /\ control' = [control EXCEPT ![r].capability = "revoked"]
                /\ lane' = [lane EXCEPT !.activeRun = None]
                /\ UNCHANGED receipt
                /\ \/ worker' = [worker EXCEPT ![w] = IdleWorker] /\ UNCHANGED faults
                   \/ Fault("commit") /\ Raise(w, "failed", FALSE)
    /\ UNCHANGED <<envVars, dispatch, queue, remote>>

\* The handler's client.cancel(run).  A run whose launch never reached the
\* adapter cannot be confirmed, whether or not it was sent.
Cleanup(w) ==
    LET r == worker[w].run IN
    /\ worker[w].pc = "cleanup"
    /\ \/ /\ Known(r)
          /\ worker' = [worker EXCEPT ![w].pc = "finish", ![w].cleanupOk =
                 ~worker[w].redelivery /\ ~worker[w].quarantine]
          /\ remote' = [remote EXCEPT ![r] = "ended"]
       \/ /\ worker' = [worker EXCEPT ![w].pc = "finish", ![w].cleanupOk = FALSE]
          /\ UNCHANGED remote
    /\ UNCHANGED <<budgetVars, dbVars, envVars, dispatch, queue, faults>>

\* The handler's _finish, after which the delivery is acknowledged.  If the
\* handler itself raises, the task has failed and is acknowledged all the same.
FinishRun(w) ==
    LET s == worker[w] IN
    /\ s.pc = "finish"
    /\ worker' = [worker EXCEPT ![w] = IdleWorker]
    /\ \/ Finish(s.run, s.outcome, s.billable, s.cleanupOk)
       \/ Fault("finish_lost") /\ UNCHANGED <<budgetVars, run, control, lane>>
    /\ UNCHANGED <<receipt, envVars, dispatch, queue, remote>>

-----------------------------------------------------------------------------
(* The world around them.                                                  *)

\* A mistake: deliveries are acknowledged when they are taken.
CrashAcknowledged(w) ==
    /\ worker[w].pc # "idle"
    /\ Fault("crash")
    /\ worker' = [worker EXCEPT ![w] = IdleWorker]
    /\ UNCHANGED <<budgetVars, dbVars, envVars, dispatch, queue, remote>>

\* A worker process is lost: acks_late and reject_on_worker_lost requeue.
Crash(w) ==
    /\ worker[w].pc # "idle"
    /\ Fault("crash")
    /\ queue' = [queue EXCEPT ![worker[w].run] = @ + 1]
    /\ worker' = [worker EXCEPT ![w] = IdleWorker]
    /\ UNCHANGED <<budgetVars, dbVars, envVars, dispatch, remote>>

\* The broker delivers an unacknowledged message a second time.
Redeliver(w) ==
    /\ worker[w].pc # "idle"
    /\ Fault("redeliver")
    /\ queue' = [queue EXCEPT ![worker[w].run] = @ + 1]
    /\ UNCHANGED <<budgetVars, dbVars, envVars, dispatch, worker, remote>>

\* The adapter accepts or refuses a launch request that is on its way; the
\* agent ends.
RemoteStart(r) ==
    /\ remote[r] = "sent"
    /\ remote' = [remote EXCEPT ![r] = "alive"]
    /\ UNCHANGED <<budgetVars, dbVars, envVars, dispatch, queue, worker, faults>>

RemoteRefuse(r) ==
    /\ remote[r] = "sent"
    /\ remote' = [remote EXCEPT ![r] = "refused"]
    /\ UNCHANGED <<budgetVars, dbVars, envVars, dispatch, queue, worker, faults>>

RemoteEnd(r) ==
    /\ remote[r] = "alive"
    /\ remote' = [remote EXCEPT ![r] = "ended"]
    /\ UNCHANGED <<budgetVars, dbVars, envVars, dispatch, queue, worker, faults>>

\* A mistake: the lease's end frees the reservation behind the ledger's back.
LeaseExpiresReleasing(r) ==
    /\ reservation[r] # None
    /\ r \notin expired
    /\ expired' = expired \cup {r}
    /\ reservation' = B!ReleaseRows({r})
    /\ UNCHANGED <<month, period, ledger, dbVars, envVars, dispatch, queue, worker, remote, faults>>

\* The lease, which is also the reservation's expiry, runs out.
LeaseExpires(r) ==
    /\ B!ReservationExpires(r)
    /\ UNCHANGED <<dbVars, envVars, dispatch, queue, worker, remote, faults>>

\* run_fixed_judge, as the ledger sees it: it reserves, then settles or gives
\* back, and a judgement that was abandoned in between is swept up.
JudgeReserves(j) ==
    /\ \E i, o \in Tokens : B!ReserveBudget(j, JudgeProfile, i, o, Held)
    /\ UNCHANGED <<dbVars, envVars, dispatch, queue, worker, remote, faults>>

JudgeCloses(j) ==
    /\ B!ReleaseBudget(j) \/ \E i, o \in Tokens : B!SettleBudget(j, i, o)
    /\ UNCHANGED <<dbVars, envVars, dispatch, queue, worker, remote, faults>>

ExpireReservations ==
    /\ B!ExpireReservations(Held)
    /\ UNCHANGED <<dbVars, envVars, dispatch, queue, worker, remote, faults>>

\* The operator turns the lane off or on; a session ends, a package is edited.
ToggleFeature ==
    /\ enabled' = ~enabled
    /\ UNCHANGED <<budgetVars, dbVars, authorized, dispatch, queue, worker, remote, faults>>

LoseAuthority(r) ==
    /\ r \in authorized
    /\ run[r] \in Active
    /\ authorized' = authorized \ {r}
    /\ UNCHANGED <<budgetVars, dbVars, enabled, dispatch, queue, worker, remote, faults>>

WorkerStep(w) ==
    \/ Prepare(w) \/ Send(w) \/ Await(w) \/ Accept(w) \/ Cleanup(w) \/ FinishRun(w)

Next ==
    \/ \E k \in Keys, r \in Runs : StartHermesRun(k, r)
    \/ \E r \in Runs : Dispatch(r) \/ DispatchFailed(r) \/ CancelHermesRun(r)
    \/ \E w \in Workers, r \in Runs : Claim(w, r)
    \/ \E w \in Workers : WorkerStep(w)
    \/ \E w \in Workers : Crash(w) \/ Redeliver(w)
    \/ \E r \in Runs : RemoteStart(r) \/ RemoteRefuse(r) \/ RemoteEnd(r)
    \/ \E r \in Runs : LoseAuthority(r)
    \/ \E r \in Runs \cup Judgements : LeaseExpires(r)
    \/ \E j \in Judgements : JudgeReserves(j) \/ JudgeCloses(j)
    \/ ExpireReservations
    \/ ToggleFeature

Spec == Init /\ [][Next]_vars

\* Workers run and consume their queue, and the hook that was started ends.
Fairness ==
    /\ \A w \in Workers : WF_vars(WorkerStep(w)) /\ WF_vars(\E r \in Runs : Claim(w, r))
    /\ \A r \in Runs : WF_vars(Dispatch(r)) /\ WF_vars(DispatchFailed(r))

FairSpec == Spec /\ Fairness

-----------------------------------------------------------------------------
(* Properties.                                                             *)

Rows == [cancel: BOOLEAN, capability: {"none", "live", "revoked"}, disabled: BOOLEAN]
WorkerState == [pc: WorkerPC, run: Runs \cup {None}, outcome: {"failed", "cancelled"},
                billable: BOOLEAN, redelivery: BOOLEAN, quarantine: BOOLEAN,
                cleanupOk: BOOLEAN]

\* Every table and every process variable holds a value of its kind.
LaneTypeOK ==
    /\ enabled \in BOOLEAN
    /\ lane \in [activeRun: Runs \cup {None}, disabled: BOOLEAN]
    /\ run \in [Runs -> RunStatuses]
    /\ control \in [Runs -> Rows]
    /\ authorized \subseteq Runs
    /\ receipt \in [Keys -> Runs \cup {None}]
    /\ dispatch \in [Runs -> {"none", "pending", "failed", "done"}]
    /\ queue \in [Runs -> Nat]
    /\ worker \in [Workers -> WorkerState]
    /\ remote \in [Runs -> {"none", "sent", "refused", "alive", "ended"}]
    /\ faults \in Nat

\* The lane row names exactly the run that is queued or running: two runs are
\* never active together and a free lane never hides an active run.
LaneAgreement == \A r \in Runs : run[r] \in Active <=> lane.activeRun = r

MayRun(r) ==
    \/ remote[r] \in {"sent", "alive"}
    \/ \E w \in Workers : worker[w].run = r /\ worker[w].pc \in {"execute", "send", "await"}

\* An agent process that may be alive, or that some worker may yet launch,
\* belongs to the running run, unless admissions have been quarantined.
NoStrayProcess == \A r \in Runs : MayRun(r) => run[r] = "running" \/ lane.disabled

\* Hence at most one agent process exists at a time.
OneProcess ==
    \A r, q \in Runs : remote[r] \in {"sent", "alive"} /\ remote[q] \in {"sent", "alive"} => r = q

\* Money that may have been spent is never given back: once a launch request
\* has left a worker, the run's reservation is never released.
SpentNeverReleased ==
    \A r \in Runs : remote[r] # "none" =>
        reservation[r] # None /\ reservation[r].status # "released"

\* While a run is active its reservation is intact, also past its expiry and
\* whatever sweeps ran meanwhile, so that it can still be settled or charged.
ActiveRunIsFunded == \A r \in Runs : run[r] \in Active => B!IsReserved(r)

\* What a run holds ends with it, unless it is quarantined: no reservation stays
\* open after its end, and a usable capability exists only while it runs.
NothingOutlivesTheRun ==
    \A r \in Runs :
        /\ run[r] \notin Active /\ B!IsReserved(r) => control[r].disabled
        /\ control[r].capability = "live" => run[r] = "running" \/ lane.disabled

\* A cancellation the owner was told was accepted is never followed by success.
CancelWins == \A r \in Runs : run[r] = "succeeded" => ~control[r].cancel

\* A run moves only forward: an ended run is never revived, relabelled or
\* charged again by a late worker, a redelivery or a lost acknowledgement.
EndedForGood ==
    [][\A r \in Runs : run[r] \notin Active \cup {"none"} =>
          run'[r] = run[r] /\ reservation'[r] = reservation[r]]_vars

\* The lane as a whole is a use of the budget ledger: every step is one of the
\* ledger's steps, or leaves it alone.
ImplementsBudget == B!Spec

\* A run is launched once and its agent lives once: no redelivery, crash, lost
\* acknowledgement or late cancellation sends a second launch for a run, or
\* takes an agent that ended for one that is alive.
Agent == INSTANCE RemoteAgent
LaunchedOnce == Agent!Spec

\* An admitted run ends, whatever crashes, redeliveries and failures befall it.
RunEnds == \A r \in Runs : run[r] \in Active ~> run[r] \notin Active

=============================================================================
