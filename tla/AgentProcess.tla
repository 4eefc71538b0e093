---------------------------- MODULE AgentProcess ----------------------------
(***************************************************************************)
(* Behind the Hermes client: the adapter (deploy/hermes/adapter.py), its   *)
(* client of the process controller (controller_client.py), the controller *)
(* service (controller_service.py) and the controller that owns the agent  *)
(* child (process_controller.py).                                          *)
(*                                                                         *)
(* The adapter serves one launch at a time (run_lock) and any number of    *)
(* cancellations next to it; adapter and service talk over HTTP, so a call *)
(* may be given up by its caller and still be carried out later.  Whatever *)
(* a method does under its lock is one step.                               *)
(***************************************************************************)
EXTENDS Naturals, FiniteSets

CONSTANTS
    Runs,        \* run ids; the worker sends one launch for each
    Cancellers,  \* adapter threads that serve cancellation requests
    Launcher,    \* the adapter thread that holds run_lock
    MaxRecords,  \* maximum_records of service and controller
    None

ASSUME LauncherAssumption == Launcher \notin Cancellers
ASSUME NoRunAssumption == None \notin Runs
ASSUME RecordsAssumption == MaxRecords \in Nat

Threads == Cancellers \cup {Launcher}

VARIABLES
    healthy,     \* HermesAdapter.transport_healthy
    activeRun,   \* run of HermesAdapter.active_run
    record,      \* the adapter's record of each run
    scope,       \* the run's transport scope, as the transport has it
    doubtful,    \* RemoteProcessController.quarantined
    thread,      \* program counter, run and result of each adapter thread
    starting,    \* runs whose start request is on its way to the service
    cancelling,  \* each thread's cancel request at the service
    service,     \* ControllerService: active run and the step of its thread
    status,      \* the service's record of each run
    controller,  \* ProcessController: quarantined, _active and _history
    alive,       \* runs whose child may be alive
    answer,      \* what the adapter answered to each launch
    confirmed    \* runs whose cancellation the adapter confirmed

adapterVars == <<healthy, activeRun, record, scope, doubtful, thread, answer, confirmed>>
serviceVars == <<service, status, controller, alive>>
messages == <<starting, cancelling>>
vars == <<adapterVars, serviceVars, messages>>

Terminal == {"succeeded", "failed", "cancelled"}
NewRecord == [launched |-> FALSE, cancelled |-> FALSE, done |-> FALSE, clean |-> FALSE]
NoStatus == [status |-> "none", cancelled |-> FALSE, result |-> FALSE]
IdleThread == [pc |-> "idle", run |-> None, result |-> "failed"]
NoCancel == [step |-> "none", run |-> None]

Init ==
    /\ healthy = TRUE
    /\ activeRun = None
    /\ record = [r \in Runs |-> NewRecord]
    /\ scope = [r \in Runs |-> "none"]
    /\ doubtful = FALSE
    /\ thread = [t \in Threads |-> IdleThread]
    /\ starting = {}
    /\ cancelling = [t \in Threads |-> NoCancel]
    /\ service = [active |-> None, pc |-> "idle", result |-> "none"]
    /\ status = [r \in Runs |-> NoStatus]
    /\ controller = [quarantined |-> FALSE, active |-> None, history |-> {}]
    /\ alive = {}
    /\ answer = [r \in Runs |-> "none"]
    /\ confirmed = {}

Goto(t, pc) == thread' = [thread EXCEPT ![t].pc = pc]

-----------------------------------------------------------------------------
(* The adapter: execute.                                                   *)

\* do_POST and the first part of execute: a validated launch of a new run.
Launch(r) ==
    /\ thread[Launcher].pc = "idle"
    /\ ~record[r].launched
    /\ healthy
    /\ activeRun # None => record[activeRun].done
    /\ activeRun' = r
    /\ record' = [record EXCEPT ![r].launched = TRUE]
    /\ thread' = [thread EXCEPT ![Launcher] =
           [pc |-> "register", run |-> r, result |-> "failed"]]
    /\ UNCHANGED <<healthy, scope, doubtful, answer, confirmed, serviceVars, messages>>

\* On the way to the finally clause.
Return(result) ==
    thread' = [thread EXCEPT ![Launcher].pc = "revoke", ![Launcher].result = result]

\* register_scope, and the look at the cancellation after it.  A registration
\* that failed may have been made, or may still be queued.
Register ==
    LET r == thread[Launcher].run IN
    /\ thread[Launcher].pc = "register"
    /\ \/ /\ scope' = [scope EXCEPT ![r] = "registered"]
          /\ IF record[r].cancelled THEN Return("cancelled") ELSE Goto(Launcher, "start")
       \/ /\ \E s \in {"none", "queued", "registered"} : scope' = [scope EXCEPT ![r] = s]
          /\ Return("failed")
    /\ UNCHANGED <<healthy, activeRun, record, doubtful, answer, confirmed,
                   serviceVars, messages>>

\* A mistake: an unclean controller does not taint the record.
RevokeTrusting ==
    LET r == thread[Launcher].run IN
    /\ thread[Launcher].pc = "revoke"
    /\ \/ /\ scope' = [scope EXCEPT ![r] = "revoked"]
          /\ record' = [record EXCEPT ![r].done = TRUE, ![r].clean = healthy]
          /\ answer' = [answer EXCEPT ![r] = thread[Launcher].result]
          /\ UNCHANGED healthy
       \/ /\ scope' \in {scope, [scope EXCEPT ![r] = "revoked"]}
          /\ healthy' = FALSE
          /\ record' = [record EXCEPT ![r].done = TRUE]
          /\ answer' = [answer EXCEPT ![r] = "failed"]
    /\ thread' = [thread EXCEPT ![Launcher] = IdleThread]
    /\ UNCHANGED <<activeRun, doubtful, confirmed, serviceVars, messages>>

\* A mistake: a revocation that failed is taken for one that worked.
RevokeHoping ==
    LET r == thread[Launcher].run IN
    /\ thread[Launcher].pc = "revoke"
    /\ scope' \in {scope, [scope EXCEPT ![r] = "revoked"]}
    /\ record' = [record EXCEPT ![r].done = TRUE, ![r].clean = healthy /\ ~doubtful]
    /\ answer' = [answer EXCEPT ![r] = thread[Launcher].result]
    /\ thread' = [thread EXCEPT ![Launcher] = IdleThread]
    /\ UNCHANGED <<healthy, activeRun, doubtful, confirmed, serviceVars, messages>>

\* execute's finally clause and the answer to the worker.  A failed revocation,
\* made or not, quarantines the adapter.
Revoke ==
    LET r == thread[Launcher].run IN
    /\ thread[Launcher].pc = "revoke"
    /\ \/ /\ scope' = [scope EXCEPT ![r] = "revoked"]
          /\ record' = [record EXCEPT ![r].done = TRUE, ![r].clean = healthy /\ ~doubtful]
          /\ answer' = [answer EXCEPT ![r] = thread[Launcher].result]
          /\ UNCHANGED healthy
       \/ /\ scope' \in {scope, [scope EXCEPT ![r] = "revoked"]}
          /\ healthy' = FALSE
          /\ record' = [record EXCEPT ![r].done = TRUE]
          /\ answer' = [answer EXCEPT ![r] = "failed"]
    /\ thread' = [thread EXCEPT ![Launcher] = IdleThread]
    /\ UNCHANGED <<activeRun, doubtful, confirmed, serviceVars, messages>>

\* A mistake: a registration that comes late undoes the revocation.
LateRegistrationAgain(r) ==
    /\ scope[r] \in {"queued", "revoked"}
    /\ scope' = [scope EXCEPT ![r] = "registered"]
    /\ UNCHANGED <<healthy, activeRun, record, doubtful, thread, answer, confirmed,
                   serviceVars, messages>>

\* The transport gets to a queued registration; a revocation it has seen stands.
LateRegistration(r) ==
    /\ scope[r] = "queued"
    /\ scope' = [scope EXCEPT ![r] = "registered"]
    /\ UNCHANGED <<healthy, activeRun, record, doubtful, thread, answer, confirmed,
                   serviceVars, messages>>

-----------------------------------------------------------------------------
(* The adapter: cancel.                                                    *)

\* cancel finds the record; one that is done needs no controller.
Cancel(t, r) ==
    /\ t \in Cancellers
    /\ thread[t].pc = "idle"
    /\ activeRun = r
    /\ record' = [record EXCEPT ![r].cancelled = TRUE]
    /\ thread' = [thread EXCEPT ![t] =
           [IdleThread EXCEPT !.pc = IF record[r].done THEN "wait" ELSE "post", !.run = r]]
    /\ UNCHANGED <<healthy, activeRun, scope, doubtful, answer, confirmed,
                   serviceVars, messages>>

\* The rest of cancel: wait for the launch to end, and confirm a clean end.
Wait(t) ==
    LET r == thread[t].run IN
    /\ thread[t].pc = "wait"
    /\ IF record[r].done /\ record[r].clean
         THEN confirmed' = confirmed \cup {r} /\ UNCHANGED healthy
         ELSE healthy' = FALSE /\ UNCHANGED confirmed
    /\ thread' = [thread EXCEPT ![t] = IdleThread]
    /\ UNCHANGED <<activeRun, record, scope, doubtful, answer, serviceVars, messages>>

-----------------------------------------------------------------------------
(* RemoteProcessController.                                                *)

\* cancel, called by adapter.cancel and by execute's except clause, succeeds.
CancelReturns(t) ==
    IF t = Launcher THEN Return("failed") /\ UNCHANGED <<doubtful, healthy>>
                    ELSE Goto(t, "wait") /\ UNCHANGED <<doubtful, healthy>>

\* It raises; adapter.cancel then turns the adapter off.
CancelRaises(t) ==
    /\ doubtful' = TRUE
    /\ IF t = Launcher
         THEN Return("failed") /\ UNCHANGED healthy
         ELSE thread' = [thread EXCEPT ![t] = IdleThread] /\ healthy' = FALSE

\* execute: the start request leaves.
SendStart ==
    LET r == thread[Launcher].run IN
    /\ thread[Launcher].pc = "start"
    /\ Goto(Launcher, "admission")
    /\ starting' = starting \cup {r}
    /\ UNCHANGED <<healthy, activeRun, record, scope, doubtful, answer, confirmed,
                   serviceVars, cancelling>>

\* execute: admitted; or the call failed, timed out or was refused: cancel.
Admission ==
    LET r == thread[Launcher].run IN
    /\ thread[Launcher].pc = "admission"
    /\ \/ status[r].status # "none" /\ Goto(Launcher, "poll")
       \/ Goto(Launcher, "post")
    /\ UNCHANGED <<healthy, activeRun, record, scope, doubtful, answer, confirmed,
                   serviceVars, messages>>

\* A mistake: the poll has no deadline.
PollPatiently ==
    LET r == thread[Launcher].run IN
    /\ thread[Launcher].pc = "poll"
    /\ status[r].status \in Terminal
    /\ status[r].result \/ status[r].status = "cancelled"
    /\ Return(IF record[r].cancelled THEN "cancelled" ELSE status[r].status)
    /\ UNCHANGED <<healthy, activeRun, record, scope, doubtful, answer, confirmed,
                   serviceVars, messages>>

\* execute: a terminal status ends the poll; a failure without a result, a
\* failed call or the deadline lead to the except clause.  The adapter then
\* looks at the cancellation once more.
Poll ==
    LET r == thread[Launcher].run IN
    /\ thread[Launcher].pc = "poll"
    /\ \/ /\ status[r].status \in Terminal
          /\ status[r].result \/ status[r].status = "cancelled"
          /\ Return(IF record[r].cancelled THEN "cancelled" ELSE status[r].status)
       \/ Goto(Launcher, "post")
    /\ UNCHANGED <<healthy, activeRun, record, scope, doubtful, answer, confirmed,
                   serviceVars, messages>>

\* cancel: the cancel request leaves, unless there is no connection; it is
\* answered, refused or given up.
SendCancel(t) ==
    /\ thread[t].pc = "post"
    /\ \/ /\ cancelling[t].step = "none"
          /\ cancelling' = [cancelling EXCEPT ![t] = [step |-> "sent", run |-> thread[t].run]]
          /\ Goto(t, "posted")
          /\ UNCHANGED <<doubtful, healthy>>
       \/ CancelRaises(t) /\ UNCHANGED cancelling
    /\ UNCHANGED <<activeRun, record, scope, answer, confirmed, serviceVars, starting>>

Posted(t) ==
    /\ thread[t].pc = "posted"
    /\ \/ /\ cancelling[t].step = "answered"
          /\ Goto(t, "status")
          /\ UNCHANGED <<doubtful, healthy>>
       \/ CancelRaises(t)
    /\ cancelling' = [cancelling EXCEPT ![t] =
           IF @.step \in {"answered", "refused"} THEN NoCancel ELSE @]
    /\ UNCHANGED <<activeRun, record, scope, answer, confirmed, serviceVars, starting>>

\* cancel: poll for a terminal status, then ask whether the service is ready.
PollCancelled(t) ==
    /\ thread[t].pc = "status"
    /\ \/ /\ status[thread[t].run].status \in Terminal
          /\ Goto(t, "ready")
          /\ UNCHANGED <<doubtful, healthy>>
       \/ CancelRaises(t)
    /\ UNCHANGED <<activeRun, record, scope, answer, confirmed, serviceVars, messages>>

Ready(t) ==
    /\ thread[t].pc = "ready"
    /\ (~controller.quarantined /\ CancelReturns(t)) \/ CancelRaises(t)
    /\ UNCHANGED <<activeRun, record, scope, answer, confirmed, serviceVars, messages>>

-----------------------------------------------------------------------------
(* ControllerService.                                                      *)

Recorded == {r \in Runs : status[r].status # "none"}

\* start: admit the run and give it its thread, which may fail; or conflict, or
\* be too late.
Start(r) ==
    /\ r \in starting
    /\ starting' = starting \ {r}
    /\ \/ /\ status[r].status = "none"
          /\ service.active = None
          /\ ~controller.quarantined
          /\ Cardinality(Recorded) < MaxRecords
          /\ \/ /\ status' = [status EXCEPT ![r].status = "running"]
                /\ service' = [active |-> r, pc |-> "admit", result |-> "none"]
             \/ /\ status' = [status EXCEPT ![r].status = "failed"]
                /\ UNCHANGED service
       \/ UNCHANGED <<status, service>>
    /\ UNCHANGED <<adapterVars, cancelling, controller, alive>>

\* The service's answer to a cancel request, if anyone is still waiting for it.
Answered(t, step) ==
    IF step = "stop" \/ thread[t].pc = "posted"
      THEN cancelling' = [cancelling EXCEPT ![t].step = step]
      ELSE cancelling' = [cancelling EXCEPT ![t] = NoCancel]

\* cancel: mark the active run, under the lock; a run that is over needs
\* nothing, an unknown one is a 404.
CancelArrives(t) ==
    LET r == cancelling[t].run IN
    /\ cancelling[t].step = "sent"
    /\ \/ /\ status[r].status = "none"
          /\ Answered(t, "refused")
          /\ UNCHANGED status
       \/ /\ status[r].status # "none" /\ service.active # r
          /\ Answered(t, "answered")
          /\ UNCHANGED status
       \/ /\ service.active = r
          /\ Answered(t, "stop")
          /\ status' = [status EXCEPT ![r].cancelled = TRUE, ![r].status = "cancelling"]
    /\ UNCHANGED <<adapterVars, starting, service, controller, alive>>

\* A mistake: what could not be retired for certain is forgotten.
RetireForgetting(r, safe) ==
    /\ controller' = [controller EXCEPT !.active = None]
    /\ \/ safe /\ alive' = alive \ {r}
       \/ ~safe /\ alive' \in {alive, alive \ {r}}

\* _retire and its callers' bookkeeping: the child is gone, or this is not
\* certain and the controller is quarantined.
Retire(r, safe) ==
    /\ controller' = [controller EXCEPT !.active = None, !.quarantined = @ \/ ~safe]
    /\ \/ safe /\ alive' = alive \ {r}
       \/ ~safe /\ alive' \in {alive, alive \ {r}}

\* ProcessController.stop: what happens to the run it is asked to stop.
Stop(r) ==
    \/ controller.active = r /\ \E safe \in BOOLEAN : Retire(r, safe)
    \/ controller.active # r /\ UNCHANGED <<controller, alive>>

\* cancel, outside the lock: stop the child, if it was started already.
CancelStops(t) ==
    /\ cancelling[t].step = "stop"
    /\ Answered(t, "answered")
    /\ Stop(cancelling[t].run)
    /\ UNCHANGED <<adapterVars, starting, service, status>>

Step(pc, result) == service' = [service EXCEPT !.pc = pc, !.result = result]

\* ProcessController.admit, by the run's own thread: the child is started and
\* answers its health probe; or it does not and is retired.
Admit ==
    LET r == service.active
        free == /\ ~controller.quarantined
                /\ controller.active = None
                /\ Cardinality(controller.history) < MaxRecords
    IN  /\ service.pc = "admit"
        /\ \/ /\ free
              /\ controller' = [controller EXCEPT !.active = r, !.history = @ \cup {r}]
              /\ alive' = alive \cup {r}
              /\ Step("check", "none")
           \/ /\ Step("stop", "none")
              /\ UNCHANGED <<controller, alive>>
           \/ /\ free
              /\ controller' = [controller EXCEPT !.quarantined = TRUE]
              /\ alive' \in {alive, alive \cup {r}}
              /\ Step("stop", "none")
        /\ UNCHANGED <<adapterVars, messages, status>>

\* _execute looks at the cancellation between admission and execution.
CheckCancelled ==
    /\ service.pc = "check"
    /\ Step(IF status[service.active].cancelled THEN "stop" ELSE "execute", "none")
    /\ UNCHANGED <<adapterVars, messages, status, controller, alive>>

\* ProcessController.execute: the agent's result, or the lack of one at the
\* deadline, is returned once the child is retired; if a cancellation stopped
\* the run meanwhile, or the child is not certainly gone, there is none.
Execute ==
    LET r == service.active IN
    /\ service.pc = "execute"
    /\ \/ /\ controller.active = r
          /\ Retire(r, TRUE)
          /\ \E result \in Terminal \cup {"none"} : Step("stop", result)
       \/ /\ controller.active = r
          /\ Retire(r, FALSE)
          /\ Step("stop", "none")
       \/ /\ controller.active # r
          /\ UNCHANGED <<controller, alive>>
          /\ Step("stop", "none")
    /\ UNCHANGED <<adapterVars, messages, status>>

\* _execute's finally clause: stop whatever is left of the run.  A run the
\* controller has no record of makes it doubt any other child there is.
StopOwned ==
    LET r == service.active IN
    /\ service.pc = "stop"
    /\ IF r \in controller.history THEN Stop(r)
       ELSE /\ controller' = [controller EXCEPT
                   !.quarantined = @ \/ controller.active # None]
            /\ UNCHANGED alive
    /\ Step("finish", service.result)
    /\ UNCHANGED <<adapterVars, messages, status>>

\* A mistake: a result is published although the controller is quarantined.
FinishAnyway ==
    LET r == service.active IN
    /\ service.pc = "finish"
    /\ status' = [status EXCEPT ![r] =
           IF @.cancelled THEN [@ EXCEPT !.status = "cancelled"]
           ELSE IF service.result # "none"
             THEN [@ EXCEPT !.status = service.result, !.result = TRUE]
             ELSE [@ EXCEPT !.status = "succeeded", !.result = TRUE]]
    /\ service' = [active |-> None, pc |-> "idle", result |-> "none"]
    /\ UNCHANGED <<adapterVars, messages, controller, alive>>

\* _execute's last lines: publish the outcome and free the slot.
Finish ==
    LET r == service.active
        usable == service.result # "none" /\ ~controller.quarantined
    IN  /\ service.pc = "finish"
        /\ status' = [status EXCEPT ![r] =
               IF @.cancelled THEN [@ EXCEPT !.status = "cancelled"]
               ELSE IF usable THEN [@ EXCEPT !.status = service.result, !.result = TRUE]
               ELSE [@ EXCEPT !.status = "failed"]]
        /\ service' = [active |-> None, pc |-> "idle", result |-> "none"]
        /\ UNCHANGED <<adapterVars, messages, controller, alive>>

\* A child ends by itself.
ChildExits(r) ==
    /\ r \in alive
    /\ alive' = alive \ {r}
    /\ UNCHANGED <<adapterVars, messages, service, status, controller>>

-----------------------------------------------------------------------------
ClientCancel(t) == SendCancel(t) \/ Posted(t) \/ PollCancelled(t) \/ Ready(t)

LaunchStep ==
    \/ Register \/ SendStart \/ Admission \/ Poll \/ Revoke
    \/ ClientCancel(Launcher)

ServiceStep == Admit \/ CheckCancelled \/ Execute \/ StopOwned \/ Finish

Next ==
    \/ \E r \in Runs : Launch(r) \/ Start(r) \/ LateRegistration(r) \/ ChildExits(r)
    \/ LaunchStep
    \/ \E t \in Cancellers : (\E r \in Runs : Cancel(t, r)) \/ ClientCancel(t) \/ Wait(t)
    \/ \E t \in Threads : CancelArrives(t) \/ CancelStops(t)
    \/ ServiceStep

Spec == Init /\ [][Next]_vars

\* The launch's thread and the run's thread go on: each of their calls has a
\* deadline of its own.
FairSpec == Spec /\ WF_vars(LaunchStep) /\ WF_vars(ServiceStep)

-----------------------------------------------------------------------------
(* Properties.                                                             *)

ThreadPC == {"idle", "register", "start", "admission", "poll", "revoke", "wait",
             "post", "posted", "status", "ready"}
ThreadState == [pc: ThreadPC, run: Runs \cup {None}, result: Terminal]
CancelState == [step: {"none", "sent", "stop", "answered", "refused"}, run: Runs \cup {None}]
RecordState == [launched: BOOLEAN, cancelled: BOOLEAN, done: BOOLEAN, clean: BOOLEAN]
ServiceState == [active: Runs \cup {None}, result: Terminal \cup {"none"},
                 pc: {"idle", "admit", "check", "execute", "stop", "finish"}]
StatusState == [status: Terminal \cup {"none", "running", "cancelling"},
                cancelled: BOOLEAN, result: BOOLEAN]
ControllerState == [quarantined: BOOLEAN, active: Runs \cup {None}, history: SUBSET Runs]

\* Every record, flag, thread and message holds a value of its kind.
AgentTypeOK ==
    /\ healthy \in BOOLEAN /\ doubtful \in BOOLEAN
    /\ activeRun \in Runs \cup {None}
    /\ record \in [Runs -> RecordState]
    /\ scope \in [Runs -> {"none", "queued", "registered", "revoked"}]
    /\ thread \in [Threads -> ThreadState]
    /\ starting \subseteq Runs
    /\ cancelling \in [Threads -> CancelState]
    /\ service \in ServiceState
    /\ status \in [Runs -> StatusState]
    /\ controller \in ControllerState
    /\ alive \subseteq Runs
    /\ answer \in [Runs -> Terminal \cup {"none"}]
    /\ confirmed \subseteq Runs

\* A child that may be alive is the one the controller owns, or the controller
\* is quarantined: no retirement, cancellation or failed start loses a child.
NoLostChild == \A r \in alive : controller.active = r \/ controller.quarantined

\* Two agent children never exist together, whatever could not be stopped.
OneChild == \A r, q \in alive : r = q

\* A transport scope that works, or may yet be registered, belongs to the launch
\* in progress, unless the adapter has stopped admitting launches.
ScopeConfined ==
    \A r \in Runs : scope[r] \in {"queued", "registered"} =>
        (record[r].launched /\ ~record[r].done) \/ ~healthy

\* A run whose success was reported to the worker is over: it has no child, no
\* scope and no start request that could still arrive.
SucceededIsOver ==
    \A r \in Runs : answer[r] = "succeeded" =>
        r \notin alive /\ r \notin starting /\ service.active # r /\ scope[r] = "revoked"

\* A confirmed cancellation can be relied on: the run cannot start any more, its
\* scope is revoked and its child is gone.  Should the child not be gone for
\* certain, then the controller at least never starts another.
ConfirmedIsContained ==
    \A r \in confirmed :
        /\ r \notin starting
        /\ service.active # r
        /\ scope[r] = "revoked"
        /\ r \in alive => controller.quarantined

\* The run's agent can act no more: its launch was answered, no start of it is on
\* its way or in progress, and a child that is left has no scope to act in.
Ended(r) ==
    /\ record[r].done
    /\ r \notin starting
    /\ service.active # r
    /\ r \in alive => scope[r] = "revoked"

Life(r) ==
    IF ~record[r].launched THEN "sent" ELSE IF Ended(r) THEN "ended" ELSE "alive"

\* An accepted launch is one life: a run whose agent can act no more is never
\* brought back by a late start, a late registration or a late cancellation.
Agent == INSTANCE RemoteAgent WITH remote <- [r \in Runs |-> Life(r)]
LivesOnce == Agent!Spec

\* Every launch is answered and every run gives its slot back, whatever calls
\* between adapter and controller are lost.  A launch is never forgotten, so the
\* slot comes back also from a run that takes it after its launch was answered.
EveryLaunchEnds ==
    \A r \in Runs : record[r].launched ~> record[r].done /\ service.active # r

=============================================================================
