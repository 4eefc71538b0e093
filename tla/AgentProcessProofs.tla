------------------------- MODULE AgentProcessProofs -------------------------
(***************************************************************************)
(* Machine-checked proofs about AgentProcess, for any number of runs and   *)
(* of concurrent cancellations.                                            *)
(***************************************************************************)
EXTENDS AgentProcess, TLAPS

\* What the program counters say of the run they work on.
ThreadsOK ==
    /\ thread \in [Threads -> ThreadState]
    /\ \A t \in Threads : thread[t].pc # "idle" => thread[t].run \in Runs
CancelsOK ==
    /\ cancelling \in [Threads -> CancelState]
    /\ \A t \in Threads : cancelling[t].step # "none" => cancelling[t].run \in Runs
ServiceOK ==
    /\ service \in ServiceState
    /\ service.pc # "idle" => service.active \in Runs

\* The inductive invariant for the child.
ChildInv == AgentTypeOK /\ ThreadsOK /\ CancelsOK /\ ServiceOK /\ NoLostChild /\ OneChild

-----------------------------------------------------------------------------
\* Nothing has been launched.
LEMMA ChildInvInit == Init => ChildInv
<1> SUFFICES ASSUME Init PROVE ChildInv
  OBVIOUS
<1>1. ThreadsOK /\ CancelsOK
  BY DEF Init, IdleThread, ThreadState, ThreadPC, Terminal, NoCancel, CancelState, ThreadsOK,
     CancelsOK
<1>2. /\ record \in [Runs -> RecordState]
      /\ status \in [Runs -> StatusState]
  BY DEF Init, NewRecord, RecordState, NoStatus, StatusState
<1>3. ServiceOK /\ controller \in ControllerState
  BY DEF Init, ServiceState, ServiceOK, ControllerState
<1>4. NoLostChild /\ OneChild
  BY DEF Init, NoLostChild, OneChild
<1> QED
  BY <1>1, <1>2, <1>3, <1>4 DEF Init, ChildInv, AgentTypeOK, ThreadsOK, CancelsOK, ServiceOK

\* The adapter's own steps touch neither service nor controller.
LEMMA AdapterKeepsChild ==
    ASSUME ChildInv, UNCHANGED serviceVars, AgentTypeOK', ThreadsOK', CancelsOK'
    PROVE  ChildInv'
  BY DEF ChildInv, ServiceOK, NoLostChild, OneChild, serviceVars

\* What the moves of an adapter thread do to its state.
LEMMA GotoKeeps ==
    ASSUME ChildInv, NEW t \in Threads, thread[t].pc # "idle", NEW pc \in ThreadPC, Goto(t, pc)
    PROVE  ThreadsOK'
  BY DEF Goto, ChildInv, ThreadsOK, ThreadState

LEMMA ReturnKeeps ==
    ASSUME ChildInv, thread[Launcher].pc # "idle", NEW result \in Terminal, Return(result)
    PROVE  ThreadsOK'
  <1>1. Launcher \in Threads /\ "revoke" \in ThreadPC
    BY DEF Threads, ThreadPC
  <1> QED
    BY <1>1 DEF Return, ChildInv, ThreadsOK, ThreadState

LEMMA BecomeKeeps ==
    ASSUME ChildInv, NEW t \in Threads, NEW s \in ThreadState,
           s.pc # "idle" => s.run \in Runs, thread' = [thread EXCEPT ![t] = s]
    PROVE  ThreadsOK'
  BY DEF ChildInv, ThreadsOK

LEMMA IdleTyped ==
    /\ IdleThread \in ThreadState /\ IdleThread.pc = "idle"
    /\ NoCancel \in CancelState /\ NoCancel.step = "none"
  BY DEF IdleThread, ThreadState, ThreadPC, Terminal, NoCancel, CancelState

LEMMA LaunchKeeps == ASSUME ChildInv, NEW r \in Runs, Launch(r) PROVE ChildInv'
  <1> DEFINE s == [pc |-> "register", run |-> r, result |-> "failed"]
  <1>1. ThreadsOK'
    <2>1. s \in ThreadState /\ s.run \in Runs /\ Launcher \in Threads
      BY DEF ThreadState, ThreadPC, Terminal, Threads
    <2>2. thread' = [thread EXCEPT ![Launcher] = s]
      BY DEF Launch
    <2> QED
      BY <2>1, <2>2, BecomeKeeps
  <1>2. record' \in [Runs -> RecordState]
    BY DEF Launch, ChildInv, AgentTypeOK, RecordState
  <1>3. UNCHANGED <<serviceVars, cancelling>> /\ CancelsOK'
    BY DEF Launch, messages, ChildInv, CancelsOK
  <1>4. AgentTypeOK'
    BY <1>1, <1>2 DEF Launch, ChildInv, AgentTypeOK, ThreadsOK, serviceVars, messages
  <1> QED
    BY <1>1, <1>3, <1>4, AdapterKeepsChild

LEMMA LaunchStepKeeps ==
    ASSUME ChildInv, Register \/ SendStart \/ Admission \/ Poll \/ Revoke
    PROVE  ChildInv'
  <1> DEFINE r == thread[Launcher].run
  <1>0. Launcher \in Threads /\ thread[Launcher].pc # "idle" /\ r \in Runs
    BY DEF Threads, Register, SendStart, Admission, Poll, Revoke, ChildInv, ThreadsOK
  <1>1. UNCHANGED <<serviceVars, cancelling>> /\ CancelsOK'
    BY DEF Register, SendStart, Admission, Poll, Revoke, messages, ChildInv, CancelsOK
  <1>2. ThreadsOK' /\ AgentTypeOK'
    <2>1. CASE Register
      <3>1. ThreadsOK'
        <4>1. {"start"} \subseteq ThreadPC /\ {"cancelled", "failed"} \subseteq Terminal
          BY DEF ThreadPC, Terminal
        <4>2. Goto(Launcher, "start") \/ Return("cancelled") \/ Return("failed")
          BY <2>1 DEF Register
        <4> QED
          BY <1>0, <4>1, <4>2, GotoKeeps, ReturnKeeps
      <3>2. scope' \in [Runs -> {"none", "queued", "registered", "revoked"}]
        BY <1>0, <2>1 DEF Register, ChildInv, AgentTypeOK
      <3> QED
        BY <2>1, <3>1, <3>2 DEF Register, ChildInv, AgentTypeOK, ThreadsOK, serviceVars,
           messages
    <2>2. CASE SendStart
      <3>1. ThreadsOK'
        BY <1>0, <2>2, GotoKeeps DEF SendStart, ThreadPC
      <3>2. starting' \subseteq Runs
        BY <1>0, <2>2 DEF SendStart, ChildInv, AgentTypeOK
      <3> QED
        BY <2>2, <3>1, <3>2 DEF SendStart, ChildInv, AgentTypeOK, ThreadsOK, serviceVars
    <2>3. CASE Admission
      <3>1. ThreadsOK'
        <4>1. Goto(Launcher, "poll") \/ Goto(Launcher, "post")
          BY <2>3 DEF Admission
        <4> QED
          BY <1>0, <4>1, GotoKeeps DEF ThreadPC
      <3> QED
        BY <2>3, <3>1 DEF Admission, ChildInv, AgentTypeOK, ThreadsOK, serviceVars, messages
    <2>4. CASE Poll
      <3>1. ThreadsOK'
        <4>1. \/ Goto(Launcher, "post")
              \/ \E result \in Terminal : Return(result)
          BY <2>4 DEF Poll, Terminal
        <4> QED
          BY <1>0, <4>1, GotoKeeps, ReturnKeeps DEF ThreadPC
      <3> QED
        BY <2>4, <3>1 DEF Poll, ChildInv, AgentTypeOK, ThreadsOK, serviceVars, messages
    <2>5. CASE Revoke
      <3>1. ThreadsOK'
        BY <1>0, <2>5, IdleTyped, BecomeKeeps DEF Revoke
      <3>2. record' \in [Runs -> RecordState]
        <4>1. CASE record' = [record EXCEPT ![r].done = TRUE]
          BY <1>0, <4>1 DEF ChildInv, AgentTypeOK, RecordState
        <4>2. CASE record' = [record EXCEPT ![r].done = TRUE, ![r].clean = TRUE]
          BY <1>0, <4>2 DEF ChildInv, AgentTypeOK, RecordState
        <4>3. CASE record' = [record EXCEPT ![r].done = TRUE, ![r].clean = FALSE]
          BY <1>0, <4>3 DEF ChildInv, AgentTypeOK, RecordState
        <4>4. (healthy /\ ~doubtful) = TRUE \/ (healthy /\ ~doubtful) = FALSE
          OBVIOUS
        <4>5. \/ record' = [record EXCEPT ![r].done = TRUE]
              \/ record' = [record EXCEPT ![r].done = TRUE, ![r].clean = healthy /\ ~doubtful]
          BY <2>5 DEF Revoke
        <4> QED
          BY <4>1, <4>2, <4>3, <4>4, <4>5, Zenon
      <3>3. /\ scope' \in [Runs -> {"none", "queued", "registered", "revoked"}]
            /\ healthy' \in BOOLEAN
        BY <1>0, <2>5 DEF Revoke, ChildInv, AgentTypeOK
      <3>4. answer' \in [Runs -> Terminal \cup {"none"}]
        <4>1. thread[Launcher].result \in Terminal /\ "failed" \in Terminal
          BY <1>0 DEF ChildInv, ThreadsOK, ThreadState, Terminal
        <4> QED
          BY <1>0, <2>5, <4>1 DEF Revoke, ChildInv, AgentTypeOK
      <3> QED
        BY <2>5, <3>1, <3>2, <3>3, <3>4
           DEF Revoke, ChildInv, AgentTypeOK, ThreadsOK, serviceVars, messages
    <2> QED
      BY <2>1, <2>2, <2>3, <2>4, <2>5
  <1> QED
    BY <1>1, <1>2, AdapterKeepsChild

LEMMA ScopeKeeps == ASSUME ChildInv, NEW r \in Runs, LateRegistration(r) PROVE ChildInv'
  <1>1. scope' \in [Runs -> {"none", "queued", "registered", "revoked"}]
    BY DEF LateRegistration, ChildInv, AgentTypeOK
  <1>2. AgentTypeOK' /\ ThreadsOK' /\ CancelsOK' /\ UNCHANGED serviceVars
    BY <1>1 DEF LateRegistration, ChildInv, AgentTypeOK, ThreadsOK, CancelsOK, serviceVars,
       messages
  <1> QED
    BY <1>2, AdapterKeepsChild

LEMMA CancelKeeps ==
    ASSUME ChildInv, NEW t \in Cancellers, NEW r \in Runs, Cancel(t, r) \/ Wait(t)
    PROVE  ChildInv'
  <1>0. t \in Threads
    BY DEF Threads
  <1>1. UNCHANGED <<serviceVars, cancelling>> /\ CancelsOK'
    BY DEF Cancel, Wait, messages, ChildInv, CancelsOK
  <1>2. ThreadsOK' /\ AgentTypeOK'
    <2>1. CASE Cancel(t, r)
      <3> DEFINE s == [IdleThread EXCEPT !.pc = IF record[r].done THEN "wait" ELSE "post", !.run = r]
      <3>1. s \in ThreadState /\ s.run \in Runs
        BY DEF IdleThread, ThreadState, ThreadPC, Terminal
      <3>2. ThreadsOK'
        BY <1>0, <2>1, <3>1, BecomeKeeps DEF Cancel
      <3>3. record' \in [Runs -> RecordState]
        BY <2>1 DEF Cancel, ChildInv, AgentTypeOK, RecordState
      <3> QED
        BY <2>1, <3>2, <3>3 DEF Cancel, ChildInv, AgentTypeOK, ThreadsOK, serviceVars, messages
    <2>2. CASE Wait(t)
      <3>1. ThreadsOK'
        BY <1>0, <2>2, IdleTyped, BecomeKeeps DEF Wait
      <3>2. confirmed' \subseteq Runs /\ healthy' \in BOOLEAN
        BY <1>0, <2>2 DEF Wait, ChildInv, AgentTypeOK, ThreadsOK
      <3> QED
        BY <2>2, <3>1, <3>2 DEF Wait, ChildInv, AgentTypeOK, ThreadsOK, serviceVars, messages
    <2> QED
      BY <2>1, <2>2
  <1> QED
    BY <1>1, <1>2, AdapterKeepsChild

LEMMA ClientCancelKeeps == ASSUME ChildInv, NEW t \in Threads, ClientCancel(t) PROVE ChildInv'
  <1>0. thread[t].pc # "idle" /\ thread[t].run \in Runs
    BY DEF ClientCancel, SendCancel, Posted, PollCancelled, Ready, ChildInv, ThreadsOK
  <1>1. UNCHANGED serviceVars
    BY DEF ClientCancel, SendCancel, Posted, PollCancelled, Ready
  <1>2. ThreadsOK'
    <2>1. \/ \E pc \in {"posted", "status", "ready", "wait"} : Goto(t, pc)
          \/ t = Launcher /\ Return("failed")
          \/ thread' = [thread EXCEPT ![t] = IdleThread]
      BY DEF ClientCancel, SendCancel, Posted, PollCancelled, Ready, CancelReturns, CancelRaises
    <2>2. {"posted", "status", "ready", "wait"} \subseteq ThreadPC /\ "failed" \in Terminal
      BY DEF ThreadPC, Terminal
    <2> QED
      BY <1>0, <2>1, <2>2, GotoKeeps, ReturnKeeps, BecomeKeeps, IdleTyped
  <1>3. CancelsOK'
    <2>1. CASE UNCHANGED cancelling
      BY <2>1 DEF ChildInv, CancelsOK
    <2>2. CASE cancelling' = [cancelling EXCEPT ![t] = [step |-> "sent", run |-> thread[t].run]]
      BY <1>0, <2>2 DEF ChildInv, CancelsOK, CancelState
    <2>3. CASE cancelling' = [cancelling EXCEPT ![t] = NoCancel]
      BY <2>3, IdleTyped DEF ChildInv, CancelsOK
    <2>4. Posted(t) => \/ cancelling' = [cancelling EXCEPT ![t] = NoCancel]
                       \/ UNCHANGED cancelling
      BY DEF Posted, ChildInv, CancelsOK
    <2> QED
      BY <2>1, <2>2, <2>3, <2>4 DEF ClientCancel, SendCancel, PollCancelled, Ready, messages
  <1>4. healthy' \in BOOLEAN /\ doubtful' \in BOOLEAN
    BY DEF ClientCancel, SendCancel, Posted, PollCancelled, Ready, CancelReturns, CancelRaises,
           ChildInv, AgentTypeOK
  <1>5. UNCHANGED <<activeRun, record, scope, answer, confirmed, starting>>
    BY DEF ClientCancel, SendCancel, Posted, PollCancelled, Ready, messages
  <1>6. AgentTypeOK'
    BY <1>1, <1>2, <1>3, <1>4, <1>5 DEF ChildInv, AgentTypeOK, ThreadsOK, CancelsOK, serviceVars
  <1> QED
    BY <1>1, <1>2, <1>3, <1>6, AdapterKeepsChild

-----------------------------------------------------------------------------
(* The service and the controller.                                         *)

\* A step of the service leaves the adapter alone.
LEMMA ServiceKeepsAdapter ==
    ASSUME ChildInv, UNCHANGED <<adapterVars, starting>>,
           CancelsOK', ServiceOK', status' \in [Runs -> StatusState],
           controller' \in ControllerState, alive' \subseteq Runs,
           NoLostChild', OneChild'
    PROVE  ChildInv'
  BY DEF ChildInv, AgentTypeOK, ThreadsOK, CancelsOK, ServiceOK, adapterVars

\* A retirement loses no child: what is not gone for certain is quarantined.
LEMMA RetireKeeps ==
    ASSUME ChildInv, NEW r \in Runs, controller.active = r,
           NEW safe \in BOOLEAN, Retire(r, safe)
    PROVE  /\ controller' \in ControllerState
           /\ alive' \subseteq Runs
           /\ NoLostChild' /\ OneChild'
  <1>1. /\ controller' \in ControllerState
        /\ controller'.quarantined = (controller.quarantined \/ ~safe)
    BY DEF Retire, ChildInv, AgentTypeOK, ControllerState
  <1>2. alive' \subseteq alive /\ (safe => r \notin alive')
    BY DEF Retire
  <1> QED
    BY <1>1, <1>2 DEF ChildInv, AgentTypeOK, NoLostChild, OneChild

LEMMA StopKeeps ==
    ASSUME ChildInv, NEW r \in Runs, Stop(r)
    PROVE  /\ controller' \in ControllerState
           /\ alive' \subseteq Runs
           /\ NoLostChild' /\ OneChild'
  <1>1. CASE UNCHANGED <<controller, alive>>
    BY <1>1 DEF ChildInv, AgentTypeOK, NoLostChild, OneChild
  <1>2. CASE ~UNCHANGED <<controller, alive>>
    BY <1>2, RetireKeeps DEF Stop
  <1> QED
    BY <1>1, <1>2

LEMMA ChildUnchanged ==
    ASSUME ChildInv, UNCHANGED <<controller, alive>>
    PROVE  /\ controller' \in ControllerState
           /\ alive' \subseteq Runs
           /\ NoLostChild' /\ OneChild'
  BY DEF ChildInv, AgentTypeOK, NoLostChild, OneChild

LEMMA StepKeeps ==
    ASSUME ChildInv, service.pc # "idle",
           NEW pc \in {"check", "execute", "stop", "finish"}, NEW result \in Terminal \cup {"none"},
           Step(pc, result)
    PROVE  ServiceOK'
  BY DEF Step, ChildInv, ServiceOK, ServiceState

LEMMA MessagesKept == ASSUME ChildInv, UNCHANGED cancelling PROVE CancelsOK'
  BY DEF ChildInv, CancelsOK

LEMMA StartKeeps == ASSUME ChildInv, NEW r \in Runs, Start(r) PROVE ChildInv'
  <1>1. ServiceOK' /\ status' \in [Runs -> StatusState]
    <2>1. CASE UNCHANGED <<status, service>>
      BY <2>1 DEF ChildInv, AgentTypeOK, ServiceOK
    <2>2. CASE /\ status' = [status EXCEPT ![r].status = "running"]
               /\ service' = [active |-> r, pc |-> "admit", result |-> "none"]
      <3>1. ServiceOK'
        BY <2>2 DEF ServiceOK, ServiceState
      <3>2. status' \in [Runs -> StatusState]
        BY <2>2 DEF ChildInv, AgentTypeOK, StatusState
      <3> QED
        BY <3>1, <3>2
    <2>3. CASE status' = [status EXCEPT ![r].status = "failed"] /\ UNCHANGED service
      BY <2>3 DEF ChildInv, AgentTypeOK, ServiceOK, StatusState, Terminal
    <2> QED
      BY <2>1, <2>2, <2>3 DEF Start
  <1>2. starting' \subseteq Runs
    BY DEF Start, ChildInv, AgentTypeOK
  <1>3. CancelsOK'
    BY MessagesKept DEF Start
  <1>4. UNCHANGED <<adapterVars, controller, alive>>
    BY DEF Start
  <1>5. /\ controller' \in ControllerState
        /\ alive' \subseteq Runs
        /\ NoLostChild' /\ OneChild'
    BY <1>4, ChildUnchanged
  <1> QED
    BY <1>1, <1>2, <1>3, <1>4, <1>5
       DEF ChildInv, AgentTypeOK, ThreadsOK, CancelsOK, ServiceOK, adapterVars

LEMMA AnsweredKeeps ==
    ASSUME ChildInv, NEW t \in Threads, cancelling[t].step # "none",
           NEW step \in {"stop", "answered", "refused"}, Answered(t, step)
    PROVE  CancelsOK'
  <1>1. CASE cancelling' = [cancelling EXCEPT ![t].step = step]
    BY <1>1 DEF ChildInv, CancelsOK, CancelState
  <1>2. CASE cancelling' = [cancelling EXCEPT ![t] = NoCancel]
    BY <1>2, IdleTyped DEF ChildInv, CancelsOK
  <1> QED
    BY <1>1, <1>2 DEF Answered

LEMMA CancelArrivesKeeps == ASSUME ChildInv, NEW t \in Threads, CancelArrives(t) PROVE ChildInv'
  <1> DEFINE r == cancelling[t].run
  <1>1. r \in Runs
    BY DEF CancelArrives, ChildInv, CancelsOK
  <1>2. CancelsOK'
    BY AnsweredKeeps DEF CancelArrives
  <1>3. status' \in [Runs -> StatusState]
    <2>1. CASE UNCHANGED status
      BY <2>1 DEF ChildInv, AgentTypeOK
    <2>2. CASE status' = [status EXCEPT ![r].cancelled = TRUE, ![r].status = "cancelling"]
      BY <1>1, <2>2 DEF ChildInv, AgentTypeOK, StatusState
    <2> QED
      BY <2>1, <2>2 DEF CancelArrives
  <1>4. UNCHANGED <<adapterVars, starting, service, controller, alive>>
    BY DEF CancelArrives
  <1>5. ServiceOK'
    BY <1>4 DEF ChildInv, ServiceOK
  <1> QED
    BY <1>2, <1>3, <1>4, <1>5, ChildUnchanged, ServiceKeepsAdapter

LEMMA CancelStopsKeeps == ASSUME ChildInv, NEW t \in Threads, CancelStops(t) PROVE ChildInv'
  <1>1. cancelling[t].run \in Runs /\ Stop(cancelling[t].run)
    BY DEF CancelStops, ChildInv, CancelsOK
  <1>2. CancelsOK'
    BY AnsweredKeeps DEF CancelStops
  <1>3. UNCHANGED <<adapterVars, starting>> /\ ServiceOK' /\ status' \in [Runs -> StatusState]
    BY DEF CancelStops, ChildInv, ServiceOK, AgentTypeOK
  <1> QED
    BY <1>1, <1>2, <1>3, StopKeeps, ServiceKeepsAdapter

\* With nothing quarantined and nothing owned there is no child to meet.
LEMMA AdmitKeeps == ASSUME ChildInv, Admit PROVE ChildInv'
  <1> DEFINE r == service.active
  <1>1. ~controller.quarantined /\ controller.active = None => alive = {}
    BY NoRunAssumption DEF ChildInv, AgentTypeOK, NoLostChild
  <1>2. r \in Runs
    BY DEF Admit, ChildInv, ServiceOK
  <1>3. ServiceOK'
    <2>1. Step("check", "none") \/ Step("stop", "none")
      BY DEF Admit
    <2> QED
      BY <2>1, StepKeeps DEF Admit
  <1>4. /\ controller' \in ControllerState
        /\ alive' \subseteq Runs
        /\ NoLostChild' /\ OneChild'
    <2>1. CASE UNCHANGED <<controller, alive>>
      BY <2>1, ChildUnchanged
    <2>2. CASE /\ alive = {}
               /\ controller' = [controller EXCEPT !.active = r, !.history = @ \cup {r}]
               /\ alive' = alive \cup {r}
      <3>1. controller' \in ControllerState /\ controller'.active = r
        BY <1>2, <2>2 DEF ChildInv, AgentTypeOK, ControllerState
      <3> QED
        BY <1>2, <2>2, <3>1 DEF NoLostChild, OneChild
    <2>3. CASE /\ alive = {}
               /\ controller' = [controller EXCEPT !.quarantined = TRUE]
               /\ alive' \in {alive, alive \cup {r}}
      <3>1. controller' \in ControllerState /\ controller'.quarantined
        BY <2>3 DEF ChildInv, AgentTypeOK, ControllerState
      <3> QED
        BY <1>2, <2>3, <3>1 DEF NoLostChild, OneChild
    <2> QED
      BY <1>1, <2>1, <2>2, <2>3 DEF Admit
  <1>5. /\ UNCHANGED <<adapterVars, starting>>
        /\ CancelsOK' /\ status' \in [Runs -> StatusState]
    BY MessagesKept DEF Admit, messages, ChildInv, AgentTypeOK
  <1> QED
    BY <1>3, <1>4, <1>5, ServiceKeepsAdapter

LEMMA ServiceStepKeeps ==
    ASSUME ChildInv, CheckCancelled \/ Execute \/ StopOwned \/ Finish
    PROVE  ChildInv'
  <1> DEFINE r == service.active
  <1>1. r \in Runs /\ service.pc # "idle" /\ service.result \in Terminal \cup {"none"}
    BY DEF CheckCancelled, Execute, StopOwned, Finish, ChildInv, ServiceOK, ServiceState
  <1>2. UNCHANGED <<adapterVars, starting>> /\ CancelsOK'
    BY MessagesKept DEF CheckCancelled, Execute, StopOwned, Finish, messages
  <1>3. ServiceOK'
    <2>1. CASE Finish
      BY <2>1 DEF Finish, ServiceOK, ServiceState
    <2>2. CASE ~Finish
      <3>1. \E pc \in {"check", "execute", "stop", "finish"}, result \in Terminal \cup {"none"} :
                Step(pc, result)
        <4>1. CASE CheckCancelled
          BY <4>1 DEF CheckCancelled
        <4>2. CASE Execute
          BY <4>2 DEF Execute
        <4>3. CASE StopOwned
          BY <1>1, <4>3 DEF StopOwned
        <4> QED
          BY <2>2, <4>1, <4>2, <4>3
      <3> QED
        BY <1>1, <3>1, StepKeeps
    <2> QED
      BY <2>1, <2>2
  <1>4. status' \in [Runs -> StatusState]
    <2>1. CASE UNCHANGED status
      BY <2>1 DEF ChildInv, AgentTypeOK
    <2>2. CASE Finish
      <3>1. \E s \in StatusState : status' = [status EXCEPT ![r] = s]
        <4>1. /\ status[r] \in StatusState
              /\ service.result # "none" => service.result \in Terminal
          BY <1>1 DEF ChildInv, AgentTypeOK
        <4>2. /\ [status[r] EXCEPT !.status = "cancelled"] \in StatusState
              /\ [status[r] EXCEPT !.status = "failed"] \in StatusState
              /\ service.result # "none" =>
                   [status[r] EXCEPT !.status = service.result, !.result = TRUE] \in StatusState
          BY <4>1 DEF StatusState, Terminal
        <4> QED
          BY <1>1, <2>2, <4>1, <4>2 DEF Finish, ChildInv, AgentTypeOK
      <3> QED
        BY <1>1, <3>1 DEF ChildInv, AgentTypeOK
    <2> QED
      BY <2>1, <2>2 DEF CheckCancelled, Execute, StopOwned
  <1>5. /\ controller' \in ControllerState
        /\ alive' \subseteq Runs
        /\ NoLostChild' /\ OneChild'
    <2>1. CASE UNCHANGED <<controller, alive>>
      BY <2>1, ChildUnchanged
    <2>2. CASE controller.active = r /\ \E safe \in BOOLEAN : Retire(r, safe)
      BY <1>1, <2>2, RetireKeeps
    <2>3. CASE Stop(r)
      BY <1>1, <2>3, StopKeeps
    <2>4. CASE /\ controller' = [controller EXCEPT !.quarantined = @ \/ controller.active # None]
               /\ UNCHANGED alive
      <3>1. /\ controller' \in ControllerState
            /\ controller'.active = controller.active
            /\ controller.quarantined => controller'.quarantined
        BY <2>4 DEF ChildInv, AgentTypeOK, ControllerState
      <3> QED
        BY <2>4, <3>1 DEF ChildInv, AgentTypeOK, NoLostChild, OneChild
    <2>5. CASE Execute
      BY <2>1, <2>2, <2>5 DEF Execute
    <2>6. CASE StopOwned
      BY <2>3, <2>4, <2>6 DEF StopOwned
    <2> QED
      BY <2>1, <2>5, <2>6 DEF CheckCancelled, Finish
  <1> QED
    BY <1>2, <1>3, <1>4, <1>5, ServiceKeepsAdapter

LEMMA ChildExitsKeeps == ASSUME ChildInv, NEW r \in Runs, ChildExits(r) PROVE ChildInv'
  <1>1. alive' \subseteq alive /\ UNCHANGED <<adapterVars, messages, service, status, controller>>
    BY DEF ChildExits
  <1>2. /\ controller' \in ControllerState /\ alive' \subseteq Runs
        /\ NoLostChild' /\ OneChild'
    BY <1>1 DEF ChildInv, AgentTypeOK, NoLostChild, OneChild
  <1>3. /\ UNCHANGED <<adapterVars, starting>>
        /\ CancelsOK' /\ ServiceOK' /\ status' \in [Runs -> StatusState]
    BY <1>1 DEF messages, ChildInv, AgentTypeOK, CancelsOK, ServiceOK
  <1> QED
    BY <1>2, <1>3, ServiceKeepsAdapter

\* Every step preserves the invariant.
LEMMA ChildInvNext == ChildInv /\ [Next]_vars => ChildInv'
  <1> SUFFICES ASSUME ChildInv, [Next]_vars PROVE ChildInv'
    OBVIOUS
  <1>1. CASE \E r \in Runs : Launch(r) \/ Start(r) \/ LateRegistration(r) \/ ChildExits(r)
    BY <1>1, LaunchKeeps, StartKeeps, ScopeKeeps, ChildExitsKeeps
  <1>2. CASE LaunchStep
    <2>1. Launcher \in Threads
      BY DEF Threads
    <2> QED
      BY <1>2, <2>1, LaunchStepKeeps, ClientCancelKeeps DEF LaunchStep
  <1>3. CASE \E t \in Cancellers : (\E r \in Runs : Cancel(t, r)) \/ ClientCancel(t) \/ Wait(t)
    <2>1. PICK t \in Cancellers : (\E r \in Runs : Cancel(t, r)) \/ ClientCancel(t) \/ Wait(t)
      BY <1>3
    <2>2. t \in Threads
      BY DEF Threads
    <2>3. CASE \E r \in Runs : Cancel(t, r)
      BY <2>3, CancelKeeps
    <2>4. CASE ClientCancel(t)
      BY <2>2, <2>4, ClientCancelKeeps
    <2>5. CASE Wait(t)
      <3>1. thread[t].run \in Runs
        BY <2>2, <2>5 DEF Wait, ChildInv, ThreadsOK
      <3> QED
        BY <2>5, <3>1, CancelKeeps
    <2> QED
      BY <2>1, <2>3, <2>4, <2>5
  <1>4. CASE \E t \in Threads : CancelArrives(t) \/ CancelStops(t)
    BY <1>4, CancelArrivesKeeps, CancelStopsKeeps
  <1>5. CASE ServiceStep
    BY <1>5, AdmitKeeps, ServiceStepKeeps DEF ServiceStep
  <1>6. CASE UNCHANGED vars
    BY <1>6 DEF vars, adapterVars, serviceVars, messages, ChildInv, AgentTypeOK, ThreadsOK,
                CancelsOK, ServiceOK, NoLostChild, OneChild
  <1> QED
    BY <1>1, <1>2, <1>3, <1>4, <1>5, <1>6 DEF Next

\* The inductive invariant holds in every reachable state: whatever requests
\* are lost or late, the controller knows of its child or is quarantined.
THEOREM ChildInvariant == Spec => []ChildInv
  BY ChildInvInit, ChildInvNext, PTL DEF Spec

\* Every record, flag, thread and message of adapter, service and controller
\* keeps its type.
THEOREM AgentTypeCorrect == Spec => []AgentTypeOK
  BY ChildInvariant, PTL DEF ChildInv

\* _retire and the failed start never lose a child: one that may be alive is
\* owned, or admissions are quarantined.
THEOREM NoChildIsLost == Spec => []NoLostChild
  BY ChildInvariant, PTL DEF ChildInv

\* ProcessController.admit never starts a child next to another one.
THEOREM AtMostOneChild == Spec => []OneChild
  BY ChildInvariant, PTL DEF ChildInv

-----------------------------------------------------------------------------
(* The end of a run: what may be relied on once the worker has its answer.  *)

\* The run is over at the service, or was never sent there and never will be.
Over(r) == r \notin starting /\ status[r].status \in Terminal \cup {"none"}

\* The slot of the service and the child of the controller are one run's.
SlotInv ==
    /\ \A r \in Runs : status[r].status # "none" => r \notin starting
    /\ service.active # None => status[service.active].status \in {"running", "cancelling"}
    /\ controller.active # None =>
           /\ controller.active = service.active
           /\ controller.active \in controller.history
           /\ service.pc \in {"check", "execute", "stop"}
    /\ \A r \in alive : status[r].status \notin {"none", "succeeded"}

\* What the launch's thread knows of its run at each of its steps.
LaunchInv ==
    LET s == thread[Launcher] IN
    /\ s.pc # "idle" => record[s.run].launched /\ ~record[s.run].done
    /\ s.pc \in {"register", "start"} => status[s.run].status = "none" /\ s.run \notin starting
    /\ s.pc = "ready" => Over(s.run)
    /\ s.pc = "revoke" => doubtful \/ Over(s.run)
    /\ s.pc = "revoke" /\ s.result = "succeeded" => status[s.run].status = "succeeded"

\* What a run's record says of its scope, its answer and the service.
EndInv ==
    \A r \in Runs :
        /\ ~record[r].launched =>
               scope[r] = "none" /\ status[r].status = "none" /\ r \notin starting /\ ~record[r].done
        /\ record[r].clean => record[r].done /\ Over(r) /\ scope[r] = "revoked"
        /\ answer[r] = "succeeded" =>
               record[r].done /\ status[r].status = "succeeded" /\ scope[r] = "revoked"
        /\ r \in confirmed => record[r].clean

\* The inductive invariant for the end of a run, next to ChildInv.
OverInv == SlotInv /\ LaunchInv /\ EndInv /\ ScopeConfined

\* Nothing has been launched.
LEMMA OverInvInit == Init => OverInv
<1> SUFFICES ASSUME Init PROVE OverInv
  OBVIOUS
<1>1. SlotInv
  BY DEF Init, SlotInv, NoStatus
<1>2. LaunchInv
  BY DEF Init, LaunchInv, IdleThread, Threads
<1>3. EndInv /\ ScopeConfined
  BY DEF Init, EndInv, ScopeConfined, NewRecord, NoStatus
<1> QED
  BY <1>1, <1>2, <1>3 DEF OverInv

\* The service never takes back what it has published, nor runs what it was not sent.
ServiceOnly ==
    /\ UNCHANGED adapterVars
    /\ starting' \subseteq starting
    /\ \A r \in Runs : status[r].status \in Terminal => status'[r].status = status[r].status
    /\ \A r \in Runs : status[r].status = "none" /\ r \notin starting => status'[r].status = "none"

LEMMA ServiceSide ==
    ASSUME ChildInv, OverInv, ServiceOnly, SlotInv' PROVE OverInv'
<1>1. \A r \in Runs : Over(r) => Over(r)'
  BY DEF Over, ServiceOnly
<1>2. UNCHANGED <<healthy, record, scope, doubtful, thread, answer, confirmed>>
  BY DEF ServiceOnly, adapterVars
<1>3. LaunchInv'
  <2>1. thread[Launcher].pc # "idle" => thread[Launcher].run \in Runs
    BY DEF ChildInv, ThreadsOK, Threads
  <2> QED
    BY <1>1, <1>2, <2>1 DEF OverInv, LaunchInv, ServiceOnly, Terminal
<1>4. EndInv'
  BY <1>1, <1>2 DEF OverInv, EndInv, ServiceOnly, Terminal
<1>5. ScopeConfined'
  BY <1>2 DEF OverInv, ScopeConfined
<1> QED
  BY <1>3, <1>4, <1>5 DEF OverInv

LEMMA StartOver == ASSUME ChildInv, OverInv, NEW r \in Runs, Start(r) PROVE OverInv'
<1>1. /\ UNCHANGED <<adapterVars, controller, alive>>
      /\ starting' = starting \ {r} /\ r \in starting
  BY DEF Start
<1>2. status[r].status = "none"
  BY <1>1 DEF OverInv, SlotInv
<1>3. CASE UNCHANGED <<status, service>>
  <2>1. SlotInv'
    BY <1>1, <1>3 DEF OverInv, SlotInv
  <2> QED
    BY <1>1, <1>3, <2>1, ServiceSide DEF ServiceOnly
<1>4. CASE /\ service.active = None
           /\ \/ /\ status' = [status EXCEPT ![r].status = "running"]
                 /\ service' = [active |-> r, pc |-> "admit", result |-> "none"]
              \/ /\ status' = [status EXCEPT ![r].status = "failed"]
                 /\ UNCHANGED service
  <2>1. /\ status'[r].status \in {"running", "failed"}
        /\ \A q \in Runs \ {r} : status'[q] = status[q]
        /\ service'.active # None => service'.active = r /\ status'[r].status = "running"
    BY <1>4 DEF ChildInv, AgentTypeOK, StatusState
  <2>2. controller.active = None
    BY <1>4, NoRunAssumption DEF OverInv, SlotInv
  <2>3. SlotInv'
    <3>1. \A q \in Runs : status'[q].status # "none" => q \notin starting'
      BY <1>1, <2>1 DEF OverInv, SlotInv
    <3>2. \A q \in alive : status'[q].status \notin {"none", "succeeded"}
      BY <1>1, <2>1 DEF OverInv, SlotInv, ChildInv, AgentTypeOK
    <3> QED
      BY <1>1, <2>1, <2>2, <3>1, <3>2 DEF SlotInv
  <2>4. ServiceOnly
    BY <1>1, <1>2, <2>1 DEF ServiceOnly, Terminal
  <2> QED
    BY <2>3, <2>4, ServiceSide
<1> QED
  BY <1>3, <1>4 DEF Start

LEMMA CancelArrivesOver ==
    ASSUME ChildInv, OverInv, NEW t \in Threads, CancelArrives(t) PROVE OverInv'
<1>1. UNCHANGED <<adapterVars, starting, service, controller, alive>>
  BY DEF CancelArrives
<1>2. CASE UNCHANGED status
  <2>1. SlotInv'
    BY <1>1, <1>2 DEF OverInv, SlotInv
  <2> QED
    BY <1>1, <1>2, <2>1, ServiceSide DEF ServiceOnly
<1>3. CASE /\ service.active = cancelling[t].run
           /\ status' = [status EXCEPT ![cancelling[t].run].cancelled = TRUE,
                                       ![cancelling[t].run].status = "cancelling"]
  <2>1. PICK r \in Runs : r = cancelling[t].run
    BY DEF CancelArrives, ChildInv, CancelsOK
  <2>2. /\ status'[r].status = "cancelling" /\ service.active = r
        /\ \A q \in Runs \ {r} : status'[q] = status[q]
    BY <1>3, <2>1 DEF ChildInv, AgentTypeOK, StatusState
  <2>3. status[r].status \in {"running", "cancelling"}
    BY <2>2, NoRunAssumption DEF OverInv, SlotInv
  <2>4. SlotInv'
    <3>1. \A q \in Runs : status'[q].status # "none" => q \notin starting'
      BY <1>1, <2>2, <2>3 DEF OverInv, SlotInv
    <3>2. service'.active = r /\ status'[r].status \in {"running", "cancelling"}
      BY <1>1, <2>2
    <3>3. \A q \in alive' : status'[q].status \notin {"none", "succeeded"}
      BY <1>1, <2>2 DEF OverInv, SlotInv, ChildInv, AgentTypeOK
    <3> QED
      BY <1>1, <3>1, <3>2, <3>3 DEF OverInv, SlotInv
  <2>5. ServiceOnly
    BY <1>1, <2>2, <2>3 DEF ServiceOnly, Terminal
  <2> QED
    BY <2>4, <2>5, ServiceSide
<1> QED
  BY <1>2, <1>3 DEF CancelArrives

\* What stopping a child leaves behind.
LEMMA RetireOver ==
    ASSUME ChildInv, NEW r \in Runs, NEW safe \in BOOLEAN, Retire(r, safe)
    PROVE  controller'.active = None /\ alive' \subseteq alive
  BY DEF Retire, ChildInv, AgentTypeOK, ControllerState

LEMMA StopOver ==
    ASSUME ChildInv, NEW r \in Runs, Stop(r)
    PROVE  /\ alive' \subseteq alive
           /\ controller'.active = None \/ (controller' = controller /\ controller.active # r)
  BY RetireOver DEF Stop

\* The controller's steps publish nothing.
LEMMA ControllerSide ==
    ASSUME ChildInv, OverInv, UNCHANGED <<adapterVars, starting, status>>,
           alive' \subseteq alive, service'.active = service.active,
           \/ controller'.active = None
           \/ /\ controller'.active = controller.active /\ controller'.history = controller.history
              /\ service'.pc \in {"check", "execute", "stop"} \/ controller.active = None
    PROVE  OverInv'
<1>1. SlotInv'
  BY DEF OverInv, SlotInv
<1>2. ServiceOnly
  BY DEF ServiceOnly
<1> QED
  BY <1>1, <1>2, ServiceSide

LEMMA CancelStopsOver ==
    ASSUME ChildInv, OverInv, NEW t \in Threads, CancelStops(t) PROVE OverInv'
<1>1. PICK r \in Runs : r = cancelling[t].run
  BY DEF CancelStops, ChildInv, CancelsOK
<1>2. Stop(r) /\ UNCHANGED <<adapterVars, starting, service, status>>
  BY <1>1 DEF CancelStops
<1>3. /\ alive' \subseteq alive
      /\ controller'.active = None \/ (controller' = controller /\ controller.active # r)
  BY <1>2, StopOver
<1>4. controller.active = None \/ service'.pc \in {"check", "execute", "stop"}
  BY <1>2 DEF OverInv, SlotInv
<1> QED
  BY <1>2, <1>3, <1>4, ControllerSide

LEMMA AdmitOver == ASSUME ChildInv, OverInv, Admit PROVE OverInv'
<1>1. PICK r \in Runs : r = service.active
  BY DEF Admit, ChildInv, ServiceOK
<1>2. /\ UNCHANGED <<adapterVars, messages, status>> /\ UNCHANGED starting
      /\ service.pc = "admit" /\ service'.active = service.active
      /\ service'.pc \in {"check", "stop"}
  BY DEF Admit, Step, messages, ChildInv, AgentTypeOK, ServiceState
<1>3. controller.active = None
  BY <1>2 DEF OverInv, SlotInv
<1>4. /\ alive' \subseteq alive \cup {r}
      /\ controller'.active # None => controller'.active = r /\ r \in controller'.history
  BY <1>1, <1>3 DEF Admit, ChildInv, AgentTypeOK, ControllerState
<1>5. controller'.active # None => service'.pc = "check"
  BY <1>3 DEF Admit, Step, ChildInv, AgentTypeOK, ControllerState, ServiceState
<1>6. status[r].status \in {"running", "cancelling"}
  BY <1>1, NoRunAssumption DEF OverInv, SlotInv
<1>7. SlotInv'
  BY <1>1, <1>2, <1>4, <1>5, <1>6 DEF OverInv, SlotInv
<1>8. ServiceOnly
  BY <1>2 DEF ServiceOnly
<1> QED
  BY <1>7, <1>8, ServiceSide
LEMMA CheckCancelledOver == ASSUME ChildInv, OverInv, CheckCancelled PROVE OverInv'
<1>1. /\ UNCHANGED <<adapterVars, starting, status, controller, alive>>
      /\ service'.active = service.active /\ service'.pc \in {"execute", "stop"}
  BY DEF CheckCancelled, Step, messages, ChildInv, AgentTypeOK, ServiceState
<1> QED
  BY <1>1, ControllerSide

LEMMA ExecuteOver == ASSUME ChildInv, OverInv, Execute PROVE OverInv'
<1>1. PICK r \in Runs : r = service.active
  BY DEF Execute, ChildInv, ServiceOK
<1>2. /\ UNCHANGED <<adapterVars, starting, status>>
      /\ service'.active = service.active /\ service'.pc = "stop"
  BY DEF Execute, Step, messages, ChildInv, AgentTypeOK, ServiceState
<1>3. \/ \E safe \in BOOLEAN : Retire(r, safe)
      \/ UNCHANGED <<controller, alive>>
  BY <1>1 DEF Execute
<1> QED
  BY <1>2, <1>3, RetireOver, ControllerSide

LEMMA StopOwnedOver == ASSUME ChildInv, OverInv, StopOwned PROVE OverInv'
<1>1. PICK r \in Runs : r = service.active
  BY DEF StopOwned, ChildInv, ServiceOK
<1>2. /\ UNCHANGED <<adapterVars, starting, status>> /\ service'.active = service.active
  BY DEF StopOwned, Step, messages, ChildInv, AgentTypeOK, ServiceState
<1>3. controller.active # None => controller.active = r /\ r \in controller.history
  BY <1>1 DEF OverInv, SlotInv
<1>4. controller'.active = None /\ alive' \subseteq alive
  <2>1. CASE r \in controller.history
    BY <1>1, <1>3, <2>1, StopOver DEF StopOwned
  <2>2. CASE r \notin controller.history
    BY <1>1, <1>3, <2>2 DEF StopOwned, ChildInv, AgentTypeOK, ControllerState
  <2> QED
    BY <2>1, <2>2
<1> QED
  BY <1>2, <1>4, ControllerSide

\* _execute publishes a result only of a child that is certainly gone.
LEMMA FinishOver == ASSUME ChildInv, OverInv, Finish PROVE OverInv'
<1>1. PICK r \in Runs : r = service.active
  BY DEF Finish, ChildInv, ServiceOK
<1>2. /\ UNCHANGED <<adapterVars, starting, controller, alive>>
      /\ service.pc = "finish" /\ service'.active = None
  BY DEF Finish, messages
<1>3. controller.active = None
  BY <1>2 DEF OverInv, SlotInv
<1>4. status[r].status \in {"running", "cancelling"}
  BY <1>1, NoRunAssumption DEF OverInv, SlotInv
<1>5. /\ \A q \in Runs \ {r} : status'[q] = status[q]
      /\ status'[r].status \in Terminal
      /\ status'[r].status = "succeeded" => ~controller.quarantined
  BY <1>1 DEF Finish, ChildInv, AgentTypeOK, StatusState, ServiceState, Terminal
<1>6. status'[r].status = "succeeded" => r \notin alive
  BY <1>3, <1>5, NoRunAssumption DEF ChildInv, NoLostChild
<1>7. SlotInv'
  <2>1. \A q \in Runs : status'[q].status # "none" => q \notin starting'
    BY <1>2, <1>4, <1>5 DEF OverInv, SlotInv
  <2>2. \A q \in alive' : status'[q].status \notin {"none", "succeeded"}
    BY <1>2, <1>5, <1>6 DEF OverInv, SlotInv, ChildInv, AgentTypeOK, Terminal
  <2> QED
    BY <1>2, <1>3, <2>1, <2>2 DEF SlotInv
<1>8. ServiceOnly
  BY <1>2, <1>4, <1>5 DEF ServiceOnly, Terminal
<1> QED
  BY <1>7, <1>8, ServiceSide

LEMMA ChildExitsOver == ASSUME ChildInv, OverInv, NEW r \in Runs, ChildExits(r) PROVE OverInv'
<1>1. UNCHANGED <<adapterVars, starting, status, service, controller>> /\ alive' \subseteq alive
  BY DEF ChildExits, messages
<1>2. controller.active = None \/ service'.pc \in {"check", "execute", "stop"}
  BY <1>1 DEF OverInv, SlotInv
<1> QED
  BY <1>1, <1>2, ControllerSide

-----------------------------------------------------------------------------
\* Steps of the adapter that leave the run's records alone.
LEMMA AdapterSide ==
    ASSUME ChildInv, OverInv, UNCHANGED <<serviceVars, starting, record, scope, answer, confirmed>>,
           healthy' => healthy, LaunchInv'
    PROVE  OverInv'
<1>1. UNCHANGED <<status, service, controller, alive>>
  BY DEF serviceVars
<1>2. SlotInv'
  BY <1>1 DEF OverInv, SlotInv
<1>3. EndInv'
  BY <1>1 DEF OverInv, EndInv, Over
<1>4. ScopeConfined'
  BY DEF OverInv, ScopeConfined
<1> QED
  BY <1>2, <1>3, <1>4 DEF OverInv

\* Threads that serve cancellations do not touch the launch's thread.
LEMMA CancellerSide ==
    ASSUME ChildInv, OverInv, UNCHANGED <<serviceVars, starting, record, scope, answer>>,
           healthy' => healthy, doubtful => doubtful', thread'[Launcher] = thread[Launcher]
    PROVE  LaunchInv'
  BY DEF OverInv, LaunchInv, Over, serviceVars

LEMMA WaitOver ==
    ASSUME ChildInv, OverInv, NEW t \in Cancellers, Wait(t) PROVE OverInv'
<1>1. PICK r \in Runs : r = thread[t].run
  BY DEF Wait, ChildInv, ThreadsOK, Threads
<1>2. /\ UNCHANGED <<record, scope, doubtful, answer, serviceVars, starting>>
      /\ thread'[Launcher] = thread[Launcher]
  BY LauncherAssumption DEF Wait, messages, ChildInv, ThreadsOK, Threads
<1>3. /\ healthy' => healthy
      /\ \A q \in confirmed' : q \in confirmed \/ record[q].clean
  BY <1>1 DEF Wait
<1>4. LaunchInv'
  BY <1>2, <1>3, CancellerSide
<1>5. SlotInv' /\ ScopeConfined'
  BY <1>2, <1>3 DEF OverInv, SlotInv, ScopeConfined, serviceVars
<1>6. EndInv'
  BY <1>2, <1>3 DEF OverInv, EndInv, Over, serviceVars
<1> QED
  BY <1>4, <1>5, <1>6 DEF OverInv

LEMMA CancelOver ==
    ASSUME ChildInv, OverInv, NEW t \in Cancellers, NEW r \in Runs, Cancel(t, r) PROVE OverInv'
<1>1. /\ UNCHANGED <<scope, healthy, doubtful, answer, confirmed, serviceVars, starting>>
      /\ thread'[Launcher] = thread[Launcher]
  BY LauncherAssumption DEF Cancel, messages, ChildInv, ThreadsOK, Threads
<1>2. \A q \in Runs : /\ record'[q].launched = record[q].launched
                      /\ record'[q].done = record[q].done
                      /\ record'[q].clean = record[q].clean
  BY DEF Cancel, ChildInv, AgentTypeOK, RecordState
<1>3. LaunchInv'
  <2>1. thread[Launcher].pc # "idle" => thread[Launcher].run \in Runs
    BY DEF ChildInv, ThreadsOK, Threads
  <2> QED
    BY <1>1, <1>2, <2>1 DEF OverInv, LaunchInv, Over, serviceVars
<1>4. SlotInv' /\ ScopeConfined'
  BY <1>1, <1>2 DEF OverInv, SlotInv, ScopeConfined, serviceVars
<1>5. EndInv'
  BY <1>1, <1>2 DEF OverInv, EndInv, Over, serviceVars
<1> QED
  BY <1>3, <1>4, <1>5 DEF OverInv
\* The launch's thread moves on with the same run.
LEMMA LauncherGoes ==
    ASSUME ChildInv, NEW pc, Goto(Launcher, pc)
    PROVE  thread'[Launcher].pc = pc /\ thread'[Launcher].run = thread[Launcher].run
  BY DEF Goto, ChildInv, ThreadsOK, ThreadState, Threads

LEMMA LauncherReturns ==
    ASSUME ChildInv, NEW result, Return(result)
    PROVE  /\ thread'[Launcher].pc = "revoke" /\ thread'[Launcher].run = thread[Launcher].run
           /\ thread'[Launcher].result = result
  BY DEF Return, ChildInv, ThreadsOK, ThreadState, Threads

\* RemoteProcessController.cancel, of whichever thread.
LEMMA ClientCancelOver == ASSUME ChildInv, OverInv, NEW t \in Threads, ClientCancel(t) PROVE OverInv'
<1>1. /\ UNCHANGED <<serviceVars, starting, record, scope, answer, confirmed>>
      /\ healthy' => healthy
      /\ doubtful => doubtful'
  BY DEF ClientCancel, SendCancel, Posted, PollCancelled, Ready, CancelReturns, CancelRaises,
     messages
<1>2. CASE t # Launcher
  <2>1. thread'[Launcher] = thread[Launcher]
    BY <1>2 DEF ClientCancel, SendCancel, Posted, PollCancelled, Ready, CancelReturns,
       CancelRaises,
       Goto, ChildInv, ThreadsOK, Threads
  <2>2. LaunchInv'
    BY <1>1, <2>1, CancellerSide
  <2> QED
    BY <1>1, <2>2, AdapterSide
<1>3. CASE t = Launcher
  <2>0. PICK r \in Runs : r = thread[Launcher].run
    BY <1>3 DEF ClientCancel, SendCancel, Posted, PollCancelled, Ready, ChildInv, ThreadsOK
  <2>1. record[r].launched /\ ~record[r].done
    BY <1>3, <2>0 DEF ClientCancel, SendCancel, Posted, PollCancelled, Ready, OverInv, LaunchInv
  <2>2. CASE Goto(Launcher, "posted") \/ Goto(Launcher, "status")
    <3>1. LaunchInv'
      BY <1>1, <2>0, <2>1, <2>2, LauncherGoes DEF LaunchInv
    <3> QED
      BY <1>1, <3>1, AdapterSide
  <2>3. CASE Goto(Launcher, "ready") /\ status[r].status \in Terminal
    <3>1. Over(r)
      BY <2>3 DEF OverInv, SlotInv, Over, Terminal
    <3>2. Over(r)'
      BY <1>1, <3>1 DEF Over, serviceVars
    <3>3. LaunchInv'
      BY <1>1, <2>0, <2>1, <2>3, <3>2, LauncherGoes DEF LaunchInv
    <3> QED
      BY <1>1, <3>3, AdapterSide
  <2>4. CASE Return("failed") /\ (doubtful' \/ Over(r))
    <3>1. doubtful' \/ Over(r)'
      BY <1>1, <2>4 DEF Over, serviceVars
    <3>2. LaunchInv'
      BY <1>1, <2>0, <2>1, <2>4, <3>1, LauncherReturns DEF LaunchInv
    <3> QED
      BY <1>1, <3>2, AdapterSide
  <2>5. thread[Launcher].pc = "ready" => Over(r)
    BY <2>0 DEF OverInv, LaunchInv
  <2> QED
    BY <1>3, <2>0, <2>2, <2>3, <2>4, <2>5 DEF ClientCancel, SendCancel, Posted, PollCancelled,
       Ready, CancelReturns, CancelRaises
<1> QED
  BY <1>2, <1>3

LEMMA LaunchOver == ASSUME ChildInv, OverInv, NEW r \in Runs, Launch(r) PROVE OverInv'
<1>1. /\ UNCHANGED <<healthy, scope, doubtful, answer, confirmed, serviceVars, starting>>
      /\ ~record[r].launched
      /\ thread'[Launcher].pc = "register" /\ thread'[Launcher].run = r
  BY DEF Launch, messages, ChildInv, ThreadsOK, Threads
<1>2. /\ record'[r].launched /\ record'[r].done = record[r].done /\ record'[r].clean = record[r].clean
      /\ \A q \in Runs \ {r} : record'[q] = record[q]
  BY DEF Launch, ChildInv, AgentTypeOK, RecordState
<1>3. status[r].status = "none" /\ r \notin starting /\ scope[r] = "none" /\ ~record[r].done
  BY <1>1 DEF OverInv, EndInv
<1>4. LaunchInv'
  BY <1>1, <1>2, <1>3 DEF LaunchInv, serviceVars
<1>5. SlotInv'
  BY <1>1 DEF OverInv, SlotInv, serviceVars
<1>6. ScopeConfined'
  BY <1>1, <1>2, <1>3 DEF OverInv, ScopeConfined
<1>7. EndInv'
  BY <1>1, <1>2, <1>3 DEF OverInv, EndInv, Over, serviceVars
<1> QED
  BY <1>4, <1>5, <1>6, <1>7 DEF OverInv

LEMMA LateRegistrationOver ==
    ASSUME ChildInv, OverInv, NEW r \in Runs, LateRegistration(r) PROVE OverInv'
<1>1. /\ UNCHANGED <<healthy, record, doubtful, thread, answer, confirmed, serviceVars, starting>>
      /\ scope[r] = "queued" /\ scope'[r] = "registered"
      /\ \A q \in Runs \ {r} : scope'[q] = scope[q]
  BY DEF LateRegistration, messages, ChildInv, AgentTypeOK
<1>2. LaunchInv' /\ SlotInv'
  BY <1>1 DEF OverInv, LaunchInv, Over, SlotInv, serviceVars
<1>3. ScopeConfined'
  BY <1>1 DEF OverInv, ScopeConfined
<1>4. EndInv'
  BY <1>1 DEF OverInv, EndInv, Over, serviceVars
<1> QED
  BY <1>2, <1>3, <1>4 DEF OverInv

LEMMA RegisterOver == ASSUME ChildInv, OverInv, Register PROVE OverInv'
<1>0. PICK r \in Runs : r = thread[Launcher].run
  BY DEF Register, ChildInv, ThreadsOK, Threads
<1>1. /\ UNCHANGED <<healthy, record, doubtful, answer, confirmed, serviceVars, starting>>
      /\ thread[Launcher].pc = "register"
      /\ \A q \in Runs \ {r} : scope'[q] = scope[q]
  BY <1>0 DEF Register, messages, ChildInv, AgentTypeOK
<1>2. /\ record[r].launched /\ ~record[r].done
      /\ status[r].status = "none" /\ r \notin starting
  BY <1>0, <1>1 DEF OverInv, LaunchInv
<1>3. Goto(Launcher, "start") \/ Return("cancelled") \/ Return("failed")
  BY DEF Register
<1>4. LaunchInv'
  <2>1. Over(r)'
    BY <1>1, <1>2 DEF Over, serviceVars
  <2>2. CASE Goto(Launcher, "start")
    BY <1>0, <1>1, <1>2, <2>2, LauncherGoes DEF LaunchInv, serviceVars
  <2>3. CASE Return("cancelled") \/ Return("failed")
    BY <1>0, <1>1, <1>2, <2>1, <2>3, LauncherReturns DEF LaunchInv
  <2> QED
    BY <1>3, <2>2, <2>3
<1>5. SlotInv'
  BY <1>1 DEF OverInv, SlotInv, serviceVars
<1>6. ScopeConfined'
  BY <1>1, <1>2 DEF OverInv, ScopeConfined
<1>7. EndInv'
  BY <1>1, <1>2 DEF OverInv, EndInv, Over, serviceVars
<1> QED
  BY <1>4, <1>5, <1>6, <1>7 DEF OverInv
LEMMA SendStartOver == ASSUME ChildInv, OverInv, SendStart PROVE OverInv'
<1>0. PICK r \in Runs : r = thread[Launcher].run
  BY DEF SendStart, ChildInv, ThreadsOK, Threads
<1>1. /\ UNCHANGED <<healthy, record, scope, doubtful, answer, confirmed, serviceVars>>
      /\ thread[Launcher].pc = "start" /\ starting' = starting \cup {r}
      /\ Goto(Launcher, "admission")
  BY <1>0 DEF SendStart
<1>2. /\ record[r].launched /\ ~record[r].done /\ status[r].status = "none"
  BY <1>0, <1>1 DEF OverInv, LaunchInv
<1>3. \A q \in Runs : Over(q) => q = r \/ Over(q)'
  BY <1>1 DEF Over, serviceVars
<1>4. LaunchInv'
  BY <1>0, <1>1, <1>2, LauncherGoes DEF LaunchInv
<1>5. SlotInv'
  BY <1>1, <1>2 DEF OverInv, SlotInv, serviceVars
<1>6. ScopeConfined'
  BY <1>1 DEF OverInv, ScopeConfined
<1>7. EndInv'
  BY <1>1, <1>2, <1>3 DEF OverInv, EndInv, serviceVars
<1> QED
  BY <1>4, <1>5, <1>6, <1>7 DEF OverInv

LEMMA AdmissionOver == ASSUME ChildInv, OverInv, Admission PROVE OverInv'
<1>0. PICK r \in Runs : r = thread[Launcher].run
  BY DEF Admission, ChildInv, ThreadsOK, Threads
<1>1. UNCHANGED <<healthy, record, scope, doubtful, answer, confirmed, serviceVars, starting>>
  BY DEF Admission, messages
<1>2. record[r].launched /\ ~record[r].done
  BY <1>0 DEF Admission, OverInv, LaunchInv
<1>3. Goto(Launcher, "poll") \/ Goto(Launcher, "post")
  BY DEF Admission
<1>4. LaunchInv'
  BY <1>0, <1>1, <1>2, <1>3, LauncherGoes DEF LaunchInv
<1> QED
  BY <1>1, <1>4, AdapterSide

LEMMA PollOver == ASSUME ChildInv, OverInv, Poll PROVE OverInv'
<1>0. PICK r \in Runs : r = thread[Launcher].run
  BY DEF Poll, ChildInv, ThreadsOK, Threads
<1>1. UNCHANGED <<healthy, record, scope, doubtful, answer, confirmed, serviceVars, starting>>
  BY DEF Poll, messages
<1>2. record[r].launched /\ ~record[r].done
  BY <1>0 DEF Poll, OverInv, LaunchInv
<1>3. CASE Goto(Launcher, "post")
  <2>1. LaunchInv'
    BY <1>0, <1>1, <1>2, <1>3, LauncherGoes DEF LaunchInv
  <2> QED
    BY <1>1, <2>1, AdapterSide
<1>4. CASE /\ status[r].status \in Terminal
           /\ Return(IF record[r].cancelled THEN "cancelled" ELSE status[r].status)
  <2>1. Over(r)
    BY <1>4 DEF OverInv, SlotInv, Over, Terminal
  <2>2. Over(r)' /\ status' = status
    BY <1>1, <2>1 DEF Over, serviceVars
  <2>3. LaunchInv'
    BY <1>0, <1>1, <1>2, <1>4, <2>2, LauncherReturns DEF LaunchInv
  <2> QED
    BY <1>1, <2>3, AdapterSide
<1> QED
  BY <1>0, <1>3, <1>4 DEF Poll

\* execute's finally clause: a clean end is claimed only of a run that is over.
LEMMA RevokeOver == ASSUME ChildInv, OverInv, Revoke PROVE OverInv'
<1>0. PICK r \in Runs : r = thread[Launcher].run
  BY DEF Revoke, ChildInv, ThreadsOK, Threads
<1>1. /\ UNCHANGED <<doubtful, confirmed, serviceVars, starting>>
      /\ thread[Launcher].pc = "revoke" /\ thread'[Launcher].pc = "idle"
      /\ \A q \in Runs \ {r} : record'[q] = record[q] /\ scope'[q] = scope[q] /\ answer'[q] = answer[q]
      /\ healthy' => healthy
  BY <1>0 DEF Revoke, IdleThread, messages, ChildInv, AgentTypeOK, ThreadsOK, Threads
<1>2. /\ record[r].launched /\ ~record[r].done
      /\ doubtful \/ Over(r)
      /\ thread[Launcher].result = "succeeded" => status[r].status = "succeeded"
  BY <1>0, <1>1 DEF OverInv, LaunchInv
<1>3. /\ record'[r].launched /\ record'[r].done
      /\ record'[r].clean => ~doubtful /\ scope'[r] = "revoked"
      /\ answer'[r] = "succeeded" =>
             thread[Launcher].result = "succeeded" /\ scope'[r] = "revoked"
      /\ scope'[r] = "revoked" \/ ~healthy'
  <2>1. ~record[r].clean
    BY <1>2 DEF OverInv, EndInv
  <2>2. CASE /\ scope' = [scope EXCEPT ![r] = "revoked"]
             /\ record' = [record EXCEPT ![r].done = TRUE, ![r].clean = healthy /\ ~doubtful]
             /\ answer' = [answer EXCEPT ![r] = thread[Launcher].result]
    <3>1. record'[r].launched /\ record'[r].done /\ record'[r].clean = (healthy /\ ~doubtful)
      BY <1>2, <2>2 DEF ChildInv, AgentTypeOK, RecordState
    <3>2. record'[r].clean => ~doubtful
      BY <3>1, Zenon
    <3>3. scope'[r] = "revoked" /\ answer'[r] = thread[Launcher].result
      BY <2>2 DEF ChildInv, AgentTypeOK
    <3> QED
      BY <3>1, <3>2, <3>3
  <2>3. CASE /\ healthy' = FALSE
             /\ record' = [record EXCEPT ![r].done = TRUE]
             /\ answer' = [answer EXCEPT ![r] = "failed"]
    BY <1>2, <2>1, <2>3 DEF ChildInv, AgentTypeOK, RecordState
  <2> QED
    BY <1>0, <2>2, <2>3 DEF Revoke
<1>4. \A q \in Runs : Over(q) => Over(q)'
  BY <1>1 DEF Over, serviceVars
<1>5. LaunchInv'
  BY <1>1 DEF LaunchInv
<1>6. SlotInv'
  BY <1>1 DEF OverInv, SlotInv, serviceVars
<1>7. ScopeConfined'
  BY <1>1, <1>3 DEF OverInv, ScopeConfined
<1>8. EndInv'
  <2>1. ASSUME NEW q \in Runs \ {r}
        PROVE  /\ ~record'[q].launched => scope'[q] = "none" /\ status'[q].status = "none"
                                          /\ q \notin starting' /\ ~record'[q].done
               /\ record'[q].clean => record'[q].done /\ Over(q)' /\ scope'[q] = "revoked"
               /\ answer'[q] = "succeeded" =>
                      record'[q].done /\ status'[q].status = "succeeded" /\ scope'[q] = "revoked"
               /\ q \in confirmed' => record'[q].clean
    BY <1>1, <1>4 DEF OverInv, EndInv, serviceVars
  <2>2. r \notin confirmed'
    BY <1>1, <1>2 DEF OverInv, EndInv
  <2>3. record'[r].clean => Over(r)'
    BY <1>2, <1>3, <1>4
  <2>4. answer'[r] = "succeeded" => status'[r].status = "succeeded"
    BY <1>1, <1>2, <1>3 DEF serviceVars
  <2> QED
    BY <1>3, <2>1, <2>2, <2>3, <2>4 DEF EndInv
<1> QED
  BY <1>5, <1>6, <1>7, <1>8 DEF OverInv

\* Every step of adapter, service and controller, one case per action.
LEMMA OverInvNext == ChildInv /\ OverInv /\ [Next]_vars => OverInv'
<1> SUFFICES ASSUME ChildInv, OverInv, [Next]_vars PROVE OverInv'
  OBVIOUS
<1>1. CASE \E r \in Runs : Launch(r) \/ Start(r) \/ LateRegistration(r) \/ ChildExits(r)
  BY <1>1, LaunchOver, StartOver, LateRegistrationOver, ChildExitsOver
<1>2. CASE LaunchStep
  BY <1>2, RegisterOver, SendStartOver, AdmissionOver, PollOver, RevokeOver, ClientCancelOver
     DEF LaunchStep, Threads
<1>3. CASE \E t \in Cancellers : (\E r \in Runs : Cancel(t, r)) \/ ClientCancel(t) \/ Wait(t)
  BY <1>3, CancelOver, WaitOver, ClientCancelOver DEF Threads
<1>4. CASE \E t \in Threads : CancelArrives(t) \/ CancelStops(t)
  BY <1>4, CancelArrivesOver, CancelStopsOver
<1>5. CASE ServiceStep
  BY <1>5, AdmitOver, CheckCancelledOver, ExecuteOver, StopOwnedOver, FinishOver DEF ServiceStep
<1>6. CASE UNCHANGED vars
  <2>1. LaunchInv'
    BY <1>6 DEF vars, adapterVars, serviceVars, messages, OverInv, LaunchInv, Over
  <2> QED
    BY <1>6, <2>1, AdapterSide DEF vars, adapterVars, messages
<1> QED
  BY <1>1, <1>2, <1>3, <1>4, <1>5, <1>6 DEF Next

\* What adapter, service and controller know of a run that ended agrees in
\* every reachable state.
THEOREM OverInvariant == Spec => []OverInv
  BY OverInvInit, OverInvNext, ChildInvariant, PTL DEF Spec

\* A run that is over holds no slot, and a child it may have left behind is
\* known to the quarantined controller.
LEMMA OverIsOver ==
    ASSUME ChildInv, OverInv, NEW r \in Runs, Over(r)
    PROVE  /\ r \notin starting /\ service.active # r
           /\ r \in alive => controller.quarantined
<1>1. service.active # r
  BY NoRunAssumption DEF OverInv, SlotInv, Over, Terminal
<1>2. controller.active # r
  BY <1>1, NoRunAssumption DEF OverInv, SlotInv
<1> QED
  BY <1>1, <1>2 DEF Over, ChildInv, NoLostChild

\* HermesAdapter.execute never leaves a scope behind while the adapter still
\* admits launches, also when a registration arrives late.
THEOREM ScopesAreConfined == Spec => []ScopeConfined
  BY OverInvariant, PTL DEF OverInv

\* A success reported to the worker is final: nothing of the run is left.
THEOREM SuccessIsOver == Spec => []SucceededIsOver
<1>1. ChildInv /\ OverInv => SucceededIsOver
  <2> SUFFICES ASSUME ChildInv, OverInv, NEW r \in Runs, answer[r] = "succeeded"
               PROVE  /\ r \notin alive /\ r \notin starting
                      /\ service.active # r /\ scope[r] = "revoked"
    BY DEF SucceededIsOver
  <2>1. status[r].status = "succeeded" /\ scope[r] = "revoked"
    BY DEF OverInv, EndInv
  <2>2. r \notin alive /\ Over(r)
    BY <2>1 DEF OverInv, SlotInv, Over, Terminal
  <2> QED
    BY <2>1, <2>2, OverIsOver
<1> QED
  BY <1>1, ChildInvariant, OverInvariant, PTL

\* HermesAdapter.cancel confirms only what cannot start any more and is gone,
\* or is contained by the controller's quarantine.
THEOREM ConfirmationHolds == Spec => []ConfirmedIsContained
<1>1. ChildInv /\ OverInv => ConfirmedIsContained
  <2> SUFFICES ASSUME ChildInv, OverInv, NEW r \in confirmed
               PROVE  /\ r \notin starting /\ service.active # r
                      /\ scope[r] = "revoked" /\ (r \in alive => controller.quarantined)
    BY DEF ConfirmedIsContained
  <2>1. r \in Runs
    BY DEF ChildInv, AgentTypeOK
  <2>2. Over(r) /\ scope[r] = "revoked"
    BY <2>1 DEF OverInv, EndInv
  <2> QED
    BY <2>1, <2>2, OverIsOver
<1> QED
  BY <1>1, ChildInvariant, OverInvariant, PTL

-----------------------------------------------------------------------------
(* Adapter, service and controller together implement RemoteAgent.  Every  *)
(* step moves at most one run, and that run only forward.                  *)

\* The step leaves alone what decides the life of the run's agent.
Same(q) ==
    /\ record'[q].launched <=> record[q].launched
    /\ record'[q].done <=> record[q].done
    /\ q \in starting' <=> q \in starting
    /\ service'.active = q <=> service.active = q
    /\ q \in alive' <=> q \in alive
    /\ scope'[q] = scope[q]

\* The step does not undo a launch or an end, nor end what it launches.
Forward(r) ==
    /\ record[r].launched => record'[r].launched
    /\ ~record[r].launched => ~record'[r].done
    /\ Ended(r) => Ended(r)'

Moves(m) == (\A q \in Runs \ {m} : Same(q)) /\ Forward(m)
Still == \A q \in Runs : Same(q)

LEMMA LaunchMoves == ASSUME ChildInv, OverInv, NEW r \in Runs, Launch(r) PROVE Moves(r)
<1>1. /\ record' = [record EXCEPT ![r].launched = TRUE]
      /\ ~record[r].launched
      /\ UNCHANGED <<scope, starting, service, alive>>
  BY DEF Launch, serviceVars, messages
<1>2. ~record[r].done
  BY <1>1 DEF OverInv, EndInv
<1>3. record \in [Runs -> RecordState]
  BY DEF ChildInv, AgentTypeOK
<1> QED
  BY <1>1, <1>2, <1>3 DEF Moves, Same, Forward, Ended, RecordState

\* The launch in progress has not been answered, so its agent has not ended.
LEMMA LauncherMoves ==
    ASSUME ChildInv, OverInv, Register \/ SendStart \/ Revoke
    PROVE  thread[Launcher].run \in Runs /\ Moves(thread[Launcher].run)
<1> DEFINE r == thread[Launcher].run
<1>1. thread[Launcher].pc # "idle" /\ Launcher \in Threads
  BY DEF Register, SendStart, Revoke, Threads
<1>2. r \in Runs /\ record[r].launched /\ ~record[r].done
  BY <1>1 DEF ChildInv, ThreadsOK, OverInv, LaunchInv
<1>3. record \in [Runs -> RecordState] /\ scope \in [Runs -> {"none", "queued", "registered", "revoked"}]
  BY DEF ChildInv, AgentTypeOK
<1>4. UNCHANGED <<service, alive>>
  BY DEF Register, SendStart, Revoke, serviceVars
<1>5. starting' = starting \/ starting' = starting \cup {r}
  BY DEF Register, SendStart, Revoke, messages
<1>6. /\ record'[r].launched
      /\ \A q \in Runs \ {r} : record'[q] = record[q]
  BY <1>2, <1>3 DEF Register, SendStart, Revoke, RecordState
<1>7. \A q \in Runs \ {r} : scope'[q] = scope[q]
  BY <1>2, <1>3 DEF Register, SendStart, Revoke
<1> QED
  BY <1>2, <1>4, <1>5, <1>6, <1>7 DEF Moves, Same, Forward, Ended

\* Threads that wait, ask and mark a cancellation move no run.
LEMMA AdapterStill ==
    ASSUME ChildInv,
           \/ Admission \/ Poll
           \/ \E t \in Threads : ClientCancel(t) \/ Wait(t)
           \/ \E t \in Cancellers, r \in Runs : Cancel(t, r)
    PROVE  Still
<1>1. UNCHANGED <<scope, starting, service, alive>>
  BY DEF Admission, Poll, ClientCancel, SendCancel, Posted, PollCancelled, Ready, Wait, Cancel,
     serviceVars, messages
<1>2. record' = record \/ \E r \in Runs : record' = [record EXCEPT ![r].cancelled = TRUE]
  BY DEF Admission, Poll, ClientCancel, SendCancel, Posted, PollCancelled, Ready, Wait, Cancel
<1>3. record \in [Runs -> RecordState]
  BY DEF ChildInv, AgentTypeOK
<1>4. \A q \in Runs : record'[q].launched = record[q].launched /\ record'[q].done = record[q].done
  BY <1>2, <1>3 DEF RecordState
<1> QED
  BY <1>1, <1>4 DEF Still, Same

\* A late registration gives no scope to a child that is left: its scope would
\* have been revoked, and a revocation stands.
LEMMA LateRegistrationMoves ==
    ASSUME ChildInv, OverInv, NEW r \in Runs, LateRegistration(r) PROVE Moves(r)
<1>1. /\ scope[r] = "queued"
      /\ scope' = [scope EXCEPT ![r] = "registered"]
      /\ UNCHANGED <<record, starting, service, alive>>
  BY DEF LateRegistration, serviceVars, messages
<1>2. scope \in [Runs -> {"none", "queued", "registered", "revoked"}]
  BY DEF ChildInv, AgentTypeOK
<1>3. ~record[r].launched => ~record[r].done
  BY DEF OverInv, EndInv
<1> QED
  BY <1>1, <1>2, <1>3 DEF Moves, Same, Forward, Ended

\* A start that arrives belongs to a run that has not ended.
LEMMA StartMoves == ASSUME ChildInv, OverInv, NEW r \in Runs, Start(r) PROVE Moves(r)
<1>1. /\ r \in starting /\ starting' = starting \ {r}
      /\ UNCHANGED <<record, scope, alive>>
  BY DEF Start, adapterVars
<1>2. UNCHANGED service \/ (service.active = None /\ service'.active = r)
  BY DEF Start
<1>3. ~record[r].launched => ~record[r].done
  BY DEF OverInv, EndInv
<1> QED
  BY <1>1, <1>2, <1>3, NoRunAssumption DEF Moves, Same, Forward, Ended

\* So does the run that has the service's slot.
LEMMA SlotMoves ==
    ASSUME ChildInv, OverInv, ServiceStep
    PROVE  service.active \in Runs /\ Moves(service.active)
<1> DEFINE r == service.active
<1>1. r \in Runs
  BY DEF ServiceStep, Admit, CheckCancelled, Execute, StopOwned, Finish, ChildInv, ServiceOK
<1>2. UNCHANGED <<record, scope, starting>>
  BY DEF ServiceStep, Admit, CheckCancelled, Execute, StopOwned, Finish, adapterVars, messages
<1>3. service'.active \in {r, None}
  <2>1. CASE Finish
    BY <2>1 DEF Finish
  <2>2. CASE \E pc, result : Step(pc, result)
    BY <2>2 DEF Step, ChildInv, ServiceOK, ServiceState
  <2>3. Finish \/ \E pc, result : Step(pc, result)
    BY DEF ServiceStep, Admit, CheckCancelled, Execute, StopOwned
  <2> QED
    BY <2>1, <2>2, <2>3
<1>4. alive' \in {alive, alive \cup {r}, alive \ {r}}
  <2>1. CASE Admit
    BY <2>1 DEF Admit
  <2>2. CASE CheckCancelled \/ Finish
    BY <2>2 DEF CheckCancelled, Finish
  <2>3. CASE Execute
    BY <2>3 DEF Execute, Retire
  <2>4. CASE StopOwned
    BY <2>4 DEF StopOwned, Stop, Retire
  <2> QED
    BY <2>1, <2>2, <2>3, <2>4 DEF ServiceStep
<1>5. ~record[r].launched => ~record[r].done
  BY <1>1 DEF OverInv, EndInv
<1> QED
  BY <1>1, <1>2, <1>3, <1>4, <1>5, NoRunAssumption DEF Moves, Same, Forward, Ended

\* A child that is stopped, or that ends by itself, starts nothing.
LEMMA ChildMoves ==
    ASSUME ChildInv, OverInv, NEW r \in Runs, alive' \in {alive, alive \ {r}},
           UNCHANGED <<record, scope, starting, service>>
    PROVE  Moves(r)
<1>1. ~record[r].launched => ~record[r].done
  BY DEF OverInv, EndInv
<1> QED
  BY <1>1 DEF Moves, Same, Forward, Ended

\* Every step moves one run forward, or none.
LEMMA OneRunMoves ==
    ASSUME ChildInv, OverInv, [Next]_vars
    PROVE  Still \/ \E m \in Runs : Moves(m)
<1>1. CASE \E r \in Runs : Launch(r) \/ Start(r) \/ LateRegistration(r)
  BY <1>1, LaunchMoves, StartMoves, LateRegistrationMoves
<1>2. CASE \E r \in Runs : ChildExits(r)
  BY <1>2, ChildMoves DEF ChildExits, adapterVars, messages
<1>3. CASE LaunchStep
  BY <1>3, LauncherMoves, AdapterStill DEF LaunchStep, Threads
<1>4. CASE \E t \in Cancellers : (\E r \in Runs : Cancel(t, r)) \/ ClientCancel(t) \/ Wait(t)
  BY <1>4, AdapterStill DEF Threads
<1>5. CASE \E t \in Threads : CancelArrives(t)
  BY <1>5 DEF CancelArrives, adapterVars, Still, Same
<1>6. CASE \E t \in Threads : CancelStops(t)
  <2>1. PICK t \in Threads : CancelStops(t)
    BY <1>6
  <2>2. cancelling[t].run \in Runs
    BY <2>1 DEF CancelStops, ChildInv, CancelsOK
  <2>3. alive' \in {alive, alive \ {cancelling[t].run}}
    BY <2>1 DEF CancelStops, Stop, Retire
  <2> QED
    BY <2>1, <2>2, <2>3, ChildMoves DEF CancelStops, adapterVars
<1>7. CASE ServiceStep
  BY <1>7, SlotMoves
<1>8. CASE UNCHANGED vars
  BY <1>8 DEF vars, adapterVars, serviceVars, messages, Still, Same
<1> QED
  BY <1>1, <1>2, <1>3, <1>4, <1>5, <1>6, <1>7, <1>8 DEF Next

\* What does not decide the life of an agent does not change it.
LEMMA SameLife == ASSUME NEW q \in Runs, Same(q) PROVE Life(q)' = Life(q)
  BY DEF Same, Life, Ended

\* A run that moves forward takes a step of RemoteAgent or stays where it is.
LEMMA ForwardLife ==
    ASSUME NEW r \in Runs, Forward(r)
    PROVE  \/ Life(r)' = Life(r)
           \/ Life(r) = "sent" /\ Life(r)' = "alive"
           \/ Life(r) = "alive" /\ Life(r)' = "ended"
<1>1. Ended(r)' => record'[r].done
  BY DEF Ended
<1> QED
  BY <1>1 DEF Forward, Life

LEMMA StepIsLifeStep ==
    ASSUME ChildInv, OverInv, [Next]_vars
    PROVE  [Agent!Next]_([r \in Runs |-> Life(r)])
<1> DEFINE life == [r \in Runs |-> Life(r)]
<1>1. CASE Still
  <2>1. \A q \in Runs : Life(q)' = Life(q)
    BY <1>1, SameLife DEF Still
  <2> QED
    BY <2>1
<1>2. CASE \E m \in Runs : Moves(m)
  <2>1. PICK m \in Runs : Moves(m)
    BY <1>2
  <2>2. \A q \in Runs \ {m} : Life(q)' = Life(q)
    BY <2>1, SameLife DEF Moves
  <2>3. \/ Life(m)' = Life(m)
        \/ Life(m) = "sent" /\ Life(m)' = "alive"
        \/ Life(m) = "alive" /\ Life(m)' = "ended"
    BY <2>1, ForwardLife DEF Moves
  <2>4. life' = [life EXCEPT ![m] = Life(m)']
    BY <2>2
  <2>5. CASE Life(m)' = Life(m)
    BY <2>2, <2>5
  <2>6. CASE Life(m) = "sent" /\ Life(m)' = "alive"
    BY <2>4, <2>6 DEF Agent!Next, Agent!Accept, Agent!Becomes
  <2>7. CASE Life(m) = "alive" /\ Life(m)' = "ended"
    BY <2>4, <2>7 DEF Agent!Next, Agent!End, Agent!Becomes
  <2> QED
    BY <2>3, <2>5, <2>6, <2>7
<1> QED
  BY <1>1, <1>2, OneRunMoves

\* Each accepted launch is one life of its agent, whatever is lost, late or
\* given up between adapter, service and controller.
THEOREM AgentLivesOnce == Spec => LivesOnce
<1>1. Init => Agent!Init
  BY DEF Init, Agent!Init, Life, NewRecord
<1>2. ChildInv /\ OverInv /\ [Next]_vars => [Agent!Next]_([r \in Runs |-> Life(r)])
  BY StepIsLifeStep
<1> QED
  BY <1>1, <1>2, ChildInvariant, OverInvariant, PTL DEF Spec, LivesOnce, Agent!Spec

\* What the worker is told is true of the agent: a run reported as succeeded,
\* or whose cancellation was confirmed, is at the end of its life.
ReportedIsEnded ==
    \A r \in Runs : answer[r] = "succeeded" \/ r \in confirmed => Life(r) = "ended"

\* HermesAdapter.execute answers with success, and HermesAdapter.cancel confirms,
\* only for an agent that can act no more.
THEOREM ReportsAreTrue == Spec => []ReportedIsEnded
<1>1. ChildInv /\ OverInv /\ SucceededIsOver /\ ConfirmedIsContained => ReportedIsEnded
  <2> SUFFICES ASSUME ChildInv, OverInv, SucceededIsOver, ConfirmedIsContained,
                      NEW r \in Runs, answer[r] = "succeeded" \/ r \in confirmed
               PROVE  Life(r) = "ended"
    BY DEF ReportedIsEnded
  <2>1. record[r].launched /\ record[r].done
    BY DEF OverInv, EndInv
  <2>2. Ended(r)
    BY <2>1 DEF SucceededIsOver, ConfirmedIsContained, Ended
  <2> QED
    BY <2>1, <2>2 DEF Life
<1> QED
  BY <1>1, ChildInvariant, OverInvariant, SuccessIsOver, ConfirmationHolds, PTL
=============================================================================
