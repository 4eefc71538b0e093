-------------------------- MODULE HermesLaneProofs --------------------------
(***************************************************************************)
(* Machine-checked proofs about HermesLane, for any number of runs, keys,  *)
(* workers and faults.                                                     *)
(***************************************************************************)
EXTENDS HermesLane, TLAPS

Sender(w) == worker[w].pc \in {"execute", "send", "await"}

\* The delivery that claimed the run, as long as it works on it.
Owner(w) == worker[w].pc # "idle" /\ worker[w].billable /\ ~worker[w].redelivery

\* What a worker's program counter says of its other variables and of the agent.
WorkerShape ==
    \A w \in Workers : worker[w].pc # "idle" =>
        LET s == worker[w] IN
        /\ s.run \in Runs
        /\ Sender(w) \/ s.pc = "accept" => s.billable /\ ~s.redelivery
        /\ s.pc = "cleanup" => s.billable
        /\ s.pc = "accept" => remote[s.run] \in {"ended", "refused"}
        /\ s.pc = "finish" /\ s.billable /\ s.cleanupOk =>
               ~s.redelivery /\ remote[s.run] = "ended"

\* A run some worker has started working on, or that has an agent, is claimed.
ClaimedFirst ==
    /\ \A w \in Workers : worker[w].pc # "idle" /\ worker[w].billable =>
           run[worker[w].run] \notin {"none", "queued"}
    /\ \A r \in Runs : remote[r] # "none" => run[r] \notin {"none", "queued"}

OneOwner ==
    \A w, v \in Workers : Owner(w) /\ Owner(v) /\ worker[w].run = worker[v].run => w = v

OneMayRun == \A r, q \in Runs : MayRun(r) /\ MayRun(q) => r = q

\* The inductive invariant.
LaneInv ==
    /\ LaneTypeOK
    /\ LaneAgreement
    /\ WorkerShape
    /\ ClaimedFirst
    /\ OneOwner
    /\ NoStrayProcess
    /\ OneMayRun

-----------------------------------------------------------------------------
\* What _finish does to the run and to the lane, whoever calls it.
LEMMA FinishEffect ==
    ASSUME LaneTypeOK, LaneAgreement,
           NEW r \in Runs, NEW o \in {"failed", "cancelled"},
           NEW b \in BOOLEAN, NEW c \in BOOLEAN, Finish(r, o, b, c)
    PROVE  /\ control' \in [Runs -> Rows]
           /\ faults' \in Nat
           /\ lane' \in [activeRun: Runs \cup {None}, disabled: BOOLEAN]
           /\ lane.disabled => lane'.disabled
           /\ \/ run[r] \notin Active /\ UNCHANGED <<run, lane>>
              \/ /\ run[r] \in Active
                 /\ \E f \in {"failed", "cancelled"} : run' = [run EXCEPT ![r] = f]
                 /\ lane'.activeRun = None
                 /\ ~c \/ (run[r] = "running" /\ ~b) => lane'.disabled
<1>1. CASE run[r] \notin Active
  BY <1>1 DEF Finish, LaneTypeOK
<1>2. CASE run[r] \in Active
  <2>1. PICK revoked \in BOOLEAN, accounted \in BOOLEAN :
          LET contradicted == run[r] = "running" /\ ~b
              clean == c /\ ~contradicted /\ revoked
              final == IF clean /\ control[r].cancel THEN "cancelled" ELSE o
          IN  /\ Losses(revoked, accounted)
              /\ Terminal(r, final, b \/ contradicted, accounted,
                          IF revoked THEN Revoked(r) ELSE control[r].capability,
                          ~clean, control[r].cancel)
    BY <1>2 DEF Finish
  <2>2. faults' \in Nat
    BY <2>1 DEF Losses, LaneTypeOK
  <2>3. lane.activeRun = r
    BY <1>2 DEF LaneAgreement
  <2>4. /\ lane' \in [activeRun: Runs \cup {None}, disabled: BOOLEAN]
        /\ lane.disabled => lane'.disabled
        /\ lane'.activeRun = None
        /\ ~c \/ (run[r] = "running" /\ ~b) => lane'.disabled
    BY <2>1, <2>3 DEF Terminal, LaneTypeOK
  <2>5. \E f \in {"failed", "cancelled"} : run' = [run EXCEPT ![r] = f]
    BY <2>1 DEF Terminal
  <2>6. control' \in [Runs -> Rows]
    BY <2>1 DEF Terminal, Revoked, LaneTypeOK, Rows
  <2>. QED  BY <1>2, <2>2, <2>4, <2>5, <2>6
<1>. QED  BY <1>1, <1>2

\* No process is allowed before the first step.
LEMMA LaneInvInit == Init => LaneInv
  BY NoneNotRun DEF Init, LaneInv, LaneTypeOK, LaneAgreement, WorkerShape, ClaimedFirst,
     OneOwner, NoStrayProcess, OneMayRun, MayRun, Owner, Sender, IdleWorker, NewControl,
     WorkerState, WorkerPC, Rows, RunStatuses, Active

-----------------------------------------------------------------------------
(* Preservation, one lemma per group of actions.                           *)

\* Actions that touch none of the variables the invariant is about, or only
\* their environment.
LEMMA QuietSteps ==
    ASSUME LaneInv,
           \/ \E r \in Runs : Dispatch(r)
           \/ \E w \in Workers : Redeliver(w)
           \/ \E r \in Runs : LoseAuthority(r)
           \/ \E r \in Runs \cup Judgements : LeaseExpires(r)
           \/ \E j \in Judgements : JudgeReserves(j) \/ JudgeCloses(j)
           \/ ExpireReservations
           \/ ToggleFeature
    PROVE  LaneInv'
<1>1. UNCHANGED <<lane, run, control, receipt, worker, remote>>
  BY DEF Dispatch, Redeliver, LoseAuthority, LeaseExpires, JudgeReserves, JudgeCloses,
     ExpireReservations, ToggleFeature, dbVars
<1>2. LaneTypeOK'
  <2>1. enabled' \in BOOLEAN /\ authorized' \subseteq Runs
    BY DEF LaneInv, LaneTypeOK, Dispatch, Redeliver, LoseAuthority, LeaseExpires, JudgeReserves,
       JudgeCloses, ExpireReservations, ToggleFeature, envVars
  <2>2. dispatch' \in [Runs -> {"none", "pending", "failed", "done"}]
    BY DEF LaneInv, LaneTypeOK, Dispatch, Redeliver, LoseAuthority, LeaseExpires, JudgeReserves,
       JudgeCloses, ExpireReservations, ToggleFeature
  <2>3. queue' \in [Runs -> Nat]
    BY DEF LaneInv, LaneTypeOK, WorkerShape, Dispatch, Redeliver, LoseAuthority, LeaseExpires,
       JudgeReserves, JudgeCloses, ExpireReservations, ToggleFeature
  <2>4. faults' \in Nat
    BY DEF LaneInv, LaneTypeOK, Dispatch, Redeliver, LoseAuthority, LeaseExpires, JudgeReserves,
       JudgeCloses, ExpireReservations, ToggleFeature, Fault
  <2>. QED  BY <1>1, <2>1, <2>2, <2>3, <2>4 DEF LaneInv, LaneTypeOK
<1>. QED
  BY <1>1, <1>2 DEF LaneInv, LaneAgreement, WorkerShape, ClaimedFirst, OneOwner,
     NoStrayProcess, OneMayRun, MayRun, Owner, Sender

\* The agent's own steps: a launch becomes a process or is refused, a process ends.
LEMMA RemoteSteps ==
    ASSUME LaneInv, NEW r \in Runs, RemoteStart(r) \/ RemoteRefuse(r) \/ RemoteEnd(r)
    PROVE  LaneInv'
<1>1. PICK x \in {"alive", "refused", "ended"} :
         /\ remote' = [remote EXCEPT ![r] = x]
         /\ remote[r] \in {"sent", "alive"}
  BY DEF RemoteStart, RemoteRefuse, RemoteEnd
<1>2. UNCHANGED <<lane, run, control, receipt, worker, enabled, authorized, dispatch, queue, faults>>
  BY DEF RemoteStart, RemoteRefuse, RemoteEnd, dbVars, envVars
<1>3. LaneTypeOK' /\ LaneAgreement' /\ OneOwner'
  BY <1>1, <1>2 DEF LaneInv, LaneTypeOK, LaneAgreement, OneOwner, Owner
<1>4. WorkerShape' /\ ClaimedFirst'
  BY <1>1, <1>2 DEF LaneInv, LaneTypeOK, WorkerShape, ClaimedFirst, Sender
<1>5. \A q \in Runs : MayRun(q)' => MayRun(q)
  BY <1>1, <1>2 DEF LaneInv, LaneTypeOK, MayRun
<1>. QED
  BY <1>2, <1>3, <1>4, <1>5 DEF LaneInv, NoStrayProcess, OneMayRun

\* A run is queued: nothing has run for it yet.
LEMMA StartStep ==
    ASSUME LaneInv, NEW k \in Keys, NEW r \in Runs, StartHermesRun(k, r)
    PROVE  LaneInv'
<1>1. /\ run[r] = "none"
      /\ run' = [run EXCEPT ![r] = "queued"]
      /\ lane' = [lane EXCEPT !.activeRun = r]
      /\ \A q \in Runs : run[q] \notin Active
      /\ receipt' = [receipt EXCEPT ![k] = r]
      /\ dispatch' = [dispatch EXCEPT ![r] = "pending"]
      /\ UNCHANGED <<control, enabled, authorized, queue, worker, remote, faults>>
  BY DEF StartHermesRun, QueueHermesRun, envVars
<1>2. LaneTypeOK' /\ LaneAgreement' /\ OneOwner'
  BY <1>1, NoneNotRun DEF LaneInv, LaneTypeOK, LaneAgreement, OneOwner, Owner, RunStatuses,
     Active
<1>3. WorkerShape' /\ ClaimedFirst'
  BY <1>1 DEF LaneInv, LaneTypeOK, WorkerShape, ClaimedFirst, Sender
<1>4. \A q \in Runs : MayRun(q)' <=> MayRun(q)
  BY <1>1 DEF MayRun
<1>5. lane'.disabled = lane.disabled /\ \A q \in Runs : run[q] = "running" => run'[q] = "running"
  BY <1>1 DEF LaneInv, LaneTypeOK, Active
<1>. QED
  BY <1>2, <1>3, <1>4, <1>5 DEF LaneInv, NoStrayProcess, OneMayRun

\* A worker that only forgets, or that moves on without losing what its program
\* counter promises, disturbs nothing.
LEMMA CrashStep ==
    ASSUME LaneInv, NEW w \in Workers, Crash(w)
    PROVE  LaneInv'
<1>1. /\ worker[w].pc # "idle"
      /\ worker' = [worker EXCEPT ![w] = IdleWorker]
      /\ queue' = [queue EXCEPT ![worker[w].run] = @ + 1]
      /\ faults' = faults + 1
      /\ UNCHANGED <<lane, run, control, receipt, enabled, authorized, dispatch, remote>>
  BY DEF Crash, Fault, dbVars, envVars
<1>2. LaneTypeOK'
  BY <1>1 DEF LaneInv, LaneTypeOK, WorkerShape, IdleWorker, WorkerState, WorkerPC
<1>3. LaneAgreement' /\ WorkerShape' /\ ClaimedFirst' /\ OneOwner'
  BY <1>1 DEF LaneInv, LaneTypeOK, LaneAgreement, WorkerShape, ClaimedFirst, OneOwner, Owner,
     Sender, IdleWorker
<1>4. \A q \in Runs : MayRun(q)' => MayRun(q)
  BY <1>1 DEF LaneInv, LaneTypeOK, MayRun, IdleWorker
<1>. QED
  BY <1>1, <1>2, <1>3, <1>4 DEF LaneInv, NoStrayProcess, OneMayRun

\* The claim: the only step that makes a sender, and only of a queued run.
LEMMA ClaimStep ==
    ASSUME LaneInv, NEW w \in Workers, NEW r \in Runs, Claim(w, r)
    PROVE  LaneInv'
<1>0. /\ worker[w].pc = "idle"
      /\ queue[r] > 0
      /\ queue' = [queue EXCEPT ![r] = @ - 1]
      /\ UNCHANGED <<lane, receipt, enabled, authorized, dispatch, remote>>
  BY DEF Claim, envVars
<1>a. faults' \in Nat /\ queue' \in [Runs -> Nat]
  <2>1. faults' = faults \/ faults' = faults + 1
    BY DEF Claim, Fault
  <2>. QED  BY <1>0, <2>1 DEF LaneInv, LaneTypeOK
<1>b. control' \in [Runs -> Rows]
  <2>1. control' = control \/ control' = [control EXCEPT ![r].capability = "live"]
    BY DEF Claim
  <2>. QED  BY <2>1 DEF LaneInv, LaneTypeOK, Rows
<1>1. CASE UNCHANGED <<run, worker>>
  BY <1>0, <1>1, <1>a, <1>b DEF LaneInv, LaneTypeOK, LaneAgreement, WorkerShape, ClaimedFirst,
     OneOwner, NoStrayProcess, OneMayRun, MayRun, Owner, Sender
<1>2. ASSUME NEW outcome \in {"failed", "cancelled"}, NEW redelivery \in BOOLEAN,
             NEW f \in {"queued", "running"},
             redelivery => run[r] = "running",
             run' = [run EXCEPT ![r] = f],
             run[r] \in Active,
             run[r] = "running" => f = "running",
             worker' = [worker EXCEPT ![w] = Handler(r, outcome, redelivery, redelivery, FALSE)]
      PROVE  LaneInv'
  <2>1. LaneTypeOK' /\ LaneAgreement'
    BY <1>0, <1>a, <1>b, <1>2 DEF LaneInv, LaneTypeOK, LaneAgreement, Handler, WorkerState,
       WorkerPC, RunStatuses, Active
  <2>2. WorkerShape' /\ ClaimedFirst'
    BY <1>0, <1>2 DEF LaneInv, LaneTypeOK, WorkerShape, ClaimedFirst, Sender, Handler, Active
  <2>3. OneOwner'
    BY <1>0, <1>2 DEF LaneInv, LaneTypeOK, OneOwner, Owner, Handler
  <2>4. \A q \in Runs : MayRun(q)' => MayRun(q)
    BY <1>0, <1>2 DEF LaneInv, LaneTypeOK, MayRun, Handler
  <2>5. \A q \in Runs : run[q] = "running" => run'[q] = "running"
    BY <1>2 DEF LaneInv, LaneTypeOK
  <2>. QED  BY <1>0, <2>1, <2>2, <2>3, <2>4, <2>5 DEF LaneInv, NoStrayProcess, OneMayRun
<1>3. ASSUME run[r] = "queued", ~lane.disabled, run' = [run EXCEPT ![r] = "running"],
             worker' = [worker EXCEPT ![w] =
                 [IdleWorker EXCEPT !.pc = "execute", !.run = r, !.billable = TRUE]]
      PROVE  LaneInv'
  <2>1. LaneTypeOK' /\ LaneAgreement'
    BY <1>0, <1>a, <1>b, <1>3 DEF LaneInv, LaneTypeOK, LaneAgreement, IdleWorker, WorkerState,
       WorkerPC, RunStatuses, Active
  <2>2. WorkerShape' /\ ClaimedFirst'
    BY <1>0, <1>3 DEF LaneInv, LaneTypeOK, WorkerShape, ClaimedFirst, Sender, IdleWorker
  <2>3. OneOwner'
    BY <1>0, <1>3 DEF LaneInv, LaneTypeOK, OneOwner, ClaimedFirst, Owner, IdleWorker
  <2>4. \A q \in Runs : ~MayRun(q)
    <3>1. \A q \in Runs : MayRun(q) => run[q] = "running"
      BY <1>3 DEF LaneInv, NoStrayProcess
    <3>. QED  BY <1>3, <3>1 DEF LaneInv, LaneAgreement, Active
  <2>5. \A q \in Runs : MayRun(q)' => q = r
    BY <1>0, <1>3, <2>4 DEF LaneInv, LaneTypeOK, MayRun, IdleWorker
  <2>. QED  BY <1>0, <1>3, <2>1, <2>2, <2>3, <2>5 DEF LaneInv, LaneTypeOK, NoStrayProcess,
               OneMayRun
<1>4. Check(r, FALSE) \in {"ok", "cancelled", "failed"}
  BY DEF Check, LaneInv, LaneTypeOK
<1>5. run = [run EXCEPT ![r] = run[r]]
  BY DEF LaneInv, LaneTypeOK
<1>6. \/ UNCHANGED <<run, worker>>
      \/ /\ run[r] = "running" /\ run' = run
         /\ worker' = [worker EXCEPT ![w] = Handler(r, "failed", TRUE, TRUE, FALSE)]
      \/ /\ run[r] = "queued" /\ run' = run
         /\ \E outcome \in {"failed", "cancelled"} :
                worker' = [worker EXCEPT ![w] = Handler(r, outcome, FALSE, FALSE, FALSE)]
      \/ /\ run[r] = "queued" /\ run' = [run EXCEPT ![r] = "running"]
         /\ worker' = [worker EXCEPT ![w] = Handler(r, "failed", FALSE, FALSE, FALSE)]
      \/ /\ run[r] = "queued" /\ ~lane.disabled /\ run' = [run EXCEPT ![r] = "running"]
         /\ worker' = [worker EXCEPT ![w] =
                [IdleWorker EXCEPT !.pc = "execute", !.run = r, !.billable = TRUE]]
  BY <1>4 DEF Claim
<1>. QED
  BY <1>1, <1>2, <1>3, <1>5, <1>6 DEF Active

\* A step of the claimer between its two transactions: it stays the only owner
\* of its run, and it starts nothing unless it could have started it before.
LEMMA OwnerStep ==
    ASSUME LaneInv, NEW w \in Workers, Owner(w), worker[w].run \in Runs,
           NEW s \in WorkerState, worker' = [worker EXCEPT ![w] = s],
           s.run = worker[w].run, s.pc # "idle", s.billable, ~s.redelivery,
           NEW x \in {"none", "sent", "refused", "alive", "ended"},
           remote' = [remote EXCEPT ![worker[w].run] = x],
           s.pc \in {"execute", "send", "await"} \/ x \in {"sent", "alive"} =>
               MayRun(worker[w].run),
           s.pc = "accept" => x \in {"ended", "refused"},
           s.pc = "finish" /\ s.cleanupOk => x = "ended",
           UNCHANGED <<lane, run, control, receipt, enabled, authorized, dispatch, queue, faults>>
    PROVE  LaneInv'
<1> DEFINE r == worker[w].run
<1>1. LaneTypeOK' /\ LaneAgreement'
  BY DEF LaneInv, LaneTypeOK, LaneAgreement
<1>2. \A v \in Workers : v # w => worker'[v] = worker[v]
  BY DEF LaneInv, LaneTypeOK
<1>3. worker'[w] = s
  BY DEF LaneInv, LaneTypeOK
<1>4. \A q \in Runs : q # r => remote'[q] = remote[q]
  BY DEF LaneInv, LaneTypeOK
<1>5. remote'[r] = x
  BY DEF LaneInv, LaneTypeOK
<1>6. \A v \in Workers : v # w /\ Owner(v) => worker[v].run # r
  BY DEF LaneInv, OneOwner
<1>7. WorkerShape'
  BY <1>2, <1>3, <1>4, <1>5, <1>6 DEF LaneInv, WorkerShape, Sender, Owner
<1>8. ClaimedFirst'
  BY <1>2, <1>3, <1>4 DEF LaneInv, ClaimedFirst, Owner
<1>9. OneOwner'
  BY <1>2, <1>3 DEF LaneInv, OneOwner, Owner
<1>10. \A q \in Runs : MayRun(q)' => MayRun(q)
  BY <1>2, <1>3, <1>4, <1>5 DEF MayRun
<1>. QED
  BY <1>1, <1>7, <1>8, <1>9, <1>10 DEF LaneInv, NoStrayProcess, OneMayRun

\* The claimer's steps up to the end of its wait.
LEMMA SenderStep ==
    ASSUME LaneInv, NEW w \in Workers, Prepare(w) \/ Send(w) \/ Await(w)
    PROVE  LaneInv'
<1> DEFINE r == worker[w].run
<1>0. /\ Sender(w)
      /\ UNCHANGED <<lane, run, control, receipt, enabled, authorized, dispatch, queue, faults>>
  BY DEF Prepare, Send, Await, Sender, dbVars, envVars
<1>r. Owner(w) /\ r \in Runs /\ MayRun(r)
  BY <1>0 DEF LaneInv, WorkerShape, Sender, Owner, MayRun
<1>s. worker[w] \in WorkerState /\ worker[w].run = r /\ remote[r] \in {"none", "sent", "refused", "alive", "ended"}
  BY <1>r DEF LaneInv, LaneTypeOK
<1>t. remote = [remote EXCEPT ![r] = remote[r]]
  BY <1>r DEF LaneInv, LaneTypeOK
<1>1. ASSUME NEW pc \in {"send", "await", "accept"}, Go(w, pc),
             NEW x \in {remote[r], "sent"}, remote' = [remote EXCEPT ![r] = x],
             pc = "accept" => x \in {"ended", "refused"}
      PROVE  LaneInv'
  <2> DEFINE s == [worker[w] EXCEPT !.pc = pc]
  <2>1. s \in WorkerState /\ s.run = r /\ s.pc = pc /\ s.billable /\ ~s.redelivery
    BY <1>r, <1>s DEF WorkerState, WorkerPC, Owner
  <2>2. worker' = [worker EXCEPT ![w] = s]
    BY <1>1 DEF Go, LaneInv, LaneTypeOK
  <2>. QED  BY <1>0, <1>r, <1>s, <1>1, <2>1, <2>2, OwnerStep
<1>2. ASSUME NEW o \in {"failed", "cancelled"}, Raise(w, o, FALSE),
             NEW x \in {remote[r], "ended"}, remote' = [remote EXCEPT ![r] = x]
      PROVE  LaneInv'
  <2> DEFINE s == Handler(r, o, TRUE, FALSE, FALSE)
  <2>1. s \in WorkerState /\ s.run = r /\ s.pc = "cleanup" /\ s.billable /\ ~s.redelivery
    BY <1>r DEF WorkerState, WorkerPC, Handler
  <2>2. worker' = [worker EXCEPT ![w] = s]
    BY <1>2 DEF Raise, LaneInv, LaneTypeOK
  <2>. QED  BY <1>0, <1>r, <1>s, <1>2, <2>1, <2>2, OwnerStep
<1>3. CASE Prepare(w)
  BY <1>1, <1>2, <1>3, <1>s, <1>t DEF Prepare
<1>4. CASE Send(w)
  BY <1>1, <1>4 DEF Send
<1>5. CASE Await(w)
  BY <1>1, <1>2, <1>5, <1>s, <1>t DEF Await
<1>. QED  BY <1>3, <1>4, <1>5

\* Cancelling the agent.  The claimer's own confirmed cancellation means that
\* nothing is left; a redelivery never claims as much.
LEMMA CleanupStep ==
    ASSUME LaneInv, NEW w \in Workers, Cleanup(w)
    PROVE  LaneInv'
<1> DEFINE r == worker[w].run
<1>0. /\ worker[w].pc = "cleanup"
      /\ UNCHANGED <<lane, run, control, receipt, enabled, authorized, dispatch, queue, faults>>
  BY DEF Cleanup, dbVars, envVars
<1>r. worker[w] \in WorkerState /\ r \in Runs /\ worker[w].billable
  BY <1>0 DEF LaneInv, LaneTypeOK, WorkerShape
<1>1. PICK ok \in BOOLEAN, x \in {"none", "sent", "refused", "alive", "ended"} :
         /\ worker' = [worker EXCEPT ![w] = [@ EXCEPT !.pc = "finish", !.cleanupOk = ok]]
         /\ remote' = [remote EXCEPT ![r] = x]
         /\ x \in {remote[r], "ended"}
         /\ x = "ended" => remote[r] \in {"alive", "ended"}
         /\ ok => x = "ended" /\ ~worker[w].redelivery
  <2>1. CASE /\ Known(r)
             /\ worker' = [worker EXCEPT ![w].pc = "finish", ![w].cleanupOk =
                    ~worker[w].redelivery /\ ~worker[w].quarantine]
             /\ remote' = [remote EXCEPT ![r] = "ended"]
    <3> DEFINE good == ~worker[w].redelivery /\ ~worker[w].quarantine
    <3>1. worker' = [worker EXCEPT ![w] = [@ EXCEPT !.pc = "finish", !.cleanupOk = good]]
      BY <2>1, <1>r DEF LaneInv, LaneTypeOK
    <3>. QED  BY <2>1, <3>1 DEF Known
  <2>2. CASE /\ worker' = [worker EXCEPT ![w].pc = "finish", ![w].cleanupOk = FALSE]
             /\ remote' = remote
    <3>1. worker' = [worker EXCEPT ![w] = [@ EXCEPT !.pc = "finish", !.cleanupOk = FALSE]]
      BY <2>2, <1>r DEF LaneInv, LaneTypeOK
    <3>2. remote' = [remote EXCEPT ![r] = remote[r]] /\ remote[r] \in {"none", "sent", "refused", "alive", "ended"}
      BY <2>2, <1>r DEF LaneInv, LaneTypeOK
    <3>. QED  BY <3>1, <3>2
  <2>. QED  BY <2>1, <2>2 DEF Cleanup
<1> DEFINE s == [worker[w] EXCEPT !.pc = "finish", !.cleanupOk = ok]
<1>2. /\ s \in WorkerState /\ s.run = r /\ s.pc = "finish" /\ s.cleanupOk = ok
      /\ s.billable /\ s.redelivery = worker[w].redelivery
  BY <1>r DEF WorkerState, WorkerPC
<1>3. worker' = [worker EXCEPT ![w] = s]
  BY <1>1
<1> HIDE DEF s
<1>4. x \in {"sent", "alive"} => MayRun(r)
  BY <1>1 DEF MayRun
<1>5. CASE ~worker[w].redelivery
  <2>1. Owner(w)
    BY <1>0, <1>r, <1>5 DEF Owner
  <2>. QED  BY <1>0, <1>r, <1>1, <1>2, <1>3, <1>4, <1>5, <2>1, OwnerStep
<1>6. CASE worker[w].redelivery
  <2>a. worker' \in [Workers -> WorkerState]
    BY <1>2, <1>3 DEF LaneInv, LaneTypeOK
  <2>b. remote' \in [Runs -> {"none", "sent", "refused", "alive", "ended"}]
    BY <1>1, <1>r DEF LaneInv, LaneTypeOK
  <2>1. LaneTypeOK' /\ LaneAgreement'
    BY <1>0, <2>a, <2>b DEF LaneInv, LaneTypeOK, LaneAgreement
  <2>2. /\ \A v \in Workers : v # w => worker'[v] = worker[v]
        /\ worker'[w] = s
        /\ \A q \in Runs : q # r => remote'[q] = remote[q]
        /\ remote'[r] = x
    BY <1>1, <1>3, <1>r DEF LaneInv, LaneTypeOK
  <2>3. WorkerShape'
    BY <1>1, <1>2, <1>6, <1>r, <2>2 DEF LaneInv, WorkerShape, Sender
  <2>4. ClaimedFirst'
    BY <1>0, <1>1, <1>2, <1>r, <2>2 DEF LaneInv, ClaimedFirst
  <2>5. OneOwner'
    BY <1>2, <1>6, <2>2 DEF LaneInv, OneOwner, Owner
  <2>6. \A q \in Runs : MayRun(q)' => MayRun(q)
    BY <1>2, <1>4, <2>2 DEF MayRun
  <2>. QED  BY <1>0, <2>1, <2>3, <2>4, <2>5, <2>6 DEF LaneInv, NoStrayProcess, OneMayRun
<1>. QED  BY <1>5, <1>6, <1>r DEF WorkerState

\* A run ends.  Nothing of it may be left, unless the lane is quarantined.
LEMMA EndStep ==
    ASSUME LaneInv, NEW r \in Runs, run[r] \in Active,
           NEW f \in {"succeeded", "failed", "cancelled"}, run' = [run EXCEPT ![r] = f],
           lane' \in [activeRun: Runs \cup {None}, disabled: BOOLEAN],
           lane'.activeRun = None, lane.disabled => lane'.disabled,
           MayRun(r) => lane'.disabled,
           control' \in [Runs -> Rows], faults' \in Nat,
           dispatch' \in [Runs -> {"none", "pending", "failed", "done"}],
           worker' \in [Workers -> WorkerState],
           \A v \in Workers : \/ worker'[v] = worker[v]
                              \/ worker'[v].pc = "idle"
                              \/ /\ worker'[v].pc = "cleanup" /\ Owner(v)
                                 /\ worker'[v].billable /\ ~worker'[v].redelivery
                                 /\ worker'[v].run = worker[v].run,
           UNCHANGED <<receipt, enabled, authorized, queue, remote>>
    PROVE  LaneInv'
<1>0. run' \in [Runs -> RunStatuses] /\ f \notin Active
  BY DEF LaneInv, LaneTypeOK, RunStatuses, Active
<1>1. LaneTypeOK'
  BY <1>0 DEF LaneInv, LaneTypeOK
<1>b. LaneAgreement'
  BY <1>0, NoneNotRun DEF LaneInv, LaneTypeOK, LaneAgreement
<1>2. WorkerShape'
  <2> SUFFICES ASSUME NEW v \in Workers, worker'[v].pc # "idle"
               PROVE  LET t == worker'[v] IN
                      /\ t.run \in Runs
                      /\ Sender(v)' \/ t.pc = "accept" => t.billable /\ ~t.redelivery
                      /\ t.pc = "cleanup" => t.billable
                      /\ t.pc = "accept" => remote'[t.run] \in {"ended", "refused"}
                      /\ t.pc = "finish" /\ t.billable /\ t.cleanupOk =>
                             ~t.redelivery /\ remote'[t.run] = "ended"
    BY DEF WorkerShape
  <2>1. CASE worker'[v] = worker[v]
    BY <2>1 DEF LaneInv, WorkerShape, Sender
  <2>2. CASE worker'[v].pc = "cleanup" /\ Owner(v) /\ worker'[v].run = worker[v].run
    BY <2>2 DEF LaneInv, WorkerShape, Sender, Owner
  <2>. QED  BY <2>1, <2>2
<1>a. OneOwner'
  <2>1. \A v \in Workers : Owner(v)' => Owner(v) /\ worker'[v].run = worker[v].run
    BY DEF Owner
  <2>. QED  BY <2>1 DEF LaneInv, OneOwner
<1>3. ClaimedFirst'
  BY DEF LaneInv, LaneTypeOK, ClaimedFirst, Owner, WorkerShape
<1>4. \A q \in Runs : MayRun(q)' => MayRun(q)
  BY DEF MayRun
<1>5. NoStrayProcess'
  BY <1>4 DEF LaneInv, LaneTypeOK, NoStrayProcess
<1>. QED  BY <1>1, <1>b, <1>2, <1>a, <1>3, <1>4, <1>5 DEF LaneInv, OneMayRun

\* Nothing of a run is left when its claimer holds its result.
LEMMA NothingLeft ==
    ASSUME LaneInv, NEW w \in Workers, Owner(w), ~Sender(w), worker[w].run \in Runs,
           remote[worker[w].run] \notin {"sent", "alive"}
    PROVE  ~MayRun(worker[w].run)
<1>1. \A v \in Workers : Sender(v) => Owner(v)
  BY DEF LaneInv, WorkerShape, Sender, Owner
<1>. QED  BY <1>1 DEF LaneInv, OneOwner, MayRun, Sender

\* The second transaction: the run succeeds, or the claimer goes on to clean up.
LEMMA AcceptStep ==
    ASSUME LaneInv, NEW w \in Workers, Accept(w)
    PROVE  LaneInv'
<1> DEFINE r == worker[w].run
<1>0. /\ worker[w].pc = "accept"
      /\ UNCHANGED <<receipt, enabled, authorized, dispatch, queue, remote>>
  BY DEF Accept, dbVars, envVars
<1>r. Owner(w) /\ r \in Runs /\ ~Sender(w) /\ remote[r] \in {"ended", "refused"}
  BY <1>0 DEF LaneInv, WorkerShape, Owner, Sender
<1>1. ASSUME NEW o \in {"failed", "cancelled"}, NEW q \in BOOLEAN, Raise(w, o, q),
             UNCHANGED <<lane, run, control>>, faults' \in Nat
      PROVE  LaneInv'
  <2> DEFINE s == Handler(r, o, TRUE, FALSE, q)
  <2>1. s \in WorkerState /\ s.run = r /\ s.pc = "cleanup" /\ s.billable /\ ~s.redelivery
    BY <1>r DEF WorkerState, WorkerPC, Handler
  <2>2. worker' = [worker EXCEPT ![w] = s]
    BY <1>1 DEF Raise, LaneInv, LaneTypeOK
  <2> HIDE DEF s
  <2>3. LaneTypeOK' /\ LaneAgreement'
    BY <1>0, <1>1, <2>1, <2>2 DEF LaneInv, LaneTypeOK, LaneAgreement
  <2>4. (\A v \in Workers : v # w => worker'[v] = worker[v]) /\ worker'[w] = s
    BY <2>2 DEF LaneInv, LaneTypeOK
  <2>5. WorkerShape'
    BY <1>0, <1>r, <2>1, <2>4 DEF LaneInv, WorkerShape, Sender
  <2>6. ClaimedFirst' /\ OneOwner'
    BY <1>0, <1>1, <1>r, <2>1, <2>4 DEF LaneInv, ClaimedFirst, OneOwner, Owner
  <2>7. \A p \in Runs : MayRun(p)' => MayRun(p)
    BY <1>0, <2>1, <2>4 DEF MayRun
  <2>. QED  BY <1>1, <2>3, <2>5, <2>6, <2>7 DEF LaneInv, NoStrayProcess, OneMayRun
<1>2. ASSUME run[r] = "running", run' = [run EXCEPT ![r] = "succeeded"],
             control' = [control EXCEPT ![r].capability = "revoked"],
             lane' = [lane EXCEPT !.activeRun = None], faults' \in Nat,
             worker' = [worker EXCEPT ![w] = IdleWorker] \/ Raise(w, "failed", FALSE)
      PROVE  LaneInv'
  <2>1. ~MayRun(r)
    BY <1>r, NothingLeft
  <2>2. /\ lane' \in [activeRun: Runs \cup {None}, disabled: BOOLEAN]
        /\ lane'.activeRun = None /\ lane'.disabled = lane.disabled
    BY <1>2 DEF LaneInv, LaneTypeOK
  <2>3. control' \in [Runs -> Rows]
    BY <1>2, <1>r DEF LaneInv, LaneTypeOK, Rows
  <2>4. PICK s \in WorkerState :
           /\ worker' = [worker EXCEPT ![w] = s]
           /\ \/ s.pc = "idle"
              \/ s.pc = "cleanup" /\ s.billable /\ ~s.redelivery /\ s.run = r
    <3>1. CASE worker' = [worker EXCEPT ![w] = IdleWorker]
      <4>1. IdleWorker \in WorkerState /\ IdleWorker.pc = "idle"
        BY DEF IdleWorker, WorkerState, WorkerPC
      <4>. QED  BY <3>1, <4>1
    <3>2. CASE Raise(w, "failed", FALSE)
      <4>1. worker' = [worker EXCEPT ![w] = Handler(r, "failed", TRUE, FALSE, FALSE)]
        BY <3>2 DEF Raise, LaneInv, LaneTypeOK
      <4> DEFINE h == Handler(r, "failed", TRUE, FALSE, FALSE)
      <4>2. h \in WorkerState /\ h.pc = "cleanup" /\ h.billable /\ ~h.redelivery /\ h.run = r
        BY <1>r DEF Handler, WorkerState, WorkerPC
      <4>. QED  BY <4>1, <4>2
    <3>. QED  BY <1>2, <3>1, <3>2
  <2>5. /\ worker' \in [Workers -> WorkerState]
        /\ \A v \in Workers : v # w => worker'[v] = worker[v]
        /\ worker'[w] = s
    BY <2>4 DEF LaneInv, LaneTypeOK
  <2>6. dispatch' \in [Runs -> {"none", "pending", "failed", "done"}]
    BY <1>0 DEF LaneInv, LaneTypeOK
  <2>. QED
    BY <1>0, <1>2, <1>r, <2>1, <2>2, <2>3, <2>4, <2>5, <2>6, EndStep DEF Active
<1>3. Check(r, TRUE) \in {"ok", "cancelled", "failed"}
  BY DEF Check
<1>4. faults' \in Nat
  <2>1. faults' = faults \/ faults' = faults + 1
    BY DEF Accept, ResultRefused, Fault
  <2>. QED  BY <2>1 DEF LaneInv, LaneTypeOK
<1>5. \/ /\ \E o \in {"failed", "cancelled"}, q \in BOOLEAN : Raise(w, o, q)
         /\ UNCHANGED <<lane, run, control>>
      \/ /\ run[r] = "running"
         /\ run' = [run EXCEPT ![r] = "succeeded"]
         /\ control' = [control EXCEPT ![r].capability = "revoked"]
         /\ lane' = [lane EXCEPT !.activeRun = None]
         /\ worker' = [worker EXCEPT ![w] = IdleWorker] \/ Raise(w, "failed", FALSE)
  BY <1>3 DEF Accept, ResultRefused, dbVars
<1>. QED  BY <1>1, <1>2, <1>4, <1>5

\* The handler's _finish: a clean finish leaves nothing, any other quarantines.
LEMMA FinishStep ==
    ASSUME LaneInv, NEW w \in Workers, FinishRun(w)
    PROVE  LaneInv'
<1> DEFINE s == worker[w]
           r == s.run
<1>0. /\ s.pc = "finish"
      /\ worker' = [worker EXCEPT ![w] = IdleWorker]
      /\ UNCHANGED <<receipt, enabled, authorized, dispatch, queue, remote>>
      /\ \/ Finish(r, s.outcome, s.billable, s.cleanupOk)
         \/ faults' = faults + 1 /\ UNCHANGED <<run, control, lane>>
  BY DEF FinishRun, envVars, Fault
<1>r. r \in Runs /\ s.outcome \in {"failed", "cancelled"} /\ s.billable \in BOOLEAN
      /\ s.cleanupOk \in BOOLEAN /\ s.redelivery \in BOOLEAN
  BY <1>0 DEF LaneInv, LaneTypeOK, WorkerShape, WorkerState
<1>w. /\ worker' \in [Workers -> WorkerState]
      /\ \A v \in Workers : v # w => worker'[v] = worker[v]
      /\ worker'[w].pc = "idle"
  BY <1>0 DEF LaneInv, LaneTypeOK, IdleWorker, WorkerState, WorkerPC
<1>1. CASE UNCHANGED <<run, lane>> /\ control' \in [Runs -> Rows] /\ faults' \in Nat
  <2>1. LaneTypeOK' /\ LaneAgreement'
    BY <1>0, <1>1, <1>w DEF LaneInv, LaneTypeOK, LaneAgreement
  <2>2. WorkerShape' /\ ClaimedFirst' /\ OneOwner'
    BY <1>0, <1>1, <1>w DEF LaneInv, WorkerShape, ClaimedFirst, OneOwner, Owner, Sender
  <2>3. \A q \in Runs : MayRun(q)' => MayRun(q)
    BY <1>0, <1>w DEF MayRun
  <2>. QED  BY <1>1, <2>1, <2>2, <2>3 DEF LaneInv, NoStrayProcess, OneMayRun
<1>2. CASE Finish(r, s.outcome, s.billable, s.cleanupOk) /\ run[r] \in Active
  <2>1. /\ control' \in [Runs -> Rows]
        /\ faults' \in Nat
        /\ lane' \in [activeRun: Runs \cup {None}, disabled: BOOLEAN]
        /\ lane.disabled => lane'.disabled
        /\ \E f \in {"failed", "cancelled"} : run' = [run EXCEPT ![r] = f]
        /\ lane'.activeRun = None
        /\ ~s.cleanupOk \/ (run[r] = "running" /\ ~s.billable) => lane'.disabled
    BY <1>2, <1>r, FinishEffect DEF LaneInv
  <2>2. MayRun(r) => lane'.disabled
    <3>1. CASE run[r] = "queued"
      <4>1. remote[r] = "none" /\ \A v \in Workers : ~(worker[v].run = r /\ Sender(v))
        BY <3>1, <1>r DEF LaneInv, ClaimedFirst, WorkerShape, Sender
      <4>. QED  BY <4>1 DEF MayRun, Sender
    <3>2. CASE run[r] = "running" /\ s.billable /\ s.cleanupOk
      <4>1. Owner(w) /\ ~Sender(w) /\ remote[r] = "ended"
        BY <1>0, <1>r, <3>2 DEF LaneInv, WorkerShape, Owner, Sender
      <4>. QED  BY <1>r, <4>1, NothingLeft
    <3>. QED  BY <1>2, <1>r, <2>1, <3>1, <3>2 DEF Active
  <2>3. dispatch' \in [Runs -> {"none", "pending", "failed", "done"}]
    BY <1>0 DEF LaneInv, LaneTypeOK
  <2>. QED  BY <1>0, <1>2, <1>r, <1>w, <2>1, <2>2, <2>3, EndStep
<1>3. CASE Finish(r, s.outcome, s.billable, s.cleanupOk) /\ run[r] \notin Active
  BY <1>1, <1>3, <1>r, FinishEffect DEF LaneInv
<1>4. CASE faults' = faults + 1 /\ UNCHANGED <<run, control, lane>>
  BY <1>1, <1>4 DEF LaneInv, LaneTypeOK
<1>. QED  BY <1>0, <1>2, <1>3, <1>4

\* _dispatch ends a queued run, of which there is nothing, or quarantines.
LEMMA DispatchFailedStep ==
    ASSUME LaneInv, NEW r \in Runs, DispatchFailed(r)
    PROVE  LaneInv'
<1>0. /\ dispatch' = [dispatch EXCEPT ![r] = "done"]
      /\ UNCHANGED <<receipt, enabled, authorized, queue, worker, remote>>
      /\ \/ Finish(r, "failed", FALSE, TRUE)
         \/ faults' = faults + 1 /\ UNCHANGED <<run, control, lane>>
  BY DEF DispatchFailed, envVars, Fault
<1>d. dispatch' \in [Runs -> {"none", "pending", "failed", "done"}]
  BY <1>0 DEF LaneInv, LaneTypeOK
<1>1. CASE UNCHANGED <<run, lane>> /\ control' \in [Runs -> Rows] /\ faults' \in Nat
  BY <1>0, <1>1, <1>d DEF LaneInv, LaneTypeOK, LaneAgreement, WorkerShape, ClaimedFirst,
     OneOwner, NoStrayProcess, OneMayRun, MayRun, Owner, Sender
<1>2. CASE Finish(r, "failed", FALSE, TRUE) /\ run[r] \in Active
  <2>1. /\ control' \in [Runs -> Rows]
        /\ faults' \in Nat
        /\ lane' \in [activeRun: Runs \cup {None}, disabled: BOOLEAN]
        /\ lane.disabled => lane'.disabled
        /\ \E f \in {"failed", "cancelled"} : run' = [run EXCEPT ![r] = f]
        /\ lane'.activeRun = None
        /\ run[r] = "running" => lane'.disabled
    BY <1>2, FinishEffect DEF LaneInv
  <2>2. MayRun(r) => lane'.disabled
    BY <1>2, <2>1 DEF LaneInv, ClaimedFirst, WorkerShape, Sender, MayRun, Active
  <2>3. worker' \in [Workers -> WorkerState]
    BY <1>0 DEF LaneInv, LaneTypeOK
  <2>. QED  BY <1>0, <1>2, <1>d, <2>1, <2>2, <2>3, EndStep
<1>3. CASE Finish(r, "failed", FALSE, TRUE) /\ run[r] \notin Active
  BY <1>1, <1>3, FinishEffect DEF LaneInv
<1>4. CASE faults' = faults + 1 /\ UNCHANGED <<run, control, lane>>
  BY <1>1, <1>4 DEF LaneInv, LaneTypeOK
<1>. QED  BY <1>0, <1>2, <1>3, <1>4

\* The owner cancels: a queued run ends, of a running one only flags change.
LEMMA CancelStep ==
    ASSUME LaneInv, NEW r \in Runs, CancelHermesRun(r)
    PROVE  LaneInv'
<1>0. run[r] \in Active /\ UNCHANGED <<receipt, enabled, authorized, dispatch, queue, worker, remote>>
  BY DEF CancelHermesRun, envVars
<1>1. PICK revoked \in BOOLEAN, accounted \in BOOLEAN :
        LET capability == IF revoked THEN Revoked(r) ELSE control[r].capability
        IN  /\ Losses(revoked, accounted)
            /\ IF run[r] = "queued"
                 THEN Terminal(r, "cancelled", FALSE, accounted, capability, ~revoked, TRUE)
                 ELSE /\ control' = [control EXCEPT ![r] =
                             [cancel |-> TRUE, capability |-> capability,
                              disabled |-> @.disabled \/ ~revoked]]
                      /\ lane' = [lane EXCEPT !.disabled = @ \/ ~revoked]
                      /\ run' = run
  BY DEF CancelHermesRun
<1>2. faults' \in Nat
  BY <1>1 DEF Losses, LaneInv, LaneTypeOK
<1>3. control' \in [Runs -> Rows]
  <2>1. PICK c \in {"none", "live", "revoked"}, d \in BOOLEAN :
           control' = [control EXCEPT ![r] = [cancel |-> TRUE, capability |-> c, disabled |-> d]]
    <3>1. /\ (IF revoked THEN Revoked(r) ELSE control[r].capability) \in {"none", "live", "revoked"}
          /\ control[r].disabled \in BOOLEAN
      BY DEF Revoked, LaneInv, LaneTypeOK, Rows
    <3>2. CASE run[r] = "queued"
      BY <1>1, <3>1, <3>2 DEF Terminal
    <3>3. CASE run[r] # "queued"
      BY <1>1, <3>1, <3>3
    <3>. QED  BY <3>2, <3>3
  <2>. QED  BY <2>1 DEF LaneInv, LaneTypeOK, Rows
<1>4. /\ lane' \in [activeRun: Runs \cup {None}, disabled: BOOLEAN]
      /\ lane.disabled => lane'.disabled
      /\ lane'.activeRun = IF run[r] = "queued" THEN None ELSE lane.activeRun
  <2>1. lane.activeRun = r
    BY <1>0 DEF LaneInv, LaneAgreement
  <2>2. CASE run[r] = "queued"
    <3>1. lane' = [activeRun |-> IF lane.activeRun = r THEN None ELSE lane.activeRun,
                   disabled |-> lane.disabled \/ ~revoked \/ ~accounted]
      BY <1>1, <2>2 DEF Terminal
    <3>. QED  BY <2>1, <2>2, <3>1 DEF LaneInv, LaneTypeOK
  <2>3. CASE run[r] # "queued"
    <3>1. lane' = [lane EXCEPT !.disabled = @ \/ ~revoked]
      BY <1>1, <2>3
    <3>. QED  BY <2>3, <3>1 DEF LaneInv, LaneTypeOK
  <2>. QED  BY <2>2, <2>3
<1>5. CASE run[r] = "queued"
  <2>1. run' = [run EXCEPT ![r] = "cancelled"]
    BY <1>1, <1>5 DEF Terminal
  <2>2. ~MayRun(r)
    BY <1>5 DEF LaneInv, ClaimedFirst, WorkerShape, Sender, MayRun
  <2>3. /\ worker' \in [Workers -> WorkerState]
        /\ dispatch' \in [Runs -> {"none", "pending", "failed", "done"}]
    BY <1>0 DEF LaneInv, LaneTypeOK
  <2>. QED  BY <1>0, <1>2, <1>3, <1>4, <1>5, <2>1, <2>2, <2>3, EndStep
<1>6. CASE run[r] # "queued"
  <2>1. run' = run
    BY <1>1, <1>6
  <2>. QED
    BY <1>0, <1>2, <1>3, <1>4, <1>6, <2>1 DEF LaneInv, LaneTypeOK, LaneAgreement, WorkerShape,
       ClaimedFirst, OneOwner, NoStrayProcess, OneMayRun, MayRun, Owner, Sender
<1>. QED  BY <1>5, <1>6

\* Every step of the system, one case per action.
LEMMA LaneInvNext == LaneInv /\ [Next]_vars => LaneInv'
<1> SUFFICES ASSUME LaneInv, [Next]_vars PROVE LaneInv'
  OBVIOUS
<1>1. CASE \E k \in Keys, r \in Runs : StartHermesRun(k, r)
  BY <1>1, StartStep
<1>2. CASE \E r \in Runs : DispatchFailed(r)
  BY <1>2, DispatchFailedStep
<1>3. CASE \E r \in Runs : CancelHermesRun(r)
  BY <1>3, CancelStep
<1>4. CASE \E w \in Workers, r \in Runs : Claim(w, r)
  BY <1>4, ClaimStep
<1>5. CASE \E w \in Workers : WorkerStep(w)
  BY <1>5, SenderStep, AcceptStep, CleanupStep, FinishStep DEF WorkerStep
<1>6. CASE \E w \in Workers : Crash(w)
  BY <1>6, CrashStep
<1>7. CASE \E r \in Runs : RemoteStart(r) \/ RemoteRefuse(r) \/ RemoteEnd(r)
  BY <1>7, RemoteSteps
<1>8. CASE \/ \E r \in Runs : Dispatch(r)
           \/ \E w \in Workers : Redeliver(w)
           \/ \E r \in Runs : LoseAuthority(r)
           \/ \E r \in Runs \cup Judgements : LeaseExpires(r)
           \/ \E j \in Judgements : JudgeReserves(j) \/ JudgeCloses(j)
           \/ ExpireReservations
           \/ ToggleFeature
  BY <1>8, QuietSteps
<1>9. CASE UNCHANGED vars
  BY <1>9 DEF vars, dbVars, envVars, LaneInv, LaneTypeOK, LaneAgreement, WorkerShape,
     ClaimedFirst, OneOwner, NoStrayProcess, OneMayRun, MayRun, Owner, Sender
<1>. QED
  BY <1>1, <1>2, <1>3, <1>4, <1>5, <1>6, <1>7, <1>8, <1>9 DEF Next

\* The inductive invariant holds in every reachable state.
THEOREM LaneInvariant == Spec => []LaneInv
  BY LaneInvInit, LaneInvNext, PTL DEF Spec

-----------------------------------------------------------------------------
\* Whatever tasks.py and its environment do, every table and every process
\* variable keeps a value of its kind.
THEOREM TypeCorrect == Spec => []LaneTypeOK
<1>1. LaneInv => LaneTypeOK
  BY DEF LaneInv
<1>. QED  BY <1>1, LaneInvariant, PTL

\* HermesAdmissionLane.active_run names exactly the run that is queued or running.
THEOREM LaneAgrees == Spec => []LaneAgreement
<1>1. LaneInv => LaneAgreement
  BY DEF LaneInv
<1>. QED  BY <1>1, LaneInvariant, PTL

\* An agent process that may be alive, or that a worker may yet launch, belongs
\* to the running run, unless tasks.py has quarantined the lane.
THEOREM NoProcessStrays == Spec => []NoStrayProcess
<1>1. LaneInv => NoStrayProcess
  BY DEF LaneInv
<1>. QED  BY <1>1, LaneInvariant, PTL

\* At most one run has an agent process, or a launch request on its way.
THEOREM AtMostOneProcess == Spec => []OneProcess
<1>1. LaneInv => OneProcess
  BY DEF LaneInv, OneMayRun, MayRun, OneProcess
<1>. QED  BY <1>1, LaneInvariant, PTL

-----------------------------------------------------------------------------
(* The lane as a use of the ledger.                                        *)

\* _terminal closes the books by one of the ledger's transactions, or not at all.
LEMMA TerminalIsLedgerStep ==
    ASSUME NEW r \in Runs, NEW o, NEW b \in BOOLEAN, NEW a \in BOOLEAN, NEW c, NEW d, NEW x,
           Terminal(r, o, b, a, c, d, x)
    PROVE  B!Next \/ UNCHANGED B!vars
BY DEF Terminal, B!Next, B!vars, budgetVars

LEMMA FinishIsLedgerStep ==
    ASSUME NEW r \in Runs, NEW o, NEW b \in BOOLEAN, NEW c \in BOOLEAN, Finish(r, o, b, c)
    PROVE  B!Next \/ UNCHANGED B!vars
<1>1. CASE run[r] \notin Active
  BY <1>1 DEF Finish, budgetVars, B!vars
<1>2. CASE run[r] \in Active
  BY <1>2, TerminalIsLedgerStep DEF Finish
<1>. QED  BY <1>1, <1>2

\* Every step of the lane is a step of the ledger, or leaves it alone.
LEMMA StepIsLedgerStep ==
    ASSUME LaneInv, Next PROVE B!Next \/ UNCHANGED B!vars
<1>1. CASE \E k \in Keys, r \in Runs : StartHermesRun(k, r)
  <2>1. PICK r \in Runs : B!ReserveBudget(r, LaneProfile, Profile[LaneProfile].maxIn,
                                         Profile[LaneProfile].maxOut, Held)
    BY <1>1 DEF StartHermesRun, QueueHermesRun
  <2>2. Held \in SUBSET (Runs \cup Judgements)
    BY DEF Held
  <2>. QED  BY <2>1, <2>2, LaneProfileAssumption, CeilingAssumption DEF B!Next
<1>2. CASE \E r \in Runs : DispatchFailed(r)
  BY <1>2, FinishIsLedgerStep DEF DispatchFailed, budgetVars, B!vars
<1>3. CASE \E r \in Runs : CancelHermesRun(r)
  BY <1>3, TerminalIsLedgerStep DEF CancelHermesRun, budgetVars, B!vars
<1>4. CASE \E w \in Workers : Accept(w)
  <2>1. PICK w \in Workers : Accept(w)
    BY <1>4
  <2>2. worker[w].run \in Runs
    BY <2>1 DEF Accept, LaneInv, WorkerShape
  <2>3. \/ UNCHANGED budgetVars
        \/ \E i, o \in Tokens : B!SettleBudget(worker[w].run, i, o)
    BY <2>1 DEF Accept
  <2>. QED  BY <2>2, <2>3 DEF B!Next, budgetVars, B!vars
<1>5. CASE \E w \in Workers : FinishRun(w)
  <2>1. PICK w \in Workers : FinishRun(w)
    BY <1>5
  <2>2. worker[w].run \in Runs /\ worker[w].billable \in BOOLEAN /\ worker[w].cleanupOk \in BOOLEAN
    BY <2>1 DEF FinishRun, LaneInv, WorkerShape, LaneTypeOK, WorkerState
  <2>. QED  BY <2>1, <2>2, FinishIsLedgerStep DEF FinishRun, budgetVars, B!vars
<1>6. CASE \E r \in Runs \cup Judgements : LeaseExpires(r)
  BY <1>6 DEF LeaseExpires, B!Next
<1>7. CASE \E j \in Judgements : JudgeReserves(j) \/ JudgeCloses(j)
  <2>1. Held \in SUBSET (Runs \cup Judgements)
    BY DEF Held
  <2>. QED  BY <1>7, <2>1, LaneProfileAssumption DEF JudgeReserves, JudgeCloses, B!Next
<1>8. CASE ExpireReservations
  <2>1. Held \in SUBSET (Runs \cup Judgements)
    BY DEF Held
  <2>. QED  BY <1>8, <2>1 DEF ExpireReservations, B!Next
<1>9. CASE \/ \E r \in Runs : Dispatch(r) \/ LoseAuthority(r)
           \/ \E w \in Workers, r \in Runs : Claim(w, r)
           \/ \E w \in Workers : \/ Prepare(w) \/ Send(w) \/ Await(w) \/ Cleanup(w)
                                 \/ Crash(w) \/ Redeliver(w)
           \/ \E r \in Runs : RemoteStart(r) \/ RemoteRefuse(r) \/ RemoteEnd(r)
           \/ ToggleFeature
  <2>1. UNCHANGED budgetVars
    BY <1>9 DEF Dispatch, LoseAuthority, Claim, Prepare, Send, Await, Cleanup, Crash, Redeliver,
       RemoteStart, RemoteRefuse, RemoteEnd, ToggleFeature
  <2>. QED  BY <2>1 DEF budgetVars, B!vars
<1>. QED
  BY <1>1, <1>2, <1>3, <1>4, <1>5, <1>6, <1>7, <1>8, <1>9 DEF Next, WorkerStep

\* The lane with its workers, faults and judgements implements the abstract
\* ledger: no transaction of tasks.py writes the budget tables otherwise than
\* the functions of budgets.py do.
THEOREM LaneImplementsBudget == Spec => ImplementsBudget
<1>1. Init => B!Init
  BY DEF Init
<1>2. LaneInv /\ [Next]_vars => [B!Next]_B!vars
  <2>1. ASSUME LaneInv, UNCHANGED vars PROVE UNCHANGED B!vars
    BY <2>1 DEF vars, budgetVars, B!vars
  <2>. QED  BY <2>1, StepIsLedgerStep
<1>. QED  BY <1>1, <1>2, LaneInvariant, PTL DEF Spec, ImplementsBudget, B!Spec

-----------------------------------------------------------------------------
(* What the ledger proves of itself therefore holds in the lane.           *)

L == INSTANCE BudgetProofs WITH Runs <- Runs \cup Judgements

\* The lane's constants are what BudgetProofs assumes of the ledger's.
LEMMA LedgerConstants ==
    /\ L!RunsAssumption /\ L!ProfileAssumption /\ L!UnitAssumption
    /\ L!MonthsAssumption /\ L!TokensAssumption /\ L!NoneAssumption
BY LedgerAssumption DEF L!RunsAssumption, L!ProfileAssumption, L!UnitAssumption,
   L!MonthsAssumption, L!TokensAssumption, L!NoneAssumption, B!ProfileRow, L!ProfileRow,
   B!PeriodRow, L!PeriodRow, B!Reservation, L!Reservation, B!Statuses, L!Statuses, IsFiniteSet,
   L!IsFiniteSet

\* B and L are two names of one specification.
LEMMA SameLedger == (B!Init => L!Init) /\ (B!Next => L!Next) /\ B!vars = L!vars
<1>1. (B!Init => L!Init) /\ B!vars = L!vars
  BY DEF B!Init, L!Init, B!vars, L!vars
<1>2. B!Next => L!Next
  BY DEF B!Next, L!Next, B!ReserveBudget, L!ReserveBudget, B!SettleBudget, L!SettleBudget,
     B!ChargeReservedBudget, L!ChargeReservedBudget, B!ReleaseBudget, L!ReleaseBudget,
     B!ExpireReservations, L!ExpireReservations, B!ReservationExpires, L!ReservationExpires,
     B!NextMonth, L!NextMonth, B!CanReserve, L!CanReserve, B!Cost, L!Cost, B!Sum, L!Sum,
     B!Rows, L!Rows, B!ReservedCost, L!ReservedCost, B!PeriodForUpdate, L!PeriodForUpdate,
     B!Expirable, L!Expirable, B!Entry, L!Entry, B!ReleaseRows, L!ReleaseRows,
     B!ReleaseEntries, L!ReleaseEntries, B!StillReserved, L!StillReserved,
     B!SettleAt, L!SettleAt, B!IsReserved, L!IsReserved, B!Cardinality, L!Cardinality
<1>. QED  BY <1>1, <1>2

LEMMA SameProperties ==
    /\ L!TypeOK => B!TypeOK
    /\ L!Accounting => B!Accounting
    /\ L!WithinLimit => B!WithinLimit
<1>1. L!TypeOK => B!TypeOK
  BY DEF B!TypeOK, L!TypeOK, B!PeriodRow, L!PeriodRow, B!Reservation, L!Reservation,
     B!LedgerRow, L!LedgerRow, B!Statuses, L!Statuses
<1>2. L!Accounting => B!Accounting
  BY DEF B!Accounting, L!Accounting, B!Sum, L!Sum, B!Rows, L!Rows, B!ReservedCost,
     L!ReservedCost, B!SettledCost, L!SettledCost, B!Statuses, L!Statuses,
     B!Cardinality, L!Cardinality
<1>3. L!WithinLimit => B!WithinLimit
  BY DEF B!WithinLimit, L!WithinLimit
<1>. QED  BY <1>1, <1>2, <1>3

\* The lane, its faults and the judge together never overspend a month, and
\* its totals stay the sums of the reservations: the ledger's theorems carried
\* over by the refinement.
THEOREM LaneKeepsTheBooks == Spec => [](B!TypeOK /\ B!Accounting /\ B!WithinLimit)
<1>1. B!Init => L!Init
  BY SameLedger
<1>2. [B!Next]_B!vars => [L!Next]_L!vars
  BY SameLedger DEF B!vars, L!vars
<1>3. L!TypeOK /\ L!Accounting /\ L!WithinLimit => B!TypeOK /\ B!Accounting /\ B!WithinLimit
  BY SameProperties
<1>4. /\ L!RunsAssumption /\ L!ProfileAssumption /\ L!UnitAssumption
      /\ L!MonthsAssumption /\ L!TokensAssumption /\ L!NoneAssumption
  BY LedgerConstants
<1>5. Spec => L!Spec
  BY <1>1, <1>2, LaneImplementsBudget, PTL DEF ImplementsBudget, B!Spec, L!Spec
<1>6. L!Spec => []L!TypeOK
  BY <1>4, L!BudgetTypeCorrect, PTL
<1>7. L!Spec => []L!Accounting
  BY <1>4, L!TotalsAreSums, PTL
<1>8. L!Spec => []L!WithinLimit
  BY <1>4, L!MonthWithinLimit, PTL
<1>. QED  BY <1>3, <1>5, <1>6, <1>7, <1>8, PTL

-----------------------------------------------------------------------------
(* The money of a run: what its row, its control row, its reservation and   *)
(* its agent say of each other.                                            *)

\* A launch request has left a worker, or may still leave one.
Launched(r) ==
    \/ remote[r] # "none"
    \/ \E w \in Workers : Sender(w) /\ worker[w].run = r

Unreleased(r) == reservation[r] # None /\ reservation[r].status # "released"

Money(r) ==
    /\ run[r] \in Active => B!IsReserved(r)
    /\ run[r] \notin Active /\ B!IsReserved(r) => control[r].disabled
    /\ control[r].capability = "live" => run[r] = "running" \/ lane.disabled
    /\ run[r] = "succeeded" => ~control[r].cancel
    /\ run[r] = "none" => reservation[r] = None
    /\ Launched(r) => Unreleased(r)
    /\ control[r].disabled => lane.disabled

MoneyInv == \A r \in Runs : Money(r)

\* A run whose rows a step leaves alone.
LEMMA Untouched ==
    ASSUME NEW r \in Runs, Money(r), run'[r] = run[r], control'[r] = control[r],
           reservation'[r] = reservation[r], lane.disabled => lane'.disabled,
           Launched(r)' => Launched(r)
    PROVE  Money(r)'
BY DEF Money, B!IsReserved, Unreleased

\* Sweeps and reservations of others spare the runs that are Held, and the
\* others have nothing left to release.
LEMMA SweepSpares ==
    ASSUME NEW r \in Runs, Money(r), NEW m PROVE r \notin B!Expirable(m, Held)
BY DEF Money, B!Expirable, B!Rows, B!IsReserved, Held

LEMMA CostIsNat ==
    ASSUME NEW p \in Profiles, NEW i \in Nat, NEW o \in Nat PROVE B!Cost(p, i, o) \in Nat
<1>1. Profile[p].inPrice \in Nat /\ Profile[p].outPrice \in Nat
  BY LedgerAssumption DEF B!ProfileRow
<1>2. i * Profile[p].inPrice \in Nat /\ o * Profile[p].outPrice \in Nat
  BY <1>1
<1>. QED  BY <1>2, LedgerAssumption DEF B!Cost

LEMMA ReserveEffect ==
    ASSUME B!TypeOK, MoneyInv, NEW q \in Runs \cup Judgements, NEW p \in Profiles,
           NEW i \in Tokens, NEW o \in Tokens, B!ReserveBudget(q, p, i, o, Held)
    PROVE  /\ reservation[q] = None /\ B!IsReserved(q)'
           /\ \A r \in Runs \ {q} : reservation'[r] = reservation[r]
<1>1. B!Cost(p, i, o) \in Nat
  BY LedgerAssumption, CostIsNat
<1> DEFINE new == [status |-> "reserved", profile |-> p, month |-> month,
                   cost |-> B!Cost(p, i, o), settledCost |-> 0]
<1>2. new \in B!Reservation
  BY <1>1 DEF B!TypeOK, B!Reservation, B!Statuses
<1>3. reservation' = [B!ReleaseRows(B!Expirable(month, Held)) EXCEPT ![q] = new]
  BY DEF B!ReserveBudget
<1>4. reservation'[q] = new
  BY <1>3 DEF B!ReleaseRows
<1>5. B!IsReserved(q)'
  BY <1>2, <1>4, LedgerAssumption DEF B!IsReserved
<1>6. ASSUME NEW r \in Runs \ {q} PROVE reservation'[r] = reservation[r]
  <2>1. r \notin B!Expirable(month, Held)
    BY SweepSpares DEF MoneyInv
  <2>. QED  BY <1>3, <2>1 DEF B!ReleaseRows
<1>. QED  BY <1>5, <1>6 DEF B!ReserveBudget, B!CanReserve

LEMMA SweepEffect ==
    ASSUME MoneyInv, B!ExpireReservations(Held)
    PROVE  \A r \in Runs : reservation'[r] = reservation[r]
<1>1. \A r \in Runs : r \notin UNION {B!Expirable(m, Held) : m \in Months}
  BY SweepSpares DEF MoneyInv
<1>. QED  BY <1>1 DEF B!ExpireReservations, B!ReleaseRows

LEMMA SettleEffect ==
    ASSUME B!TypeOK, NEW q \in Runs \cup Judgements, B!IsReserved(q), NEW actual \in Nat,
           B!SettleAt(q, actual)
    PROVE  /\ reservation'[q] # None /\ reservation'[q].status = "settled"
           /\ \A r \in Runs \ {q} : reservation'[r] = reservation[r]
<1>1. reservation[q] \in B!Reservation
  BY DEF B!TypeOK, B!IsReserved
<1>2. reservation'[q] = [reservation[q] EXCEPT !.status = "settled", !.settledCost = actual]
  BY DEF B!TypeOK, B!SettleAt
<1>3. reservation'[q] \in B!Reservation /\ reservation'[q].status = "settled"
  BY <1>1, <1>2 DEF B!Reservation, B!Statuses
<1>4. \A r \in Runs \ {q} : reservation'[r] = reservation[r]
  BY DEF B!TypeOK, B!SettleAt
<1>. QED  BY <1>3, <1>4, LedgerAssumption

LEMMA SettleBudgetEffect ==
    ASSUME B!TypeOK, NEW q \in Runs \cup Judgements, NEW i \in Tokens, NEW o \in Tokens,
           B!SettleBudget(q, i, o)
    PROVE  /\ reservation'[q] # None /\ reservation'[q].status = "settled"
           /\ \A r \in Runs \ {q} : reservation'[r] = reservation[r]
<1>1. B!IsReserved(q) /\ reservation[q].profile \in Profiles
  BY DEF B!SettleBudget, B!IsReserved, B!TypeOK, B!Reservation
<1>2. B!Cost(reservation[q].profile, i, o) \in Nat
  BY <1>1, LedgerAssumption, CostIsNat
<1>. QED  BY <1>1, <1>2, SettleEffect DEF B!SettleBudget

LEMMA ReleaseEffect ==
    ASSUME B!TypeOK, NEW q \in Runs \cup Judgements, B!ReleaseBudget(q)
    PROVE  /\ reservation'[q] # None /\ reservation'[q].status = "released"
           /\ \A r \in Runs \ {q} : reservation'[r] = reservation[r]
<1>1. reservation[q] \in B!Reservation
  BY DEF B!TypeOK, B!IsReserved, B!ReleaseBudget
<1>2. reservation'[q] = [reservation[q] EXCEPT !.status = "released"]
  BY DEF B!ReleaseBudget, B!ReleaseRows
<1>3. reservation'[q] \in B!Reservation /\ reservation'[q].status = "released"
  BY <1>1, <1>2 DEF B!Reservation, B!Statuses
<1>4. \A r \in Runs \ {q} : reservation'[r] = reservation[r]
  BY DEF B!ReleaseBudget, B!ReleaseRows
<1>. QED  BY <1>3, <1>4, LedgerAssumption

\* Launches come from workers that had already set out to send.
LEMMA NoNewLaunch ==
    ASSUME NEW r \in Runs,
           \A w \in Workers : Sender(w)' => Sender(w) /\ worker'[w].run = worker[w].run,
           remote'[r] # "none" =>
               remote[r] # "none" \/ \E w \in Workers : Sender(w) /\ worker[w].run = r,
           Launched(r)'
    PROVE  Launched(r)
BY DEF Launched

LEMMA MoneyInit == Init => MoneyInv
BY DEF Init, B!Init, MoneyInv, Money, Launched, Sender, NewControl, IdleWorker, Active,
   B!IsReserved

\* Steps that write none of the rows a run's money depends on.
LEMMA MoneyQuiet ==
    ASSUME LaneInv, MoneyInv,
           \/ \E r \in Runs : Dispatch(r) \/ LoseAuthority(r)
           \/ \E w \in Workers : \/ Prepare(w) \/ Send(w) \/ Await(w) \/ Cleanup(w)
                                 \/ Crash(w) \/ Redeliver(w)
           \/ \E r \in Runs : RemoteStart(r) \/ RemoteRefuse(r) \/ RemoteEnd(r)
           \/ \E r \in Runs \cup Judgements : LeaseExpires(r)
           \/ ToggleFeature
    PROVE  MoneyInv'
<1>1. UNCHANGED <<run, control, lane, reservation>>
  BY DEF Dispatch, LoseAuthority, Prepare, Send, Await, Cleanup, Crash, Redeliver, RemoteStart,
     RemoteRefuse, RemoteEnd, LeaseExpires, ToggleFeature, B!ReservationExpires, budgetVars,
     dbVars
<1>2. \A w \in Workers : Sender(w)' => Sender(w) /\ worker'[w].run = worker[w].run
  <2>1. CASE UNCHANGED worker
    BY <2>1 DEF Sender
  <2>2. CASE \E w \in Workers : Prepare(w) \/ Send(w) \/ Await(w) \/ Cleanup(w) \/ Crash(w)
    BY <2>2 DEF Prepare, Send, Await, Cleanup, Crash, Go, Raise, Handler, IdleWorker, Sender,
       LaneInv, LaneTypeOK, WorkerState
  <2>. QED
    BY <2>1, <2>2 DEF Dispatch, LoseAuthority, Redeliver, RemoteStart, RemoteRefuse, RemoteEnd,
       LeaseExpires, ToggleFeature
<1>3. \A r \in Runs : remote'[r] # "none" =>
          remote[r] # "none" \/ \E w \in Workers : Sender(w) /\ worker[w].run = r
  <2>1. CASE UNCHANGED remote
    BY <2>1
  <2>2. CASE \E w \in Workers : Send(w)
    BY <2>2 DEF Send, Sender, LaneInv, LaneTypeOK, WorkerShape
  <2>3. CASE \E w \in Workers : Await(w) \/ Cleanup(w)
    BY <2>3 DEF Await, Cleanup, Known, LaneInv, LaneTypeOK
  <2>4. CASE \E r \in Runs : RemoteStart(r) \/ RemoteRefuse(r) \/ RemoteEnd(r)
    BY <2>4 DEF RemoteStart, RemoteRefuse, RemoteEnd, LaneInv, LaneTypeOK
  <2>. QED
    BY <2>1, <2>2, <2>3, <2>4 DEF Dispatch, LoseAuthority, Prepare, Crash, Redeliver,
       LeaseExpires, ToggleFeature
<1>. QED  BY <1>1, <1>2, <1>3, NoNewLaunch, Untouched DEF MoneyInv

\* What the judge and the sweep do to the ledger concerns no run of the lane.
LEMMA MoneyOthers ==
    ASSUME B!TypeOK, MoneyInv,
           (\E j \in Judgements : JudgeReserves(j) \/ JudgeCloses(j)) \/ ExpireReservations
    PROVE  MoneyInv'
<1>1. UNCHANGED <<run, control, lane, worker, remote>>
  BY DEF JudgeReserves, JudgeCloses, ExpireReservations, dbVars
<1>2. \A r \in Runs : reservation'[r] = reservation[r]
  <2>1. ASSUME NEW j \in Judgements, JudgeReserves(j)
        PROVE  \A r \in Runs : reservation'[r] = reservation[r]
    BY <2>1, ReserveEffect, LaneProfileAssumption, JudgementsAssumption DEF JudgeReserves
  <2>2. ASSUME NEW j \in Judgements, JudgeCloses(j)
        PROVE  \A r \in Runs : reservation'[r] = reservation[r]
    BY <2>2, ReleaseEffect, SettleBudgetEffect, JudgementsAssumption DEF JudgeCloses
  <2>3. CASE ExpireReservations
    BY <2>3, SweepEffect DEF ExpireReservations
  <2>. QED  BY <2>1, <2>2, <2>3
<1>3. \A r \in Runs : Launched(r)' => Launched(r)
  BY <1>1 DEF Launched, Sender
<1>. QED  BY <1>1, <1>2, <1>3, Untouched DEF MoneyInv

LEMMA MoneyStart ==
    ASSUME LaneInv, B!TypeOK, MoneyInv, NEW k \in Keys, NEW r \in Runs, StartHermesRun(k, r)
    PROVE  MoneyInv'
<1>1. /\ run[r] = "none" /\ run' = [run EXCEPT ![r] = "queued"]
      /\ lane' = [lane EXCEPT !.activeRun = r]
      /\ UNCHANGED <<control, worker, remote>>
      /\ ~lane.disabled
  BY DEF StartHermesRun, QueueHermesRun
<1>2. B!IsReserved(r)' /\ \A q \in Runs \ {r} : reservation'[q] = reservation[q]
  BY ReserveEffect, LaneProfileAssumption, CeilingAssumption DEF StartHermesRun, QueueHermesRun
<1>3. lane'.disabled = lane.disabled
  BY <1>1 DEF LaneInv, LaneTypeOK
<1>4. ASSUME NEW q \in Runs \ {r} PROVE Money(q)'
  <2>1. run'[q] = run[q] /\ (Launched(q)' => Launched(q))
    BY <1>1 DEF LaneInv, LaneTypeOK, Launched, Sender
  <2>. QED  BY <1>1, <1>2, <1>3, <2>1, Untouched DEF MoneyInv
<1>5. Money(r)'
  <2>1. run'[r] = "queued"
    BY <1>1 DEF LaneInv, LaneTypeOK
  <2>2. control'[r].capability # "live" /\ ~control'[r].disabled
    BY <1>1 DEF MoneyInv, Money
  <2>3. Unreleased(r)'
    BY <1>2 DEF Unreleased, B!IsReserved
  <2>. QED  BY <1>2, <2>1, <2>2, <2>3 DEF Money, Active
<1>. QED  BY <1>4, <1>5 DEF MoneyInv

LEMMA MoneyClaim ==
    ASSUME LaneInv, MoneyInv, NEW w \in Workers, NEW r \in Runs, Claim(w, r)
    PROVE  MoneyInv'
<1>1. UNCHANGED <<lane, reservation, remote>>
  BY DEF Claim, budgetVars
<1>2. CASE /\ UNCHANGED <<run, control>>
           /\ \/ UNCHANGED worker
              \/ \E o, b, d : worker' = [worker EXCEPT ![w] = Handler(r, o, b, d, FALSE)]
  <2>1. \A v \in Workers : Sender(v)' => Sender(v) /\ worker'[v].run = worker[v].run
    BY <1>2 DEF Sender, Handler, LaneInv, LaneTypeOK
  <2>. QED  BY <1>1, <1>2, <2>1, NoNewLaunch, Untouched DEF MoneyInv
<1>3. CASE /\ run[r] = "queued"
           /\ run' = [run EXCEPT ![r] = "running"]
           /\ control' = [control EXCEPT ![r].capability = "live"]
           /\ \E s \in {[IdleWorker EXCEPT !.pc = "execute", !.run = r, !.billable = TRUE],
                        Handler(r, "failed", FALSE, FALSE, FALSE)} :
                  worker' = [worker EXCEPT ![w] = s]
  <2>1. \A v \in Workers : v # w => worker'[v] = worker[v]
    BY <1>3 DEF LaneInv, LaneTypeOK
  <2>2. worker'[w].run = r
    <3>1. PICK s \in {[IdleWorker EXCEPT !.pc = "execute", !.run = r, !.billable = TRUE],
                     Handler(r, "failed", FALSE, FALSE, FALSE)} :
                worker' = [worker EXCEPT ![w] = s]
      BY <1>3
    <3>2. [IdleWorker EXCEPT !.pc = "execute", !.run = r, !.billable = TRUE].run = r
      BY DEF IdleWorker
    <3>3. Handler(r, "failed", FALSE, FALSE, FALSE).run = r
      BY DEF Handler
    <3>. QED  BY <3>1, <3>2, <3>3 DEF LaneInv, LaneTypeOK
  <2>3. ASSUME NEW q \in Runs \ {r} PROVE Money(q)'
    <3>1. run'[q] = run[q] /\ control'[q] = control[q]
      BY <1>3 DEF LaneInv, LaneTypeOK
    <3>2. Launched(q)' => Launched(q)
      BY <1>1, <2>1, <2>2 DEF Launched, Sender
    <3>. QED  BY <1>1, <3>1, <3>2, Untouched DEF MoneyInv
  <2>4. Money(r)'
    <3>1. /\ run'[r] = "running" /\ control'[r].capability = "live"
          /\ control'[r].cancel = control[r].cancel /\ control'[r].disabled = control[r].disabled
      BY <1>3 DEF LaneInv, LaneTypeOK, Rows
    <3>2. B!IsReserved(r)
      BY <1>3 DEF MoneyInv, Money, Active
    <3>3. B!IsReserved(r)' /\ Unreleased(r)'
      BY <1>1, <3>2 DEF B!IsReserved, Unreleased
    <3>. QED  BY <1>1, <3>1, <3>3 DEF MoneyInv, Money, Active
  <2>. QED  BY <2>3, <2>4 DEF MoneyInv
<1>. QED  BY <1>2, <1>3 DEF Claim

\* _terminal on an active run: a capability it could not revoke and books it
\* could not close are covered by the quarantine, and only a run that was still
\* queued gets its money back.
LEMMA MoneyTerminal ==
    ASSUME LaneInv, B!TypeOK, MoneyInv, NEW r \in Runs, run[r] \in Active,
           NEW o \in {"failed", "cancelled"}, NEW b \in BOOLEAN, NEW a \in BOOLEAN,
           NEW c \in {"none", "live", "revoked"}, NEW d \in BOOLEAN, NEW x \in BOOLEAN,
           Terminal(r, o, b, a, c, d, x), c = "live" => d, ~b => run[r] = "queued",
           \A w \in Workers : Sender(w)' => Sender(w) /\ worker'[w].run = worker[w].run,
           UNCHANGED remote
    PROVE  MoneyInv'
<1>1. B!IsReserved(r)
  BY DEF MoneyInv, Money
<1>2. /\ run'[r] = o /\ \A q \in Runs \ {r} : run'[q] = run[q]
      /\ control'[r] = [cancel |-> x, capability |-> c,
                        disabled |-> control[r].disabled \/ d \/ ~a]
      /\ \A q \in Runs \ {r} : control'[q] = control[q]
      /\ lane'.disabled = (lane.disabled \/ d \/ ~a)
  BY DEF Terminal, LaneInv, LaneTypeOK
<1>3. /\ \A q \in Runs \ {r} : reservation'[q] = reservation[q]
      /\ a => reservation'[r] # None /\ reservation'[r].status # "reserved"
      /\ b \/ ~a => Unreleased(r)'
  <2>1. CASE ~a
    <3>1. UNCHANGED reservation
      BY <2>1 DEF Terminal, budgetVars
    <3>. QED  BY <1>1, <2>1, <3>1 DEF Unreleased, B!IsReserved
  <2>2. CASE a /\ b
    <3>1. B!ChargeReservedBudget(r)
      BY <1>1, <2>2 DEF Terminal
    <3>2. reservation[r].cost \in Nat
      BY <1>1 DEF B!IsReserved, B!TypeOK, B!Reservation
    <3>3. B!SettleAt(r, reservation[r].cost)
      BY <3>1 DEF B!ChargeReservedBudget
    <3>. QED  BY <1>1, <2>2, <3>2, <3>3, SettleEffect DEF Unreleased
  <2>3. CASE a /\ ~b
    <3>1. B!ReleaseBudget(r)
      BY <1>1, <2>3 DEF Terminal
    <3>. QED  BY <2>3, <3>1, ReleaseEffect
  <2>. QED  BY <2>1, <2>2, <2>3
<1>4. \A q \in Runs : Launched(q)' => Launched(q)
  BY NoNewLaunch
<1>5. ASSUME NEW q \in Runs \ {r} PROVE Money(q)'
  BY <1>2, <1>3, <1>4, Untouched DEF MoneyInv
<1>6. Money(r)'
  <2>1. Launched(r)' => Unreleased(r)'
    <3>1. run[r] = "queued" => ~Launched(r)
      BY DEF LaneInv, ClaimedFirst, WorkerShape, Launched, Sender
    <3>. QED  BY <1>3, <1>4, <3>1
  <2>2. B!IsReserved(r)' => ~a
    BY <1>3 DEF B!IsReserved
  <2>3. control[r].disabled => lane.disabled
    BY DEF MoneyInv, Money
  <2>4. /\ control'[r].capability = c
        /\ control'[r].disabled = (control[r].disabled \/ d \/ ~a)
    BY <1>2
  <2>5. control'[r].disabled <=> control[r].disabled \/ d \/ ~a
    BY <2>4, Zenon
  <2>6. lane'.disabled <=> lane.disabled \/ d \/ ~a
    BY <1>2, Zenon
  <2>7. run'[r] \notin Active \cup {"none", "succeeded"}
    BY <1>2 DEF Active
  <2>. QED  BY <2>1, <2>2, <2>3, <2>4, <2>5, <2>6, <2>7 DEF Money
<1>. QED  BY <1>5, <1>6 DEF MoneyInv

LEMMA MoneyFinish ==
    ASSUME LaneInv, B!TypeOK, MoneyInv, NEW r \in Runs, NEW o \in {"failed", "cancelled"},
           NEW b \in BOOLEAN, NEW c \in BOOLEAN, Finish(r, o, b, c),
           \A w \in Workers : Sender(w)' => Sender(w) /\ worker'[w].run = worker[w].run,
           UNCHANGED remote
    PROVE  MoneyInv'
<1>1. CASE run[r] \notin Active
  BY <1>1, NoNewLaunch, Untouched DEF Finish, budgetVars, MoneyInv
<1>2. CASE run[r] \in Active
  <2> DEFINE contradicted == run[r] = "running" /\ ~b
             clean(v) == c /\ ~contradicted /\ v
             final(v) == IF clean(v) /\ control[r].cancel THEN "cancelled" ELSE o
             cap(v) == IF v THEN Revoked(r) ELSE control[r].capability
  <2>1. PICK v \in BOOLEAN, a \in BOOLEAN :
          Terminal(r, final(v), b \/ contradicted, a, cap(v), ~clean(v), control[r].cancel)
    BY <1>2 DEF Finish
  <2>2. /\ final(v) \in {"failed", "cancelled"} /\ cap(v) \in {"none", "live", "revoked"}
        /\ cap(v) = "live" => ~clean(v)
        /\ control[r].cancel \in BOOLEAN
    BY DEF Revoked, LaneInv, LaneTypeOK, Rows
  <2>3. ~(b \/ contradicted) => run[r] = "queued"
    BY <1>2 DEF Active
  <2>. HIDE DEF contradicted, clean, final, cap
  <2>4. PICK bb \in BOOLEAN, d \in BOOLEAN : bb = (b \/ contradicted) /\ d = ~clean(v)
    BY DEF contradicted, clean
  <2>5. PICK f \in {"failed", "cancelled"}, k \in {"none", "live", "revoked"}, x \in BOOLEAN :
          f = final(v) /\ k = cap(v) /\ x = control[r].cancel
    BY <2>2
  <2>6. Terminal(r, f, bb, a, k, d, x)
    BY <2>1, <2>4, <2>5
  <2>7. (k = "live" => d) /\ (~bb => run[r] = "queued")
    BY <2>2, <2>3, <2>4, <2>5
  <2>. QED  BY <1>2, <2>6, <2>7, MoneyTerminal, ZenonT(60)
<1>. QED  BY <1>1, <1>2

LEMMA MoneyDispatchFailed ==
    ASSUME LaneInv, B!TypeOK, MoneyInv, NEW r \in Runs, DispatchFailed(r) PROVE MoneyInv'
<1>1. UNCHANGED <<worker, remote>>
  BY DEF DispatchFailed
<1>2. \A w \in Workers : Sender(w)' => Sender(w) /\ worker'[w].run = worker[w].run
  BY <1>1 DEF Sender
<1>3. CASE Finish(r, "failed", FALSE, TRUE)
  BY <1>1, <1>2, <1>3, MoneyFinish
<1>4. CASE UNCHANGED <<budgetVars, run, control, lane>>
  BY <1>1, <1>2, <1>4, NoNewLaunch, Untouched DEF budgetVars, MoneyInv
<1>. QED  BY <1>3, <1>4 DEF DispatchFailed

LEMMA MoneyFinishRun ==
    ASSUME LaneInv, B!TypeOK, MoneyInv, NEW w \in Workers, FinishRun(w) PROVE MoneyInv'
<1>1. UNCHANGED remote
  BY DEF FinishRun
<1>2. \A v \in Workers : Sender(v)' => Sender(v) /\ worker'[v].run = worker[v].run
  BY DEF FinishRun, Sender, IdleWorker, LaneInv, LaneTypeOK
<1>3. PICK r \in Runs, o \in {"failed", "cancelled"}, b \in BOOLEAN, c \in BOOLEAN :
        r = worker[w].run /\ o = worker[w].outcome /\ b = worker[w].billable /\ c = worker[w].cleanupOk
  BY DEF FinishRun, LaneInv, WorkerShape, LaneTypeOK, WorkerState
<1>4. CASE Finish(worker[w].run, worker[w].outcome, worker[w].billable, worker[w].cleanupOk)
  <2>1. Finish(r, o, b, c)
    BY <1>3, <1>4
  <2>. QED  BY <1>1, <1>2, <2>1, MoneyFinish
<1>5. CASE UNCHANGED <<budgetVars, run, control, lane>>
  BY <1>1, <1>2, <1>5, NoNewLaunch, Untouched DEF budgetVars, MoneyInv
<1>. QED  BY <1>4, <1>5 DEF FinishRun

\* cancel_hermes_run ends a queued run and only marks a running one.
LEMMA MoneyCancel ==
    ASSUME LaneInv, B!TypeOK, MoneyInv, NEW r \in Runs, CancelHermesRun(r) PROVE MoneyInv'
<1>1. UNCHANGED <<worker, remote>>
  BY DEF CancelHermesRun
<1>2. \A w \in Workers : Sender(w)' => Sender(w) /\ worker'[w].run = worker[w].run
  BY <1>1 DEF Sender
<1> DEFINE cap(v) == IF v THEN Revoked(r) ELSE control[r].capability
<1>3. PICK v \in BOOLEAN, a \in BOOLEAN :
        IF run[r] = "queued"
          THEN Terminal(r, "cancelled", FALSE, a, cap(v), ~v, TRUE)
          ELSE /\ control' = [control EXCEPT ![r] =
                      [cancel |-> TRUE, capability |-> cap(v), disabled |-> @.disabled \/ ~v]]
               /\ lane' = [lane EXCEPT !.disabled = @ \/ ~v]
               /\ UNCHANGED <<budgetVars, run>>
  BY DEF CancelHermesRun
<1>4. /\ cap(v) \in {"none", "live", "revoked"} /\ (cap(v) = "live" => ~v)
      /\ cap(v) = "live" => control[r].capability = "live"
  BY DEF Revoked, LaneInv, LaneTypeOK, Rows
<1>. HIDE DEF cap
<1>5. CASE run[r] = "queued"
  <2>1. PICK k \in {"none", "live", "revoked"}, d \in BOOLEAN : k = cap(v) /\ d = ~v
    BY <1>4
  <2>2. Terminal(r, "cancelled", FALSE, a, k, d, TRUE)
    BY <1>3, <1>5, <2>1
  <2>3. (k = "live" => d) /\ run[r] \in Active
    BY <1>4, <1>5, <2>1 DEF Active
  <2>. QED  BY <1>1, <1>2, <1>5, <2>2, <2>3, MoneyTerminal, ZenonT(60)
<1>6. CASE run[r] # "queued"
  <2>1. run[r] = "running"
    BY <1>6 DEF CancelHermesRun, Active
  <2>2. /\ control'[r].capability = cap(v)
        /\ \A q \in Runs \ {r} : control'[q] = control[q]
        /\ UNCHANGED <<reservation, run>>
    BY <1>3, <1>6 DEF LaneInv, LaneTypeOK, budgetVars
  <2>3. /\ lane.disabled => lane'.disabled
        /\ control'[r].disabled => control[r].disabled \/ lane'.disabled
    BY <1>3, <1>6 DEF LaneInv, LaneTypeOK, Rows
  <2>4. \A q \in Runs : Launched(q)' => Launched(q)
    BY <1>1, <1>2, NoNewLaunch
  <2>5. ASSUME NEW q \in Runs \ {r} PROVE Money(q)'
    BY <2>2, <2>3, <2>4, Untouched DEF MoneyInv
  <2>6. Money(r)'
    BY <2>1, <2>2, <2>3, <2>4 DEF MoneyInv, Money, Active, B!IsReserved, Unreleased
  <2>. QED  BY <2>5, <2>6 DEF MoneyInv
<1>. QED  BY <1>5, <1>6

\* The result is accepted: _check has just found no cancellation.
LEMMA MoneyAccept ==
    ASSUME LaneInv, B!TypeOK, MoneyInv, NEW w \in Workers, Accept(w) PROVE MoneyInv'
<1>1. UNCHANGED remote
  BY DEF Accept
<1>2. \A v \in Workers : Sender(v)' => Sender(v) /\ worker'[v].run = worker[v].run
  <2>1. \/ worker' = [worker EXCEPT ![w] = IdleWorker]
        \/ \E o, q : Raise(w, o, q)
    BY DEF Accept, ResultRefused
  <2>. QED  BY <2>1 DEF Raise, Handler, Sender, IdleWorker, LaneInv, LaneTypeOK
<1>3. \A q \in Runs : Launched(q)' => Launched(q)
  BY <1>1, <1>2, NoNewLaunch
<1>4. PICK r \in Runs : r = worker[w].run
  BY DEF Accept, LaneInv, WorkerShape
<1>5. CASE UNCHANGED <<budgetVars, dbVars>>
  BY <1>3, <1>5, Untouched DEF budgetVars, dbVars, MoneyInv
<1>6. CASE /\ Check(r, TRUE) = "ok"
           /\ \E i, o \in Tokens : B!SettleBudget(r, i, o)
           /\ run' = [run EXCEPT ![r] = "succeeded"]
           /\ control' = [control EXCEPT ![r].capability = "revoked"]
           /\ lane' = [lane EXCEPT !.activeRun = None]
  <2>1. /\ reservation'[r] # None /\ reservation'[r].status = "settled"
        /\ \A q \in Runs \ {r} : reservation'[q] = reservation[q]
    BY <1>6, SettleBudgetEffect
  <2>2. /\ run'[r] = "succeeded" /\ \A q \in Runs \ {r} : run'[q] = run[q]
        /\ control'[r].capability = "revoked"
        /\ control'[r].cancel = control[r].cancel /\ control'[r].disabled = control[r].disabled
        /\ \A q \in Runs \ {r} : control'[q] = control[q]
        /\ lane'.disabled = lane.disabled
    BY <1>6 DEF LaneInv, LaneTypeOK, Rows
  <2>3. ~control[r].cancel
    BY <1>6 DEF Check
  <2>4. ASSUME NEW q \in Runs \ {r} PROVE Money(q)'
    BY <1>3, <2>1, <2>2, Untouched DEF MoneyInv
  <2>5. Money(r)'
    BY <2>1, <2>2, <2>3 DEF MoneyInv, Money, Active, B!IsReserved, Unreleased
  <2>. QED  BY <2>4, <2>5 DEF MoneyInv
<1>. QED  BY <1>4, <1>5, <1>6 DEF Accept

LEMMA MoneyNext == LaneInv /\ B!TypeOK /\ MoneyInv /\ [Next]_vars => MoneyInv'
<1> SUFFICES ASSUME LaneInv, B!TypeOK, MoneyInv, [Next]_vars PROVE MoneyInv'
  OBVIOUS
<1>1. CASE \E k \in Keys, r \in Runs : StartHermesRun(k, r)
  BY <1>1, MoneyStart
<1>2. CASE \E r \in Runs : DispatchFailed(r) \/ CancelHermesRun(r)
  BY <1>2, MoneyDispatchFailed, MoneyCancel
<1>3. CASE \E w \in Workers, r \in Runs : Claim(w, r)
  BY <1>3, MoneyClaim
<1>4. CASE \E w \in Workers : Accept(w) \/ FinishRun(w)
  BY <1>4, MoneyAccept, MoneyFinishRun
<1>5. CASE (\E j \in Judgements : JudgeReserves(j) \/ JudgeCloses(j)) \/ ExpireReservations
  BY <1>5, MoneyOthers
<1>6. CASE \/ \E r \in Runs : Dispatch(r) \/ LoseAuthority(r)
           \/ \E w \in Workers : \/ Prepare(w) \/ Send(w) \/ Await(w) \/ Cleanup(w)
                                 \/ Crash(w) \/ Redeliver(w)
           \/ \E r \in Runs : RemoteStart(r) \/ RemoteRefuse(r) \/ RemoteEnd(r)
           \/ \E r \in Runs \cup Judgements : LeaseExpires(r)
           \/ ToggleFeature
  BY <1>6, MoneyQuiet
<1>7. CASE UNCHANGED vars
  BY <1>7, Untouched DEF vars, dbVars, budgetVars, MoneyInv, Launched, Sender
<1>. QED
  BY <1>1, <1>2, <1>3, <1>4, <1>5, <1>6, <1>7 DEF Next, WorkerStep

\* What a run's rows, its reservation and its agent say of each other holds
\* in every reachable state of tasks.py and its workers.
THEOREM MoneyInvariant == Spec => []MoneyInv
<1>1. LaneInv /\ B!TypeOK /\ B!Accounting /\ B!WithinLimit /\ MoneyInv /\ [Next]_vars => MoneyInv'
  BY MoneyNext
<1>. QED  BY <1>1, MoneyInit, LaneInvariant, LaneKeepsTheBooks, PTL DEF Spec

\* An admitted run stays funded: no sweep, month's end or judgement takes its
\* reservation while it is queued or running, also past its expiry.
THEOREM RunStaysFunded == Spec => []ActiveRunIsFunded
<1>1. MoneyInv => ActiveRunIsFunded
  BY DEF MoneyInv, Money, ActiveRunIsFunded
<1>. QED  BY <1>1, MoneyInvariant, PTL

\* Once a launch request has left a worker the run's reservation is never
\* released, whatever _finish is told about it.
THEOREM SpentStaysSpent == Spec => []SpentNeverReleased
<1>1. MoneyInv => SpentNeverReleased
  BY DEF MoneyInv, Money, SpentNeverReleased, Launched, Unreleased
<1>. QED  BY <1>1, MoneyInvariant, PTL

\* A run that ended leaves neither an open reservation nor a live capability
\* behind, unless the lane was quarantined for it.
THEOREM NothingIsLeft == Spec => []NothingOutlivesTheRun
<1>1. MoneyInv => NothingOutlivesTheRun
  BY DEF MoneyInv, Money, NothingOutlivesTheRun
<1>. QED  BY <1>1, MoneyInvariant, PTL

\* A run whose cancellation was accepted never succeeds.
THEOREM CancellationWins == Spec => []CancelWins
<1>1. MoneyInv => CancelWins
  BY DEF MoneyInv, Money, CancelWins
<1>. QED  BY <1>1, MoneyInvariant, PTL

\* No step moves a run that has ended, or writes to its reservation again.
LEMMA EndedStep ==
    ASSUME LaneInv, B!TypeOK, MoneyInv, [Next]_vars,
           NEW r \in Runs, run[r] \notin Active \cup {"none"}
    PROVE  run'[r] = run[r] /\ reservation'[r] = reservation[r]
<1>1. CASE \E k \in Keys, q \in Runs : StartHermesRun(k, q)
  <2>1. PICK q \in Runs :
          /\ run[q] = "none" /\ run' = [run EXCEPT ![q] = "queued"]
          /\ B!ReserveBudget(q, LaneProfile, Profile[LaneProfile].maxIn,
                             Profile[LaneProfile].maxOut, Held)
    BY <1>1 DEF StartHermesRun, QueueHermesRun
  <2>2. r # q
    BY <2>1
  <2>. QED
    BY <2>1, <2>2, ReserveEffect, LaneProfileAssumption, CeilingAssumption DEF LaneInv,
       LaneTypeOK
<1>2. ASSUME NEW q \in Runs, run[q] \in Active, NEW o, NEW b \in BOOLEAN, NEW a \in BOOLEAN,
             NEW c, NEW d, NEW x, Terminal(q, o, b, a, c, d, x)
      PROVE  run'[r] = run[r] /\ reservation'[r] = reservation[r]
  <2>1. r # q
    BY <1>2
  <2>2. run'[r] = run[r]
    BY <1>2, <2>1 DEF Terminal, LaneInv, LaneTypeOK
  <2>3. CASE UNCHANGED budgetVars
    BY <2>2, <2>3 DEF budgetVars
  <2>4. CASE B!ChargeReservedBudget(q)
    BY <2>1, <2>2, <2>4 DEF B!ChargeReservedBudget, B!SettleAt, B!TypeOK
  <2>5. CASE B!ReleaseBudget(q)
    BY <2>1, <2>2, <2>5, ReleaseEffect
  <2>. QED  BY <1>2, <2>3, <2>4, <2>5 DEF Terminal
<1>3. ASSUME NEW q \in Runs, NEW o, NEW b \in BOOLEAN, NEW c \in BOOLEAN, Finish(q, o, b, c)
      PROVE  run'[r] = run[r] /\ reservation'[r] = reservation[r]
  <2>1. CASE run[q] \notin Active
    BY <1>3, <2>1 DEF Finish, budgetVars
  <2>2. CASE run[q] \in Active
    BY <1>2, <1>3, <2>2 DEF Finish
  <2>. QED  BY <2>1, <2>2
<1>4. CASE \E q \in Runs : DispatchFailed(q)
  BY <1>3, <1>4 DEF DispatchFailed, budgetVars
<1>5. CASE \E q \in Runs : CancelHermesRun(q)
  BY <1>2, <1>5 DEF CancelHermesRun, budgetVars
<1>6. CASE \E w \in Workers, q \in Runs : Claim(w, q)
  <2>1. UNCHANGED reservation
    BY <1>6 DEF Claim, budgetVars
  <2>2. run' = run \/ \E q \in Runs : run[q] = "queued" /\ run' = [run EXCEPT ![q] = "running"]
    BY <1>6 DEF Claim
  <2>. QED  BY <2>1, <2>2 DEF LaneInv, LaneTypeOK, Active
<1>7. CASE \E w \in Workers : Accept(w)
  <2>1. PICK w \in Workers : Accept(w)
    BY <1>7
  <2>2. worker[w].run \in Runs
    BY <2>1 DEF Accept, LaneInv, WorkerShape
  <2>3. CASE UNCHANGED <<budgetVars, dbVars>>
    BY <2>3 DEF budgetVars, dbVars
  <2>4. CASE /\ run[worker[w].run] = "running"
             /\ run' = [run EXCEPT ![worker[w].run] = "succeeded"]
             /\ \E i, o \in Tokens : B!SettleBudget(worker[w].run, i, o)
    <3>1. r # worker[w].run
      BY <2>4 DEF Active
    <3>. QED  BY <2>2, <2>4, <3>1, SettleBudgetEffect DEF LaneInv, LaneTypeOK
  <2>. QED  BY <2>1, <2>3, <2>4 DEF Accept
<1>8. CASE \E w \in Workers : FinishRun(w)
  <2>1. PICK w \in Workers : FinishRun(w)
    BY <1>8
  <2>2. worker[w].run \in Runs /\ worker[w].billable \in BOOLEAN /\ worker[w].cleanupOk \in BOOLEAN
    BY <2>1 DEF FinishRun, LaneInv, WorkerShape, LaneTypeOK, WorkerState
  <2>. QED  BY <1>3, <2>1, <2>2 DEF FinishRun, budgetVars
<1>9. CASE \E j \in Judgements : JudgeReserves(j) \/ JudgeCloses(j)
  <2>1. run' = run
    BY <1>9 DEF JudgeReserves, JudgeCloses, dbVars
  <2>. QED
    BY <1>9, <2>1, ReserveEffect, ReleaseEffect, SettleBudgetEffect, LaneProfileAssumption,
       JudgementsAssumption DEF JudgeReserves, JudgeCloses
<1>10. CASE ExpireReservations
  BY <1>10, SweepEffect DEF ExpireReservations, dbVars
<1>11. CASE \/ \E q \in Runs : Dispatch(q) \/ LoseAuthority(q)
            \/ \E w \in Workers : \/ Prepare(w) \/ Send(w) \/ Await(w) \/ Cleanup(w)
                                  \/ Crash(w) \/ Redeliver(w)
            \/ \E q \in Runs : RemoteStart(q) \/ RemoteRefuse(q) \/ RemoteEnd(q)
            \/ \E q \in Runs \cup Judgements : LeaseExpires(q)
            \/ ToggleFeature
            \/ UNCHANGED vars
  BY <1>11 DEF Dispatch, LoseAuthority, Prepare, Send, Await, Cleanup, Crash, Redeliver,
     RemoteStart,
     RemoteRefuse, RemoteEnd, LeaseExpires, ToggleFeature, B!ReservationExpires, budgetVars,
     dbVars, vars
<1>. QED
  BY <1>1, <1>4, <1>5, <1>6, <1>7, <1>8, <1>9, <1>10, <1>11 DEF Next, WorkerStep

\* A run moves only forward: an ended run is never revived, relabelled or
\* charged again by a late worker, a redelivery or a lost acknowledgement.
THEOREM EndedStaysEnded == Spec => EndedForGood
<1>1. LaneInv /\ B!TypeOK /\ B!Accounting /\ B!WithinLimit /\ MoneyInv /\ [Next]_vars =>
        [\A r \in Runs : run[r] \notin Active \cup {"none"} =>
            run'[r] = run[r] /\ reservation'[r] = reservation[r]]_vars
  BY EndedStep
<1>. QED  BY <1>1, MoneyInvariant, LaneInvariant, LaneKeepsTheBooks, PTL DEF Spec, EndedForGood

-----------------------------------------------------------------------------
(* The lane implements RemoteAgent: a run is launched once.  The fact that  *)
(* makes it so is that whoever is about to send a run's launch finds that   *)
(* none has been sent, because only the claim of a queued run makes a       *)
(* sender, and a queued run has never had an agent.                         *)

BeforeLaunch(w) == worker[w].pc \in {"execute", "send"}

NotLaunchedYet == \A w \in Workers : BeforeLaunch(w) => remote[worker[w].run] = "none"

\* What a worker's step does to the agent of a run: it sends the run's launch,
\* or learns that the agent has ended.
LEMMA WorkerMovesAgent ==
    ASSUME LaneInv, NEW w \in Workers, WorkerStep(w)
    PROVE  /\ worker[w].run \in Runs
           /\ \/ remote' = remote
              \/ worker[w].pc = "send" /\ remote' = [remote EXCEPT ![worker[w].run] = "sent"]
              \/ /\ remote[worker[w].run] \in {"alive", "ended"}
                 /\ remote' = [remote EXCEPT ![worker[w].run] = "ended"]
<1>1. worker[w].pc # "idle"
  BY DEF WorkerStep, Prepare, Send, Await, Accept, Cleanup, FinishRun
<1>2. worker[w].run \in Runs
  BY <1>1 DEF LaneInv, WorkerShape
<1>. QED
  BY <1>2 DEF WorkerStep, Prepare, Send, Await, Accept, Cleanup, FinishRun, Known

\* And to the worker itself: only a sender that found everything in order is
\* still about to send.
LEMMA WorkerMovesOn ==
    ASSUME LaneInv, NEW w \in Workers, WorkerStep(w)
    PROVE  /\ \A v \in Workers : v # w => worker'[v] = worker[v]
           /\ BeforeLaunch(w)' =>
                  /\ worker[w].pc = "execute"
                  /\ worker'[w].run = worker[w].run
                  /\ UNCHANGED remote
<1>t. worker \in [Workers -> WorkerState]
  BY DEF LaneInv, LaneTypeOK
<1>1. ASSUME NEW pc, Go(w, pc)
      PROVE  /\ \A v \in Workers : v # w => worker'[v] = worker[v]
             /\ worker'[w].pc = pc /\ worker'[w].run = worker[w].run
  BY <1>t, <1>1 DEF Go, WorkerState
<1>2. ASSUME NEW o, NEW q, Raise(w, o, q)
      PROVE  /\ \A v \in Workers : v # w => worker'[v] = worker[v]
             /\ ~BeforeLaunch(w)'
  BY <1>t, <1>2 DEF Raise, Handler, BeforeLaunch
<1>3. ASSUME worker' = [worker EXCEPT ![w] = IdleWorker]
      PROVE  /\ \A v \in Workers : v # w => worker'[v] = worker[v]
             /\ ~BeforeLaunch(w)'
  BY <1>t, <1>3 DEF IdleWorker, BeforeLaunch
<1>4. CASE Prepare(w)
  <2>1. worker[w].pc = "execute" /\ UNCHANGED remote
    BY <1>4 DEF Prepare
  <2>2. Go(w, "send") \/ Raise(w, "cancelled", FALSE) \/ Raise(w, "failed", FALSE)
    BY <1>4 DEF Prepare
  <2>. QED  BY <1>1, <1>2, <2>1, <2>2
<1>5. CASE Send(w)
  BY <1>1, <1>5 DEF Send, BeforeLaunch
<1>6. CASE Await(w)
  <2>1. Go(w, "accept") \/ Raise(w, "cancelled", FALSE) \/ Raise(w, "failed", FALSE)
    BY <1>6 DEF Await
  <2>2. CASE Go(w, "accept")
    BY <1>1, <2>2 DEF BeforeLaunch
  <2>. QED  BY <1>2, <2>1, <2>2
<1>7. CASE Accept(w)
  <2>1. (\E o, q : Raise(w, o, q)) \/ worker' = [worker EXCEPT ![w] = IdleWorker]
    BY <1>7 DEF Accept, ResultRefused
  <2>. QED  BY <1>2, <1>3, <2>1
<1>8. CASE Cleanup(w)
  <2>1. \E ok : worker' = [worker EXCEPT ![w].pc = "finish", ![w].cleanupOk = ok]
    BY <1>8 DEF Cleanup
  <2>. QED  BY <1>t, <2>1 DEF BeforeLaunch, WorkerState
<1>9. CASE FinishRun(w)
  BY <1>3, <1>9 DEF FinishRun
<1>. QED  BY <1>4, <1>5, <1>6, <1>7, <1>8, <1>9 DEF WorkerStep

\* Whoever is about to send a run's launch is its only owner.
LEMMA OneSender ==
    ASSUME LaneInv, NEW w \in Workers, NEW v \in Workers,
           BeforeLaunch(w), BeforeLaunch(v), worker[w].run = worker[v].run
    PROVE  w = v
  BY DEF LaneInv, WorkerShape, OneOwner, Owner, Sender, BeforeLaunch

LEMMA NotLaunchedYetNext ==
    ASSUME LaneInv, NotLaunchedYet, [Next]_vars
    PROVE  NotLaunchedYet'
<1>t. worker \in [Workers -> WorkerState] /\ DOMAIN remote = Runs
  BY DEF LaneInv, LaneTypeOK
<1>1. CASE UNCHANGED <<worker, remote>>
  BY <1>1 DEF NotLaunchedYet, BeforeLaunch
<1>2. CASE \E w \in Workers, r \in Runs : Claim(w, r)
  <2>1. PICK w \in Workers, r \in Runs : Claim(w, r)
    BY <1>2
  <2>2. UNCHANGED remote
    BY <2>1 DEF Claim
  <2>3. \A v \in Workers : v # w => worker'[v] = worker[v]
    BY <1>t, <2>1 DEF Claim
  <2>4. worker'[w] = worker[w] \/ ~BeforeLaunch(w)' \/ (worker'[w].run = r /\ run[r] = "queued")
    <3>1. ASSUME NEW o, NEW b \in BOOLEAN, NEW d, NEW q,
                 worker' = [worker EXCEPT ![w] = Handler(r, o, b, d, q)]
          PROVE  ~BeforeLaunch(w)'
      BY <1>t, <3>1 DEF Handler, BeforeLaunch
    <3>2. ASSUME worker' = [worker EXCEPT ![w] =
                     [IdleWorker EXCEPT !.pc = "execute", !.run = r, !.billable = TRUE]]
          PROVE  worker'[w].run = r
      BY <1>t, <3>2 DEF IdleWorker
    <3>3. \/ UNCHANGED worker
          \/ worker' = [worker EXCEPT ![w] = Handler(r, "failed", TRUE, TRUE, FALSE)]
          \/ \E o : worker' = [worker EXCEPT ![w] = Handler(r, o, FALSE, FALSE, FALSE)]
          \/ /\ run[r] = "queued"
             /\ worker' = [worker EXCEPT ![w] =
                    [IdleWorker EXCEPT !.pc = "execute", !.run = r, !.billable = TRUE]]
      BY <2>1 DEF Claim
    <3>. QED  BY <3>1, <3>2, <3>3
  <2>5. run[r] = "queued" => remote[r] = "none"
    BY DEF LaneInv, ClaimedFirst
  <2>. QED  BY <2>2, <2>3, <2>4, <2>5 DEF NotLaunchedYet, BeforeLaunch
<1>3. CASE \E w \in Workers : WorkerStep(w)
  <2>1. PICK w \in Workers : WorkerStep(w)
    BY <1>3
  <2>2. /\ worker[w].run \in Runs
        /\ \/ remote' = remote
           \/ worker[w].pc = "send" /\ remote' = [remote EXCEPT ![worker[w].run] = "sent"]
           \/ /\ remote[worker[w].run] \in {"alive", "ended"}
              /\ remote' = [remote EXCEPT ![worker[w].run] = "ended"]
    BY <2>1, WorkerMovesAgent
  <2>3. ASSUME NEW v \in Workers, v # w, BeforeLaunch(v)'
        PROVE  remote'[worker'[v].run] = "none"
    <3>1. worker'[v] = worker[v] /\ BeforeLaunch(v)
      BY <2>1, <2>3, WorkerMovesOn DEF BeforeLaunch
    <3>2. remote[worker[v].run] = "none"
      BY <3>1 DEF NotLaunchedYet
    <3>3. worker[w].pc = "send" => worker[v].run # worker[w].run
      BY <2>3, <3>1, OneSender DEF BeforeLaunch
    <3>4. worker[v].run \in Runs
      BY <3>1 DEF LaneInv, WorkerShape, BeforeLaunch
    <3>. QED  BY <1>t, <2>2, <3>1, <3>2, <3>3, <3>4
  <2>4. BeforeLaunch(w)' => remote'[worker'[w].run] = "none"
    BY <2>1, WorkerMovesOn DEF NotLaunchedYet, BeforeLaunch
  <2>. QED  BY <2>3, <2>4 DEF NotLaunchedYet
<1>4. CASE \E w \in Workers : Crash(w)
  <2>1. PICK w \in Workers : worker' = [worker EXCEPT ![w] = IdleWorker] /\ UNCHANGED remote
    BY <1>4 DEF Crash
  <2>. QED  BY <1>t, <2>1 DEF NotLaunchedYet, BeforeLaunch, IdleWorker
<1>5. CASE \E r \in Runs : RemoteStart(r) \/ RemoteRefuse(r) \/ RemoteEnd(r)
  <2>1. PICK r \in Runs, x \in {"alive", "refused", "ended"} :
            /\ remote[r] # "none" /\ remote' = [remote EXCEPT ![r] = x]
            /\ UNCHANGED worker
    BY <1>5 DEF RemoteStart, RemoteRefuse, RemoteEnd
  <2>. QED  BY <1>t, <2>1 DEF NotLaunchedYet, BeforeLaunch
<1>6. CASE \/ \E k \in Keys, r \in Runs : StartHermesRun(k, r)
           \/ \E r \in Runs : Dispatch(r) \/ DispatchFailed(r) \/ CancelHermesRun(r)
           \/ \E w \in Workers : Redeliver(w)
           \/ \E r \in Runs : LoseAuthority(r)
           \/ \E r \in Runs \cup Judgements : LeaseExpires(r)
           \/ \E j \in Judgements : JudgeReserves(j) \/ JudgeCloses(j)
           \/ ExpireReservations
           \/ ToggleFeature
           \/ UNCHANGED vars
  BY <1>1, <1>6 DEF StartHermesRun, QueueHermesRun, Dispatch, DispatchFailed, CancelHermesRun,
     Redeliver, LoseAuthority, LeaseExpires, JudgeReserves, JudgeCloses, ExpireReservations,
     ToggleFeature, vars
<1>. QED  BY <1>2, <1>3, <1>4, <1>5, <1>6 DEF Next

\* Every step of the lane is a step of RemoteAgent or leaves the agents alone.
LEMMA StepIsAgentStep ==
    ASSUME LaneInv, NotLaunchedYet, [Next]_vars
    PROVE  [Agent!Next]_remote
<1>t. DOMAIN remote = Runs /\ remote = [r \in Runs |-> remote[r]]
  BY DEF LaneInv, LaneTypeOK
<1>1. CASE \E w \in Workers : WorkerStep(w)
  <2>1. PICK w \in Workers : WorkerStep(w)
    BY <1>1
  <2>2. /\ worker[w].run \in Runs
        /\ \/ remote' = remote
           \/ worker[w].pc = "send" /\ remote' = [remote EXCEPT ![worker[w].run] = "sent"]
           \/ /\ remote[worker[w].run] \in {"alive", "ended"}
              /\ remote' = [remote EXCEPT ![worker[w].run] = "ended"]
    BY <2>1, WorkerMovesAgent
  <2>3. CASE worker[w].pc = "send" /\ remote' = [remote EXCEPT ![worker[w].run] = "sent"]
    <3>1. remote[worker[w].run] = "none"
      BY <2>3 DEF NotLaunchedYet, BeforeLaunch
    <3>. QED  BY <2>2, <2>3, <3>1 DEF Agent!Next, Agent!Send, Agent!Becomes
  <2>4. CASE /\ remote[worker[w].run] = "alive"
             /\ remote' = [remote EXCEPT ![worker[w].run] = "ended"]
    BY <2>2, <2>4 DEF Agent!Next, Agent!End, Agent!Becomes
  <2>5. CASE /\ remote[worker[w].run] = "ended"
             /\ remote' = [remote EXCEPT ![worker[w].run] = "ended"]
    <3>1. remote' = remote
      BY <1>t, <2>2, <2>5
    <3>. QED  BY <3>1
  <2>. QED  BY <2>2, <2>3, <2>4, <2>5
<1>2. CASE \E r \in Runs : RemoteStart(r) \/ RemoteRefuse(r) \/ RemoteEnd(r)
  BY <1>2 DEF RemoteStart, RemoteRefuse, RemoteEnd, Agent!Next, Agent!Accept, Agent!Refuse,
     Agent!End, Agent!Becomes
<1>3. CASE \/ \E k \in Keys, r \in Runs : StartHermesRun(k, r)
           \/ \E r \in Runs : Dispatch(r) \/ DispatchFailed(r) \/ CancelHermesRun(r)
           \/ \E w \in Workers, r \in Runs : Claim(w, r)
           \/ \E w \in Workers : Crash(w) \/ Redeliver(w)
           \/ \E r \in Runs : LoseAuthority(r)
           \/ \E r \in Runs \cup Judgements : LeaseExpires(r)
           \/ \E j \in Judgements : JudgeReserves(j) \/ JudgeCloses(j)
           \/ ExpireReservations
           \/ ToggleFeature
           \/ UNCHANGED vars
  <2>1. UNCHANGED remote
    BY <1>3 DEF StartHermesRun, QueueHermesRun, Dispatch, DispatchFailed, CancelHermesRun,
       Claim,
       Crash, Redeliver, LoseAuthority, LeaseExpires, JudgeReserves, JudgeCloses,
       ExpireReservations, ToggleFeature, vars
  <2>. QED  BY <2>1
<1>. QED  BY <1>1, <1>2, <1>3 DEF Next

\* Launches and agents as the lane handles them implement RemoteAgent: each run
\* is launched at most once and its agent ends for good, however often its
\* delivery is repeated and wherever its workers crash.
THEOREM LaneLaunchesOnce == Spec => LaunchedOnce
<1>1. Init => NotLaunchedYet /\ Agent!Init
  BY DEF Init, NotLaunchedYet, BeforeLaunch, IdleWorker, Agent!Init
<1>2. LaneInv /\ NotLaunchedYet /\ [Next]_vars => NotLaunchedYet' /\ [Agent!Next]_remote
  BY NotLaunchedYetNext, StepIsAgentStep
<1>. QED
  BY <1>1, <1>2, LaneInvariant, PTL DEF Spec, LaunchedOnce, Agent!Spec

=============================================================================
