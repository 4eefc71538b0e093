--------------------------- MODULE McpBrokerProofs ---------------------------
(***************************************************************************)
(* Proofs about LaunchLoop and the agent's broker, for any number of       *)
(* revisions, tabs, refreshes, approvals, runs and proposals: packages and *)
(* deliveries follow the revision and the approval they belong to, and     *)
(* what a run proposed, and was accepted, stays what it was.  Two parts    *)
(* about the agent's surroundings follow: Connections, whose credentials   *)
(* the reviewed writes of its proposals use, and ModelGateway, where the   *)
(* durable ledger books whatever inferences the transport has admitted.    *)
(***************************************************************************)
EXTENDS McpBroker, Connections, ModelGateway, FiniteSetTheorems, TLAPS

WorkflowRow == [status : {"none", "draft", "needs_input", "ready_for_review", "in_review",
                          "completed"},
                version : Nat, complete : BOOLEAN, package : Nat, snapshot : Nat]
ApprovalRow == [status : {"none", "pending", "rejected", "approved"}, id : Nat, hash : Nat,
                seen : [id : Nat, hash : Nat]]

WorkflowTypeOK ==
    /\ workflow \in [Kinds -> WorkflowRow]
    /\ approval \in ApprovalRow
    /\ approvals \in Nat
    /\ delivered \subseteq [id : Nat, hash : Nat, package : Nat]
    /\ page \in [Tabs -> [id : Nat, hash : Nat]]
    /\ newest \in Nat
    /\ source \in Nat
    /\ fetched \in [Refreshers -> Nat]
    /\ selecting \in Nat

\* A workflow that exists is at a revision.
VersionInv == \A k \in Kinds : workflow[k].status # "none" => workflow[k].version # 0

LaunchInv == WorkflowTypeOK /\ VersionInv /\ PackageIsOfItsRevision /\ DeliveredAsApproved

Proposal == [run : Runs, content : Contents]
RunRow == [status : {"none", "queued", "running", "succeeded", "failed"},
           kind : Kinds \cup {"none"}, revision : Nat]
Operation == [kind : Kinds \cup {"none"}, revision : Nat, action : RequiredOperations,
              proposal : Proposal]

BrokerTypeOK ==
    /\ run \in [Runs -> RunRow]
    /\ capability \in [Runs -> {"none", "live", "expired", "revoked"}]
    /\ proposals \subseteq Proposal
    /\ operations \subseteq Operation
    /\ busy \subseteq Kinds
    /\ pinned \subseteq Kinds

\* An accepted run's capability is revoked, whatever its child still tries, and
\* the proposals made so far are finitely many.
AcceptedInv ==
    /\ IsFiniteSet(proposals)
    /\ \A r \in Runs : run[r].status = "succeeded" => capability[r] = "revoked"

BrokerInv ==
    LaunchInv /\ BrokerTypeOK /\ AcceptedInv /\ AcceptedIsWhole /\ OneOperationPerIntent

-----------------------------------------------------------------------------
(* The workflow.                                                           *)

\* One row is replaced by a good one, and nothing else is touched.
LEMMA RowReplaced ==
    ASSUME LaunchInv, NEW k \in Kinds, NEW w \in WorkflowRow,
           workflow' = [workflow EXCEPT ![k] = w],
           w.status # "none" => w.version # 0,
           w.package \in {0, w.version},
           w.status \in {"ready_for_review", "in_review", "completed"} =>
             w.package # 0 /\ w.complete,
           newest' = newest, source' = source, fetched' = fetched, selecting' \in {0, selecting},
           approval' \in ApprovalRow, approvals' \in Nat,
           delivered' \subseteq [id : Nat, hash : Nat, package : Nat],
           page' = page,
           DeliveredAsApproved'
    PROVE  LaunchInv'
  <1>1. WorkflowTypeOK'
    BY DEF LaunchInv, WorkflowTypeOK
  <1>2. VersionInv'
    BY DEF LaunchInv, WorkflowTypeOK, VersionInv
  <1>3. PackageIsOfItsRevision'
    BY DEF LaunchInv, WorkflowTypeOK, PackageIsOfItsRevision
  <1> QED BY <1>1, <1>2, <1>3 DEF LaunchInv

\* Only the provider's side moves.
LEMMA PilotMoves ==
    ASSUME LaunchInv, UNCHANGED launchVars,
           newest' \in Nat, source' \in Nat, fetched' \in [Refreshers -> Nat],
           selecting' \in Nat
    PROVE  LaunchInv'
  BY DEF LaunchInv, WorkflowTypeOK, VersionInv, PackageIsOfItsRevision, DeliveredAsApproved,
         launchVars

LEMMA DemoSteps ==
    ASSUME LaunchInv
    PROVE  /\ ResetDemo => LaunchInv'
           /\ AnswerQuestions => LaunchInv'
           /\ SubmitWorkflow => LaunchInv'
  <1> USE DEF Kinds
  <1>0. workflow["synthetic"] \in WorkflowRow
    BY DEF LaunchInv, WorkflowTypeOK
  <1>1. ASSUME ResetDemo PROVE LaunchInv'
    <2> DEFINE w == [NoWorkflow EXCEPT !.status = "draft", !.version = 1]
    <2>1. w \in WorkflowRow /\ w.status = "draft" /\ w.version = 1 /\ w.package = 0
      BY DEF NoWorkflow, WorkflowRow
    <2>7. w.version # 0
      BY <2>1
    <2>2. workflow' = [workflow EXCEPT !["synthetic"] = w]
      BY <1>1 DEF ResetDemo
    <2>3. approval' = NoApproval /\ delivered' = {} /\ UNCHANGED <<approvals, page, pilotVars>>
      BY <1>1 DEF ResetDemo
    <2>4. workflow'["synthetic"].status = "draft"
      BY <2>1, <2>2 DEF LaunchInv, WorkflowTypeOK
    <2>5. DeliveredAsApproved' /\ delivered' \subseteq [id : Nat, hash : Nat, package : Nat]
      BY <2>3, <2>4 DEF DeliveredAsApproved, NoApproval
    <2>6. approval' \in ApprovalRow /\ approvals' \in Nat
      BY <2>3 DEF LaunchInv, WorkflowTypeOK, NoApproval, NoPage, ApprovalRow
    <2> HIDE DEF w
    <2> QED BY <2>1, <2>2, <2>3, <2>5, <2>6, <2>7, RowReplaced DEF pilotVars
  <1>2. ASSUME AnswerQuestions PROVE LaunchInv'
    <2>1. PICK rest \in BOOLEAN :
            LET complete == workflow["synthetic"].complete \/ rest IN
            workflow' = [workflow EXCEPT !["synthetic"] =
                Revised("synthetic", complete, IF complete THEN "draft" ELSE "needs_input", 0)]
      BY <1>2 DEF AnswerQuestions
    <2> DEFINE complete == workflow["synthetic"].complete \/ rest
               w == Revised("synthetic", complete, IF complete THEN "draft" ELSE "needs_input", 0)
    <2>2. /\ w \in WorkflowRow
          /\ w.status \in {"draft", "needs_input"}
          /\ w.version # 0
          /\ w.package = 0
      BY <1>0 DEF Revised, WorkflowRow
    <2>3. workflow' = [workflow EXCEPT !["synthetic"] = w]
      BY <2>1
    <2> HIDE DEF w, complete
    <2>4. approval' = NoApproval /\ UNCHANGED <<approvals, delivered, page, pilotVars>>
      BY <1>2 DEF AnswerQuestions
    <2>5. workflow'["synthetic"].status \in {"draft", "needs_input"}
      BY <2>2, <2>3 DEF LaunchInv, WorkflowTypeOK
    <2>6. delivered = {}
      BY <1>2 DEF AnswerQuestions, LaunchInv, DeliveredAsApproved
    <2>7. DeliveredAsApproved'
      BY <2>4, <2>5, <2>6 DEF DeliveredAsApproved, NoApproval
    <2>8. /\ approval' \in ApprovalRow
          /\ approvals' \in Nat
          /\ delivered' \subseteq [id : Nat, hash : Nat, package : Nat]
      BY <2>4, <2>6 DEF LaunchInv, WorkflowTypeOK, NoApproval, NoPage, ApprovalRow
    <2> QED BY <2>2, <2>3, <2>4, <2>7, <2>8, RowReplaced DEF pilotVars
  <1>3. ASSUME SubmitWorkflow PROVE LaunchInv'
    <2> DEFINE w == [workflow["synthetic"] EXCEPT !.status = "in_review"]
    <2>1. /\ w \in WorkflowRow
          /\ w.status = "in_review"
          /\ w.version = workflow["synthetic"].version
          /\ w.complete = workflow["synthetic"].complete
          /\ w.package = workflow["synthetic"].package
      BY <1>0 DEF WorkflowRow
    <2>2. workflow' = [workflow EXCEPT !["synthetic"] = w]
      BY <1>3 DEF SubmitWorkflow, LaunchInv, WorkflowTypeOK
    <2> HIDE DEF w
    <2>3. /\ workflow["synthetic"].status = "ready_for_review"
          /\ approval.status = "none"
          /\ approval' = [status |-> "pending", id |-> approvals + 1,
                          hash |-> workflow["synthetic"].package, seen |-> NoPage]
          /\ approvals' = approvals + 1
          /\ UNCHANGED <<delivered, page, pilotVars>>
      BY <1>3 DEF SubmitWorkflow
    <2>4. workflow'["synthetic"] = w
      BY <2>2 DEF LaunchInv, WorkflowTypeOK
    <2>5. delivered = {}
      BY <2>3 DEF LaunchInv, DeliveredAsApproved
    <2>6. DeliveredAsApproved'
      BY <2>1, <2>3, <2>4, <2>5 DEF DeliveredAsApproved
    <2>7. approval' \in ApprovalRow /\ approvals' \in Nat
      BY <1>0, <2>3 DEF LaunchInv, WorkflowTypeOK, ApprovalRow, WorkflowRow, NoPage
    <2>8. delivered' \subseteq [id : Nat, hash : Nat, package : Nat]
      BY <2>3, <2>5
    <2>9. /\ w.version # 0
          /\ w.package \in {0, w.version}
          /\ w.package # 0 /\ w.complete
      BY <2>1, <2>3 DEF LaunchInv, VersionInv, PackageIsOfItsRevision
    <2> QED BY <2>1, <2>2, <2>3, <2>6, <2>7, <2>8, <2>9, RowReplaced DEF pilotVars
  <1> QED BY <1>1, <1>2, <1>3

LEMMA ReviewSteps ==
    ASSUME LaunchInv, NEW t \in Tabs
    PROVE  /\ OpenReview(t) => LaunchInv'
           /\ Reject(t) => LaunchInv'
           /\ Approve(t) => LaunchInv'
  <1> USE DEF Kinds
  <1>0. workflow["synthetic"] \in WorkflowRow /\ approval \in ApprovalRow
    BY DEF LaunchInv, WorkflowTypeOK
  <1>00. ASSUME MayDecide(t)
         PROVE  page[t] = [id |-> approval.id, hash |-> approval.hash]
    <2>1. page[t] \in [id : Nat, hash : Nat]
      BY DEF LaunchInv, WorkflowTypeOK
    <2>2. page[t].id = approval.id /\ page[t].hash = approval.hash
      BY <1>00 DEF MayDecide
    <2> QED BY <2>1, <2>2
  <1>1. ASSUME OpenReview(t) PROVE LaunchInv'
    <2>1. [id |-> approval.id, hash |-> approval.hash] \in [id : Nat, hash : Nat]
      BY <1>0 DEF ApprovalRow
    <2>2. page' \in [Tabs -> [id : Nat, hash : Nat]]
      BY <1>1, <2>1 DEF OpenReview, LaunchInv, WorkflowTypeOK
    <2> QED BY <1>1, <2>2 DEF OpenReview, LaunchInv, WorkflowTypeOK, VersionInv,
               PackageIsOfItsRevision, DeliveredAsApproved, pilotVars
  <1>2. ASSUME Reject(t) PROVE LaunchInv'
    <2> DEFINE w == [workflow["synthetic"] EXCEPT !.package = 0, !.status = "needs_input"]
    <2>1. /\ w \in WorkflowRow
          /\ w.status = "needs_input"
          /\ w.version = workflow["synthetic"].version
          /\ w.package = 0
      BY <1>0 DEF WorkflowRow
    <2>2. workflow' = [workflow EXCEPT !["synthetic"] = w]
      BY <1>2 DEF Reject, LaunchInv, WorkflowTypeOK
    <2> HIDE DEF w
    <2>3. /\ approval.status = "pending"
          /\ approval' = [approval EXCEPT !.status = "rejected", !.seen = page[t]]
          /\ page[t] = [id |-> approval.id, hash |-> approval.hash]
          /\ UNCHANGED <<approvals, delivered, page, pilotVars>>
      BY <1>2, <1>00 DEF Reject, MayDecide
    <2>4. workflow'["synthetic"] = w
      BY <2>2 DEF LaunchInv, WorkflowTypeOK
    <2>5. delivered = {} /\ workflow["synthetic"].status = "in_review"
      BY <2>3 DEF LaunchInv, DeliveredAsApproved
    <2>6. /\ approval' \in ApprovalRow
          /\ approval'.status = "rejected"
          /\ approval'.seen = [id |-> approval'.id, hash |-> approval'.hash]
          /\ approvals' \in Nat
      BY <1>0, <2>3 DEF ApprovalRow, LaunchInv, WorkflowTypeOK
    <2>7. DeliveredAsApproved'
      BY <2>1, <2>3, <2>4, <2>5, <2>6 DEF DeliveredAsApproved
    <2>8. delivered' \subseteq [id : Nat, hash : Nat, package : Nat]
      BY <2>3, <2>5
    <2>9. w.version # 0
      BY <2>1, <2>5 DEF LaunchInv, VersionInv
    <2> QED BY <2>1, <2>2, <2>3, <2>6, <2>7, <2>8, <2>9, RowReplaced DEF pilotVars
  <1>3. ASSUME Approve(t) PROVE LaunchInv'
    <2> DEFINE w == [workflow["synthetic"] EXCEPT !.status = "completed"]
    <2>1. /\ w \in WorkflowRow
          /\ w.status = "completed"
          /\ w.version = workflow["synthetic"].version
          /\ w.complete = workflow["synthetic"].complete
          /\ w.package = workflow["synthetic"].package
      BY <1>0 DEF WorkflowRow
    <2>2. workflow' = [workflow EXCEPT !["synthetic"] = w]
      BY <1>3 DEF Approve, LaunchInv, WorkflowTypeOK
    <2> HIDE DEF w
    <2>3. /\ approval.status = "pending"
          /\ approval' = [approval EXCEPT !.status = "approved", !.seen = page[t]]
          /\ page[t] = [id |-> approval.id, hash |-> approval.hash]
          /\ delivered' = delivered \cup {[id |-> approval.id, hash |-> approval.hash,
                                           package |-> workflow["synthetic"].package]}
          /\ UNCHANGED <<approvals, page, pilotVars>>
      BY <1>3, <1>00 DEF Approve, MayDecide
    <2>4. workflow'["synthetic"] = w
      BY <2>2 DEF LaunchInv, WorkflowTypeOK
    <2>5. /\ delivered = {}
          /\ workflow["synthetic"].status = "in_review"
          /\ approval.hash = workflow["synthetic"].package
      BY <2>3 DEF LaunchInv, DeliveredAsApproved
    <2>6. /\ approval' \in ApprovalRow
          /\ approval'.status = "approved"
          /\ approval'.id = approval.id
          /\ approval'.hash = approval.hash
          /\ approval'.seen = [id |-> approval'.id, hash |-> approval'.hash]
          /\ approvals' \in Nat
      BY <1>0, <2>3 DEF ApprovalRow, LaunchInv, WorkflowTypeOK
    <2>7. delivered' = {[id |-> approval'.id, hash |-> approval'.hash,
                         package |-> approval'.hash]}
      BY <2>3, <2>5, <2>6
    <2>8. DeliveredAsApproved'
      BY <2>1, <2>4, <2>6, <2>7 DEF DeliveredAsApproved
    <2>9. delivered' \subseteq [id : Nat, hash : Nat, package : Nat]
      BY <2>6, <2>7 DEF ApprovalRow
    <2>10. w.version # 0 /\ w.package \in {0, w.version} /\ w.package # 0 /\ w.complete
      BY <2>1, <2>5 DEF LaunchInv, VersionInv, PackageIsOfItsRevision
    <2> QED BY <2>1, <2>2, <2>3, <2>6, <2>8, <2>9, <2>10, RowReplaced DEF pilotVars
  <1> QED BY <1>1, <1>2, <1>3

\* An owner's event changes: the approval and its workflow are not concerned.
LEMMA OwnerRowReplaced ==
    ASSUME LaunchInv, NEW k \in {"manual", "eventbrite"}, NEW w \in WorkflowRow,
           workflow' = [workflow EXCEPT ![k] = w],
           w.version # 0, w.package = 0, w.status = "draft",
           newest' = newest, source' = source, fetched' = fetched, selecting' \in {0, selecting},
           UNCHANGED <<approval, approvals, delivered, page>>
    PROVE  LaunchInv'
  <1>1. workflow'["synthetic"] = workflow["synthetic"]
    BY DEF LaunchInv, WorkflowTypeOK, Kinds
  <1>2. DeliveredAsApproved'
    BY <1>1 DEF LaunchInv, DeliveredAsApproved
  <1>3. /\ k \in Kinds
        /\ approval' \in ApprovalRow
        /\ approvals' \in Nat
        /\ delivered' \subseteq [id : Nat, hash : Nat, package : Nat]
    BY DEF LaunchInv, WorkflowTypeOK, Kinds
  <1> QED BY <1>2, <1>3, RowReplaced

LEMMA EventSteps ==
    ASSUME LaunchInv
    PROVE  /\ \A k \in Kinds : RunWorkflow(k) => LaunchInv'
           /\ StartManualEvent => LaunchInv'
           /\ \A k \in Kinds : UpdateEventFacts(k) => LaunchInv'
           /\ WriteSelection => LaunchInv'
  <1>1. ASSUME NEW k \in Kinds, RunWorkflow(k) PROVE LaunchInv'
    <2> DEFINE w == Prepared(workflow[k])
    <2>0. workflow[k] \in WorkflowRow
      BY DEF LaunchInv, WorkflowTypeOK
    <2>1. w \in WorkflowRow
      BY <2>0 DEF Prepared, WorkflowRow
    <2>2. /\ w.status \in {"ready_for_review", "needs_input"}
          /\ w.status = "ready_for_review" => w.complete
          /\ w.version = workflow[k].version
          /\ w.package = w.version
      BY <2>0 DEF Prepared, WorkflowRow
    <2>3. workflow' = [workflow EXCEPT ![k] = w]
      BY <1>1 DEF RunWorkflow
    <2> HIDE DEF w
    <2>4. /\ workflow[k].status = "draft"
          /\ UNCHANGED <<approval, approvals, delivered, page, pilotVars>>
      BY <1>1 DEF RunWorkflow
    <2>5. w.version # 0
      BY <2>2, <2>4 DEF LaunchInv, VersionInv
    <2>6. DeliveredAsApproved'
      <3>1. CASE k = "synthetic"
        <4>1. workflow'["synthetic"] = w
          BY <2>3, <3>1 DEF LaunchInv, WorkflowTypeOK
        <4>2. approval.status = "none" /\ delivered = {}
          BY <2>4, <3>1 DEF LaunchInv, WorkflowTypeOK, DeliveredAsApproved, ApprovalRow
        <4> QED BY <2>2, <2>4, <4>1, <4>2 DEF DeliveredAsApproved
      <3>2. CASE k # "synthetic"
        <4>1. workflow'["synthetic"] = workflow["synthetic"]
          BY <2>3, <3>2 DEF LaunchInv, WorkflowTypeOK, Kinds
        <4> QED BY <2>4, <4>1 DEF LaunchInv, DeliveredAsApproved
      <3> QED BY <3>1, <3>2
    <2>7. /\ approval' \in ApprovalRow
          /\ approvals' \in Nat
          /\ delivered' \subseteq [id : Nat, hash : Nat, package : Nat]
      BY <2>4 DEF LaunchInv, WorkflowTypeOK
    <2> QED BY <2>1, <2>2, <2>3, <2>4, <2>5, <2>6, <2>7, RowReplaced DEF pilotVars
  <1>2. ASSUME NEW k \in Kinds, NEW complete \in BOOLEAN, NEW snapshot \in Nat
        PROVE  /\ Revised(k, complete, "draft", snapshot) \in WorkflowRow
               /\ Revised(k, complete, "draft", snapshot).version # 0
               /\ Revised(k, complete, "draft", snapshot).package = 0
               /\ Revised(k, complete, "draft", snapshot).status = "draft"
    <2>1. workflow[k] \in WorkflowRow
      BY DEF LaunchInv, WorkflowTypeOK
    <2> QED BY <2>1 DEF Revised, WorkflowRow
  <1>3. ASSUME StartManualEvent PROVE LaunchInv'
    <2>1. PICK complete \in BOOLEAN :
            workflow' = [workflow EXCEPT !["manual"] = Revised("manual", complete, "draft", 0)]
      BY <1>3 DEF StartManualEvent, ValidFacts
    <2>2. UNCHANGED <<approval, approvals, delivered, page, pilotVars>>
      BY <1>3 DEF StartManualEvent
    <2>3. "manual" \in Kinds /\ 0 \in Nat
      BY DEF Kinds
    <2> QED BY <1>2, <2>1, <2>2, <2>3, OwnerRowReplaced DEF pilotVars
  <1>4. ASSUME NEW k \in Kinds, UpdateEventFacts(k) PROVE LaunchInv'
    <2>1. PICK complete \in BOOLEAN :
            workflow' = [workflow EXCEPT ![k] =
                           Revised(k, complete, "draft", workflow[k].snapshot)]
      BY <1>4 DEF UpdateEventFacts, ValidFacts
    <2>2. /\ k \in {"manual", "eventbrite"}
          /\ UNCHANGED <<approval, approvals, delivered, page, pilotVars>>
      BY <1>4 DEF UpdateEventFacts
    <2>3. PICK snapshot \in Nat : snapshot = workflow[k].snapshot
      BY DEF LaunchInv, WorkflowTypeOK, WorkflowRow
    <2> DEFINE w == Revised(k, complete, "draft", snapshot)
    <2>4. w \in WorkflowRow /\ w.version # 0 /\ w.package = 0 /\ w.status = "draft"
      BY <1>2
    <2>5. workflow' = [workflow EXCEPT ![k] = w]
      BY <2>1, <2>3
    <2> HIDE DEF w
    <2> QED BY <2>2, <2>4, <2>5, OwnerRowReplaced DEF pilotVars
  <1>5. ASSUME WriteSelection PROVE LaunchInv'
    <2>1. /\ workflow' = [workflow EXCEPT !["eventbrite"] =
                            Revised("eventbrite", FALSE, "draft", selecting)]
          /\ selecting' = 0
          /\ UNCHANGED <<approval, approvals, delivered, page, newest, source, fetched>>
      BY <1>5 DEF WriteSelection
    <2> DEFINE w == Revised("eventbrite", FALSE, "draft", selecting)
    <2>2. workflow["eventbrite"] \in WorkflowRow /\ selecting \in Nat
      BY DEF Kinds, LaunchInv, WorkflowTypeOK
    <2>3. w \in WorkflowRow /\ w.version # 0 /\ w.package = 0 /\ w.status = "draft"
      BY <2>2 DEF Revised, WorkflowRow
    <2>4. workflow' = [workflow EXCEPT !["eventbrite"] = w]
      BY <2>1
    <2> HIDE DEF w
    <2>5. /\ selecting' \in {0, selecting}
          /\ newest' = newest
          /\ source' = source
          /\ fetched' = fetched
          /\ UNCHANGED <<approval, approvals, delivered, page>>
      BY <2>1
    <2>6. PICK k \in {"manual", "eventbrite"} : k = "eventbrite"
      OBVIOUS
    <2> QED BY <2>3, <2>4, <2>5, <2>6, OwnerRowReplaced
  <1> QED BY <1>1, <1>3, <1>4, <1>5

LEMMA PilotSteps ==
    ASSUME LaunchInv
    PROVE  /\ ProviderChanges => LaunchInv'
           /\ ReadSelection => LaunchInv'
           /\ AbortSelection => LaunchInv'
           /\ \A r \in Refreshers : FetchEvents(r) => LaunchInv'
           /\ \A r \in Refreshers : RefreshEvents(r) => LaunchInv'
  <1>0. newest \in Nat /\ source \in Nat /\ fetched \in [Refreshers -> Nat] /\ selecting \in Nat
    BY DEF LaunchInv, WorkflowTypeOK
  <1>1. ASSUME ProviderChanges PROVE LaunchInv'
    BY <1>0, <1>1, PilotMoves DEF ProviderChanges
  <1>2. ASSUME ReadSelection PROVE LaunchInv'
    BY <1>0, <1>2, PilotMoves DEF ReadSelection
  <1>3. ASSUME NEW r \in Refreshers, FetchEvents(r) PROVE LaunchInv'
    BY <1>0, <1>3, PilotMoves DEF FetchEvents, ListPage
  <1>4. ASSUME NEW r \in Refreshers, RefreshEvents(r) PROVE LaunchInv'
    BY <1>0, <1>4, PilotMoves DEF RefreshEvents
  <1>5. ASSUME AbortSelection PROVE LaunchInv'
    BY <1>0, <1>5, PilotMoves DEF AbortSelection
  <1> QED BY <1>1, <1>2, <1>3, <1>4, <1>5

LEMMA LaunchInvNext ==
    ASSUME LaunchInv, LaunchNext
    PROVE  LaunchInv'
  BY DemoSteps, ReviewSteps, EventSteps, PilotSteps DEF LaunchNext

LEMMA LaunchInvInit ==
    ASSUME WorkflowInit
    PROVE  LaunchInv
  <1>1. /\ NoWorkflow \in WorkflowRow
        /\ NoApproval \in ApprovalRow
        /\ NoPage \in [id : Nat, hash : Nat]
    BY DEF NoWorkflow, NoApproval, NoPage, WorkflowRow, ApprovalRow
  <1>2. WorkflowTypeOK
    BY <1>1 DEF WorkflowInit, WorkflowTypeOK
  <1>3. VersionInv /\ PackageIsOfItsRevision
    BY DEF WorkflowInit, NoWorkflow, VersionInv, PackageIsOfItsRevision
  <1>4. DeliveredAsApproved
    BY DEF WorkflowInit, NoWorkflow, NoApproval, DeliveredAsApproved, Kinds
  <1> QED BY <1>2, <1>3, <1>4 DEF LaunchInv

\* The workflow's invariant says nothing of the agent's rows.
LEMMA LaunchInvStable ==
    ASSUME LaunchInv, UNCHANGED <<launchVars, pilotVars>>
    PROVE  LaunchInv'
  BY DEF LaunchInv, WorkflowTypeOK, VersionInv, PackageIsOfItsRevision, DeliveredAsApproved,
         launchVars, pilotVars

-----------------------------------------------------------------------------
(* The broker.                                                             *)

BrokerPart == BrokerTypeOK /\ AcceptedInv /\ AcceptedIsWhole /\ OneOperationPerIntent

\* What AcceptedIsWhole says of one run, of this kind and at this revision.
Whole(r, kind, revision) ==
    /\ \A o \in Own(r) : o.kind = kind /\ o.revision = revision
    /\ \E p \in Made(r) :
         /\ {o.action : o \in {x \in Own(r) : x.proposal = p}} = RequiredOperations
         /\ Private(r) => \A o \in Own(r) : o.proposal = p
    /\ Private(r) => Cardinality(Own(r)) = Cardinality(RequiredOperations)

LEMMA WholeRuns ==
    AcceptedIsWhole <=>
      \A r \in Runs : run[r].status = "succeeded" /\ run[r].kind # "synthetic" =>
                        Whole(r, run[r].kind, run[r].revision)
  BY DEF AcceptedIsWhole, Whole

\* What a run has requested depends on nothing but its proposals and operations.
LEMMA BrokerStable ==
    ASSUME BrokerPart, UNCHANGED <<run, capability, brokerVars, busy, pinned>>
    PROVE  BrokerPart'
  BY DEF BrokerPart, BrokerTypeOK, AcceptedInv, AcceptedIsWhole, OneOperationPerIntent, Own,
         Made, brokerVars

\* A run that is not accepted, and does not become so, may change freely.
LEMMA RunMoves ==
    ASSUME BrokerPart, NEW r \in Runs, NEW row \in RunRow,
           NEW c \in {"none", "live", "expired", "revoked"},
           run' = [run EXCEPT ![r] = row],
           capability' = [capability EXCEPT ![r] = c],
           row.status = "succeeded" =>
             /\ c = "revoked"
             /\ row.kind # "synthetic" => Whole(r, row.kind, row.revision),
           UNCHANGED brokerVars, busy' \subseteq Kinds, pinned' \subseteq Kinds
    PROVE  BrokerPart'
  <1>1. BrokerTypeOK'
    BY DEF BrokerPart, BrokerTypeOK, brokerVars
  <1>2. AcceptedInv'
    BY DEF BrokerPart, BrokerTypeOK, AcceptedInv, brokerVars
  <1>3. \A q \in Runs : Own(q)' = Own(q) /\ Made(q)' = Made(q)
    BY DEF Own, Made, brokerVars
  <1>4. AcceptedIsWhole'
    <2> SUFFICES ASSUME NEW q \in Runs, run'[q].status = "succeeded", run'[q].kind # "synthetic"
                 PROVE  Whole(q, run'[q].kind, run'[q].revision)
      BY <1>3 DEF AcceptedIsWhole, Whole
    <2>1. CASE q = r
      <3>1. run'[q] = row
        BY <2>1 DEF BrokerPart, BrokerTypeOK
      <3> QED BY <2>1, <3>1
    <2>2. CASE q # r
      <3>1. run'[q] = run[q]
        BY <2>2 DEF BrokerPart, BrokerTypeOK
      <3> QED BY <3>1, WholeRuns DEF BrokerPart
    <2> QED BY <2>1, <2>2
  <1>5. OneOperationPerIntent'
    BY DEF BrokerPart, OneOperationPerIntent, brokerVars
  <1> QED BY <1>1, <1>2, <1>4, <1>5 DEF BrokerPart

LEMMA RunSteps ==
    ASSUME BrokerPart, LaunchInv, NEW r \in Runs
    PROVE  /\ \A k \in AgentKinds : QueueHermesRun(r, k) => BrokerPart'
           /\ ClaimRun(r) => BrokerPart'
           /\ ExpireCapability(r) => BrokerPart'
           /\ CancelHermesRun(r) => BrokerPart'
           /\ FinishRun(r) => BrokerPart'
  <1>0. run[r] \in RunRow /\ capability[r] \in {"none", "live", "expired", "revoked"}
    BY DEF BrokerPart, BrokerTypeOK
  <1>00. run = [run EXCEPT ![r] = run[r]] /\ capability = [capability EXCEPT ![r] = capability[r]]
    BY DEF BrokerPart, BrokerTypeOK
  <1>000. busy \subseteq Kinds /\ pinned \subseteq Kinds
    BY DEF BrokerPart, BrokerTypeOK
  <1>1. ASSUME NEW k \in AgentKinds, QueueHermesRun(r, k) PROVE BrokerPart'
    <2> DEFINE row == [status |-> "queued", kind |-> k, revision |-> workflow[k].version]
    <2>1. k \in Kinds
      BY AgentKindsAssumption
    <2>2. row \in RunRow /\ row.status = "queued"
      BY <2>1 DEF LaunchInv, WorkflowTypeOK, WorkflowRow, RunRow
    <2>3. /\ run' = [run EXCEPT ![r] = row]
          /\ capability' = capability
          /\ busy' = {k}
          /\ pinned' = pinned \cup {k}
          /\ UNCHANGED brokerVars
      BY <1>1 DEF QueueHermesRun
    <2>4. capability' = [capability EXCEPT ![r] = capability[r]]
      BY <1>00, <2>3
    <2> HIDE DEF row
    <2>5. busy' \subseteq Kinds /\ pinned' \subseteq Kinds
      BY <2>1, <2>3, <1>000
    <2>6. row.status # "succeeded"
      BY <2>2
    <2>7. PICK c \in {"none", "live", "expired", "revoked"} : c = capability[r]
      BY <1>0
    <2> QED BY <2>2, <2>3, <2>4, <2>5, <2>6, <2>7, RunMoves
  <1>2. ASSUME ClaimRun(r) PROVE BrokerPart'
    <2> DEFINE row == [run[r] EXCEPT !.status = "running"]
    <2>1. row \in RunRow /\ row.status # "succeeded"
      BY <1>0 DEF RunRow
    <2>2. /\ run' = [run EXCEPT ![r] = row]
          /\ capability' = [capability EXCEPT ![r] = "live"]
          /\ UNCHANGED <<brokerVars, busy, pinned>>
      BY <1>2 DEF ClaimRun, BrokerPart, BrokerTypeOK, workflowVars, agentVars
    <2> HIDE DEF row
    <2> QED BY <1>000, <2>1, <2>2, RunMoves
  <1>3. ASSUME ExpireCapability(r) PROVE BrokerPart'
    <2>1. run[r].status # "succeeded"
      BY <1>3 DEF ExpireCapability, BrokerPart, AcceptedInv
    <2>2. /\ run' = run
          /\ capability' = [capability EXCEPT ![r] = "expired"]
          /\ UNCHANGED <<brokerVars, busy, pinned>>
      BY <1>3 DEF ExpireCapability, workflowVars, agentVars
    <2>3. PICK row \in RunRow : row = run[r]
      BY <1>0
    <2>4. run' = [run EXCEPT ![r] = row] /\ row.status # "succeeded"
      BY <2>1, <2>2, <2>3, <1>00
    <2> QED BY <1>000, <2>2, <2>4, RunMoves
  <1>4. ASSUME CancelHermesRun(r) PROVE BrokerPart'
    <2>1. run[r].status # "succeeded"
      BY <1>4 DEF CancelHermesRun
    <2>2. /\ run' = run
          /\ capability' = [capability EXCEPT ![r] = "revoked"]
          /\ UNCHANGED <<brokerVars, busy, pinned>>
      BY <1>4 DEF CancelHermesRun, workflowVars, agentVars
    <2>3. PICK row \in RunRow : row = run[r]
      BY <1>0
    <2>4. run' = [run EXCEPT ![r] = row] /\ row.status # "succeeded"
      BY <2>1, <2>2, <2>3, <1>00
    <2> QED BY <1>000, <2>2, <2>4, RunMoves
  <1>5. ASSUME FinishRun(r) PROVE BrokerPart'
    <2>0. PICK revoked \in BOOLEAN :
            capability' = [capability EXCEPT ![r] =
                             IF @ = "none" \/ ~revoked THEN @ ELSE "revoked"]
      BY <1>5 DEF FinishRun
    <2> DEFINE row == [run[r] EXCEPT !.status = "failed"]
               c == IF capability[r] = "none" \/ ~revoked THEN capability[r] ELSE "revoked"
    <2>1. row \in RunRow /\ row.status # "succeeded"
      BY <1>0 DEF RunRow
    <2>2. c \in {"none", "live", "expired", "revoked"}
      BY <1>0
    <2>3. /\ run' = [run EXCEPT ![r] = row]
          /\ capability' = [capability EXCEPT ![r] = c]
          /\ busy' = {}
          /\ UNCHANGED <<brokerVars, pinned>>
      BY <1>5, <2>0 DEF FinishRun, BrokerPart, BrokerTypeOK
    <2> HIDE DEF row, c
    <2> QED BY <1>000, <2>1, <2>2, <2>3, RunMoves
  <1> QED BY <1>1, <1>2, <1>3, <1>4, <1>5

\* The operations of an owner's accepted run are of the one proposal it refers to.
LEMMA AcceptStep ==
    ASSUME BrokerPart, NEW r \in Runs, NEW refs \in SUBSET Made(r), AcceptResult(r, refs)
    PROVE  BrokerPart'
  <1> DEFINE row == [run[r] EXCEPT !.status = "succeeded"]
  <1>0. run[r] \in RunRow
    BY DEF BrokerPart, BrokerTypeOK
  <1>1. /\ row \in RunRow
        /\ row.kind = run[r].kind
        /\ row.revision = run[r].revision
    BY <1>0 DEF RunRow
  <1>2. /\ run' = [run EXCEPT ![r] = row]
        /\ capability' = [capability EXCEPT ![r] = "revoked"]
        /\ busy' = {}
        /\ UNCHANGED <<brokerVars, pinned>>
    BY DEF AcceptResult, BrokerPart, BrokerTypeOK
  <1> HIDE DEF row
  <1>3. ASSUME row.kind # "synthetic"
        PROVE  Whole(r, row.kind, row.revision)
    <2>1. /\ Cardinality(refs) = 1
          /\ Cardinality(Own(r)) = Cardinality(RequiredOperations)
          /\ {o.action : o \in Own(r)} = RequiredOperations
          /\ \A o \in Own(r) : o.proposal \in refs /\ o.kind = run[r].kind
                                                   /\ o.revision = run[r].revision
      BY <1>1, <1>3 DEF AcceptResult, ValidResult
    <2>2. IsFiniteSet(refs)
      BY FS_Subset DEF BrokerPart, AcceptedInv, Made
    <2>3. PICK p : refs = {p}
      BY <2>1, <2>2, FS_Singleton
    <2>4. p \in Made(r) /\ \A o \in Own(r) : o.proposal = p
      BY <2>1, <2>3
    <2>5. {x \in Own(r) : x.proposal = p} = Own(r)
      BY <2>4
    <2> QED BY <1>1, <2>1, <2>4, <2>5 DEF Whole
  <1>4. busy' \subseteq Kinds /\ pinned' \subseteq Kinds
    BY <1>2 DEF BrokerPart, BrokerTypeOK
  <1> QED BY <1>1, <1>2, <1>3, <1>4, RunMoves

LEMMA ProposeStep ==
    ASSUME BrokerPart, NEW r \in Runs, NEW c \in Contents, ProposeCampaignDrafts(r, c)
    PROVE  BrokerPart'
  <1>1. /\ proposals' = proposals \cup {[run |-> r, content |-> c]}
        /\ UNCHANGED <<run, capability, operations, busy, pinned>>
    BY DEF ProposeCampaignDrafts, workflowVars, agentVars
  <1>2. [run |-> r, content |-> c] \in Proposal
    BY DEF Proposal
  <1>3. IsFiniteSet(proposals')
    BY <1>1, FS_AddElement DEF BrokerPart, AcceptedInv
  <1>4. BrokerTypeOK'
    BY <1>1, <1>2 DEF BrokerPart, BrokerTypeOK
  <1>5. \A q \in Runs : Own(q)' = Own(q) /\ Made(q) \subseteq Made(q)'
    BY <1>1 DEF Own, Made
  <1>6. AcceptedIsWhole'
    <2> SUFFICES ASSUME NEW q \in Runs, Whole(q, run[q].kind, run[q].revision)
                 PROVE  Whole(q, run[q].kind, run[q].revision)'
      BY <1>1, WholeRuns DEF BrokerPart, AcceptedIsWhole, Whole
    <2> QED BY <1>1, <1>5 DEF Whole
  <1> QED BY <1>1, <1>3, <1>4, <1>6 DEF BrokerPart, AcceptedInv, OneOperationPerIntent

\* Drafts are requested under a live capability, hence by a run that is not
\* accepted, and only those whose key is new come to be.  On the proposal of an
\* accepted run they are of its workflow and revision, and they can only come
\* from a run to which that proposal was disclosed.
LEMMA RequestStep ==
    ASSUME BrokerPart, NEW r \in Runs, NEW p \in proposals, NEW tool \in DOMAIN Tools,
           RequestDrafts(r, p, tool)
    PROVE  BrokerPart'
  <1> DEFINE new == {[kind |-> run[r].kind, revision |-> run[r].revision, action |-> a,
                      proposal |-> p] : a \in Tools[tool]}
  <1>1. /\ operations' = GetOrCreate(new)
        /\ capability[r] = "live"
        /\ p.run = r \/ <<r, p.run>> \in Disclosed
        /\ run[p.run].kind = run[r].kind /\ run[p.run].revision = run[r].revision
        /\ UNCHANGED <<run, capability, proposals, busy, pinned>>
    BY DEF RequestDrafts, Admitted, Available, Known, Made, workflowVars, agentVars
  <1>2. new \subseteq Operation
    <2>1. Tools[tool] \subseteq RequiredOperations
      BY DEF RequiredOperations
    <2>2. run[r].kind \in Kinds \cup {"none"} /\ run[r].revision \in Nat /\ p \in Proposal
      BY DEF BrokerPart, BrokerTypeOK, RunRow
    <2> QED BY <2>1, <2>2 DEF Operation
  <1>3. \A o \in new : o.proposal = p /\ o.kind = run[r].kind /\ o.revision = run[r].revision
    OBVIOUS
  <1>4. \A o, q \in new : o.action = q.action => o = q
    OBVIOUS
  <1> HIDE DEF new
  <1>5. BrokerTypeOK'
    BY <1>1, <1>2 DEF BrokerPart, BrokerTypeOK, GetOrCreate
  <1>6. ASSUME NEW q \in Runs, run[q].status = "succeeded",
               Whole(q, run[q].kind, run[q].revision)
        PROVE  Whole(q, run[q].kind, run[q].revision)'
    <2>0. q # r
      BY <1>1, <1>6 DEF BrokerPart, AcceptedInv
    <2>1. Made(q)' = Made(q) /\ Own(q) \subseteq Own(q)'
      BY <1>1 DEF Made, Own, GetOrCreate
    <2>2. \A o \in Own(q)' : o \in Own(q) \/ (o \in new /\ p.run = q)
      BY <1>1, <1>3 DEF Own, GetOrCreate
    <2>3. CASE p.run # q
      <3>1. Own(q)' = Own(q)
        BY <2>1, <2>2, <2>3
      <3> QED BY <1>1, <1>6, <2>1, <3>1 DEF Whole
    <2>4. CASE p.run = q
      <3>1. ~Private(q)
        BY <1>1, <2>0, <2>4 DEF Private
      <3>2. \A o \in Own(q)' : o.kind = run'[q].kind /\ o.revision = run'[q].revision
        BY <1>1, <1>3, <1>6, <2>2, <2>4 DEF Whole
      <3>3. PICK p0 \in Made(q) :
              {o.action : o \in {x \in Own(q) : x.proposal = p0}} = RequiredOperations
        BY <1>6 DEF Whole
      <3>4. \A o \in Own(q)' : o.action \in RequiredOperations
        BY <1>5 DEF BrokerTypeOK, Operation, Own
      <3>5. {o.action : o \in {x \in Own(q)' : x.proposal = p0}} = RequiredOperations
        BY <2>1, <3>3, <3>4
      <3> QED BY <2>1, <3>1, <3>2, <3>3, <3>5 DEF Whole, Private
    <2> QED BY <2>3, <2>4
  <1>7. AcceptedInv' /\ AcceptedIsWhole'
    <2>1. AcceptedInv'
      BY <1>1 DEF BrokerPart, AcceptedInv
    <2>2. \A q \in Runs : run'[q].status = "succeeded" /\ run'[q].kind # "synthetic" =>
                           Whole(q, run[q].kind, run[q].revision)'
      BY <1>1, <1>6, WholeRuns DEF BrokerPart
    <2>3. AcceptedIsWhole'
      BY <2>2 DEF AcceptedIsWhole, Whole
    <2> QED BY <2>1, <2>3
  <1>8. OneOperationPerIntent'
    <2> SUFFICES ASSUME NEW o \in operations', NEW q \in operations',
                        OperationKey(o) = OperationKey(q)
                 PROVE  o = q
      BY DEF OneOperationPerIntent, OperationKey
    <2>1. CASE o \in operations /\ q \in operations
      BY <2>1 DEF BrokerPart, OneOperationPerIntent, OperationKey
    <2>2. CASE o \notin operations /\ q \notin operations
      BY <1>1, <1>4, <2>2 DEF GetOrCreate, OperationKey
    <2>3. CASE o \in operations /\ q \notin operations
      BY <1>1, <2>3 DEF GetOrCreate
    <2>4. CASE o \notin operations /\ q \in operations
      BY <1>1, <2>4 DEF GetOrCreate
    <2> QED BY <2>1, <2>2, <2>3, <2>4
  <1> QED BY <1>5, <1>7, <1>8 DEF BrokerPart

LEMMA BrokerInvNext ==
    ASSUME BrokerInv, [Next]_vars
    PROVE  BrokerInv'
  <1>0. LaunchInv /\ BrokerPart
    BY DEF BrokerInv, BrokerPart
  <1>1. CASE LaunchNext /\ UNCHANGED <<run, capability, brokerVars>>
    <2>1. LaunchInv'
      BY <1>0, <1>1, LaunchInvNext
    <2>2. UNCHANGED <<busy, pinned>>
      BY <1>1 DEF LaunchNext, ResetDemo, AnswerQuestions, SubmitWorkflow, StartManualEvent,
         OpenReview, Reject, Approve, RunWorkflow, UpdateEventFacts, ProviderChanges,
         ReadSelection, WriteSelection, AbortSelection, FetchEvents, RefreshEvents, agentVars
    <2>3. BrokerPart'
      BY <1>0, <1>1, <2>2, BrokerStable
    <2> QED BY <2>1, <2>3 DEF BrokerInv, BrokerPart
  <1>2. CASE \E r \in Runs :
               \/ \E k \in AgentKinds : QueueHermesRun(r, k)
               \/ ClaimRun(r) \/ ExpireCapability(r) \/ CancelHermesRun(r) \/ FinishRun(r)
               \/ \E c \in Contents : ProposeCampaignDrafts(r, c)
               \/ \E p \in proposals, tool \in DOMAIN Tools : RequestDrafts(r, p, tool)
               \/ \E refs \in SUBSET Made(r) : AcceptResult(r, refs)
    <2>1. UNCHANGED <<launchVars, pilotVars>>
      BY <1>2 DEF QueueHermesRun, ClaimRun, ExpireCapability, CancelHermesRun, FinishRun,
         ProposeCampaignDrafts, RequestDrafts, AcceptResult, workflowVars
    <2>2. LaunchInv'
      BY <1>0, <2>1, LaunchInvStable
    <2>3. BrokerPart'
      BY <1>0, <1>2, RunSteps, ProposeStep, RequestStep, AcceptStep
    <2> QED BY <2>2, <2>3 DEF BrokerInv, BrokerPart
  <1>3. CASE UNCHANGED vars
    <2>1. LaunchInv'
      BY <1>0, <1>3, LaunchInvStable DEF vars, workflowVars
    <2>2. BrokerPart'
      BY <1>0, <1>3, BrokerStable DEF vars, workflowVars, agentVars
    <2> QED BY <2>1, <2>2 DEF BrokerInv, BrokerPart
  <1> QED BY <1>1, <1>2, <1>3 DEF Next

LEMMA BrokerInvInit ==
    ASSUME Init
    PROVE  BrokerInv
  <1>1. LaunchInv
    BY LaunchInvInit DEF Init
  <1>2. NoRun \in RunRow /\ NoRun.status = "none"
    BY DEF NoRun, RunRow
  <1>3. BrokerTypeOK
    BY <1>2 DEF Init, WorkflowInit, BrokerTypeOK
  <1>4. AcceptedInv
    BY <1>2, FS_EmptySet DEF Init, AcceptedInv
  <1>5. AcceptedIsWhole /\ OneOperationPerIntent
    BY <1>2 DEF Init, AcceptedIsWhole, OneOperationPerIntent
  <1> QED BY <1>1, <1>3, <1>4, <1>5 DEF BrokerInv

-----------------------------------------------------------------------------
\* The inductive invariant: what services.py keeps true of a workflow, its
\* package and its approval, and what mcp.py and tasks.py keep true of runs,
\* capabilities and operations.
THEOREM BrokerInvariant == Spec => []BrokerInv
  <1>1. Init => BrokerInv
    BY BrokerInvInit
  <1>2. BrokerInv /\ [Next]_vars => BrokerInv'
    BY BrokerInvNext
  <1> QED BY <1>1, <1>2, PTL DEF Spec

\* Workflows, approvals, runs, capabilities and operations are well formed.
THEOREM BrokerTypeCorrect == Spec => [](WorkflowTypeOK /\ BrokerTypeOK)
  <1>1. BrokerInv => WorkflowTypeOK /\ BrokerTypeOK
    BY DEF BrokerInv, LaunchInv
  <1> QED BY <1>1, BrokerInvariant, PTL

\* Edits, imports, refreshes and package runs of services.py and pilot.py, in any
\* order, leave every package with the revision it was made from.
THEOREM PackagesFollowRevisions == Spec => []PackageIsOfItsRevision
  <1>1. BrokerInv => PackageIsOfItsRevision
    BY DEF BrokerInv, LaunchInv
  <1> QED BY <1>1, BrokerInvariant, PTL

\* decide_approval (services.py) decides and delivers the request and the hash that
\* the deciding tab's page shows, once, however many tabs decide and however often
\* the demo is reset or its questions are answered after a page was opened.
THEOREM DeliveryFollowsApproval == Spec => []DeliveredAsApproved
  <1>1. BrokerInv => DeliveredAsApproved
    BY DEF BrokerInv, LaunchInv
  <1> QED BY <1>1, BrokerInvariant, PTL

\* What _validate_result (tasks.py) accepted of an owner's run stays whole: its child
\* can call no more, and another run that drafts on its proposals, as _proposal
\* (mcp.py) allows, adds only operations of the same workflow and revision.  While
\* no other run's child can name its proposals, nothing is added.
THEOREM AcceptanceIsStable == Spec => []AcceptedIsWhole
  <1>1. BrokerInv => AcceptedIsWhole
    BY DEF BrokerInv
  <1> QED BY <1>1, BrokerInvariant, PTL

\* The idempotency key of _execute (mcp.py) identifies an operation's intent, for
\* any number of runs, proposals and repeated calls.
THEOREM IntentsAreUnique == Spec => []OneOperationPerIntent
  <1>1. BrokerInv => OneOperationPerIntent
    BY DEF BrokerInv
  <1> QED BY <1>1, BrokerInvariant, PTL

-----------------------------------------------------------------------------
(* The integration connections, whose tabs are the owner's as well.        *)

ConnectionRow == [state: {"not_configured", "configured", "healthy", "degraded", "disabled"},
                  version: Nat, secret: Secrets \cup {0}]
SecretRow == [status: {"none", "active", "disabled"}, version: Nat]
TabRow == [pc: {"idle", "lease", "probed"}, seen: Nat, id: Secrets \cup {0}, version: Nat,
           ok: BOOLEAN]
WriterRow == [pc: {"idle", "secret", "lease", "enter", "open"}, id: Secrets \cup {0},
              version: Nat]

\* Every row, tab and write holds a value of its kind.
ConnectionTypeOK ==
    /\ connection \in ConnectionRow
    /\ secret \in [Secrets -> SecretRow]
    /\ tab \in [OwnerTabs -> TabRow]
    /\ writer \in [Writers -> WriterRow]

\* Only a row without a secret is not configured; a tab is never ahead of it.
RowInv ==
    /\ IF connection.state = "not_configured" THEN connection.secret = 0
                                              ELSE connection.secret \in Secrets
    /\ \A a \in OwnerTabs : tab[a].seen <= connection.version

\* A test whose version is still the row's is of the credential the row holds.
TestInv ==
    \A a \in OwnerTabs : tab[a].pc # "idle" =>
        /\ tab[a].id # 0
        /\ tab[a].seen = connection.version =>
             /\ connection.state # "disabled"
             /\ tab[a].id = connection.secret
             /\ tab[a].version = secret[connection.secret].version
        /\ tab[a].pc = "probed" /\ tab[a].ok => <<tab[a].id, tab[a].version>> \in tested

\* What a write has leased once was tested, and stays so.
LeaseInv ==
    \A w \in Writers :
        /\ writer[w].pc # "idle" => writer[w].id \in Secrets
        /\ writer[w].pc \in {"enter", "open"} => <<writer[w].id, writer[w].version>> \in tested

ConnectionInv == ConnectionTypeOK /\ RowInv /\ TestInv /\ LeaseInv /\ TestedBeforeUse

LEMMA ConnectionInvInit == ConnectionInit => ConnectionInv
BY DEF ConnectionInit, NoSecret, IdleTab, IdleWriter, ConnectionInv, ConnectionTypeOK,
   ConnectionRow,
   SecretRow, TabRow, WriterRow, RowInv, TestInv, LeaseInv, TestedBeforeUse

\* A change of the row by the owner gives it a new version, which no tab has
\* seen, so that no test under way is for it any more.
LEMMA NewVersionKeeps ==
    ASSUME ConnectionInv, NEW c \in ConnectionRow, NEW s \in [Secrets -> SecretRow],
           connection' = c, secret' = s, UNCHANGED <<tab, writer, tested, used>>,
           c.version = connection.version + 1,
           IF c.state = "not_configured" THEN c.secret = 0 ELSE c.secret \in Secrets,
           c.state = "healthy" => <<c.secret, s[c.secret].version>> \in tested,
           c.state \in {"configured", "healthy", "degraded"} => s[c.secret].status = "active",
           c.state = "disabled" => s[c.secret].status = "disabled"
    PROVE  ConnectionInv'
<1> USE DEF ConnectionInv
<1>1. ConnectionTypeOK'
  BY DEF ConnectionTypeOK
<1>2. \A a \in OwnerTabs : tab'[a].seen < connection'.version
  BY DEF ConnectionTypeOK, ConnectionRow, TabRow, RowInv
<1>3. RowInv'
  BY <1>1, <1>2 DEF RowInv, ConnectionTypeOK, ConnectionRow, TabRow
<1>4. TestInv'
  BY <1>1, <1>2 DEF TestInv, ConnectionTypeOK, ConnectionRow, TabRow
<1>5. LeaseInv'
  BY DEF LeaseInv
<1>6. TestedBeforeUse'
  BY DEF TestedBeforeUse
<1> QED
  BY <1>1, <1>3, <1>4, <1>5, <1>6

LEMMA ReplaceCredentialKeeps ==
    ASSUME ConnectionInv, NEW a \in OwnerTabs, ReplaceCredential(a)
    PROVE  ConnectionInv'
<1>1. PICK id \in Secrets :
         /\ secret' = Replaced(id)
         /\ connection' = [state |-> "configured", version |-> connection.version + 1, secret |-> id]
         /\ UNCHANGED <<tab, writer, tested, used>>
  BY DEF ReplaceCredential
<1>2. secret' \in [Secrets -> SecretRow] /\ secret'[id].status = "active"
  BY <1>1 DEF Replaced, ConnectionInv, ConnectionTypeOK, SecretRow
<1>3. connection' \in ConnectionRow
  BY <1>1 DEF ConnectionInv, ConnectionTypeOK, ConnectionRow
<1> QED
  BY <1>1, <1>2, <1>3, NewVersionKeeps

LEMMA UpdateConfigurationKeeps ==
    ASSUME ConnectionInv, NEW a \in OwnerTabs, UpdateConfiguration(a)
    PROVE  ConnectionInv'
<1>1. PICK c : c = [connection EXCEPT !.version = @ + 1]
  OBVIOUS
<1>2. c \in ConnectionRow /\ c.version = connection.version + 1 /\ c.state = connection.state
      /\ c.secret = connection.secret
  BY <1>1 DEF ConnectionInv, ConnectionTypeOK, ConnectionRow
<1>3. connection' = c /\ UNCHANGED <<secret, tab, writer, tested, used>>
  BY <1>1 DEF UpdateConfiguration
<1>4. secret \in [Secrets -> SecretRow]
  BY DEF ConnectionInv, ConnectionTypeOK
<1> QED
  BY <1>2, <1>3, <1>4, NewVersionKeeps DEF ConnectionInv, RowInv, TestedBeforeUse

LEMMA DisableConnectionKeeps ==
    ASSUME ConnectionInv, NEW a \in OwnerTabs, DisableConnection(a)
    PROVE  ConnectionInv'
<1>1. PICK c : c = [connection EXCEPT !.state = "disabled", !.version = @ + 1]
  OBVIOUS
<1>2. c \in ConnectionRow /\ c.version = connection.version + 1 /\ c.state = "disabled"
      /\ c.secret = connection.secret /\ c.secret \in Secrets
  <2>1. connection \in ConnectionRow /\ connection.secret # 0
    BY DEF DisableConnection, ConnectionInv, ConnectionTypeOK
  <2>2. c.version = connection.version + 1 /\ c.state = "disabled" /\ c.secret = connection.secret
    BY <1>1, <2>1 DEF ConnectionRow
  <2>3. PICK v \in Nat, i \in Secrets \cup {0} : v = connection.version /\ i = connection.secret
    BY <2>1 DEF ConnectionRow
  <2>4. c = [state |-> "disabled", version |-> v + 1, secret |-> i]
    BY <1>1, <2>1, <2>3 DEF ConnectionRow
  <2>5. c \in ConnectionRow
    BY <2>4 DEF ConnectionRow
  <2> QED
    BY <2>1, <2>2, <2>5 DEF ConnectionRow
<1>3. connection' = c /\ secret' = Disabled(c.secret) /\ UNCHANGED <<tab, writer, tested, used>>
  BY <1>1, <1>2 DEF DisableConnection
<1>4. secret' \in [Secrets -> SecretRow] /\ secret'[c.secret].status = "disabled"
  <2>1. PICK i \in Secrets : i = c.secret
    BY <1>2
  <2>2. secret' = [secret EXCEPT ![i] = IF secret[i].status = "disabled" THEN secret[i]
                      ELSE [status |-> "disabled", version |-> secret[i].version + 1]]
    BY <1>3, <2>1 DEF Disabled
  <2> QED
    BY <2>1, <2>2 DEF ConnectionInv, ConnectionTypeOK, SecretRow
<1> QED
  BY <1>2, <1>3, <1>4, NewVersionKeeps

\* A tab looks at the page, or tests the credential its version has.
LEMMA TabStepsKeep ==
    ASSUME ConnectionInv, NEW a \in OwnerTabs,
           ListConnections(a) \/ StartTest(a) \/ Probe(a) \/ FailTest(a)
    PROVE  ConnectionInv'
<1> USE DEF ConnectionInv
<1>1. UNCHANGED <<connection, secret, writer, used>> /\ tested \subseteq tested'
  BY DEF ListConnections, StartTest, Probe, FailTest
<1>2. LeaseInv' /\ TestedBeforeUse'
  BY <1>1 DEF LeaseInv, TestedBeforeUse
<1>3. CASE ListConnections(a)
  <2>1. /\ tab' \in [OwnerTabs -> TabRow]
        /\ \A b \in OwnerTabs : b # a => tab'[b] = tab[b]
        /\ tab'[a].pc = "idle" /\ tab'[a].seen = connection.version
    BY <1>3 DEF ListConnections, ConnectionTypeOK, ConnectionRow, TabRow
  <2>2. ConnectionTypeOK' /\ TestInv'
    BY <1>1, <2>1 DEF ConnectionTypeOK, TestInv
  <2>3. RowInv'
    BY <1>1, <2>1 DEF RowInv, ConnectionTypeOK, ConnectionRow
  <2> QED
    BY <1>2, <2>2, <2>3
<1>4. CASE StartTest(a)
  <2>1. secret[connection.secret].version \in Nat
    BY <1>4 DEF StartTest, ConnectionTypeOK, ConnectionRow, SecretRow
  <2> QED
    BY <1>1, <1>2, <1>4, <2>1 DEF StartTest, ConnectionTypeOK, ConnectionRow, TabRow, RowInv,
       TestInv
<1>5. CASE Probe(a)
  <2>1. PICK ok \in BOOLEAN :
           /\ tab' = [tab EXCEPT ![a] = [@ EXCEPT !.pc = "probed", !.ok = ok]]
           /\ ok => <<tab[a].id, tab[a].version>> \in tested'
    BY <1>5 DEF Probe
  <2>2. /\ tab' \in [OwnerTabs -> TabRow]
        /\ \A b \in OwnerTabs : b # a => tab'[b] = tab[b]
        /\ tab'[a].pc = "probed" /\ tab'[a].id = tab[a].id /\ tab'[a].seen = tab[a].seen
        /\ tab'[a].version = tab[a].version /\ (tab'[a].ok <=> ok)
    BY <2>1 DEF ConnectionTypeOK, TabRow
  <2>3. tab[a].pc # "idle"
    BY <1>5 DEF Probe
  <2>4. ConnectionTypeOK' /\ RowInv'
    BY <1>1, <2>2 DEF ConnectionTypeOK, RowInv
  <2>5. TestInv'
    BY <1>1, <2>1, <2>2, <2>3 DEF TestInv
  <2> QED
    BY <1>2, <2>4, <2>5
<1>6. CASE FailTest(a)
  BY <1>1, <1>2, <1>6 DEF FailTest, IdleTab, ConnectionTypeOK, TabRow, RowInv, TestInv
<1> QED
  BY <1>3, <1>4, <1>5, <1>6

LEMMA StoreTestKeeps ==
    ASSUME ConnectionInv, NEW a \in OwnerTabs, StoreTest(a)
    PROVE  ConnectionInv'
<1> USE DEF ConnectionInv
<1>1. /\ connection.secret # 0 /\ connection.state # "disabled"
      /\ tab[a].id = connection.secret /\ tab[a].version = secret[connection.secret].version
      /\ tab[a].ok => <<tab[a].id, tab[a].version>> \in tested
  BY DEF StoreTest, StillExpected, TestInv
<1>2. /\ connection'.version = connection.version /\ connection'.secret = connection.secret
      /\ connection'.state = (IF tab[a].ok THEN "healthy" ELSE "degraded")
      /\ connection' \in ConnectionRow
  BY DEF StoreTest, ConnectionTypeOK, ConnectionRow
<1>3. secret[connection.secret].status = "active"
  BY <1>1 DEF RowInv, TestedBeforeUse, ConnectionTypeOK, ConnectionRow
<1>4. UNCHANGED <<secret, writer, tested, used>>
  BY DEF StoreTest
<1>5. /\ tab' \in [OwnerTabs -> TabRow] /\ tab'[a].pc = "idle" /\ tab'[a].seen = tab[a].seen
      /\ \A b \in OwnerTabs : b # a => tab'[b] = tab[b]
  BY DEF StoreTest, IdleTab, ConnectionTypeOK, TabRow
<1>6. ConnectionTypeOK' /\ LeaseInv'
  BY <1>2, <1>4, <1>5 DEF ConnectionTypeOK, LeaseInv
<1>7. RowInv'
  BY <1>1, <1>2, <1>5 DEF RowInv
<1>8. TestInv'
  BY <1>2, <1>4, <1>5 DEF TestInv
<1>9. TestedBeforeUse'
  BY <1>1, <1>2, <1>3, <1>4 DEF TestedBeforeUse
<1> QED
  BY <1>6, <1>7, <1>8, <1>9

\* A write reads, leases and sends: it changes nothing of the owner's.
LEMMA WriterStepsKeep ==
    ASSUME ConnectionInv, NEW w \in Writers,
           \/ ReadConnection(w) \/ ReadSecret(w) \/ Lease(w) \/ OpenLease(w)
           \/ RefuseWrite(w)
    PROVE  ConnectionInv'
<1> USE DEF ConnectionInv
<1>1. UNCHANGED <<connection, secret, tab, tested>>
  BY DEF ReadConnection, ReadSecret, Lease, OpenLease, RefuseWrite
<1>2. RowInv' /\ TestInv'
  BY <1>1 DEF RowInv, TestInv
<1>3. CASE ReadConnection(w)
  BY <1>1, <1>2, <1>3 DEF ReadConnection, ConnectionTypeOK, ConnectionRow, WriterRow,
     LeaseInv,
     RowInv, TestedBeforeUse
<1>4. CASE ReadSecret(w)
  <2>1. secret[writer[w].id].version \in Nat
    BY <1>4 DEF ReadSecret, LeaseInv, ConnectionTypeOK, WriterRow, SecretRow
  <2> QED
    BY <1>1, <1>2, <1>4, <2>1 DEF ReadSecret, ConnectionTypeOK, WriterRow, LeaseInv,
       TestedBeforeUse
<1>5. CASE Lease(w)
  <2>1. <<writer[w].id, writer[w].version>> \in tested
    BY <1>5 DEF Lease, LeaseAllowed, Current, TestedBeforeUse
  <2> QED
    BY <1>1, <1>2, <1>5, <2>1 DEF Lease, Goto, ConnectionTypeOK, WriterRow, LeaseInv,
       TestedBeforeUse
<1>6. CASE OpenLease(w)
  <2>1. <<writer[w].id, secret[writer[w].id].version>> \in tested
    BY <1>6 DEF OpenLease, Current, LeaseInv
  <2> QED
    BY <1>1, <1>2, <1>6, <2>1 DEF OpenLease, IdleWriter, ConnectionTypeOK, WriterRow,
       LeaseInv,
       TestedBeforeUse
<1>7. CASE RefuseWrite(w)
  BY <1>1, <1>2, <1>7 DEF RefuseWrite, IdleWriter, ConnectionTypeOK, WriterRow, LeaseInv,
     TestedBeforeUse
<1> QED
  BY <1>3, <1>4, <1>5, <1>6, <1>7

LEMMA ConnectionInvNext == ConnectionInv /\ [ConnectionNext]_connectionVars => ConnectionInv'
<1> SUFFICES ASSUME ConnectionInv, [ConnectionNext]_connectionVars PROVE ConnectionInv'
  OBVIOUS
<1>1. CASE UNCHANGED connectionVars
  BY <1>1 DEF connectionVars, ConnectionInv, ConnectionTypeOK, RowInv, TestInv, LeaseInv,
     TestedBeforeUse
<1>2. ASSUME NEW a \in OwnerTabs,
             \/ ListConnections(a) \/ ReplaceCredential(a) \/ UpdateConfiguration(a)
             \/ DisableConnection(a) \/ StartTest(a) \/ Probe(a) \/ StoreTest(a)
             \/ FailTest(a)
      PROVE  ConnectionInv'
  BY <1>2, ReplaceCredentialKeeps, UpdateConfigurationKeeps, DisableConnectionKeeps,
     TabStepsKeep,
     StoreTestKeeps
<1> QED
  BY <1>1, <1>2, WriterStepsKeep DEF ConnectionNext

\* The inductive invariant of connections, tests and leases.
THEOREM ConnectionInvariant == ConnectionSpec => []ConnectionInv
BY ConnectionInvInit, ConnectionInvNext, PTL DEF ConnectionSpec

\* A healthy connection was tested with the credential it holds, and a reviewed
\* write goes out only with a tested one (test_connection, _validate_lease_request).
THEOREM WritesUseTestedCredentials == ConnectionSpec => []TestedBeforeUse
BY ConnectionInvariant, PTL DEF ConnectionInv

-----------------------------------------------------------------------------
(* The model gateway, to which the transport's inferences go.              *)

\* What the proofs need of the constants; _timeout bounds the leases.
LEMMA GatewayConstants ==
    /\ LeaseTime \in Nat /\ Window \in Nat /\ LeaseTime <= Window
    /\ MaxTokens \in Nat /\ MaxCalls \in Nat
  BY LeaseAssumption, GatewayBounds

\* The steps of a request before the ledger has decided on it.
Undecided == {"sent", "received", "verified"}

ScopeRow == [state: {"none", "bound", "void"}, expires: Nat, inferences: Nat, tokens: Nat]
CallRow == [run: SUBSET ScopedRuns, tokens: Nat, expires: Nat, at: Nat,
            pc: Undecided \cup {"none", "booked", "calling", "over"}]
LedgerRow == [known: BOOLEAN, used: Nat, expires: Nat]

\* Scopes, requests and ledger rows hold values of their kinds.
GatewayTypeOK ==
    /\ now \in Nat
    /\ scope \in [ScopedRuns -> ScopeRow]
    /\ call \in [Calls -> CallRow]
    /\ ledger \in [ScopedRuns -> LedgerRow]
    /\ inference \in BOOLEAN

\* A lease ends no later than the longest one granted now would.
ScopeLeaseInv == \A r \in ScopedRuns : scope[r].expires <= now + LeaseTime

\* A request asks one run's tokens, at most its ceiling, and its assertion ends
\* with that run's lease; a verified one was verified before.
RequestInv ==
    \A n \in Calls : call[n].pc # "none" =>
        /\ call[n].tokens <= MaxTokens
        /\ \E r \in ScopedRuns : /\ call[n].run = {r}
                                 /\ scope[r].state # "none"
                                 /\ call[n].expires = scope[r].expires
        /\ call[n].pc = "verified" => call[n].at < call[n].expires

\* A run the ledger knows is retired with its lease.
RetirementInv ==
    \A r \in ScopedRuns :
        /\ ledger[r].known => scope[r].state # "none" /\ ledger[r].expires = scope[r].expires
        /\ ~ledger[r].known => ledger[r].expires = 0

\* The tokens a run's undecided requests have been charged, one by one.
Undecideds(r) ==
    {p \in Calls \X (1..MaxTokens) : /\ call[p[1]].run = {r}
                                     /\ call[p[1]].pc \in Undecided
                                     /\ p[2] <= call[p[1]].tokens}

\* The transport charged a run for all the ledger has booked or may yet book.
ChargeInv ==
    \A r \in ScopedRuns : /\ ledger[r].used + Cardinality(Undecideds(r)) <= scope[r].tokens
                          /\ scope[r].tokens <= MaxTokens

\* One request at a time is at LiteLLM, and the slot is taken just then.
OneModelCall ==
    /\ \A m, n \in Calls : call[m].pc = "calling" /\ call[n].pc = "calling" => m = n
    /\ inference <=> \E n \in Calls : call[n].pc = "calling"

BooksInv == ScopeLeaseInv /\ RequestInv /\ RetirementInv /\ ChargeInv
GatewayInv == GatewayTypeOK /\ BooksInv /\ OneModelCall

LEMMA UndecidedsFinite ==
    ASSUME NEW r
    PROVE  /\ IsFiniteSet(Undecideds(r)) /\ Cardinality(Undecideds(r)) \in Nat
           /\ IsFiniteSet(Undecideds(r)') /\ Cardinality(Undecideds(r)') \in Nat
<1>1. IsFiniteSet(Calls) /\ IsFiniteSet(1..MaxTokens)
  BY FS_Interval, GatewayConstants DEF Calls
<1>2. IsFiniteSet(Calls \X (1..MaxTokens))
  BY <1>1, FS_Product
<1>3. Undecideds(r) \in SUBSET (Calls \X (1..MaxTokens))
      /\ Undecideds(r)' \in SUBSET (Calls \X (1..MaxTokens))
  BY DEF Undecideds
<1>4. IsFiniteSet(Undecideds(r)) /\ IsFiniteSet(Undecideds(r)')
  BY <1>2, <1>3, FS_Subset
<1> QED
  BY <1>4, FS_CardinalityType

\* A request's charge, as a part of its run's.
Charge(n, tokens) == {n} \X (1..tokens)

LEMMA ChargeCounts ==
    ASSUME NEW n, NEW tokens \in Nat
    PROVE  IsFiniteSet(Charge(n, tokens)) /\ Cardinality(Charge(n, tokens)) = tokens
<1>1. IsFiniteSet({n}) /\ Cardinality({n}) = 1
  BY FS_Singleton
<1>2. IsFiniteSet(1..tokens) /\ Cardinality(1..tokens) = tokens
  BY FS_Interval
<1>3. /\ IsFiniteSet({n} \X (1..tokens))
      /\ Cardinality({n} \X (1..tokens)) = Cardinality({n}) * Cardinality(1..tokens)
  BY <1>1, <1>2, FS_Product
<1> QED
  BY <1>1, <1>2, <1>3 DEF Charge

\* Charges add up: a set and a charge that do not meet.
LEMMA ChargesAdd ==
    ASSUME NEW S, IsFiniteSet(S), NEW n, NEW tokens \in Nat, S \cap Charge(n, tokens) = {}
    PROVE  Cardinality(S \cup Charge(n, tokens)) = Cardinality(S) + tokens
<1>1. IsFiniteSet(Charge(n, tokens)) /\ Cardinality(Charge(n, tokens)) = tokens
  BY ChargeCounts
<1>2. Cardinality(S \cup Charge(n, tokens)) = Cardinality(S) + Cardinality(Charge(n, tokens))
                                              - Cardinality(S \cap Charge(n, tokens))
  BY <1>1, FS_Union
<1>3. Cardinality(S \cap Charge(n, tokens)) = 0 /\ Cardinality(S) \in Nat
  BY FS_EmptySet, FS_CardinalityType
<1> QED
  BY <1>1, <1>2, <1>3

LEMMA GatewayInvInit == GatewayInit => GatewayInv
<1> SUFFICES ASSUME GatewayInit PROVE GatewayInv
  OBVIOUS
<1>1. GatewayTypeOK
  BY DEF GatewayInit, NoScope, NoCall, NoRow, GatewayTypeOK, ScopeRow, CallRow, LedgerRow
<1>2. ScopeLeaseInv /\ RequestInv /\ RetirementInv
  BY GatewayConstants DEF GatewayInit, NoScope, NoCall, NoRow, ScopeLeaseInv, RequestInv,
     RetirementInv
<1>5. \A n \in Calls : call[n].pc = "none"
  BY DEF GatewayInit, NoCall
<1>6. OneModelCall
  BY <1>5 DEF GatewayInit, OneModelCall
<1>3. \A r \in ScopedRuns : Undecideds(r) = {}
  BY DEF GatewayInit, NoCall, Undecideds, Undecided
<1>4. ChargeInv
  <2>1. \A r \in ScopedRuns : scope[r].tokens = 0 /\ ledger[r].used = 0
    BY DEF GatewayInit, NoScope, NoRow
  <2>2. \A r \in ScopedRuns : Cardinality(Undecideds(r)) = 0
    BY <1>3, FS_EmptySet
  <2> QED
    BY <2>1, <2>2, GatewayConstants DEF ChargeInv
<1> QED
  BY <1>1, <1>2, <1>4, <1>6 DEF GatewayInv, BooksInv

LEMMA RunOfRequest ==
    ASSUME NEW n \in Calls, NEW r \in ScopedRuns, call[n].run = {r}
    PROVE  Run(n) = r
<1>1. \A q \in ScopedRuns : call[n].run = {q} <=> q = r
  OBVIOUS
<1> QED
  BY <1>1 DEF Run

\* Nothing is charged or booked, and no request becomes undecided again.
LEMMA ChargesStay ==
    ASSUME GatewayInv, GatewayTypeOK',
           \A r \in ScopedRuns : scope'[r].tokens = scope[r].tokens, UNCHANGED ledger,
           \A n \in Calls : /\ call'[n].run = call[n].run
                            /\ call'[n].tokens = call[n].tokens
                            /\ call'[n].pc \in Undecided => call[n].pc \in Undecided
    PROVE  ChargeInv'
<1> SUFFICES ASSUME NEW r \in ScopedRuns
             PROVE  /\ ledger'[r].used + Cardinality(Undecideds(r)') <= scope'[r].tokens
                    /\ scope'[r].tokens <= MaxTokens
  BY DEF ChargeInv
<1>1. Undecideds(r)' \in SUBSET Undecideds(r)
  BY DEF Undecideds
<1>2. Cardinality(Undecideds(r)') <= Cardinality(Undecideds(r))
  BY <1>1, UndecidedsFinite, FS_Subset
<1>3. ledger[r].used \in Nat /\ scope[r].tokens \in Nat
  BY DEF GatewayInv, GatewayTypeOK, LedgerRow, ScopeRow
<1> QED
  BY <1>2, <1>3, UndecidedsFinite, GatewayConstants DEF GatewayInv, BooksInv, ChargeInv

\* A step of one request that neither charges nor books.
Moves(n, c) ==
    /\ call' = [call EXCEPT ![n] = c]
    /\ c \in CallRow
    /\ call[n].pc # "none" /\ c.pc # "none"
    /\ c.run = call[n].run /\ c.tokens = call[n].tokens
    /\ c.expires = call[n].expires
    /\ c.pc \in Undecided => call[n].pc \in Undecided
    /\ c.pc = "verified" => c.at < c.expires

LEMMA MovesKeeps ==
    ASSUME GatewayInv, NEW n \in Calls, NEW c, Moves(n, c),
           UNCHANGED <<now, scope, ledger>>, inference' \in BOOLEAN
    PROVE  GatewayTypeOK' /\ BooksInv'
<1> USE DEF GatewayInv
<1>1. GatewayTypeOK'
  BY DEF Moves, GatewayTypeOK
<1>2. /\ call'[n] = c
      /\ \A m \in Calls : m # n => call'[m] = call[m]
  BY DEF Moves, GatewayTypeOK
<1>3. RequestInv'
  BY <1>2 DEF Moves, BooksInv, RequestInv
<1>4. ChargeInv'
  BY <1>1, <1>2, ChargesStay DEF Moves
<1> QED
  BY <1>1, <1>3, <1>4 DEF BooksInv, ScopeLeaseInv, RetirementInv

\* Goto as such a step.
LEMMA GotoMoves ==
    ASSUME GatewayInv, NEW n \in Calls, call[n].pc # "none",
           NEW pc \in {"received", "booked", "calling", "over"}, Advance(n, pc),
           pc = "received" => call[n].pc \in Undecided
    PROVE  /\ \E c : Moves(n, c) /\ c.pc = pc
           /\ call'[n].pc = pc
           /\ \A m \in Calls : m # n => call'[m] = call[m]
<1>1. PICK old \in CallRow : old = call[n]
  BY DEF GatewayInv, GatewayTypeOK
<1>2. PICK c : c = [old EXCEPT !.pc = pc]
  OBVIOUS
<1>3. c \in CallRow /\ c.pc = pc /\ c.run = old.run /\ c.tokens = old.tokens /\ c.expires = old.expires
  BY <1>2 DEF CallRow, Undecided
<1>4. call' = [call EXCEPT ![n] = c]
  BY <1>1, <1>2 DEF Advance
<1> QED
  BY <1>1, <1>3, <1>4 DEF Moves, Undecided, GatewayInv, GatewayTypeOK

\* A request outside the slot stays outside it.
LEMMA SlotStays ==
    ASSUME GatewayInv, UNCHANGED inference,
           \A n \in Calls : call'[n].pc = "calling" <=> call[n].pc = "calling"
    PROVE  OneModelCall'
BY DEF GatewayInv, OneModelCall

\* A request is received, refused or verified: the steps before the ledger.
LEMMA ArrivalKeeps ==
    ASSUME GatewayInv, NEW n \in Calls,
           Receive(n) \/ RefuseConnection(n) \/ RefuseBody(n) \/ VerifyAssertion(n)
    PROVE  GatewayInv'
<1>1. UNCHANGED <<now, scope, ledger, inference>> /\ inference' \in BOOLEAN
  BY DEF Receive, RefuseConnection, RefuseBody, VerifyAssertion, transportVars,
     GatewayInv,
     GatewayTypeOK
<1>2. call[n].pc \in {"sent", "received"}
  BY DEF Receive, RefuseConnection, RefuseBody, VerifyAssertion
<1>3. \E c : Moves(n, c) /\ c.pc # "calling"
  <2>1. CASE VerifyAssertion(n)
    <3>1. PICK old \in CallRow : old = call[n]
      BY DEF GatewayInv, GatewayTypeOK
    <3>2. CASE old.expires > now
      <4>1. PICK c : c = [old EXCEPT !.pc = "verified", !.at = now]
        OBVIOUS
      <4>2. c \in CallRow /\ c.pc = "verified" /\ c.at = now /\ c.run = old.run
            /\ c.tokens = old.tokens /\ c.expires = old.expires
        BY <4>1 DEF CallRow, Undecided, GatewayInv, GatewayTypeOK
      <4>3. c.at < c.expires
        BY <3>2, <4>2 DEF CallRow, GatewayInv, GatewayTypeOK
      <4>4. call' = [call EXCEPT ![n] = c]
        BY <2>1, <3>1, <3>2, <4>1 DEF VerifyAssertion
      <4> QED
        BY <1>2, <3>1, <4>2, <4>3, <4>4 DEF Moves, Undecided
    <3>3. CASE ~(old.expires > now)
      <4>1. PICK c : c = [old EXCEPT !.pc = "over"]
        OBVIOUS
      <4>2. c \in CallRow /\ c.pc = "over" /\ c.run = old.run /\ c.tokens = old.tokens
            /\ c.expires = old.expires
        BY <4>1 DEF CallRow, Undecided
      <4>3. call' = [call EXCEPT ![n] = c]
        BY <2>1, <3>1, <3>3, <4>1 DEF VerifyAssertion
      <4> QED
        BY <1>2, <3>1, <4>2, <4>3 DEF Moves, Undecided
    <3> QED
      BY <3>2, <3>3
  <2>2. CASE Receive(n) \/ RefuseConnection(n) \/ RefuseBody(n)
    <3>1. PICK pc \in {"received", "over"} : Advance(n, pc)
      BY <2>2 DEF Receive, RefuseConnection, RefuseBody
    <3> QED
      BY <1>2, <3>1, GotoMoves DEF Undecided
  <2> QED
    BY <2>1, <2>2
<1>4. PICK c : Moves(n, c) /\ c.pc # "calling"
  BY <1>3
<1>5. GatewayTypeOK' /\ BooksInv'
  BY <1>1, <1>4, MovesKeeps
<1>6. \A m \in Calls : call'[m].pc = "calling" <=> call[m].pc = "calling"
  BY <1>2, <1>4 DEF Moves, GatewayInv, GatewayTypeOK
<1>7. OneModelCall'
  BY <1>1, <1>6, SlotStays
<1> QED
  BY <1>5, <1>7 DEF GatewayInv

\* What the ledger is asked to book it can book: the property itself.
LEMMA VerifiedIsBookable == ASSUME GatewayInv PROVE AdmittedIsBooked
<1> SUFFICES ASSUME NEW n \in Calls, call[n].pc = "verified" PROVE Bookable(n)
  BY DEF AdmittedIsBooked
<1>1. PICK r \in ScopedRuns : /\ call[n].run = {r}
                              /\ call[n].expires = scope[r].expires
                              /\ call[n].at < call[n].expires
                              /\ call[n].tokens <= MaxTokens
  BY DEF GatewayInv, BooksInv, RequestInv
<1>2. Run(n) = r
  BY <1>1, RunOfRequest
<1>3. /\ call[n].tokens \in Nat /\ ledger[r].used \in Nat /\ scope[r].tokens \in Nat
      /\ ledger[r].known \in BOOLEAN
  BY DEF GatewayInv, GatewayTypeOK, CallRow, LedgerRow, ScopeRow
<1>4. call[n].tokens <= Cardinality(Undecideds(r))
  <2>1. PICK t \in Nat : t = call[n].tokens
    BY <1>3
  <2>2. Charge(n, t) \in SUBSET Undecideds(r)
    BY <1>1, <2>1, GatewayConstants DEF Charge, Undecideds, Undecided
  <2>3. Cardinality(Charge(n, t)) <= Cardinality(Undecideds(r))
    BY <2>2, UndecidedsFinite, FS_Subset
  <2> QED
    BY <2>1, <2>3, ChargeCounts
<1>5. ledger[r].used + Cardinality(Undecideds(r)) <= scope[r].tokens /\ scope[r].tokens <= MaxTokens
  BY DEF GatewayInv, BooksInv, ChargeInv
<1>6. call[n].tokens <= MaxTokens - ledger[r].used
  BY <1>3, <1>4, <1>5, UndecidedsFinite, GatewayConstants
<1>7. ledger[r].known => call[n].at < ledger[r].expires
  BY <1>1 DEF GatewayInv, BooksInv, RetirementInv
<1> QED
  BY <1>2, <1>6, <1>7 DEF Bookable

\* The ledger books a request's tokens, which are charged to its run already.
LEMMA ReserveKeeps ==
    ASSUME GatewayInv, NEW n \in Calls, Reserve(n)
    PROVE  GatewayInv'
<1> USE DEF GatewayInv
<1>1. /\ call[n].pc = "verified" /\ Bookable(n) /\ Advance(n, "booked")
      /\ UNCHANGED <<now, scope, inference>>
      /\ ledger' = [ledger EXCEPT ![Run(n)] =
                      [known |-> TRUE, used |-> ledger[Run(n)].used + call[n].tokens,
                       expires |-> Max({ledger[Run(n)].expires, call[n].expires})]]
  BY VerifiedIsBookable DEF Reserve, AdmittedIsBooked, transportVars
<1>2. PICK r \in ScopedRuns : /\ call[n].run = {r} /\ scope[r].state # "none"
                              /\ call[n].expires = scope[r].expires
                              /\ call[n].tokens <= MaxTokens
  BY <1>1 DEF BooksInv, RequestInv
<1>3. Run(n) = r
  BY <1>2, RunOfRequest
<1>4. PICK t \in Nat, e \in Nat, u \in Nat :
         t = call[n].tokens /\ e = scope[r].expires /\ u = ledger[r].used
  BY DEF GatewayTypeOK, CallRow, ScopeRow, LedgerRow
<1>5. ledger[r].expires \in {0, e}
  BY <1>4 DEF BooksInv, RetirementInv, GatewayTypeOK, LedgerRow
<1>6. Max({ledger[r].expires, call[n].expires}) = e
  <2>1. \A x \in Nat, y \in Nat : y <= x => Max({y, x}) = x
    BY DEF Max
  <2>2. PICK y \in Nat : y = ledger[r].expires /\ y <= e
    BY <1>5
  <2>3. Max({y, e}) = e
    BY <2>1, <2>2
  <2> QED
    BY <1>2, <1>4, <2>2, <2>3
<1>7. ledger' = [ledger EXCEPT ![r] = [known |-> TRUE, used |-> u + t, expires |-> e]]
  BY <1>1, <1>3, <1>4, <1>6
<1>8. /\ ledger' \in [ScopedRuns -> LedgerRow]
      /\ ledger'[r] = [known |-> TRUE, used |-> u + t, expires |-> e]
      /\ \A q \in ScopedRuns : q # r => ledger'[q] = ledger[q]
  BY <1>7 DEF GatewayTypeOK, LedgerRow
<1>9. /\ \E c : Moves(n, c) /\ c.pc = "booked"
      /\ call'[n].pc = "booked"
      /\ \A m \in Calls : m # n => call'[m] = call[m]
  BY <1>1, GotoMoves
<1>10. PICK c : Moves(n, c) /\ c.pc = "booked"
  BY <1>9
<1>11. GatewayTypeOK'
  BY <1>1, <1>8, <1>10 DEF GatewayTypeOK, Moves
<1>12. ScopeLeaseInv' /\ RequestInv'
  BY <1>1, <1>9, <1>10 DEF BooksInv, ScopeLeaseInv, RequestInv, Moves, GatewayTypeOK
<1>13. RetirementInv'
  BY <1>1, <1>2, <1>4, <1>8 DEF BooksInv, RetirementInv
<1>14. ASSUME NEW q \in ScopedRuns
       PROVE  /\ ledger'[q].used + Cardinality(Undecideds(q)') <= scope'[q].tokens
              /\ scope'[q].tokens <= MaxTokens
  <2>0. /\ ledger[q].used + Cardinality(Undecideds(q)) <= scope[q].tokens
        /\ scope[q].tokens <= MaxTokens
        /\ ledger[q].used \in Nat /\ scope[q].tokens \in Nat
    BY DEF BooksInv, ChargeInv, GatewayTypeOK, LedgerRow, ScopeRow
  <2>1. CASE q # r
    <3>1. Undecideds(q)' \in SUBSET Undecideds(q)
      BY <1>9, <1>10 DEF Undecideds, Undecided, Moves
    <3>2. Cardinality(Undecideds(q)') <= Cardinality(Undecideds(q))
      BY <3>1, UndecidedsFinite, FS_Subset
    <3> QED
      BY <1>1, <1>8, <2>0, <2>1, <3>2, UndecidedsFinite, GatewayConstants
  <2>2. CASE q = r
    <3>1. Undecideds(r) = Undecideds(r)' \cup Charge(n, t)
      <4>1. Undecideds(r)' = {p \in Undecideds(r) : p[1] # n}
        BY <1>9 DEF Undecideds, Undecided
      <4>2. Charge(n, t) = {p \in Undecideds(r) : p[1] = n}
        BY <1>1, <1>2, <1>4, GatewayConstants DEF Charge, Undecideds, Undecided
      <4> QED
        BY <4>1, <4>2
    <3>2. Undecideds(r)' \cap Charge(n, t) = {}
      BY <1>9 DEF Undecideds, Undecided, Charge
    <3>3. PICK S : S = Undecideds(r)' /\ IsFiniteSet(S)
      BY UndecidedsFinite
    <3>4. Cardinality(S \cup Charge(n, t)) = Cardinality(S) + t
      BY <3>2, <3>3, ChargesAdd
    <3>5. Cardinality(Undecideds(r)) = Cardinality(Undecideds(r)') + t
      BY <3>1, <3>3, <3>4
    <3> QED
      BY <1>1, <1>4, <1>8, <2>0, <2>2, <3>5, UndecidedsFinite, GatewayConstants
  <2> QED
    BY <2>1, <2>2
<1>15. OneModelCall'
  BY <1>1, <1>9, SlotStays
<1> QED
  BY <1>11, <1>12, <1>13, <1>14, <1>15 DEF BooksInv, ChargeInv

\* The slot is taken by one request, and given back by that one.
LEMMA ModelCallKeeps ==
    ASSUME GatewayInv, NEW n \in Calls, TakeSlot(n) \/ Answer(n)
    PROVE  GatewayInv'
<1> USE DEF GatewayInv
<1>1. UNCHANGED <<now, scope, ledger>> /\ inference' \in BOOLEAN
  BY DEF TakeSlot, Answer, transportVars, GatewayTypeOK
<1>2. PICK pc \in {"calling", "over"} :
         /\ call[n].pc \in {"booked", "calling"}
         /\ Advance(n, pc)
         /\ pc = "calling" => ~inference /\ inference'
         /\ pc = "over" => IF call[n].pc = "calling" THEN ~inference' ELSE inference' = inference
  BY DEF TakeSlot, Answer, GatewayTypeOK
<1>3. /\ \E c : Moves(n, c) /\ c.pc = pc
      /\ call'[n].pc = pc
      /\ \A m \in Calls : m # n => call'[m] = call[m]
  BY <1>2, GotoMoves
<1>4. GatewayTypeOK' /\ BooksInv'
  BY <1>1, <1>3, MovesKeeps
<1>5. OneModelCall'
  BY <1>1, <1>2, <1>3 DEF OneModelCall
<1> QED
  BY <1>4, <1>5

\* The transport binds or revokes scopes, but charges nothing.
LEMMA ScopesKeep ==
    ASSUME GatewayInv, now' \in Nat, now <= now', scope' \in [ScopedRuns -> ScopeRow],
           UNCHANGED <<call, ledger, inference>>,
           \A r \in ScopedRuns : /\ scope'[r].tokens = scope[r].tokens
                                 /\ scope[r].state # "none" =>
                                      scope'[r].state # "none" /\ scope'[r].expires = scope[r].expires
                                 /\ scope'[r].expires <= now' + LeaseTime
    PROVE  GatewayInv'
<1> USE DEF GatewayInv
<1>1. GatewayTypeOK'
  BY DEF GatewayTypeOK
<1>2. ScopeLeaseInv' /\ RequestInv' /\ RetirementInv'
  BY DEF BooksInv, ScopeLeaseInv, RequestInv, RetirementInv
<1>3. ChargeInv'
  BY <1>1, ChargesStay
<1>4. OneModelCall'
  BY SlotStays
<1> QED
  BY <1>1, <1>2, <1>3, <1>4 DEF BooksInv

LEMMA TransportKeeps ==
    ASSUME GatewayInv,
           \/ \E r \in ScopedRuns : Register(r) \/ Revoke(r)
           \/ RestartTransport \/ Tick
    PROVE  GatewayInv'
<1>0. /\ now \in Nat /\ scope \in [ScopedRuns -> ScopeRow]
      /\ \A q \in ScopedRuns : scope[q].expires <= now + LeaseTime /\ scope[q].expires \in Nat
      /\ LeaseTime \in Nat
  BY GatewayConstants DEF GatewayInv, GatewayTypeOK, BooksInv, ScopeLeaseInv, ScopeRow
<1>1. ASSUME NEW r \in ScopedRuns, Register(r) PROVE GatewayInv'
  <2>1. UNCHANGED <<now, call, ledger, inference>>
    BY <1>1 DEF Register
  <2>2. PICK d \in 1..LeaseTime :
           scope' = [scope EXCEPT ![r] = [@ EXCEPT !.state = "bound", !.expires = now + d]]
    BY <1>1 DEF Register
  <2>3. PICK old \in ScopeRow, e \in Nat : old = scope[r] /\ e = now + d
    BY <1>0
  <2>4. PICK new : new = [old EXCEPT !.state = "bound", !.expires = e]
    OBVIOUS
  <2>5. new \in ScopeRow /\ new.tokens = old.tokens /\ new.expires = e
    BY <2>4 DEF ScopeRow
  <2>6. scope' = [scope EXCEPT ![r] = new]
    BY <2>2, <2>3, <2>4
  <2>7. /\ scope' \in [ScopedRuns -> ScopeRow] /\ scope'[r] = new
        /\ \A q \in ScopedRuns : q # r => scope'[q] = scope[q]
    BY <1>0, <2>5, <2>6
  <2>8. e <= now + LeaseTime
    BY <1>0, <2>3
  <2>10. scope[r].state = "none"
    BY <1>1 DEF Register
  <2>9. now' \in Nat /\ now <= now'
    BY <1>0, <2>1
  <2> QED
    BY <1>0, <2>1, <2>3, <2>5, <2>7, <2>8, <2>9, <2>10, ScopesKeep
<1>2. ASSUME NEW r \in ScopedRuns, Revoke(r) PROVE GatewayInv'
  <2>1. UNCHANGED <<now, call, ledger, inference>>
    BY <1>2 DEF Revoke
  <2>2. /\ scope' \in [ScopedRuns -> ScopeRow]
        /\ \A q \in ScopedRuns : /\ scope'[q].tokens = scope[q].tokens
                                 /\ scope'[q].expires = scope[q].expires
                                 /\ scope[q].state # "none" => scope'[q].state # "none"
    BY <1>0, <1>2 DEF Revoke, ScopeRow
  <2>3. now' \in Nat /\ now <= now'
    BY <1>0, <2>1
  <2> QED
    BY <1>0, <2>1, <2>2, <2>3, ScopesKeep
<1>3. CASE RestartTransport
  <2>1. UNCHANGED <<now, call, ledger, inference>>
    BY <1>3 DEF RestartTransport
  <2>2. /\ scope' \in [ScopedRuns -> ScopeRow]
        /\ \A q \in ScopedRuns : /\ scope'[q].tokens = scope[q].tokens
                                 /\ scope'[q].expires = scope[q].expires
                                 /\ scope[q].state # "none" => scope'[q].state # "none"
    <3>1. \A row \in ScopeRow : /\ [row EXCEPT !.state = "void"] \in ScopeRow
                                /\ [row EXCEPT !.state = "void"].tokens = row.tokens
                                /\ [row EXCEPT !.state = "void"].expires = row.expires
                                /\ [row EXCEPT !.state = "void"].state = "void"
      BY DEF ScopeRow
    <3>2. /\ scope' = [q \in ScopedRuns |-> IF scope[q].state = "none" THEN scope[q]
                                            ELSE [scope[q] EXCEPT !.state = "void"]]
          /\ \A q \in ScopedRuns : scope[q] \in ScopeRow
      BY <1>0, <1>3 DEF RestartTransport
    <3> QED
      BY <3>1, <3>2
  <2>3. now' \in Nat /\ now <= now'
    BY <1>0, <2>1
  <2> QED
    BY <1>0, <2>1, <2>2, <2>3, ScopesKeep
<1>4. CASE Tick
  <2>1. UNCHANGED <<scope, call, ledger, inference>> /\ now' = now + 1
    BY <1>4 DEF Tick, transportVars
  <2>2. \A q \in ScopedRuns : scope'[q].expires <= now' + LeaseTime
    BY <1>0, <2>1
  <2> QED
    BY <1>0, <2>1, <2>2, ScopesKeep
<1> QED
  BY <1>1, <1>2, <1>3, <1>4

\* The assertion of an inference ends with the lease: none is longer than an
\* assertion may live.
LEMMA AssertionEndsWithLease ==
    ASSUME GatewayInv, NEW r \in ScopedRuns
    PROVE  AssertionExpiry(r) = scope[r].expires
<1>1. \A x \in Nat, y \in Nat : x <= y => Min({x, y}) = x
  BY DEF Min
<1>2. /\ scope[r].expires \in Nat /\ now + Window \in Nat
      /\ scope[r].expires <= now + Window
  BY GatewayConstants DEF GatewayInv, GatewayTypeOK, ScopeRow, BooksInv, ScopeLeaseInv
<1> QED
  BY <1>1, <1>2 DEF AssertionExpiry

\* An inference is charged to its run as it leaves.
LEMMA InferKeeps ==
    ASSUME GatewayInv, NEW r \in ScopedRuns, NEW n \in Calls,
           NEW tokens \in 1..MaxTokens, Infer(r, n, tokens)
    PROVE  GatewayInv'
<1> USE DEF GatewayInv
<1>1. UNCHANGED <<now, ledger, inference>>
  BY DEF Infer
<1>2. PICK old \in ScopeRow : old = scope[r]
  BY DEF GatewayTypeOK
<1>3. tokens \in Nat /\ tokens <= MaxTokens
  BY GatewayConstants
<1>4. PICK new \in ScopeRow :
         /\ scope' = [scope EXCEPT ![r] = new] /\ new.state = old.state
         /\ new.expires = old.expires /\ new.tokens = old.tokens + tokens
  <2>1. PICK new : new = [old EXCEPT !.inferences = @ + 1, !.tokens = @ + tokens]
    OBVIOUS
  <2>2. new \in ScopeRow /\ new.state = old.state /\ new.expires = old.expires
        /\ new.tokens = old.tokens + tokens
    <3>1. PICK i \in Nat, t \in Nat : i = old.inferences + 1 /\ t = old.tokens + tokens
      BY <1>3 DEF ScopeRow
    <3>2. new = [old EXCEPT !.inferences = i, !.tokens = t]
      BY <2>1, <3>1
    <3> QED
      BY <3>1, <3>2 DEF ScopeRow
  <2>3. scope' = [scope EXCEPT ![r] = new]
    BY <1>2, <2>1 DEF Infer, Charged
  <2> QED
    BY <2>2, <2>3
<1>5. old.state = "bound" /\ old.tokens + tokens <= MaxTokens /\ call[n].pc = "none"
  BY <1>2 DEF Infer, Leased, NoCall
<1>6. PICK c \in CallRow :
         /\ call' = [call EXCEPT ![n] = c] /\ c.run = {r} /\ c.tokens = tokens
         /\ c.expires = old.expires /\ c.pc = "sent"
  <2>1. PICK none \in CallRow, e \in Nat, owner \in SUBSET ScopedRuns :
           none = NoCall /\ e = old.expires /\ owner = {r}
    BY DEF CallRow, NoCall, ScopeRow
  <2>2. PICK c : c = [none EXCEPT !.run = owner, !.tokens = tokens, !.expires = e, !.pc = "sent"]
    OBVIOUS
  <2>3. c \in CallRow /\ c.run = owner /\ c.tokens = tokens /\ c.expires = e /\ c.pc = "sent"
    BY <1>3, <2>2 DEF CallRow, Undecided
  <2>4. AssertionExpiry(r) = e
    BY <1>2, <2>1, AssertionEndsWithLease
  <2>5. call' = [call EXCEPT ![n] = c]
    BY <2>1, <2>2, <2>4 DEF Infer
  <2> QED
    BY <2>1, <2>3, <2>5
<1>7. /\ scope' \in [ScopedRuns -> ScopeRow] /\ scope'[r] = new
      /\ \A q \in ScopedRuns : q # r => scope'[q] = scope[q]
  BY <1>4 DEF GatewayTypeOK
<1>8. /\ call' \in [Calls -> CallRow] /\ call'[n] = c
      /\ \A m \in Calls : m # n => call'[m] = call[m]
  BY <1>6 DEF GatewayTypeOK
<1>9. GatewayTypeOK'
  BY <1>1, <1>7, <1>8 DEF GatewayTypeOK
<1>10. ScopeLeaseInv' /\ RetirementInv'
  BY <1>1, <1>2, <1>4, <1>7 DEF BooksInv, ScopeLeaseInv, RetirementInv
<1>11. RequestInv'
  BY <1>2, <1>3, <1>4, <1>5, <1>6, <1>7, <1>8 DEF BooksInv, RequestInv
<1>12. ASSUME NEW q \in ScopedRuns
       PROVE  /\ ledger'[q].used + Cardinality(Undecideds(q)') <= scope'[q].tokens
              /\ scope'[q].tokens <= MaxTokens
  <2>0. /\ ledger[q].used + Cardinality(Undecideds(q)) <= scope[q].tokens
        /\ scope[q].tokens <= MaxTokens
        /\ ledger[q].used \in Nat /\ scope[q].tokens \in Nat
    BY DEF BooksInv, ChargeInv, GatewayTypeOK, LedgerRow, ScopeRow
  <2>1. CASE q # r
    <3>1. Undecideds(q)' = Undecideds(q)
      BY <1>5, <1>6, <1>8, <2>1 DEF Undecideds, Undecided
    <3> QED
      BY <1>1, <1>7, <2>0, <2>1, <3>1
  <2>2. CASE q = r
    <3>1. Undecideds(r)' = Undecideds(r) \cup Charge(n, tokens)
      <4>1. Undecideds(r) = {p \in Undecideds(r)' : p[1] # n}
        BY <1>5, <1>8 DEF Undecideds, Undecided
      <4>2. Charge(n, tokens) = {p \in Undecideds(r)' : p[1] = n}
        BY <1>3, <1>6, <1>8, GatewayConstants DEF Charge, Undecideds, Undecided
      <4> QED
        BY <4>1, <4>2
    <3>2. Undecideds(r) \cap Charge(n, tokens) = {}
      BY <1>5 DEF Undecideds, Undecided, Charge
    <3>3. Cardinality(Undecideds(r)') = Cardinality(Undecideds(r)) + tokens
      BY <1>3, <3>1, <3>2, UndecidedsFinite, ChargesAdd
    <3> QED
      BY <1>1, <1>2, <1>3, <1>4, <1>5, <1>7, <2>0, <2>2, <3>3, UndecidedsFinite,
         GatewayConstants
  <2> QED
    BY <2>1, <2>2
<1>13. OneModelCall'
  BY <1>1, <1>5, <1>6, <1>8, SlotStays
<1> QED
  BY <1>9, <1>10, <1>11, <1>12, <1>13 DEF BooksInv, ChargeInv

\* The gateway's end ends what it was working on; its ledger stays.
LEMMA ExitKeeps ==
    ASSUME GatewayInv, Exit
    PROVE  GatewayInv'
<1> USE DEF GatewayInv
<1>1. UNCHANGED <<now, scope, ledger>> /\ inference' = FALSE
  BY DEF Exit, transportVars
<1>2. /\ call' \in [Calls -> CallRow]
      /\ \A n \in Calls :
           /\ call'[n].run = call[n].run /\ call'[n].tokens = call[n].tokens
           /\ call'[n].expires = call[n].expires
           /\ \/ call'[n].pc = call[n].pc /\ call[n].pc \in {"none", "sent"}
              \/ call'[n].pc = "over" /\ call[n].pc # "none"
  BY DEF Exit, GatewayTypeOK, CallRow, Undecided
<1>3. GatewayTypeOK'
  BY <1>1, <1>2 DEF GatewayTypeOK
<1>4. ScopeLeaseInv' /\ RetirementInv'
  BY <1>1 DEF BooksInv, ScopeLeaseInv, RetirementInv
<1>5. RequestInv'
  BY <1>1, <1>2 DEF BooksInv, RequestInv
<1>6. ChargeInv'
  BY <1>1, <1>2, <1>3, ChargesStay DEF Undecided
<1>7. OneModelCall'
  BY <1>1, <1>2 DEF OneModelCall
<1> QED
  BY <1>3, <1>4, <1>5, <1>6, <1>7 DEF BooksInv

LEMMA GatewayInvNext == GatewayInv /\ [GatewayNext]_gatewayVars => GatewayInv'
<1> SUFFICES ASSUME GatewayInv, [GatewayNext]_gatewayVars PROVE GatewayInv'
  OBVIOUS
<1>1. CASE UNCHANGED <<now, scope, call, ledger, inference>>
  BY <1>1 DEF GatewayInv, GatewayTypeOK, BooksInv, ScopeLeaseInv, RequestInv, RetirementInv,
     ChargeInv,
     Undecideds, OneModelCall
<1>2. CASE \/ EndUpstream \/ Start \/ ChildReady \/ ChildExits \/ Serve \/ Shutdown
           \/ UNCHANGED gatewayVars
  BY <1>1, <1>2 DEF EndUpstream, Start, ChildReady, ChildExits, Serve, Shutdown,
     gatewayVars,
     transportVars
<1>3. ASSUME NEW n \in Calls, HandlerStep(n) PROVE GatewayInv'
  BY <1>3, ArrivalKeeps, ReserveKeeps, ModelCallKeeps DEF HandlerStep
<1> QED
  BY <1>2, <1>3, TransportKeeps, InferKeeps, ExitKeeps DEF GatewayNext

\* The inductive invariant of transport budget, durable ledger and slot.
THEOREM GatewayInvariant == GatewaySpec => []GatewayInv
  BY GatewayInvInit, GatewayInvNext, PTL DEF GatewaySpec

\* A verified inference finds its run not retired and tokens left, whatever
\* restarted or was late in between (DurableBudgetLedger.reserve).
THEOREM AdmittedStaysBookable == GatewaySpec => []AdmittedIsBooked
  BY GatewayInvariant, VerifiedIsBookable, PTL

\* LiteLLM works on one inference at a time, and the slot is taken only then
\* (inference_slot).
THEOREM OneInferenceAtATime == GatewaySpec => []OneModelCall
  BY GatewayInvariant, PTL DEF GatewayInv
=============================================================================
