---------------------------- MODULE LaunchWorkflow ----------------------------
(***************************************************************************)
(* LaunchLoop (backend/launchloop): the workflow of an event from draft to *)
(* delivery (services.py), the owner's events and the Eventbrite import    *)
(* (pilot.py, owner_events.py).                                            *)
(*                                                                         *)
(* There is one workflow of each source_kind: the synthetic demo, an event *)
(* typed in by the owner and one imported from Eventbrite.  Every service  *)
(* locks the workflow's row and is one step, except select_eventbrite_     *)
(* event, which locks the source but reads the workflow unlocked, and the  *)
(* refresh, which fetches a page before its transaction.  A package is     *)
(* determined by the facts of a revision, so its hash is modelled by the   *)
(* revision's version (0: no package).                                     *)
(***************************************************************************)
EXTENDS Naturals, FiniteSets, FiniteSetsExt

CONSTANTS
    Tabs,          \* browser tabs in which the approver has the demo open
    Refreshers,    \* Eventbrite refreshes that run side by side
    MaxRevisions,  \* bound: revisions that all events together are at
    MaxSnapshots,  \* bound: versions of the provider's event
    MaxApprovals   \* bound: approval requests ever created

ASSUME WorkflowBounds == {MaxRevisions, MaxSnapshots, MaxApprovals} \subseteq Nat

Kinds == {"synthetic", "manual", "eventbrite"}

VARIABLES
    workflow,   \* the Workflow row of each kind, with its revision's facts
    approval,   \* the ApprovalRequest of the synthetic workflow, and (history)
                \* what the tab it was decided in had shown
    approvals,  \* how many approval requests were created
    delivered,  \* ConnectorExecution rows of the synthetic workflow
    page,       \* approval and hash each tab shows
    newest,     \* version of the event at Eventbrite
    source,     \* ProviderEvent.current_snapshot (0: none yet)
    fetched,    \* page each refresh has fetched and not yet applied
    selecting,  \* snapshot of a select_eventbrite_event in progress
    busy,       \* workflows with a queued or running AgentRun
    pinned      \* workflows that agent rows refer to (on_delete=PROTECT)

launchVars == <<workflow, approval, approvals, delivered, page>>
pilotVars == <<newest, source, fetched, selecting>>
agentVars == <<busy, pinned>>
workflowVars == <<launchVars, pilotVars, agentVars>>

NoWorkflow == [status |-> "none", version |-> 0, complete |-> FALSE, package |-> 0, snapshot |-> 0]
NoPage == [id |-> 0, hash |-> 0]
NoApproval == [status |-> "none", id |-> 0, hash |-> 0, seen |-> NoPage]

WorkflowInit ==
    /\ workflow = [k \in Kinds |-> NoWorkflow]
    /\ approval = NoApproval
    /\ approvals = 0
    /\ delivered = {}
    /\ page = [t \in Tabs |-> NoPage]
    /\ newest = 1
    /\ source = 0
    /\ fetched = [r \in Refreshers |-> 0]
    /\ selecting = 0
    /\ busy = {}
    /\ pinned = {}

\* The bound on revisions: one more may be created.
RevisionLeft == MapThenSumSet(LAMBDA k : workflow[k].version, Kinds) < MaxRevisions

\* A mistake: the new revision keeps the package of the one it replaces.
RevisedWithPackage(k, complete, status, snapshot) ==
    [status |-> status, version |-> workflow[k].version + 1, complete |-> complete,
     package |-> workflow[k].package, snapshot |-> snapshot]

\* A revision of its event becomes the workflow's: the package goes with the old one.
Revised(k, complete, status, snapshot) ==
    [status |-> status, version |-> workflow[k].version + 1, complete |-> complete,
     package |-> 0, snapshot |-> snapshot]

-----------------------------------------------------------------------------
(* The synthetic demo.                                                     *)

\* reset_demo: the old demo and its approvals go, unless agent rows protect it.
ResetDemo ==
    /\ "synthetic" \notin pinned
    /\ RevisionLeft
    /\ workflow' = [workflow EXCEPT !["synthetic"] =
                      [NoWorkflow EXCEPT !.status = "draft", !.version = 1]]
    /\ approval' = NoApproval
    /\ delivered' = {}
    /\ UNCHANGED <<approvals, page, pilotVars, agentVars>>

\* prepare_package, or prepare_owner_package for an owner's event: ready for
\* review exactly when no fact is missing.
Prepared(w) ==
    [w EXCEPT !.package = w.version,
              !.status = IF w.complete THEN "ready_for_review" ELSE "needs_input"]

\* run_workflow: the package of the locked workflow's revision.
RunWorkflow(k) ==
    /\ workflow[k].status = "draft"
    /\ workflow' = [workflow EXCEPT ![k] = Prepared(@)]
    /\ UNCHANGED <<approval, approvals, delivered, page, pilotVars, agentVars>>

\* answer_questions: some or all of the missing facts.
AnswerQuestions ==
    /\ workflow["synthetic"].status = "needs_input"
    /\ RevisionLeft
    /\ \E rest \in BOOLEAN :
         LET complete == workflow["synthetic"].complete \/ rest IN
         workflow' = [workflow EXCEPT !["synthetic"] =
                        Revised("synthetic", complete, IF complete THEN "draft" ELSE "needs_input", 0)]
    /\ approval' = NoApproval
    /\ UNCHANGED <<approvals, delivered, page, pilotVars, agentVars>>

\* submit_workflow: one ApprovalRequest per workflow (OneToOneField).
SubmitWorkflow ==
    /\ workflow["synthetic"].status = "ready_for_review"
    /\ workflow["synthetic"].package # 0
    /\ approval.status = "none"
    /\ approvals < MaxApprovals
    /\ approvals' = approvals + 1
    /\ approval' = [status |-> "pending", id |-> approvals + 1,
                    hash |-> workflow["synthetic"].package, seen |-> NoPage]
    /\ workflow' = [workflow EXCEPT !["synthetic"].status = "in_review"]
    /\ UNCHANGED <<delivered, page, pilotVars, agentVars>>

\* serialize_demo in the approver's tab: the package that will be decided on.
OpenReview(t) ==
    /\ approval.status = "pending"
    /\ page' = [page EXCEPT ![t] = [id |-> approval.id, hash |-> approval.hash]]
    /\ UNCHANGED <<workflow, approval, approvals, delivered, pilotVars, agentVars>>

\* Mistakes: whatever request is pending is decided, not the one on the page; a
\* request that was decided meanwhile is decided again.
MayDecideAnother(t) ==
    /\ page[t].id # 0
    /\ approval.status = "pending"

MayDecideTwice(t) ==
    /\ page[t].id # 0
    /\ approval.id = page[t].id
    /\ approval.hash = page[t].hash

\* decide_approval, up to the decision: the request of this id still exists,
\* is pending and holds the hash the approver saw.
MayDecide(t) ==
    /\ page[t].id # 0
    /\ approval.id = page[t].id
    /\ approval.status = "pending"
    /\ approval.hash = page[t].hash

\* The rejected package is cleared.
Reject(t) ==
    /\ MayDecide(t)
    /\ approval' = [approval EXCEPT !.status = "rejected", !.seen = page[t]]
    /\ workflow' = [workflow EXCEPT !["synthetic"] =
                      [@ EXCEPT !.package = 0, !.status = "needs_input"]]
    /\ UNCHANGED <<approvals, delivered, page, pilotVars, agentVars>>

\* The approved one is delivered in the same transaction; its idempotency key
\* is the package's hash.
Approve(t) ==
    /\ MayDecide(t)
    /\ \A e \in delivered : e.hash # approval.hash
    /\ approval' = [approval EXCEPT !.status = "approved", !.seen = page[t]]
    /\ delivered' = delivered \cup {[id |-> approval.id, hash |-> approval.hash,
                                     package |-> workflow["synthetic"].package]}
    /\ workflow' = [workflow EXCEPT !["synthetic"].status = "completed"]
    /\ UNCHANGED <<approvals, page, pilotVars, agentVars>>

-----------------------------------------------------------------------------
(* The owner's events.                                                     *)

\* validate_facts: changes that pass leave nothing missing, or something.
ValidFacts == BOOLEAN

\* start_manual_event: title, date and timezone are there, the rest may be.
StartManualEvent ==
    /\ workflow["manual"].status = "none"
    /\ RevisionLeft
    /\ \E complete \in ValidFacts :
         workflow' = [workflow EXCEPT !["manual"] = Revised("manual", complete, "draft", 0)]
    /\ UNCHANGED <<approval, approvals, delivered, page, pilotVars, agentVars>>

\* update_event_facts: not under an agent's run, and not in review.
UpdateEventFacts(k) ==
    /\ k \in {"manual", "eventbrite"}
    /\ k \notin busy
    /\ workflow[k].status \in {"draft", "needs_input", "ready_for_review"}
    /\ RevisionLeft
    /\ \E complete \in ValidFacts :
         workflow' = [workflow EXCEPT ![k] = Revised(k, complete, "draft", workflow[k].snapshot)]
    /\ UNCHANGED <<approval, approvals, delivered, page, pilotVars, agentVars>>

\* Somebody edits the event at Eventbrite.
ProviderChanges ==
    /\ newest < MaxSnapshots
    /\ newest' = newest + 1
    /\ UNCHANGED <<launchVars, source, fetched, selecting, agentVars>>

\* list_page: the event as Eventbrite holds it at that moment.
ListPage == newest

\* refresh_configured_eventbrite_events: the page is fetched under the lease ...
FetchEvents(r) ==
    /\ fetched[r] = 0
    /\ fetched' = [fetched EXCEPT ![r] = ListPage]
    /\ UNCHANGED <<launchVars, newest, source, selecting, agentVars>>

\* ... and then written by refresh_eventbrite_events, which locks the source.
RefreshEvents(r) ==
    /\ fetched[r] # 0
    /\ selecting = 0
    /\ source' = fetched[r]
    /\ fetched' = [fetched EXCEPT ![r] = 0]
    /\ UNCHANGED <<launchVars, newest, selecting, agentVars>>

\* select_eventbrite_event, up to the workflow it read without a lock: an event
\* with a new snapshot and no package under review.
ReadSelection ==
    /\ selecting = 0
    /\ source # 0
    /\ workflow["eventbrite"].snapshot # source
    /\ workflow["eventbrite"].status \in {"none", "draft", "needs_input"}
    /\ selecting' = source
    /\ UNCHANGED <<launchVars, newest, source, fetched, agentVars>>

\* ... and the new revision: version, status and package are written in any case.
WriteSelection ==
    /\ selecting # 0
    /\ RevisionLeft
    /\ workflow' = [workflow EXCEPT !["eventbrite"] =
                      Revised("eventbrite", FALSE, "draft", selecting)]
    /\ selecting' = 0
    /\ UNCHANGED <<approval, approvals, delivered, page, newest, source, fetched, agentVars>>

\* The selection rolls back: an edit in between took the version it had computed
\* for its revision, or the request failed otherwise.
AbortSelection ==
    /\ selecting # 0
    /\ selecting' = 0
    /\ UNCHANGED <<launchVars, newest, source, fetched, agentVars>>

LaunchNext ==
    \/ ResetDemo \/ AnswerQuestions \/ SubmitWorkflow \/ StartManualEvent
    \/ \E t \in Tabs : OpenReview(t) \/ Reject(t) \/ Approve(t)
    \/ \E k \in Kinds : RunWorkflow(k) \/ UpdateEventFacts(k)
    \/ ProviderChanges \/ ReadSelection \/ WriteSelection \/ AbortSelection
    \/ \E r \in Refreshers : FetchEvents(r) \/ RefreshEvents(r)

-----------------------------------------------------------------------------
(* Properties.                                                             *)

\* A package always belongs to the revision its workflow is at, whatever edits,
\* imports and runs overlapped; and a workflow that is ready or in review has one.
PackageIsOfItsRevision ==
    \A k \in Kinds :
      /\ workflow[k].package \in {0, workflow[k].version}
      /\ workflow[k].status \in {"ready_for_review", "in_review", "completed"} =>
           workflow[k].package # 0 /\ workflow[k].complete

\* The approval and its workflow agree: a request is pending exactly while the
\* workflow is in review and it holds that workflow's package; whoever decided it
\* had this request with this hash on the page, however old the page was; and
\* what was delivered is what was approved, once.
DeliveredAsApproved ==
    LET w == workflow["synthetic"] IN
    /\ (approval.status = "pending") = (w.status = "in_review")
    /\ approval.status = "pending" => approval.hash = w.package
    /\ approval.status = "rejected" => w.status = "needs_input"
    /\ (approval.status = "approved") = (w.status = "completed")
    /\ approval.status \in {"rejected", "approved"} =>
         approval.seen = [id |-> approval.id, hash |-> approval.hash]
    /\ delivered = IF approval.status = "approved"
                   THEN {[id |-> approval.id, hash |-> approval.hash, package |-> approval.hash]}
                   ELSE {}
=============================================================================
