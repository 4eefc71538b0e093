------------------------------ MODULE McpBroker ------------------------------
(***************************************************************************)
(* The agent's side of LaunchLoop: the capability of a Hermes run          *)
(* (agents/capabilities.py), the MCP broker it is presented to             *)
(* (agents/mcp.py) and the acceptance of the run's result (agents/         *)
(* tasks.py), beside everything LaunchWorkflow lets happen to the workflow.*)
(*                                                                         *)
(* A tool call locks the capability and the workflow and is one step.  A   *)
(* bound call carries identifiers derived from the capability, the tool    *)
(* and the arguments, so a call is known by those.  The child of a run may *)
(* go on calling after its run has ended.  The broker takes a proposal of  *)
(* any run on its revision; who can name one is the constant Disclosed.    *)
(* The lane, the lease, the budget and quarantine are HermesLane's; here a *)
(* run is admitted when no other is active.                                *)
(***************************************************************************)
EXTENDS LaunchWorkflow

CONSTANTS
    Runs,        \* Hermes runs
    Contents,    \* proposals an agent may come up with
    AgentKinds,  \* the workflows a run is started for
    Disclosed    \* <<r, q>>: the child of r was told the identifiers of q's proposals

ASSUME AgentKindsAssumption == AgentKinds \subseteq Kinds
ASSUME DisclosedAssumption == Disclosed \subseteq Runs \X Runs

VARIABLES
    run,         \* AgentRun rows: status, workflow and revision
    capability,  \* WorkflowCapability of each run
    calls,       \* MCPInvocation rows
    proposals,   \* MCPSubmission rows of kind "proposal"
    operations   \* DraftOperation rows

brokerVars == <<calls, proposals, operations>>
vars == <<workflowVars, run, capability, brokerVars>>

NoRun == [status |-> "none", kind |-> "none", revision |-> 0]

Init ==
    /\ WorkflowInit
    /\ run = [r \in Runs |-> NoRun]
    /\ capability = [r \in Runs |-> "none"]
    /\ calls = {}
    /\ proposals = {}
    /\ operations = {}

-----------------------------------------------------------------------------
(* The run.                                                                *)

\* _ready and _owner_ready: the revision the run is bound to, with its package.
Ready(k, revision) ==
    /\ workflow[k].version = revision
    /\ workflow[k].status \in {"ready_for_review", "in_review"}
    /\ workflow[k].package = workflow[k].version

\* queue_hermes_run, from start_hermes: no other run is active.
QueueHermesRun(r, k) ==
    /\ run[r] = NoRun
    /\ busy = {}
    /\ Ready(k, workflow[k].version)
    /\ run' = [run EXCEPT ![r] = [status |-> "queued", kind |-> k,
                                  revision |-> workflow[k].version]]
    /\ busy' = {k}
    /\ pinned' = pinned \cup {k}
    /\ UNCHANGED <<launchVars, pilotVars, capability, brokerVars>>

\* The worker's first transaction: _check, then issue_workflow_capability.
ClaimRun(r) ==
    /\ run[r].status = "queued"
    /\ Ready(run[r].kind, run[r].revision)
    /\ run' = [run EXCEPT ![r].status = "running"]
    /\ capability' = [capability EXCEPT ![r] = "live"]
    /\ UNCHANGED <<workflowVars, brokerVars>>

\* expires_at passes.
ExpireCapability(r) ==
    /\ capability[r] = "live"
    /\ capability' = [capability EXCEPT ![r] = "expired"]
    /\ UNCHANGED <<workflowVars, run, brokerVars>>

\* cancel_hermes_run of a running run: its capability goes at once.
CancelHermesRun(r) ==
    /\ run[r].status = "running"
    /\ capability[r] # "revoked"
    /\ capability' = [capability EXCEPT ![r] = "revoked"]
    /\ UNCHANGED <<workflowVars, run, brokerVars>>

\* _finish and _terminal, for whatever reason, and the cancel of a queued run.
\* The run ends also when its capability could not be revoked.
FinishRun(r) ==
    /\ run[r].status \in {"queued", "running"}
    /\ run' = [run EXCEPT ![r].status = "failed"]
    /\ \E revoked \in BOOLEAN :
         capability' = [capability EXCEPT ![r] =
                          IF @ = "none" \/ ~revoked THEN @ ELSE "revoked"]
    /\ busy' = {}
    /\ UNCHANGED <<launchVars, pilotVars, pinned, brokerVars>>

-----------------------------------------------------------------------------
(* The tools.                                                              *)

\* A mistake: only expires_at and the revision are looked at.
AdmittedAfterRevocation(r) ==
    /\ capability[r] \in {"live", "revoked"}
    /\ workflow[run[r].kind].version = run[r].revision

\* _dispatch: the capability is neither revoked nor expired, and the workflow
\* is still at its revision.  The run's status is not asked for.
Admitted(r) ==
    /\ capability[r] = "live"
    /\ workflow[run[r].kind].version = run[r].revision

\* bind_call_metadata: the identity of a bound call.
CallId(r, tool, argument) == <<r, tool, argument>>

\* propose_campaign_drafts: a submission; the same call again is replayed.
ProposeCampaignDrafts(r, c) ==
    /\ Admitted(r)
    /\ CallId(r, "propose", c) \notin calls
    /\ proposals' = proposals \cup {[run |-> r, content |-> c]}
    /\ calls' = calls \cup {CallId(r, "propose", c)}
    /\ UNCHANGED <<workflowVars, run, capability, operations>>

\* The submissions of a run's own capability.
Made(r) == {p \in proposals : p.run = r}

\* The broker returns the identifier of a submission to the run that made it;
\* another run's child knows it only if it was disclosed to it.
Known(r) == Made(r) \cup {p \in proposals : <<r, p.run>> \in Disclosed}

\* A mistake: a proposal of any revision of the workflow will do.
AvailableOfWorkflow(r, p) == run[p.run].kind = run[r].kind

\* _proposal: made on the caller's workflow and revision, by whichever run.
Available(r, p) ==
    /\ run[p.run].kind = run[r].kind
    /\ run[p.run].revision = run[r].revision

Tools == [request_eventbrite_draft |-> {"create_eventbrite_draft"},
          request_iterable_drafts |-> {"create_iterable_email_draft",
                                       "create_iterable_reminder_draft"}]
RequiredOperations == UNION {Tools[tool] : tool \in DOMAIN Tools}

\* A mistake: the operation is known by its submission, not by the content.
OperationKeyOfSubmission(o) == <<o.kind, o.revision, o.action, o.proposal>>

\* The idempotency key: workflow, revision, operation and the proposal's digest.
OperationKey(o) == <<o.kind, o.revision, o.action, o.proposal.content>>

\* DraftOperation.objects.get_or_create by that key.
GetOrCreate(new) ==
    operations \cup {o \in new : \A p \in operations : OperationKey(p) # OperationKey(o)}

\* request_eventbrite_draft and request_iterable_drafts.
RequestDrafts(r, p, tool) ==
    /\ Admitted(r)
    /\ p \in Known(r)
    /\ Available(r, p)
    /\ CallId(r, tool, p) \notin calls
    /\ operations' = GetOrCreate({[kind |-> run[r].kind, revision |-> run[r].revision,
                                   action |-> a, proposal |-> p] : a \in Tools[tool]})
    /\ calls' = calls \cup {CallId(r, tool, p)}
    /\ UNCHANGED <<workflowVars, run, capability, proposals>>

-----------------------------------------------------------------------------
(* The result.                                                             *)

\* The operations of a run: those whose proposal came under its capability.
Own(r) == {o \in operations : o.proposal.run = r}

\* _validate_result with the proposals the answer refers to.
ValidResult(r, refs) ==
    /\ refs # {}
    /\ refs \subseteq Made(r)
    /\ \A o \in Own(r) : o.proposal \in refs /\ o.kind = run[r].kind
                                             /\ o.revision = run[r].revision
    /\ run[r].kind # "synthetic" =>
         /\ Cardinality(refs) = 1
         /\ Cardinality(Own(r)) = Cardinality(RequiredOperations)
         /\ {o.action : o \in Own(r)} = RequiredOperations

\* The worker's last transaction: _check, _validate_result, the capability is
\* revoked and the run has succeeded.
AcceptResult(r, refs) ==
    /\ run[r].status = "running"
    /\ Ready(run[r].kind, run[r].revision)
    /\ capability[r] = "live"
    /\ ValidResult(r, refs)
    /\ run' = [run EXCEPT ![r].status = "succeeded"]
    /\ capability' = [capability EXCEPT ![r] = "revoked"]
    /\ busy' = {}
    /\ UNCHANGED <<launchVars, pilotVars, pinned, brokerVars>>

Next ==
    \/ LaunchNext /\ UNCHANGED <<run, capability, brokerVars>>
    \/ \E r \in Runs :
         \/ \E k \in AgentKinds : QueueHermesRun(r, k)
         \/ ClaimRun(r) \/ ExpireCapability(r) \/ CancelHermesRun(r) \/ FinishRun(r)
         \/ \E c \in Contents : ProposeCampaignDrafts(r, c)
         \/ \E p \in proposals, tool \in DOMAIN Tools : RequestDrafts(r, p, tool)
         \/ \E refs \in SUBSET Made(r) : AcceptResult(r, refs)

Spec == Init /\ [][Next]_vars

-----------------------------------------------------------------------------
(* Properties.                                                             *)

\* No other run's child can name this run's proposals.
Private(r) == \A q \in Runs \ {r} : <<q, r>> \notin Disclosed

\* What was accepted stays what it was: whatever a succeeded run's child or other
\* runs call later, an owner's event keeps all three operations of one proposal,
\* and none of another workflow or revision is ever listed under the run.  As
\* long as its proposals are private these three are all that is listed.
AcceptedIsWhole ==
    \A r \in Runs : run[r].status = "succeeded" /\ run[r].kind # "synthetic" =>
        /\ \A o \in Own(r) : o.kind = run[r].kind /\ o.revision = run[r].revision
        /\ \E p \in Made(r) :
             /\ {o.action : o \in {x \in Own(r) : x.proposal = p}} = RequiredOperations
             /\ Private(r) => \A o \in Own(r) : o.proposal = p
        /\ Private(r) => Cardinality(Own(r)) = Cardinality(RequiredOperations)

\* One intent, one operation: retried calls and repeated runs on a revision
\* never leave two operations for the same action on the same content, so no
\* draft can be approved and created twice.
OneOperationPerIntent ==
    \A o, p \in operations :
        <<o.kind, o.revision, o.action, o.proposal.content>>
          = <<p.kind, p.revision, p.action, p.proposal.content>> => o = p
=============================================================================
