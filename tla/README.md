# CivicLoop: TLA+ models, checks and proofs

CivicLoop lets one owner prepare an event launch, have an AI agent (Hermes)
draft it under a fixed budget, have it judged, and write the reviewed result to
Eventbrite and Iterable. This directory models the parts of it whose mistakes a
unit test would hardly reach: money, agent processes, provider writes, the
owner's credentials and the review of a package under concurrency, lost messages
and crashes. `src/...` paths below are paths of the
repository.

## 1. Inventory

| Component | State it keeps | Operations | Talks to | What is hard | Correct when |
|---|---|---|---|---|---|
| **Model-spend ledger** `backend/agents/budgets.py` | `BudgetPeriod` totals per month, one `BudgetReservation` per run, append-only `BudgetLedgerRecord` | reserve, settle, charge, release, expire | called by the lane and the judge | totals kept by increment; expiry sweeps by unrelated requests; settlement dearer than the estimate | totals equal the rows, limits hold, closed rows stay closed |
| **Hermes lane and worker** `backend/agents/tasks.py` | singleton `HermesAdmissionLane`, `AgentRun`, `AgentRunControl`, `WorkflowCapability`, `HermesStartReceipt` | start, queue, dispatch hook, cancel, worker's claim / accept / handler | ledger, broker (Celery on Redis, acks late), Hermes client | redelivery, worker loss, a commit that is reported lost, a publish that raises after publishing, cancel racing the result | one agent process, spent money stays booked, cancellation wins, runs end |
| **Hermes client** `backend/agents/hermes.py` | none durable; two process-wide I/O slots | execute, cancel | adapter over HTTP | giving up while the launch is still on its way | an unconfirmed stop is reported as such |
| **Adapter and process controller** `deploy/hermes/*.py` | active run record, transport health, controller records, quarantine flag, the child | launch, cancel, status, retire | client, transport; the agent child | cancel overtaking launch, a start that arrives after its caller gave up, a child that cannot be reaped | no child is lost, one at a time; a confirmed cancellation can be relied on; launches end |
| **Hermes transport** `deploy/hermes/transport.py` | registered scopes and what they used, tombstones, one upstream slot, the I/O of each scope | register, authorize, forward, revoke | adapter, agent child, MCP server, gateway | a revocation racing a forward that has not registered its I/O; a thread stuck in name resolution; the registry's lock held through network I/O | nothing is sent after its authority ended; an acknowledged revocation is final; every request is answered |
| **LiteLLM gateway** `deploy/litellm/gateway.py` | durable ledger of nonces and reserved tokens per run, one inference slot, the LiteLLM child | verify, book, forward, supervise | transport, LiteLLM child | restarts on either side of it; a request that arrives late; two clocks and two budgets that have to agree | what the transport admits is booked; the slot comes free |
| **MCP broker, capabilities** `backend/agents/mcp.py`, `capabilities.py` | `WorkflowCapability`, `MCPInvocation`, `MCPSubmission`, `DraftOperation` | issue, revoke, propose, request drafts; acceptance of a result (`tasks.py`) | the agent; LaunchLoop's workflow | a repeated call, a repeated run, a child that calls on after its run | one operation per intent; an accepted result stays whole |
| **Reviewed provider writes** `backend/integrations/draft_operations.py`, adapters, `models.py` | `DraftExecution`, `TemplateExecution` | submit, approve, execute, reconcile | providers; secret store | dispatch outside any transaction, timeouts applied later, reconcile while executing, unlocked `save()` | one POST per approval; the row's verdict is true |
| **Secret store, connections** `backend/integrations/secret_store.py`, `services.py` | `IntegrationConnection`, `EncryptedSecret` | replace, configure, disable, test, lease | provider writes, pilot, judge | a test that probes outside any transaction; a lease checked in several queries | no use of an untested or disabled credential |
| **Evaluation judge** `backend/evaluations/judge.py` | `AgentRun`, `EvaluationResult` | `run_fixed_judge` | ledger, OpenAI | no transaction at all around it | a result is paid for; a failure holds nothing |
| **LaunchLoop workflow** `backend/launchloop/services.py`, `engine.py` | workflow, revisions, package, approval, connector execution | reset, run, answer, submit, decide | pilot, agent runs | a decision made in one tab while another resets, edits or decides | what is delivered is what was approved; packages follow revisions |
| **Provider pilot, owner events** `backend/launchloop/pilot.py`, `owner_events.py` | provider snapshots, selection, owner's facts | refresh, select, start, update | Eventbrite; the workflow and its agent runs | a selection that reads the workflow unlocked; a page applied late | no package survives its revision |
| **Owner identity** `backend/identity` | profile, authenticators, recovery codes, sessions, cookies | sign in, enrol, recover, step up, revoke, reset | every view | one-time codes used twice, stale session objects, overlapping enrolments and recoveries | one grant per code; one authenticator; revocation is final |
| HTTP views | none of their own | guards around the services | | | their guards are part of the services' actions |
| Observability, demo, scripts, frontend | none of their own | | | | not modelled |

`PROJECT.json` lists all of them with their sources and status, and every
hazard at the line where it bites.

## 2. Modules

```
Budget <---- BudgetProofs, MCBudget
   ^-------- INSTANCE ---- HermesLane <---- HermesLaneProofs, MCHermesLane
   ^-------- INSTANCE ---- JudgeRun   <---- JudgeRunProofs, MCJudgeRun
DraftDispatch  <---- DraftDispatchProofs, MCDraftDispatch
AgentProcess   <---- AgentProcessProofs, MCAgentProcess
RemoteAgent    <---- INSTANCE ---- HermesLane, AgentProcess
ScopeTransport <---- ScopeTransportProofs, MCScopeTransport
ModelGateway   <---- McpBrokerProofs, MCModelGateway
OwnerIdentity  <---- OwnerIdentityProofs, MCOwnerIdentity
LaunchWorkflow <---- EXTENDS ---- McpBroker <---- McpBrokerProofs, MCMcpBroker
Connections    <---- McpBrokerProofs, MCConnections
```

`HermesLaneProofs` and `JudgeRunProofs` also instantiate `BudgetProofs`, to carry
the ledger's theorems over the refinement. `McpBrokerProofs` has three parts, one
per specification it extends: LaunchLoop with the broker, and then the two an
agent's work leads to, the credentials its reviewed writes lease
(`Connections`) and the gateway its inferences pass (`ModelGateway`). No variable,
action or theorem is shared between them, so those two name their specifications
`ConnectionSpec` and `GatewaySpec`.

### RemoteAgent

What worker and adapter owe each other, with everything between them left out:
the launch of a run is sent once, accepted or refused, and an agent that has ended
never acts again. `HermesLane` implements it as it stands (`LaunchedOnce`).
`AgentProcess` implements it through `Life` (`LivesOnce`): a run is `alive` from
the moment its record is made until its launch was answered, no start of it is on
its way or in progress, and a child that is left has no scope to act in (`Ended`).
So both sides are shown against one contract: `AgentProcess` may take a run to be
launched once because the lane sends once, and the lane may take a success or a
confirmed cancellation for the end of the agent because `ReportedIsEnded` holds
behind the adapter.

### Budget

Each public function of `budgets.py` is one transaction and one action:
`ReserveBudget`, `SettleBudget`, `ChargeReservedBudget`, `ReleaseBudget`,
`ExpireReservations`; the clock is `ReservationExpires` and `NextMonth`. A
rejected request rolls back and a replay returns the stored row, so neither is a
step. `Cost` keeps the rounding-up of the code; `Sum` is written as a
cardinality so that no recursion is needed. The runs an expiry must spare
(`_active_hermes_runs`) are the parameter `held`, which callers supply.

### HermesLane

`tasks.py` locks the lane's row at the start of every transaction, so a
transaction is one action, and the network calls between transactions are
actions too.

| Code | Model |
|---|---|
| `start_hermes_run` / `queue_hermes_run` | `StartHermesRun` / `QueueHermesRun` (one commit, with the receipt) |
| `_dispatch` on commit, and its handler | `Dispatch`, `DispatchFailed` |
| `cancel_hermes_run` | `CancelHermesRun` |
| first transaction of `_execute_hermes_run` | `Claim` |
| `HermesClient.execute` | `Prepare`, `Send`, `Await` |
| second transaction | `Accept` |
| exception handler: `client.cancel`, `_finish` | `Cleanup`, `FinishRun` |
| `_check`, `should_cancel_hermes_run`, `_finish`, `_terminal` | `Check`, `ShouldCancel`, `Finish`, `Terminal` |
| broker, adapter, clock, operator | `Crash`, `Redeliver`, `RemoteStart/Refuse/End`, `LeaseExpires`, `ToggleFeature`, `LoseAuthority` |
| the judge, as far as the ledger sees it | `JudgeReserves`, `JudgeCloses`, `ExpireReservations` |

Faults are named (`Faults`) and counted (`MaxFaults`): a worker lost, a message
delivered twice, a commit reported as failed although it happened, a publish
that raises (with or without publishing), a hook that dies, a handler that
raises, a failed revocation, failed accounting, a failed configuration.
Failure categories are abstracted to the run status they lead to. The adapter is
seen through what the client observes: it accepts or refuses a launch, the agent
ends, and a cancellation is confirmed only for a run the adapter knows.

### AgentProcess

What stands behind the client, in `deploy/hermes`: one adapter thread launches
(`run_lock`), others serve cancellations, and both call the controller service
over HTTP, where one thread per run drives the controller that owns the child.
Whatever a method does under its lock is one step. A request in flight
(`starting`, `cancelling`) outlives a caller that gave up, and any call may fail.

| Code | Model |
|---|---|
| `HermesAdapter.execute` | `Launch`, `Register`, ..., `Revoke` (the `finally` clause) |
| `HermesAdapter.cancel` | `Cancel`, ..., `Wait` |
| `RemoteProcessController.execute` | `SendStart`, `Admission`, `Poll`, then its own cancel |
| `RemoteProcessController.cancel` | `SendCancel`, `Posted`, `PollCancelled`, `Ready` |
| `ControllerService.start` / `cancel` | `Start` / `CancelArrives`, `CancelStops` |
| `ControllerService._execute` | `Admit`, `CheckCancelled`, `Execute`, `StopOwned`, `Finish` |
| `ProcessController._retire`, `stop` | `Retire`, `Stop`: certain, or quarantined |

The transport is seen through the scope of a run: not there, queued, registered
or revoked, where a revocation that overtakes its registration stands
(`ScopeRegistry.revoke` leaves a tombstone). Requests are taken as validated, and
a run is launched once, which is what `LaunchedOnce` says of the lane. Restarts of the two services, whose
state is in memory only, are not modelled.

Two remarks. With two cancellations of one run, the second may be confirmed while
the first has found the controller not ready, i.e. while a child that could not
be reaped may still live: the record was already clean. The controller is then
quarantined, so no other child starts; that is the last clause of
`ConfirmedIsContained`. `HermesLane` takes the confirmation for the end of the
agent; what makes that right is that the scope of such a child is revoked, so that
it reaches neither model nor tools (the last clause of `Ended`).
And both `ControllerService.start` and `ProcessController.admit` look at the
quarantine; the first look alone already implies `OneChild`.

### ScopeTransport

The calls of the agent to the outside. The registry's lock is held by a forward
from its second authorization to the end of its upstream call, so `lock` is a
variable and its waiters are steps that need it free; what happens under
`_scope_io_lock` is one step.

| Code | Model |
|---|---|
| `do_POST`, `_control` | `Receive`; `Register` |
| `revoke_scope`: tombstone and cancellation / `ScopeRegistry.revoke` / the look at the drained thread | `RevokeScope` / `Void` / `Drained` |
| both authorizations | `Authorize`, `Forward` |
| `upstream_request`: slot, registration, deadline | `TakeSlot`, `Claim`, `Await` |
| `perform`, the thread of the call, and `_DeadlineIO` | `Connect`, `Send`, `End` |
| expiry; `main` run again | `Lapse`; `RestartTransport` |

Every shape check, the feature switch, `lease_active`, an exhausted budget
(`reserve_inference`, which `ModelGateway` models) and the other side's answers
are refusals that may happen at any time. Requests come from the adapter, which
registers a scope once and revokes it only afterwards (`HermesAdapter.execute`),
and from the agent child, which sends what it likes. `AgentProcess` sees this
module as the four states of a scope; a registration still queued when it is
revoked is `handler[h].pc = "register"` here.

### ModelGateway

An inference passes two budgets that know nothing of each other: the transport
counts per scope in memory (`reserve_inference`), the gateway per run on disk
(`DurableBudgetLedger`), and the gateway retires a run when its last assertion
has expired. The two agree through the signed assertion, whose expiry is the
scope's lease cut to 300 s.

| Code | Model |
|---|---|
| `ScopeRegistry.register`, `revoke` | `Register`, `Revoke` |
| `_forward`: `reserve_inference`, `issue_budget_assertion`, upstream slot | `Infer` with `Charged`, `AssertionExpiry`; `EndUpstream` |
| `do_POST` of the gateway | `Receive`, `RefuseConnection`, `RefuseBody`, `VerifyAssertion`, `Reserve`, `TakeSlot`, `Answer` |
| `main`, `LiteLLMSupervisor`, `watch_child`, SIGTERM | `Start`, `ChildReady`, `ChildExits`, `Serve`, `Shutdown`, `Exit` |
| restart of the transport; the clock | `RestartTransport`; `Tick` |

The transport's registry would take a binding of up to ten minutes, but the
worker never asks for more than 300 s (`_timeout`, `tasks.py`): that is
`LeaseAssumption`, and without it a run can be retired while its lease lives.
A gateway that answers 429 has already booked the tokens (`TakeSlot`). Nonces
are distinct by construction and a call is sent once, so the replay check has
no state of its own here; the ledger's capacity limit is left out.

### OwnerIdentity

A web request is a process: what it does in one transaction on locked rows is
one step, and what it loaded before (`req[q].copy`, `.status`, `.device`) may be
stale. Times are TOTP steps of thirty seconds; the code of step k is k.

| Code | Model |
|---|---|
| `enforce_administrator_session` (middleware) | `Admit`, `RecordActivity`, or `Invalidate` |
| `verify_owner_password`, `preauthenticated_profile` | `PasswordChallenge`, `Preauthenticated` |
| `verify_totp` | `VerifyTotp`, `RefuseTotp` |
| `complete_totp_authentication`, `complete_recovery_authentication` | `TotpChallenge` ... `EstablishTotpSession`; `RecoveryChallenge` ... `CompleteRecovery`, `FailRecovery` |
| `start_totp_enrollment`, `confirm_totp_enrollment` | `BeginTotpEnrollment`, `CreateTotpDevice`; `ConfirmTotpEnrollment` ... `CompleteInitialEnrollment`, `CompleteRecoveryEnrollment`, `FailEnrollment` |
| `fresh_reauthenticate` | `Reauthenticate` ... `RotateFresh` |
| `security_actions.py` | `ChangePassword`, `RegenerateRecoveryCodes`, `RevokeOtherSessions`, `RevokeSession` |
| `logout_administrator`; the host commands | `Logout`, `LogoutPreauth`; `BootstrapOwner`, `ResetOwnerMfa`, `PurgeSessions` |

`grants` is history: which credential opened or refreshed which session.
Passwords are taken as right, and rate limits only refuse what may be refused
anyway. Remarks on what the model shows the code to allow: a recovery whose
restricted session ends before the new authenticator is confirmed leaves the
owner with `reset_owner_mfa` alone; a sign-in whose code was verified before a
reset or a recovery may still be established after it; and a request that was
admitted before a reset may still regenerate recovery codes after it.

### LaunchWorkflow and McpBroker

`LaunchWorkflow` has one workflow of each kind (the demo, an owner's event, an
imported event); a package is known by the version of the revision it was
prepared from. `McpBroker` extends it with the agent's runs on these workflows:
their capabilities, tool calls, proposals, operations and results.

| Code | Model |
|---|---|
| `services.py` | `ResetDemo`, `RunWorkflow`, `AnswerQuestions`, `SubmitWorkflow`, `Approve`, `Reject`; `OpenReview` is the approver's page |
| `pilot.py` | `StartManualEvent`, `UpdateEventFacts`; `FetchEvents`, `RefreshEvents`; `ReadSelection`, then `WriteSelection` or `AbortSelection` |
| `queue_hermes_run`, the worker's claim, cancel, `_finish` | `QueueHermesRun`, `ClaimRun`, `CancelHermesRun`, `FinishRun`, which may fail to revoke the capability (the lane itself is `HermesLane`) |
| `mcp.py` | `Admitted`, `ProposeCampaignDrafts`, `RequestDrafts` with `Available` (`_proposal`) and `GetOrCreate` |
| `_validate_result` and the worker's last transaction | `ValidResult`, `AcceptResult` |

A bound call is known by capability, tool and arguments. The broker lets a run
draft on a proposal of any run on the same workflow and revision (`Available`;
`tests/agents/test_mcp_broker.py:486` relies on it); a result may refer
only to proposals of the run's own capability (`Made`). A proposal's identifier is
a random UUID that the broker returns to the run that made it and to nobody else,
so which runs can name which proposals is a matter of the environment: the
constant `Disclosed` says to whose child whose identifiers were told, and
`Known(r)` is what run `r` can name. A run is `Private` when its identifiers were
told to nobody. `approval.seen` is history: the page of the tab in which the
request was decided. `serialize_demo` reads workflow and approval in two queries
and is taken as one step; between them a page can pair a package with the request
of its successor, and the hash it sends back (`frontend/src/App.tsx:137`), the
request's, does not show it. The hash check
of `decide_approval` never refuses what the id check lets pass, since a request's
hash does not change; the id check is what keeps a stale page from deciding
another request (the mutant `MayDecideAnother`).

Remarks: the selector overwrites a
workflow that became ready, or got a run, after it was read (`pilot.py:256`), and
the broker then denies that run's calls by its revision; an older page may be
applied after a newer one, which only makes the snapshot old; and a second run on
the same revision that proposes the same content is given the operations of the
first, so that its result cannot be accepted (`mcp.py:391`, `tasks.py:493`).
If identifiers did get to another run's child, that run could draft on a second,
unreferenced proposal of a run that was already accepted, and the operations would
be listed beside the accepted three (`mcp.py:257`, `views.py:250`). They are then
still of the accepted run's workflow and revision and await the owner's review like
all others, which is what `AcceptedIsWhole` says of a run that is not private.

### Connections

One connection and its secrets. The owner's operations expect the version their
tab shows and lock the row; the test reads, probes and stores in three steps
(`StartTest`, `Probe`, `StoreTest`), and a reviewed write reads connection and
secret, checks the lease twice and opens it in five (`ReadConnection`,
`ReadSecret`, `Lease` twice, `OpenLease`). `tested` and `used` are history.
Remarks: `update_configuration` leaves a connection healthy although the new
configuration was never tested (`services.py:135`), so `TestedBeforeUse` speaks
of the credential; and of two tests of one version the later one's outcome stays.

### DraftDispatch

An operation (`DraftExecution` for Eventbrite create/update and Iterable
campaigns, `TemplateExecution` for Iterable templates) goes through `Submit`,
`Approve`, the durable claim (`ClaimDraft`, reached by `ExecuteDraft` or
`ExecuteIterable`), and is then dispatched outside any transaction: `Lease`,
`GiveUp` or `Post`, `Answer`, `Confirm`. A `save()` is the read that feeds its
transition table and a separate write of every column of the object
(`SaveCheck`, `SaveWrite`); the `except` clauses use `update()`, which consults
no table (`ExceptUpdate`). `ReconcileDraft` and `ReconcileIterable` run the
`Lease`/`Confirm` half on an operation that may be executing at that moment. The
provider applies or refuses a POST at any later time. Payloads and digests are
reduced to "the content the review saw". `Confirm` finds that content only where
the operation's own POST was applied: an update whose event already holds it would be
confirmed by the code without a POST, which the model leaves out.

### JudgeRun

`run_fixed_judge` statement by statement, since each commits by itself: `Load`,
`Look`, `Create`, `Reserve`, `Start`, `Call`, `Answer`, `Settle`, `Record`,
`Finish`, and `Fail`, `SaveFailed`. A request may be lost after any of them.

Operators introduced by a comment "A mistake" are plausible wrong versions of
the definition that follows; no specification uses them. They show that each
property can be broken.

## 3. Runs

| Run | Instance | Shows |
|---|---|---|
| `budget` | 3 runs, 2 profiles with different limits, 2 months, 0-2 tokens | `BooksReconcile` (`Accounting`: the period's totals are the sums over the reservations; `LedgerReconciles`: the audit rows tell the same), `WithinLimit`, `ClosedForGood` under every order of calls |
| `hermes_lane` | 2 runs, 2 keys, 2 workers, 2 faults of any of 9 kinds | `LaneAgreement`, `NoStrayProcess`, `SpentNeverReleased`, `NothingOutlivesTheRun`, `CancelWins`, `EndedForGood`; the lane refines `RemoteAgent` (`LaunchedOnce`) |
| `hermes_lane_live` | 1 run, 1 judgement, 2 workers, 2 faults of 5 kinds | `RunEnds`; the lane refines `Budget` (`ImplementsBudget`); an active run stays funded whatever other requests sweep (`ActiveRunIsFunded`) |
| `agent_process` | 2 runs, 1 concurrent cancellation at a time, 1 record | `NoLostChild`, `ScopeConfined`, `SucceededIsOver`, `ConfirmedIsContained`, `EveryLaunchEnds`; adapter and controller refine `RemoteAgent` (`LivesOnce`) |
| `scope_transport` | 2 scopes, 2 handler threads, 2 forwards, 1 restart | `SendsUnderAuthority`, `AckedIsSilent`, `SlotIsOwned`, `EveryRequestIsAnswered` |
| `gateway` | 2 runs, 2 inferences of up to 2 tokens, 2 time units, 2 restarts | `AdmittedIsBooked`, `SlotComesFree` |
| `identity` | 2 requests, 1 browser, 2 authenticators, 2 sessions, 2 recovery batches | `OneGrantPerCredential`, `OneAuthenticator`, `RevokedForGood`, `RecoveryEndsInItsSession` |
| `workflow` | 3 workflows at up to 3 revisions, 2 provider versions, 2 tabs, 2 approval requests, 2 agent runs on the imported event, the second of which can name the first's proposals, 2 proposals | `PackageIsOfItsRevision`, `DeliveredAsApproved`, `AcceptedIsWhole`, `OneOperationPerIntent` |
| `connections` | 2 tabs, 2 writes, 5 versions, 2 secrets | `TestedBeforeUse` |
| `draft` | a create and an update, or a template and its campaign; 2 requests | `AtMostOnce`, `VerdictIsTrue` (`SucceededIsTrue` and `FailedIsTrue`), `CampaignHasTemplate`, `IdIsKept` |
| `draft_final` | 1 template, 2 requests | violated: see section 4 |
| `judge` | 2 requests, 2 packages | `JudgementIsAccounted`, refinement of `Budget` |

**Bounds.** Two runs are what a second admission needs; two workers are what a
redelivery needs, and with two faults one can be the crash or redelivery and the
other can hit its recovery. In `hermes_lane` and `hermes_lane_live`
the month has room for two reservations at full price, so that money never hides a
second launch, or a judgement beside a run; usage is the ceiling there, and what
cheaper results give back is the question of `budget`. Elsewhere the limits are
chosen so that a second reservation fits only when the first was cheap or given
back, and so that settlements dearer than the reservation occur. In
`agent_process` the canceller's thread comes back, so cancellations repeat, and
the second run meets what the first left behind: a late start request, a
quarantine, a full record table. One record means that a behaviour has at most
one recorded run; that children of several runs stay apart is what the theorems
`NoChildIsLost` and `AtMostOneChild` say, for any number of records. In `scope_transport` the registry admits one scope at a time
(`maximum_active`, the code's default) and the second scope follows the first;
two handlers are the forward and the revocation, and the second of two forwards
meets a slot the first may still hold. `draft` constrains a behaviour to one
provider (`OneProvider`), since rows and settings of the two are separate.
`MaxPosts = 2` counts one POST
too many. Two web requests are the executor and the reconciler; a third adds
only another reconciler, and the proofs of section 5 cover any number. One month
suffices outside `budget`, where the rollover is checked. In `gateway` a lease
and an assertion may be as long as the clock runs, so that a request can arrive
before, at and after every expiry, and each of the two inferences can meet a
restart. In `identity` two devices and two sessions are what a race of two
enrolments, or of a recovery and a sign-in, needs; `MaxTime = 1` gives two codes,
and the tolerance of one step lets each be tried early and late. In `workflow`
two runs on one revision give the retry, and the third revision lets an import,
an edit and an agent's run overlap, or the two runs be of different revisions. The
second approval request replaces the one a tab still shows. A behaviour is about
one of the three events (`OneStory`), which share no row, and the second run comes
on an event that is not refreshed anew. The first run is disclosed to the second
and the second is private, so both halves of `AcceptedIsWhole` are met. The agent
works on the imported event, so the guard of `ResetDemo` against agent rows on the
demo is always open there.
In `connections` five versions allow a replacement, a disabling and another
replacement around a test.

**Deadlock** is checked except for `budget`, `gateway`, `identity`, `workflow`
and `connections`, where behaviours really end: a ledger whose month is used up
and whose reservations are closed has nothing left to do, and clock, restarts,
sessions, revisions and versions are bounded.

**Fairness** (`FairSpec`). `HermesLane`: a worker process keeps running its task (Celery's hard
time limit of 300 s, `backend/civicloop/settings.py`, bounds it) and consumes its queue, and an
`on_commit` hook that was started ends. Nothing is assumed of the owner, the
adapter, the agent or the clock: a worker may always give up waiting. Two faults
are left out of this run because the code has no recovery from them: a hook that
dies before publishing (the run stays queued until the owner cancels it) and a
handler whose `_finish` raises (the run stays running, the lane is held, and an
operator has to look). Two more, failed accounting and a failed configuration,
are left to the safety run `hermes_lane` to keep the run small. `AgentProcess`: the launch's thread and the run's thread
go on, since every call of theirs has a deadline (`_BoundedHTTP`, the readiness,
termination and drain timeouts); nothing is assumed of the network, of other
threads or of the child. `ScopeTransport`: handler threads go on, since reading a
request has a socket timeout and waiting for an upstream call a deadline; nothing
is assumed of the threads of upstream calls, of the other side or of the clock. A
lock that is free again and again is assumed to be obtained at last, as the
bounded number of forwards has it in the model. `ModelGateway`: handler threads
go on, since the call to LiteLLM has a timeout (`policy.timeout_seconds`);
nothing is assumed of the transport, the child, the restarts or the clock.

## 4. Findings

`draft_final`: the `except` clause of `_execute_iterable` overwrites a row that
a concurrent reconciliation has already confirmed; the table in `save()` would
have refused.

Remarks that are no findings. Two concurrent evaluation requests both find no run
of a package (`Look`) and both judge it; each is paid for
(`JudgementIsAccounted`). A judgement that was answered, hence billed, but is
unusable, has its reservation released (`judge.py:265`), although
`release_budget` speaks of an unspent one (`budgets.py:213`). A create whose
process is lost after the POST has no provider id, and `reconcile_draft` refuses
it (`draft_operations.py:433`): it has to be settled by hand at the provider.

## 5. Proofs

`tlapm` on the eight `...Proofs` modules checks them; they hold for every value of
the constants that satisfies the named assumptions, so for any number of runs,
workers, requests, operations, scopes, sessions, revisions and faults. Each
proves an inductive invariant, one lemma per action or group of like actions, and
reads the properties off it. Each inductive invariant was checked by TLC before it was proved.

| Module | Inductive invariant | Properties of the runs that follow |
|---|---|---|
| `BudgetProofs` | `BudgetInv` | `BooksReconcile` (`Accounting`, `LedgerReconciles`), `WithinLimit`, `ClosedForGood` |
| `HermesLaneProofs` | `LaneInv`, `MoneyInv`, `NotLaunchedYet` | `LaneAgreement`, `NoStrayProcess`, `ImplementsBudget`, `ActiveRunIsFunded`, `SpentNeverReleased`, `NothingOutlivesTheRun`, `CancelWins`, `EndedForGood`, `LaunchedOnce` |
| `JudgeRunProofs` | `RequestInv`, `AccountInv` | `JudgeImplementsBudget`, `JudgementIsAccounted` |
| `DraftDispatchProofs` | `DraftInv`, `IdInv` | `AtMostOnce`, `VerdictIsTrue` (`SucceededIsTrue`, `FailedIsTrue`), `CampaignHasTemplate`, `IdIsKept` |
| `AgentProcessProofs` | `ChildInv`, `OverInv` | `NoLostChild`, `ScopeConfined`, `SucceededIsOver`, `ConfirmedIsContained`, `LivesOnce` |
| `ScopeTransportProofs` | `TransportInv` | `SendsUnderAuthority`, `AckedIsSilent`, `SlotIsOwned` |
| `OwnerIdentityProofs` | `OwnerInv` | `OneGrantPerCredential`, `OneAuthenticator`, `RevokedForGood`, `RecoveryEndsInItsSession` |
| `McpBrokerProofs` | `BrokerInv`; `ConnectionInv`; `GatewayInv` | `PackageIsOfItsRevision`, `DeliveredAsApproved`, `AcceptedIsWhole`, `OneOperationPerIntent`; `TestedBeforeUse` of `Connections`; `AdmittedIsBooked` of `ModelGateway` |

**BudgetProofs.** The type invariant alone is not inductive: that the unsigned
`reserved` column stays above zero when a reservation is closed needs
`Accounting`, so the four facts are proved together. `Sum` is the size of a
disjoint union; `SumUnion`, `SumDifference`, `SumAdd` and `SumSame` are the lemmas
about it, from the library's facts on cardinality, and no induction is needed. A
sweep releases a whole set of rows at once (`ReleaseStep`); a settlement may be
dearer than its reservation, and the limit then holds because the code checks it
again. Assumed: finitely many runs, natural prices and limits, `Unit` positive,
`None` no row.

**HermesLaneProofs.** `NoStrayProcess` is not inductive: a handler with a
confirmed cleanup could belong to a worker that is not the only one that may
launch the run. `LaneInv` says who owns a claimed run. `WorkerShape`: what a
worker's flags mean at each step. `ClaimedFirst`: nothing is launched, sent or
cleaned up for a run that was never claimed. `OneOwner`: only one worker, the one
whose claim committed, may be at a step from which a launch leaves; everyone else
holding the run is a redelivery or was told its claim failed, and neither can
report a clean stop of a running run. `NoStray`, `OneMayRun`: the process facts
themselves. The refinement (`StepIsLedgerStep`) takes each action's ledger part
to the transaction of `Budget` it is, so the ledger's theorems hold of the
lane's books (`LaneKeepsTheBooks`). `MoneyInv` relates run, control row,
reservation and agent: an active run is funded, since sweeps spare what is held;
a run that may have been launched is never released, since a release needs a
worker that never sent or a confirmed stop. That a run is launched once
(`LaneLaunchesOnce`) needs `NotLaunchedYet`: whoever is about to send a launch
finds that none was sent, because only the claim of a queued run makes a sender, a
queued run never had an agent, and `OneOwner` keeps a second sender away. Assumed besides `NoneNotRun`: what
`Budget` assumes (`LedgerAssumption`), and that the token counts a request may
pass include the ceilings of the lane's profile, which is what
`queue_hermes_run` reserves (`CeilingAssumption`).

**JudgeRunProofs.** The same way over `Budget` gives the types of the
reservations. `AccountInv` follows a judgement through the statements of
`run_fixed_judge`: what is about to be recorded is settled, what is about to be
saved as failed holds nothing, and neither changes back, since a reservation is
made once and a sweep only releases what is still open. Assumed: as above, for
the judge's profile.

**DraftDispatchProofs.** `AtMostOnce` needs an ownership fact:
`NothingSentYet` (before the claim nothing was posted and nobody works on the
operation) and `OnePending` (at most one request stands between the claim and the
POST, and while it does nothing was posted). The verdicts need what is on its way
to a row, not only what is in it: a request about to write `succeeded` saw the
POST applied; one about to write `failed` is the executor of a POST that was
refused or never sent, and no other request can turn that into anything else.
`IdIsKept` needs to know who may write a row without an id: `IdInv` says that
this is only the one request that claimed it, and only while the row has none,
because a reconciliation asks for the id before it starts. Assumed:
`KindAssumption`, `TemplateAssumption`, `NoneAssumption`.

**AgentProcessProofs.** `OneChild` follows step by step from `NoLostChild`: the
controller starts a child only with nothing owned and no quarantine, and then no
child is alive. What has to be added is that every thread, request and service
step that is not idle names a run (`ThreadsOK`, `CancelsOK`, `ServiceOK`).
`OverInv` adds what holds at the end of a run: the service's slot and the
controller's child are one run's (`SlotInv`), what the launch's thread knows at
each of its steps (`LaunchInv`), and what a record that is done, clean or
answered says of scope and service (`EndInv`). The refinement of `RemoteAgent`
splits in two: every step moves at most one run (`OneRunMoves`), and that run only
forward (`Forward`), since a start that arrives, a child that is admitted and a
launch that goes on belong to a run that has not ended, and a late registration
finds its scope revoked or its child gone. `ReportsAreTrue` says that a success and
a confirmed cancellation are told of ended agents only. Assumed: `NoRunAssumption`;
`MaxRecords` plays no role.

**ScopeTransportProofs.** `LockInv`: the registry's lock is held exactly from a
forward's second authorization to the end of its wait, its scope is bound
meanwhile, and any call not cancelled has a waiter. `SlotInv`: one call, or one
forward about to start it, has the slot. `RevocationInv`: a revocation on its way
has left its tombstone and knows the one call that may still run, and after its
acknowledgement no registration is left that could bind the scope again.

**OwnerIdentityProofs.** `OneGrantPerCredential` needs to know which codes are on
their way: a request whose code was verified owns the device's step, which is
used up, and no grant has it yet (`CodeInv`). `OneAuthenticator` needs that a
device is confirmed only under the locked profile (`DeviceInv`). `BackedInv`: an
unrestricted session has a TOTP grant behind it; `SessionInv`: cookies and
requests name sessions that exist.

**McpBrokerProofs.** The workflow half (`LaunchInv`) needs that an existing
workflow is at a revision, so that 0 can mean no package. The broker half needs
that an accepted run's capability is revoked, so that its child adds nothing, and
that a run drafts on another's proposal only at the same workflow and revision, and
only if it was disclosed to it; `Whole` is what `AcceptedIsWhole` says of one run. The
theorems hold for every `Disclosed`, and for a `Private` run they say that exactly
the accepted operations are listed. Proposals are finitely many
in every state, which is what cardinalities need. The bounds on revisions,
snapshots and approvals play no role. `DeliveredAsApproved` includes the page of the
deciding tab: `MayDecide` makes it equal to the request, whatever happened since the
page was opened. Assumed: `AgentKindsAssumption`.

For `Connections`, `TestInv` is what makes a test that comes back late harmless:
as long as the version it was started with is the row's, the row still holds the
credential that was probed. `LeaseInv` carries the result through the steps of a
write's lease. The bounds on versions and secrets play no role.

For `ModelGateway` the two budgets have to be compared while tokens are on their
way. `Undecideds(r)` is the set of tokens charged to a run by requests the ledger
has not decided on, one element per token, so that their sum is a cardinality and
a booking moves elements from one side to the other (`ChargeInv`, lemmas
`ChargeCounts`, `ChargesAdd`). `RetirementInv` and `RequestInv` say that assertion,
lease and ledger row of a run end together, which is where `LeaseTime <= Window`
is needed; then a request verified in time cannot meet its run retired.
`OneModelCall` is the safety half of `SlotComesFree`: the slot is taken exactly
while one request is at LiteLLM. Assumed: `LeaseAssumption`, `GatewayBounds`.

The type invariants, `OneProcess`, `OneChild`, `OneModelCall` and
`ReportedIsEnded` are stated by theorems only; no run repeats them.

**Only model-checked.** Liveness under fairness (`RunEnds`, `EveryLaunchEnds`,
`EveryRequestIsAnswered`, `SlotComesFree`), which the prover does not do. Every
invariant, action property and refinement that a passing run checks has a theorem.
`SucceededIsFinal` is violated (section 4).

## 6. Not modelled, and the plan

Below the atomicity of the models: row locks inside one transaction (two
transactions of `budgets.py` lock period and reservation in opposite orders; the
database would abort one). Left out as data: digests, prompts, response
shapes, HTTP framing, cryptography. Left out as having no state of their own:
serializers and formatting, observability, the standalone demo, scripts, the
frontend. Left out as a refusal that may happen anyway: rate limits, request
sanitising. Not modelled although they have state: the Hermes client's two I/O
slots, the run bridge in the agent's container, restarts of adapter and
controller (their state is in memory and their container's end ends the child).

Open, in this order of value: restarts of adapter and controller, which would turn
`RemoteAgent` into a contract that forgets; the client's two I/O slots, which a
timed-out call keeps; and the row locks of `budgets.py` as steps of their own.

The suite is kept to about a dozen runs: components that meet in the code are
checked together, and a run that a larger one covers is retired.
