---------------------------- MODULE DraftDispatch ----------------------------
(***************************************************************************)
(* Reviewed provider writes: backend/integrations/draft_operations.py with *)
(* the adapters it drives (eventbrite_drafts.py, iterable_templates.py,    *)
(* iterable_drafts.py), the save() guards of integrations/models.py and    *)
(* the lease checks of integrations/secret_store.py.                       *)
(*                                                                         *)
(* An operation is submitted, approved, claimed in a durable transaction   *)
(* and then dispatched OUTSIDE any transaction, with the model object the  *)
(* claim loaded.  What interleaves is web requests: one that executes the  *)
(* operation, others that reconcile it, the provider, and process loss.    *)
(*                                                                         *)
(* Payloads, digests and identifiers are abstracted: an operation's POST,  *)
(* if the provider applies it, creates content that matches the review.    *)
(* A save() is two statements, the SELECT that feeds the transition table  *)
(* and the UPDATE, and no lock is held over them: two steps.               *)
(***************************************************************************)
EXTENDS Naturals

CONSTANTS
    Ops,         \* DraftExecution and TemplateExecution rows
    Kind,        \* what each of them does at its provider
    TemplateOf,  \* the template operation of the same intent, for a campaign
    Callers,     \* concurrent web requests
    None,        \* no operation
    MaxPosts     \* bound on the POSTs counted per operation

Kinds == {"create", "update", "template", "campaign"}

ASSUME KindAssumption == Kind \in [Ops -> Kinds]
ASSUME TemplateAssumption ==
    \A o \in Ops : Kind[o] = "campaign" =>
        TemplateOf[o] \in Ops /\ Kind[TemplateOf[o]] = "template"
ASSUME NoneAssumption == None \notin Ops
ASSUME MaxPostsAssumption == MaxPosts \in Nat

Provider(o) == IF Kind[o] \in {"create", "update"} THEN "eventbrite" ELSE "iterable"
Providers == {"eventbrite", "iterable"}

VARIABLES
    row,      \* the database row of each operation
    current,  \* operations whose intent, run, revision and payload still validate
    live,     \* operations whose approval session has not ended
    enabled,  \* providers whose draft writes are switched on
    healthy,  \* providers with a healthy connection and an active secret
    flight,   \* the operation's POST, as the provider sees it
    posts,    \* how many POSTs were sent
    caller    \* local state of each web request

vars == <<row, current, live, enabled, healthy, flight, posts, caller>>
envVars == <<current, live, enabled, healthy>>
Claimed == {"executing", "unknown", "failed", "succeeded"}
Statuses == {"none", "pending", "approved"} \cup Claimed
Outcomes == {"CONFIRMED", "UNKNOWN"}

NoRow == [status |-> "none", providerId |-> FALSE, receipt |-> "none"]
Idle == [pc |-> "idle", op |-> None, reconcile |-> FALSE, operation |-> NoRow,
         result |-> "unknown"]

\* The transition table of DraftExecution.save and TemplateExecution.save.
Transitions ==
    [pending |-> {"pending", "approved"}, approved |-> {"approved", "executing"},
     executing |-> {"executing", "unknown", "failed", "succeeded"},
     unknown |-> {"unknown", "succeeded"}, failed |-> {"failed"},
     succeeded |-> {"succeeded"}]

\* A mistake: a template that was dispatched is taken for a confirmed one.
TemplateDispatched(o) ==
    Kind[o] = "campaign" =>
        TemplateOf[o] \in current /\ row[TemplateOf[o]].status \in Claimed

\* _iterable_review's demand on a campaign: its template is confirmed.
TemplateConfirmed(o) ==
    Kind[o] = "campaign" =>
        /\ TemplateOf[o] \in current
        /\ row[TemplateOf[o]].status = "succeeded"
        /\ row[TemplateOf[o]].receipt = "CONFIRMED"

\* validate_execution; the approval session counts only before the dispatch.
ValidateExecution(o, requireLive) ==
    /\ o \in current
    /\ TemplateConfirmed(o)
    /\ requireLive => o \in live

\* PostgresSecretStore.lease and what follows it before the adapter is called.
LeaseOpens(o, reconcile) ==
    /\ Provider(o) \in healthy
    /\ Provider(o) \in enabled \/ (reconcile /\ Provider(o) = "eventbrite")
    /\ row[o].status \in {"executing", "unknown"}
    /\ ValidateExecution(o, ~reconcile)

-----------------------------------------------------------------------------
Init ==
    /\ row = [o \in Ops |-> NoRow]
    /\ current = Ops
    /\ live = {}
    /\ enabled = Providers
    /\ healthy = Providers
    /\ flight = [o \in Ops |-> "none"]
    /\ posts = [o \in Ops |-> 0]
    /\ caller = [c \in Callers |-> Idle]

\* submit_draft, submit_template: a second submission returns the same row.
Submit(o) ==
    /\ row[o].status = "none"
    /\ o \in current
    /\ TemplateConfirmed(o)
    /\ row' = [row EXCEPT ![o].status = "pending"]
    /\ UNCHANGED <<envVars, flight, posts, caller>>

\* approve_draft, approve_template, under the row lock.
Approve(o) ==
    /\ row[o].status = "pending"
    /\ ValidateExecution(o, FALSE)
    /\ row' = [row EXCEPT ![o].status = "approved"]
    /\ live' = live \cup {o}
    /\ UNCHANGED <<current, enabled, healthy, flight, posts, caller>>

\* A mistake: an operation whose dispatch was interrupted is claimed again.
ClaimDraftAgain(c, o) ==
    LET claimed == [row[o] EXCEPT !.status = "executing",
                                  !.providerId = @ \/ Kind[o] = "update"]
    IN  /\ caller[c].pc = "idle"
        /\ row[o].status \in {"approved", "unknown"}
        /\ ValidateExecution(o, TRUE)
        /\ row' = [row EXCEPT ![o] = claimed]
        /\ caller' = [caller EXCEPT ![c] =
               [Idle EXCEPT !.pc = "lease", !.op = o, !.operation = claimed]]
        /\ UNCHANGED <<envVars, flight, posts>>

\* The durable transaction of execute_draft and _execute_iterable.
ClaimDraft(c, o) ==
    LET claimed == [row[o] EXCEPT !.status = "executing",
                                  !.providerId = @ \/ Kind[o] = "update"]
    IN  /\ caller[c].pc = "idle"
        /\ row[o].status = "approved"
        /\ ValidateExecution(o, TRUE)
        /\ row' = [row EXCEPT ![o] = claimed]
        /\ caller' = [caller EXCEPT ![c] =
               [Idle EXCEPT !.pc = "lease", !.op = o, !.operation = claimed]]
        /\ UNCHANGED <<envVars, flight, posts>>

\* execute_draft looks at the connection before it claims the operation,
\* _execute_iterable only after it.
ExecuteDraft(c, o) ==
    /\ Provider(o) = "eventbrite"
    /\ "eventbrite" \in enabled \cap healthy
    /\ ClaimDraft(c, o)

ExecuteIterable(c, o) ==
    /\ Provider(o) = "iterable"
    /\ "iterable" \in enabled
    /\ ClaimDraft(c, o)

\* What reconcile_draft and _execute_iterable(reconcile=True) share: an operation
\* that is being executed right now may be reconciled as well.
Reconcile(c, o) ==
    /\ caller[c].pc = "idle"
    /\ Provider(o) \in enabled
    /\ ValidateExecution(o, FALSE)
    /\ row[o].status \in {"unknown", "executing"}
    /\ caller' = [caller EXCEPT ![c] =
           [Idle EXCEPT !.pc = "lease", !.op = o, !.reconcile = TRUE,
                        !.operation = row[o]]]
    /\ UNCHANGED <<row, envVars, flight, posts>>

ReconcileDraft(c, o) ==
    /\ Provider(o) = "eventbrite"
    /\ row[o].providerId
    /\ Reconcile(c, o)

ReconcileIterable(c, o) ==
    /\ Provider(o) = "iterable"
    /\ Kind[o] = "campaign" => row[o].providerId
    /\ Reconcile(c, o)

-----------------------------------------------------------------------------
(* The dispatch proper.                                                    *)

Goto(c, pc) == caller' = [caller EXCEPT ![c].pc = pc]
Done(c) == caller' = [caller EXCEPT ![c] = Idle]

\* A mistake: the receipt's id replaces the one the object has, even by nothing.
ReceiveReplacing(c, outcome, learned) ==
    caller' = [caller EXCEPT ![c] =
        [@ EXCEPT !.pc = "save", !.operation =
            [status |-> IF outcome = "CONFIRMED" THEN "succeeded" ELSE "unknown",
             providerId |-> learned, receipt |-> outcome]]]

\* A receipt is on its way to _store_receipt: the adapter's outcome, and the
\* identifier it learned, which never erases the one the object has.
Receive(c, outcome, learned) ==
    caller' = [caller EXCEPT ![c] =
        [@ EXCEPT !.pc = "save", !.operation =
            [status |-> IF outcome = "CONFIRMED" THEN "succeeded" ELSE "unknown",
             providerId |-> caller[c].operation.providerId \/ learned,
             receipt |-> outcome]]]

\* The except clauses.  Eventbrite's reconcile_draft has none.
Except(c, result) ==
    LET o == caller[c].op IN
    IF Provider(o) = "eventbrite" /\ caller[c].reconcile
      THEN Done(c)
      ELSE caller' = [caller EXCEPT ![c] = [@ EXCEPT !.pc = "except", !.result = result]]

\* Open the lease and validate once more; then call the adapter.
Lease(c) ==
    LET o == caller[c].op IN
    /\ caller[c].pc = "lease"
    /\ IF LeaseOpens(o, caller[c].reconcile)
         THEN Goto(c, IF caller[c].reconcile THEN "confirm" ELSE "post")
         ELSE Except(c, "unknown")
    /\ UNCHANGED <<row, envVars, flight, posts>>

\* The adapter gives up before the POST: a refused pre-read of an update, a
\* template that already exists, a changed source template, a bad credential.
\* Only Eventbrite's categories can be definite.
GiveUp(c) ==
    /\ caller[c].pc = "post"
    /\ \E result \in {"failed", "unknown"} :
           /\ result = "failed" => Provider(caller[c].op) = "eventbrite"
           /\ Except(c, result)
    /\ UNCHANGED <<row, envVars, flight, posts>>

\* The one POST.
Post(c) ==
    LET o == caller[c].op IN
    /\ caller[c].pc = "post"
    /\ posts[o] < MaxPosts
    /\ posts' = [posts EXCEPT ![o] = @ + 1]
    /\ flight' = [flight EXCEPT ![o] = "sent"]
    /\ Goto(c, "answer")
    /\ UNCHANGED <<row, envVars>>

\* A mistake: a POST that timed out is reported as a definite failure.
AnswerTimeoutFails(c) ==
    LET o == caller[c].op IN
    /\ caller[c].pc = "answer"
    /\ \/ flight[o] = "applied" /\ Goto(c, "confirm")
       \/ Except(c, IF Provider(o) = "eventbrite" THEN "failed" ELSE "unknown")
    /\ UNCHANGED <<row, envVars, flight, posts>>

\* What the adapter makes of the answer: a definite refusal, an acceptance that
\* it goes on to confirm, or anything else (timeout, 5xx, malformed body, not a
\* draft), which is a receipt with outcome UNKNOWN, with or without an id.  An
\* error of any other class ends in the catch-all except clause.
Answer(c) ==
    LET o == caller[c].op IN
    /\ caller[c].pc = "answer"
    /\ \/ /\ flight[o] = "refused"
          /\ IF Kind[o] = "template" THEN Receive(c, "UNKNOWN", FALSE)
             ELSE Except(c, IF Provider(o) = "eventbrite" THEN "failed" ELSE "unknown")
       \/ flight[o] = "applied" /\ Goto(c, "confirm")
       \/ flight[o] = "applied" /\ Kind[o] = "create" /\ Receive(c, "UNKNOWN", TRUE)
       \/ Receive(c, "UNKNOWN", FALSE)
       \/ Except(c, "unknown")
    /\ UNCHANGED <<row, envVars, flight, posts>>

\* A mistake: the read-back is not compared with the review.
ConfirmUncompared(c) ==
    /\ caller[c].pc = "confirm"
    /\ Receive(c, "CONFIRMED", TRUE) \/ Except(c, "unknown")
    /\ UNCHANGED <<row, envVars, flight, posts>>

\* _confirm: read back and compare.  Only matching content is confirmed; the
\* read may fail, and then the id is known unless a template's lookup failed.
Confirm(c) ==
    LET o == caller[c].op IN
    /\ caller[c].pc = "confirm"
    /\ \/ flight[o] = "applied" /\ Receive(c, "CONFIRMED", TRUE)
       \/ Receive(c, "UNKNOWN", Kind[o] # "template")
       \/ flight[o] = "applied" /\ Kind[o] = "template" /\ Receive(c, "UNKNOWN", TRUE)
       \/ Except(c, "unknown")
    /\ UNCHANGED <<row, envVars, flight, posts>>

\* save(), first statement: read the stored status and consult the table.
SaveCheck(c) ==
    LET o == caller[c].op IN
    /\ caller[c].pc = "save"
    /\ IF caller[c].operation.status \in Transitions[row[o].status]
         THEN Goto(c, "write")
         ELSE Except(c, "unknown")
    /\ UNCHANGED <<row, envVars, flight, posts>>

\* save(), second statement: every column of the object is written.
SaveWrite(c) ==
    /\ caller[c].pc = "write"
    /\ row' = [row EXCEPT ![caller[c].op] = caller[c].operation]
    /\ Done(c)
    /\ UNCHANGED <<envVars, flight, posts>>

\* The queryset update() of the except clauses, which consults no table.
ExceptUpdate(c) ==
    /\ caller[c].pc = "except"
    /\ row' = [row EXCEPT ![caller[c].op].status = caller[c].result]
    /\ Done(c)
    /\ UNCHANGED <<envVars, flight, posts>>

-----------------------------------------------------------------------------
(* The provider, the operator and the machine.                             *)

ProviderApplies(o) ==
    /\ flight[o] = "sent"
    /\ flight' = [flight EXCEPT ![o] = "applied"]
    /\ UNCHANGED <<row, envVars, posts, caller>>

ProviderRefuses(o) ==
    /\ flight[o] = "sent"
    /\ flight' = [flight EXCEPT ![o] = "refused"]
    /\ UNCHANGED <<row, envVars, posts, caller>>

\* A crash leaves the row as it is: executing.
Crash(c) ==
    /\ caller[c].pc # "idle"
    /\ Done(c)
    /\ UNCHANGED <<row, envVars, flight, posts>>

\* The workflow moves on to another revision; the approval session ends.
Supersede(o) ==
    /\ o \in current
    /\ current' = current \ {o}
    /\ UNCHANGED <<row, live, enabled, healthy, flight, posts, caller>>

SessionEnds(o) ==
    /\ o \in live
    /\ live' = live \ {o}
    /\ UNCHANGED <<row, current, enabled, healthy, flight, posts, caller>>

\* The operator switches writes off or on; a connection breaks or heals.
SwitchWrites(p) ==
    /\ enabled' = IF p \in enabled THEN enabled \ {p} ELSE enabled \cup {p}
    /\ UNCHANGED <<row, current, live, healthy, flight, posts, caller>>

ConnectionChanges(p) ==
    /\ healthy' = IF p \in healthy THEN healthy \ {p} ELSE healthy \cup {p}
    /\ UNCHANGED <<row, current, live, enabled, flight, posts, caller>>

CallerStep(c) ==
    \/ Lease(c) \/ GiveUp(c) \/ Post(c) \/ Answer(c) \/ Confirm(c)
    \/ SaveCheck(c) \/ SaveWrite(c) \/ ExceptUpdate(c)

Next ==
    \/ \E o \in Ops : Submit(o) \/ Approve(o)
    \/ \E c \in Callers, o \in Ops : ExecuteDraft(c, o) \/ ExecuteIterable(c, o)
    \/ \E c \in Callers, o \in Ops : ReconcileDraft(c, o) \/ ReconcileIterable(c, o)
    \/ \E c \in Callers : CallerStep(c) \/ Crash(c)
    \/ \E o \in Ops : ProviderApplies(o) \/ ProviderRefuses(o)
    \/ \E o \in Ops : Supersede(o) \/ SessionEnds(o)
    \/ \E p \in {Provider(o) : o \in Ops} : SwitchWrites(p) \/ ConnectionChanges(p)

Spec == Init /\ [][Next]_vars

-----------------------------------------------------------------------------
(* Properties.                                                             *)

PC == {"idle", "lease", "post", "answer", "confirm", "save", "write", "except"}
Row == [status: Statuses, providerId: BOOLEAN, receipt: Outcomes \cup {"none"}]
CallerState == [pc: PC, op: Ops \cup {None}, reconcile: BOOLEAN, operation: Row,
                result: {"failed", "unknown"}]

\* Every row and every request's local state is well formed.
DraftTypeOK ==
    /\ row \in [Ops -> Row]
    /\ current \subseteq Ops
    /\ live \subseteq Ops
    /\ enabled \subseteq Providers
    /\ healthy \subseteq Providers
    /\ flight \in [Ops -> {"none", "sent", "applied", "refused"}]
    /\ posts \in [Ops -> Nat]
    /\ caller \in [Callers -> CallerState]

\* However requests interleave, crash and are repeated, an approval is worth
\* one POST: nothing that happens after the claim lets a second one out.
AtMostOnce == \A o \in Ops : posts[o] <= 1

\* A row that says succeeded is right: the provider holds the reviewed draft.
SucceededIsTrue ==
    \A o \in Ops : row[o].status = "succeeded" => flight[o] = "applied"

\* A row that says failed is right: the provider holds nothing and never will,
\* so the owner may safely prepare the draft again.
FailedIsTrue ==
    \A o \in Ops : row[o].status = "failed" => flight[o] \in {"none", "refused"}

\* Whoever writes a row last, executor, reconciler or except clause, a verdict
\* it gives is what happened at the provider.
VerdictIsTrue == SucceededIsTrue /\ FailedIsTrue

\* A campaign is posted only on top of a template the provider really holds.
CampaignHasTemplate ==
    \A o \in Ops : Kind[o] = "campaign" /\ posts[o] > 0 =>
        flight[TemplateOf[o]] = "applied"

\* A recorded provider id, the handle on an ambiguous draft, is never lost.  A
\* template is found again by its client id, so it may do without.
IdIsKept ==
    [][\A o \in Ops : Kind[o] # "template" /\ row[o].providerId =>
          row'[o].providerId]_vars

\* What the transition table of save() says of a confirmed operation: it stays
\* succeeded.  The queryset updates of the except clauses do not consult it.
SucceededIsFinal ==
    [][\A o \in Ops : row[o].status = "succeeded" => row'[o].status = "succeeded"]_vars

=============================================================================
