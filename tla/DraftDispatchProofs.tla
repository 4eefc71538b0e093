------------------------- MODULE DraftDispatchProofs -------------------------
(***************************************************************************)
(* Machine-checked proofs about DraftDispatch, for any set of operations   *)
(* and any number of concurrent web requests.                              *)
(***************************************************************************)
EXTENDS DraftDispatch, TLAPS

\* A request that has claimed its operation and has not yet sent the POST.
Pending(c) == caller[c].pc \in {"lease", "post"} /\ ~caller[c].reconcile

\* No POST of the operation is out that could still be applied, or will be.
NeverApplied(o) ==
    /\ flight[o] \in {"none", "refused"}
    /\ \A c \in Callers : Pending(c) => caller[c].op # o

\* What a request's program counter says of its operation.
CallerFits(c) ==
    LET s == caller[c] IN
    /\ s.op \in Ops
    /\ row[s.op].status \in Claimed
    /\ s.pc \in {"post", "answer"} => ~s.reconcile
    /\ s.pc \in {"save", "write"} => s.operation.status \in {"succeeded", "unknown"}
    /\ s.pc \in {"save", "write"} /\ s.operation.status = "succeeded" =>
           flight[s.op] = "applied"
    /\ s.pc = "except" /\ s.result = "failed" => NeverApplied(s.op)
    /\ s.pc = "post" /\ Kind[s.op] = "campaign" => flight[TemplateOf[s.op]] = "applied"

CallerShape == \A c \in Callers : caller[c].pc # "idle" => CallerFits(c)

\* The POST has not been sent before the claim, nor by it until it is sent.
Unsent(o) == flight[o] = "none" /\ posts[o] = 0

NothingSentYet ==
    /\ \A o \in Ops : row[o].status \notin Claimed => Unsent(o)
    /\ \A c \in Callers : Pending(c) => Unsent(caller[c].op)

OnePending ==
    \A c, d \in Callers : Pending(c) /\ Pending(d) /\ caller[c].op = caller[d].op => c = d

FailedForGood == \A o \in Ops : row[o].status = "failed" => NeverApplied(o)

\* The inductive invariant.
DraftInv ==
    /\ DraftTypeOK
    /\ CallerShape
    /\ NothingSentYet
    /\ OnePending
    /\ AtMostOnce
    /\ SucceededIsTrue
    /\ FailedForGood
    /\ CampaignHasTemplate

-----------------------------------------------------------------------------
\* Nothing has been submitted.
LEMMA DraftInvInit == Init => DraftInv
  BY NoneAssumption, TemplateAssumption DEF Init, DraftInv, DraftTypeOK, CallerShape,
     CallerFits, NothingSentYet,
     OnePending, AtMostOnce, SucceededIsTrue, FailedForGood, CampaignHasTemplate, Pending, Unsent,
     NeverApplied, NoRow, Idle, Row, CallerState, PC, Statuses, Claimed, Providers, Outcomes

\* A step of one request that neither sends nor writes: the invariant survives
\* if the request's new state has the right shape and it does not become the
\* owner of a POST it was not.
LEMMA CallerMoves ==
    ASSUME DraftInv, NEW c \in Callers, NEW s \in CallerState,
           caller' = [caller EXCEPT ![c] = s],
           UNCHANGED <<row, envVars, flight, posts>>,
           s.pc # "idle" =>
               /\ s.op \in Ops
               /\ row[s.op].status \in Claimed
               /\ s.pc \in {"post", "answer"} => ~s.reconcile
               /\ s.pc \in {"save", "write"} => s.operation.status \in {"succeeded", "unknown"}
               /\ s.pc \in {"save", "write"} /\ s.operation.status = "succeeded" =>
                      flight[s.op] = "applied"
               /\ s.pc = "except" /\ s.result = "failed" =>
                      /\ flight[s.op] \in {"none", "refused"}
                      /\ \A d \in Callers : d # c /\ Pending(d) => caller[d].op # s.op
               /\ s.pc = "post" /\ Kind[s.op] = "campaign" =>
                      flight[TemplateOf[s.op]] = "applied",
           s.pc \in {"lease", "post"} /\ ~s.reconcile => Pending(c) /\ s.op = caller[c].op
    PROVE  DraftInv'
<1>1. caller'[c] = s /\ \A d \in Callers : d # c => caller'[d] = caller[d]
  BY DEF DraftInv, DraftTypeOK
<1>2. DraftTypeOK'
  BY DEF DraftInv, DraftTypeOK, envVars
<1>3. \A d \in Callers : Pending(d)' => Pending(d) /\ caller'[d].op = caller[d].op
  BY <1>1 DEF Pending
<1>4. \A o \in Ops : NeverApplied(o) => NeverApplied(o)'
  BY <1>3 DEF NeverApplied
<1>5. NothingSentYet' /\ OnePending'
  BY <1>3 DEF DraftInv, NothingSentYet, OnePending, Unsent
<1>6. AtMostOnce' /\ SucceededIsTrue' /\ CampaignHasTemplate'
  BY DEF DraftInv, AtMostOnce, SucceededIsTrue, CampaignHasTemplate
<1>7. FailedForGood'
  BY <1>4 DEF DraftInv, FailedForGood
<1>8. CallerShape'
  <2> SUFFICES ASSUME NEW d \in Callers, caller'[d].pc # "idle" PROVE CallerFits(d)'
    BY DEF CallerShape
  <2>1. CASE d # c
    <3>1. CallerFits(d)
      BY <1>1, <2>1 DEF DraftInv, CallerShape
    <3>. QED  BY <1>1, <1>4, <2>1, <3>1 DEF CallerFits
  <2>2. CASE d = c
    <3>1. s.pc = "except" /\ s.result = "failed" => NeverApplied(s.op)'
      BY <1>1, <1>3, <2>2 DEF NeverApplied, Pending
    <3>. QED  BY <1>1, <2>2, <3>1 DEF CallerFits
  <2>. QED  BY <2>1, <2>2
<1>. QED  BY <1>2, <1>5, <1>6, <1>7, <1>8 DEF DraftInv

\* Steps of the operator and of the workflow, which change no row and no POST.
LEMMA QuietSteps ==
    ASSUME DraftInv,
           \/ \E o \in Ops : Supersede(o) \/ SessionEnds(o)
           \/ \E p \in {Provider(o) : o \in Ops} : SwitchWrites(p) \/ ConnectionChanges(p)
    PROVE  DraftInv'
<1>1. UNCHANGED <<row, flight, posts, caller>>
  BY DEF Supersede, SessionEnds, SwitchWrites, ConnectionChanges
<1>2. /\ current' \subseteq Ops /\ live' \subseteq Ops
      /\ enabled' \subseteq Providers /\ healthy' \subseteq Providers
  BY DEF DraftInv, DraftTypeOK, Supersede, SessionEnds, SwitchWrites, ConnectionChanges,
     Provider, Providers
<1>. QED
  BY <1>1, <1>2 DEF DraftInv, DraftTypeOK, CallerShape, CallerFits, NothingSentYet, OnePending,
     AtMostOnce, SucceededIsTrue, FailedForGood, CampaignHasTemplate, Pending, Unsent, NeverApplied

\* An operation is submitted or approved: it is not claimed, so nobody is at it.
LEMMA ReviewSteps ==
    ASSUME DraftInv, NEW o \in Ops, Submit(o) \/ Approve(o)
    PROVE  DraftInv'
<1>1. PICK x \in {"pending", "approved"} :
         /\ row' = [row EXCEPT ![o].status = x]
         /\ row[o].status \in {"none", "pending"}
         /\ live' \in {live, live \cup {o}}
         /\ UNCHANGED <<current, enabled, healthy, flight, posts, caller>>
  BY DEF Submit, Approve, envVars
<1>2. /\ row'[o].status = x /\ x \notin Claimed /\ row[o].status \notin Claimed
      /\ \A q \in Ops : q # o => row'[q] = row[q]
  BY <1>1 DEF DraftInv, DraftTypeOK, Row, Claimed
<1>3. DraftTypeOK'
  BY <1>1 DEF DraftInv, DraftTypeOK, Row, Statuses
<1>4. \A c \in Callers : caller[c].pc # "idle" => caller[c].op \in Ops /\ caller[c].op # o
  BY <1>2 DEF DraftInv, CallerShape, CallerFits
<1>5. CallerShape'
  <2> SUFFICES ASSUME NEW c \in Callers, caller'[c].pc # "idle" PROVE CallerFits(c)'
    BY DEF CallerShape
  <2>1. CallerFits(c)
    BY <1>1 DEF DraftInv, CallerShape
  <2>. QED  BY <1>1, <1>2, <1>4, <2>1 DEF CallerFits, NeverApplied, Pending
<1>6. NothingSentYet' /\ OnePending' /\ AtMostOnce' /\ CampaignHasTemplate'
  BY <1>1, <1>2 DEF DraftInv, NothingSentYet, OnePending, AtMostOnce, CampaignHasTemplate,
     Pending, Unsent
<1>7. SucceededIsTrue' /\ FailedForGood'
  BY <1>1, <1>2 DEF DraftInv, SucceededIsTrue, FailedForGood, NeverApplied, Pending, Claimed
<1>. QED  BY <1>3, <1>5, <1>6, <1>7 DEF DraftInv

\* The claim: the only step that makes a request the owner of a POST, and only
\* of an operation nobody has claimed before.
LEMMA ClaimStep ==
    ASSUME DraftInv, NEW c \in Callers, NEW o \in Ops, ClaimDraft(c, o)
    PROVE  DraftInv'
<1> DEFINE claimed == [row[o] EXCEPT !.status = "executing", !.providerId = @ \/ Kind[o] = "update"]
           s == [Idle EXCEPT !.pc = "lease", !.op = o, !.operation = claimed]
<1>1. /\ caller[c].pc = "idle"
      /\ row[o].status = "approved"
      /\ row' = [row EXCEPT ![o] = claimed]
      /\ caller' = [caller EXCEPT ![c] = s]
      /\ UNCHANGED <<current, live, enabled, healthy, flight, posts>>
  BY DEF ClaimDraft, envVars
<1>2. claimed \in Row /\ claimed.status = "executing"
  BY DEF DraftInv, DraftTypeOK, Row, Statuses, Claimed
<1> HIDE DEF claimed
<1>3. s \in CallerState /\ s.pc = "lease" /\ s.op = o /\ ~s.reconcile
  BY <1>2 DEF CallerState, PC, Idle
<1> HIDE DEF s
<1>4. /\ row'[o] = claimed /\ \A q \in Ops : q # o => row'[q] = row[q]
      /\ caller'[c] = s /\ \A d \in Callers : d # c => caller'[d] = caller[d]
  BY <1>1 DEF DraftInv, DraftTypeOK
<1>5. row[o].status \notin Claimed /\ "executing" \in Claimed /\ Unsent(o)
  BY <1>1 DEF DraftInv, NothingSentYet, Claimed
<1>6. \A d \in Callers : d # c /\ caller[d].pc # "idle" => caller[d].op \in Ops /\ caller[d].op # o
  BY <1>5 DEF DraftInv, CallerShape, CallerFits
<1>7. DraftTypeOK'
  BY <1>1, <1>2, <1>3 DEF DraftInv, DraftTypeOK
<1>8. \A q \in Ops : q # o /\ NeverApplied(q) => NeverApplied(q)'
  BY <1>1, <1>3, <1>4 DEF NeverApplied, Pending
<1>9. CallerShape'
  <2> SUFFICES ASSUME NEW d \in Callers, caller'[d].pc # "idle" PROVE CallerFits(d)'
    BY DEF CallerShape
  <2>1. CASE d # c
    <3>1. CallerFits(d)
      BY <1>4, <2>1 DEF DraftInv, CallerShape
    <3>. QED  BY <1>1, <1>4, <1>6, <1>8, <2>1, <3>1 DEF CallerFits
  <2>2. CASE d = c
    BY <1>2, <1>3, <1>4, <1>5, <2>2 DEF CallerFits
  <2>. QED  BY <2>1, <2>2
<1>10. NothingSentYet'
  BY <1>1, <1>2, <1>3, <1>4, <1>5, <1>6 DEF DraftInv, NothingSentYet, Unsent, Pending
<1>11. OnePending'
  BY <1>1, <1>3, <1>4, <1>6 DEF DraftInv, OnePending, Pending
<1>12. AtMostOnce' /\ CampaignHasTemplate'
  BY <1>1 DEF DraftInv, AtMostOnce, CampaignHasTemplate
<1>13. SucceededIsTrue' /\ FailedForGood'
  BY <1>1, <1>2, <1>4, <1>8 DEF DraftInv, SucceededIsTrue, FailedForGood
<1>. QED  BY <1>7, <1>9, <1>10, <1>11, <1>12, <1>13 DEF DraftInv

\* Reconciliation never owns a POST.
LEMMA ReconcileStep ==
    ASSUME DraftInv, NEW c \in Callers, NEW o \in Ops, Reconcile(c, o)
    PROVE  DraftInv'
<1> DEFINE s == [Idle EXCEPT !.pc = "lease", !.op = o, !.reconcile = TRUE, !.operation = row[o]]
<1>1. /\ row[o].status \in Claimed
      /\ caller' = [caller EXCEPT ![c] = s]
      /\ UNCHANGED <<row, envVars, flight, posts>>
  BY DEF Reconcile, Claimed
<1>2. s \in CallerState /\ s.pc = "lease" /\ s.op = o /\ s.reconcile
  BY DEF CallerState, PC, Idle, DraftInv, DraftTypeOK
<1> HIDE DEF s
<1>. QED  BY <1>1, <1>2, CallerMoves

-----------------------------------------------------------------------------
(* The steps of a request, by how they leave it.                           *)

\* The request ends, or is lost.
LEMMA DoneMoves ==
    ASSUME DraftInv, NEW c \in Callers, Done(c), UNCHANGED <<row, envVars, flight, posts>>
    PROVE  DraftInv'
<1>1. Idle \in CallerState /\ Idle.pc = "idle"
  BY DEF Idle, CallerState, PC, NoRow, Row, Statuses
<1>. QED  BY <1>1, CallerMoves DEF Done

\* The request goes on to another point with the rest of its state.
LEMMA GotoMoves ==
    ASSUME DraftInv, NEW c \in Callers, caller[c].pc # "idle",
           NEW pc \in {"post", "confirm", "write"}, Goto(c, pc),
           UNCHANGED <<row, envVars, flight, posts>>,
           pc = "post" => Pending(c) /\
               (Kind[caller[c].op] = "campaign" => flight[TemplateOf[caller[c].op]] = "applied"),
           pc = "write" => caller[c].pc = "save"
    PROVE  DraftInv'
<1> DEFINE s == [caller[c] EXCEPT !.pc = pc]
<1>1. caller' = [caller EXCEPT ![c] = s]
  BY DEF Goto, DraftInv, DraftTypeOK
<1>2. /\ s \in CallerState /\ s.pc = pc /\ s.op = caller[c].op /\ s.reconcile = caller[c].reconcile
      /\ s.operation = caller[c].operation
  BY DEF DraftInv, DraftTypeOK, CallerState, PC
<1> HIDE DEF s
<1>3. CallerFits(c)
  BY DEF DraftInv, CallerShape
<1>. QED  BY <1>1, <1>2, <1>3, CallerMoves DEF CallerFits, Pending

\* The request has a receipt to store; only a draft that is there is CONFIRMED.
LEMMA ReceiveMoves ==
    ASSUME DraftInv, NEW c \in Callers, caller[c].pc # "idle",
           NEW outcome \in Outcomes, NEW learned \in BOOLEAN, Receive(c, outcome, learned),
           UNCHANGED <<row, envVars, flight, posts>>,
           outcome = "CONFIRMED" => flight[caller[c].op] = "applied"
    PROVE  DraftInv'
<1> DEFINE x == IF outcome = "CONFIRMED" THEN "succeeded" ELSE "unknown"
           op == [status |-> x, providerId |-> caller[c].operation.providerId \/ learned,
                  receipt |-> outcome]
           s == [caller[c] EXCEPT !.pc = "save", !.operation = op]
<1>0. caller[c] \in CallerState /\ caller[c].operation \in Row
  BY DEF DraftInv, DraftTypeOK, CallerState
<1>1. caller' = [caller EXCEPT ![c] = s]
  BY DEF Receive
<1>2. op \in Row /\ op.status = x /\ x \in {"succeeded", "unknown"}
      /\ (x = "succeeded" => outcome = "CONFIRMED")
  BY <1>0 DEF Row, Statuses, Claimed, Outcomes
<1> HIDE DEF op, x
<1>3. s \in CallerState /\ s.pc = "save" /\ s.op = caller[c].op /\ s.operation = op
  BY <1>0, <1>2 DEF CallerState, PC
<1> HIDE DEF s
<1>4. CallerFits(c)
  BY DEF DraftInv, CallerShape
<1>. QED  BY <1>1, <1>2, <1>3, <1>4, CallerMoves DEF CallerFits

\* The request is in an except clause; a definite failure really is one.
LEMMA ExceptMoves ==
    ASSUME DraftInv, NEW c \in Callers, caller[c].pc # "idle",
           NEW result \in {"failed", "unknown"}, Except(c, result),
           UNCHANGED <<row, envVars, flight, posts>>,
           result = "failed" =>
               /\ flight[caller[c].op] \in {"none", "refused"}
               /\ \A d \in Callers : d # c /\ Pending(d) => caller[d].op # caller[c].op
    PROVE  DraftInv'
<1>1. CASE Done(c)
  BY <1>1, DoneMoves
<1>2. CASE caller' = [caller EXCEPT ![c] = [@ EXCEPT !.pc = "except", !.result = result]]
  <2> DEFINE s == [caller[c] EXCEPT !.pc = "except", !.result = result]
  <2>1. caller' = [caller EXCEPT ![c] = s]
    BY <1>2
  <2>2. s \in CallerState /\ s.pc = "except" /\ s.op = caller[c].op /\ s.result = result
    BY DEF DraftInv, DraftTypeOK, CallerState, PC
  <2> HIDE DEF s
  <2>3. CallerFits(c)
    BY DEF DraftInv, CallerShape
  <2>. QED  BY <2>1, <2>2, <2>3, CallerMoves DEF CallerFits
<1>. QED  BY <1>1, <1>2 DEF Except

-----------------------------------------------------------------------------
(* Preservation by the steps of a request.                                 *)

\* Up to the POST: a campaign gets there only past a confirmed template.
LEMMA LeaseStep ==
    ASSUME DraftInv, NEW c \in Callers, Lease(c)
    PROVE  DraftInv'
<1> DEFINE o == caller[c].op
<1>0. caller[c].pc = "lease" /\ UNCHANGED <<row, envVars, flight, posts>>
  BY DEF Lease
<1>1. o \in Ops /\ caller[c].reconcile \in BOOLEAN
  BY <1>0 DEF DraftInv, DraftTypeOK, CallerState, CallerShape, CallerFits
<1>2. CASE LeaseOpens(o, caller[c].reconcile)
  <2>1. Kind[o] = "campaign" => flight[TemplateOf[o]] = "applied"
    BY <1>1, <1>2, TemplateAssumption
       DEF LeaseOpens, ValidateExecution, TemplateConfirmed, DraftInv, SucceededIsTrue
  <2>2. CASE caller[c].reconcile
    BY <1>0, <1>2, <2>2, GotoMoves DEF Lease
  <2>3. CASE ~caller[c].reconcile
    BY <1>0, <1>2, <2>1, <2>3, GotoMoves DEF Lease, Pending
  <2>. QED  BY <2>2, <2>3
<1>3. CASE ~LeaseOpens(o, caller[c].reconcile)
  BY <1>0, <1>3, ExceptMoves DEF Lease
<1>. QED  BY <1>2, <1>3

\* The adapter gives up: its POST was never sent and nobody else will send it.
LEMMA GiveUpStep ==
    ASSUME DraftInv, NEW c \in Callers, GiveUp(c)
    PROVE  DraftInv'
<1>0. caller[c].pc = "post" /\ UNCHANGED <<row, envVars, flight, posts>>
  BY DEF GiveUp
<1>1. Pending(c)
  BY <1>0 DEF DraftInv, CallerShape, CallerFits, Pending
<1>2. /\ flight[caller[c].op] = "none"
      /\ \A d \in Callers : d # c /\ Pending(d) => caller[d].op # caller[c].op
  BY <1>1 DEF DraftInv, NothingSentYet, Unsent, OnePending
<1>. QED  BY <1>0, <1>2, ExceptMoves DEF GiveUp

\* The answer: a refused POST was sent, so nobody is about to send it.
LEMMA AnswerStep ==
    ASSUME DraftInv, NEW c \in Callers, Answer(c)
    PROVE  DraftInv'
<1> DEFINE o == caller[c].op
<1>0. caller[c].pc = "answer" /\ UNCHANGED <<row, envVars, flight, posts>>
  BY DEF Answer
<1>1. ASSUME flight[o] = "refused" PROVE \A d \in Callers : Pending(d) => caller[d].op # o
  BY <1>1 DEF DraftInv, NothingSentYet, Unsent
<1>2. CASE Receive(c, "UNKNOWN", FALSE) \/ Receive(c, "UNKNOWN", TRUE)
  BY <1>0, <1>2, ReceiveMoves DEF Outcomes
<1>3. CASE Goto(c, "confirm")
  BY <1>0, <1>3, GotoMoves
<1>4. CASE Except(c, "unknown")
  BY <1>0, <1>4, ExceptMoves
<1>5. CASE Except(c, "failed") /\ flight[o] = "refused"
  BY <1>0, <1>1, <1>5, ExceptMoves
<1>. QED  BY <1>2, <1>3, <1>4, <1>5 DEF Answer

\* The read-back confirms only what the provider holds.
LEMMA ConfirmStep ==
    ASSUME DraftInv, NEW c \in Callers, Confirm(c)
    PROVE  DraftInv'
<1>0. caller[c].pc = "confirm" /\ UNCHANGED <<row, envVars, flight, posts>>
  BY DEF Confirm
<1>1. CASE \E learned \in BOOLEAN : Receive(c, "UNKNOWN", learned)
  BY <1>0, <1>1, ReceiveMoves DEF Outcomes
<1>2. CASE flight[caller[c].op] = "applied" /\ Receive(c, "CONFIRMED", TRUE)
  BY <1>0, <1>2, ReceiveMoves DEF Outcomes
<1>3. CASE Except(c, "unknown")
  BY <1>0, <1>3, ExceptMoves
<1>. QED  BY <1>1, <1>2, <1>3 DEF Confirm

\* save() consults the table and goes on, or raises.
LEMMA SaveCheckStep ==
    ASSUME DraftInv, NEW c \in Callers, SaveCheck(c)
    PROVE  DraftInv'
<1>0. caller[c].pc = "save" /\ UNCHANGED <<row, envVars, flight, posts>>
  BY DEF SaveCheck
<1>. QED  BY <1>0, GotoMoves, ExceptMoves DEF SaveCheck

\* The POST goes out, once: from here on the operation is nobody's to send.
LEMMA PostStep ==
    ASSUME DraftInv, NEW c \in Callers, Post(c)
    PROVE  DraftInv'
<1> DEFINE o == caller[c].op
           s == [caller[c] EXCEPT !.pc = "answer"]
<1>0. /\ caller[c].pc = "post"
      /\ posts' = [posts EXCEPT ![o] = @ + 1]
      /\ flight' = [flight EXCEPT ![o] = "sent"]
      /\ Goto(c, "answer")
      /\ UNCHANGED <<row, current, live, enabled, healthy>>
  BY DEF Post, envVars
<1>1. CallerFits(c) /\ Pending(c) /\ o \in Ops
  BY <1>0 DEF DraftInv, CallerShape, CallerFits, Pending
<1>2. Unsent(o)
  BY <1>1 DEF DraftInv, NothingSentYet
<1>3. /\ posts'[o] = 1 /\ flight'[o] = "sent"
      /\ \A q \in Ops : q # o => posts'[q] = posts[q] /\ flight'[q] = flight[q]
  BY <1>0, <1>1, <1>2 DEF Unsent, DraftInv, DraftTypeOK
<1>4. /\ s \in CallerState /\ s.pc = "answer" /\ s.op = o /\ ~s.reconcile
      /\ caller' = [caller EXCEPT ![c] = s]
  BY <1>0, <1>1 DEF Goto, DraftInv, DraftTypeOK, CallerState, PC, Pending
<1> HIDE DEF s
<1>5. caller'[c] = s /\ \A d \in Callers : d # c => caller'[d] = caller[d]
  BY <1>4 DEF DraftInv, DraftTypeOK
<1>6. \A d \in Callers : Pending(d)' => d # c /\ Pending(d) /\ caller'[d].op = caller[d].op
  BY <1>4, <1>5 DEF Pending
<1>7. \A d \in Callers : d # c /\ Pending(d) => caller[d].op # o
  BY <1>1 DEF DraftInv, OnePending
<1>8. ~NeverApplied(o)
  BY <1>1 DEF NeverApplied
<1>9. \A q \in Ops : NeverApplied(q) => NeverApplied(q)'
  BY <1>3, <1>6, <1>8 DEF NeverApplied
<1>10. \A q \in Ops : flight[q] = "applied" => flight'[q] = "applied"
  BY <1>2, <1>3 DEF Unsent
<1>11. DraftTypeOK'
  BY <1>0, <1>1, <1>4 DEF DraftInv, DraftTypeOK
<1>12. CallerShape'
  <2> SUFFICES ASSUME NEW d \in Callers, caller'[d].pc # "idle" PROVE CallerFits(d)'
    BY DEF CallerShape
  <2>1. CASE d # c
    <3>1. CallerFits(d)
      BY <1>5, <2>1 DEF DraftInv, CallerShape
    <3>. QED  BY <1>0, <1>5, <1>9, <1>10, <2>1, <3>1, TemplateAssumption DEF CallerFits
  <2>2. CASE d = c
    BY <1>0, <1>1, <1>4, <1>5, <2>2 DEF CallerFits
  <2>. QED  BY <2>1, <2>2
<1>13. NothingSentYet'
  <2>1. \A q \in Ops : row'[q].status \notin Claimed => Unsent(q)'
    BY <1>0, <1>1, <1>3 DEF DraftInv, NothingSentYet, Unsent, CallerFits
  <2>2. \A d \in Callers : Pending(d) => caller[d].op \in Ops
    BY DEF DraftInv, CallerShape, CallerFits, Pending
  <2>3. \A d \in Callers : Pending(d)' => Unsent(caller[d].op)'
    BY <1>3, <1>6, <1>7, <2>2 DEF DraftInv, NothingSentYet, Unsent
  <2>. QED  BY <1>6, <2>1, <2>3 DEF NothingSentYet, Unsent
<1>14. OnePending'
  BY <1>6 DEF DraftInv, OnePending
<1>15. AtMostOnce'
  BY <1>3 DEF DraftInv, AtMostOnce
<1>16. SucceededIsTrue' /\ FailedForGood'
  BY <1>0, <1>9, <1>10 DEF DraftInv, SucceededIsTrue, FailedForGood
<1>17. CampaignHasTemplate'
  BY <1>0, <1>1, <1>3, <1>10, TemplateAssumption DEF DraftInv, CampaignHasTemplate, CallerFits
<1>. QED
  BY <1>11, <1>12, <1>13, <1>14, <1>15, <1>16, <1>17 DEF DraftInv

\* A request writes the row and ends.
LEMMA WriteMoves ==
    ASSUME DraftInv, NEW c \in Callers, caller[c].pc # "idle", Done(c),
           NEW v \in Row, row' = [row EXCEPT ![caller[c].op] = v], v.status \in Claimed,
           v.status = "succeeded" => flight[caller[c].op] = "applied",
           v.status = "failed" => NeverApplied(caller[c].op),
           UNCHANGED <<envVars, flight, posts>>
    PROVE  DraftInv'
<1> DEFINE o == caller[c].op
<1>0. o \in Ops /\ row[o].status \in Claimed
  BY DEF DraftInv, CallerShape, CallerFits
<1>1. Idle \in CallerState /\ Idle.pc = "idle"
  BY DEF Idle, CallerState, PC, NoRow, Row, Statuses
<1>2. /\ caller'[c] = Idle /\ \A d \in Callers : d # c => caller'[d] = caller[d]
      /\ row'[o] = v /\ \A q \in Ops : q # o => row'[q] = row[q]
  BY <1>0 DEF Done, DraftInv, DraftTypeOK
<1>3. DraftTypeOK'
  BY <1>0, <1>1 DEF Done, DraftInv, DraftTypeOK, envVars
<1>4. \A d \in Callers : Pending(d)' => Pending(d) /\ caller'[d].op = caller[d].op
  BY <1>1, <1>2 DEF Pending
<1>5. \A q \in Ops : NeverApplied(q) => NeverApplied(q)'
  BY <1>4 DEF NeverApplied
<1>6. CallerShape'
  <2> SUFFICES ASSUME NEW d \in Callers, caller'[d].pc # "idle" PROVE CallerFits(d)'
    BY DEF CallerShape
  <2>1. d # c /\ CallerFits(d)
    BY <1>1, <1>2 DEF DraftInv, CallerShape
  <2>. QED  BY <1>2, <1>5, <2>1 DEF CallerFits
<1>7. NothingSentYet' /\ OnePending'
  BY <1>2, <1>4 DEF DraftInv, NothingSentYet, OnePending, Unsent
<1>8. AtMostOnce' /\ CampaignHasTemplate'
  BY DEF DraftInv, AtMostOnce, CampaignHasTemplate
<1>9. SucceededIsTrue' /\ FailedForGood'
  BY <1>2, <1>5 DEF DraftInv, SucceededIsTrue, FailedForGood
<1>. QED  BY <1>3, <1>6, <1>7, <1>8, <1>9 DEF DraftInv

\* save()'s UPDATE, and the update() of the except clauses: whatever row they
\* overwrite, what they write is true.
LEMMA WriteSteps ==
    ASSUME DraftInv, NEW c \in Callers, SaveWrite(c) \/ ExceptUpdate(c)
    PROVE  DraftInv'
<1>0. caller[c].pc \in {"write", "except"} /\ Done(c) /\ UNCHANGED <<envVars, flight, posts>>
  BY DEF SaveWrite, ExceptUpdate
<1>1. CallerFits(c) /\ caller[c] \in CallerState /\ caller[c].op \in Ops
  BY <1>0 DEF DraftInv, DraftTypeOK, CallerShape, CallerFits
<1>2. CASE SaveWrite(c)
  <2>1. /\ caller[c].pc = "write" /\ caller[c].operation \in Row
        /\ row' = [row EXCEPT ![caller[c].op] = caller[c].operation]
    BY <1>1, <1>2 DEF SaveWrite, CallerState
  <2>. QED  BY <1>0, <1>1, <2>1, WriteMoves DEF CallerFits, Claimed
<1>3. CASE ExceptUpdate(c)
  <2> DEFINE v == [row[caller[c].op] EXCEPT !.status = caller[c].result]
  <2>1. caller[c].pc = "except" /\ row' = [row EXCEPT ![caller[c].op] = v]
    BY <1>1, <1>3 DEF ExceptUpdate, DraftInv, DraftTypeOK
  <2>2. v \in Row /\ v.status = caller[c].result /\ v.status \in {"failed", "unknown"}
    BY <1>1 DEF DraftInv, DraftTypeOK, Row, CallerState, Statuses, Claimed
  <2> HIDE DEF v
  <2>. QED  BY <1>0, <1>1, <2>1, <2>2, WriteMoves DEF CallerFits, Claimed
<1>. QED  BY <1>2, <1>3

\* The provider decides about a POST that is on its way.
LEMMA ProviderSteps ==
    ASSUME DraftInv, NEW o \in Ops, ProviderApplies(o) \/ ProviderRefuses(o)
    PROVE  DraftInv'
<1>0. /\ flight[o] = "sent"
      /\ \E x \in {"applied", "refused"} : flight' = [flight EXCEPT ![o] = x]
      /\ UNCHANGED <<row, current, live, enabled, healthy, posts, caller>>
  BY DEF ProviderApplies, ProviderRefuses, envVars
<1>1. DraftTypeOK'
  BY <1>0 DEF DraftInv, DraftTypeOK
<1>2. \A q \in Ops : q # o => flight'[q] = flight[q]
  BY <1>0 DEF DraftInv, DraftTypeOK
<1>3. \A q \in Ops : NeverApplied(q) => NeverApplied(q)'
  BY <1>0, <1>2 DEF NeverApplied, Pending
<1>4. \A q \in Ops : flight[q] = "applied" => flight'[q] = "applied"
  BY <1>0, <1>2
<1>5. CallerShape'
  BY <1>0, <1>3, <1>4, TemplateAssumption DEF DraftInv, CallerShape, CallerFits
<1>6. NothingSentYet' /\ OnePending'
  BY <1>0, <1>2 DEF DraftInv, NothingSentYet, OnePending, Unsent, Pending, CallerShape,
     CallerFits
<1>7. AtMostOnce' /\ SucceededIsTrue' /\ FailedForGood' /\ CampaignHasTemplate'
  BY <1>0, <1>3, <1>4, TemplateAssumption
     DEF DraftInv, AtMostOnce, SucceededIsTrue, FailedForGood, CampaignHasTemplate
<1>. QED  BY <1>1, <1>5, <1>6, <1>7 DEF DraftInv

\* Every step of the system, one case per action.
LEMMA DraftInvNext == DraftInv /\ [Next]_vars => DraftInv'
<1> SUFFICES ASSUME DraftInv, [Next]_vars PROVE DraftInv'
  OBVIOUS
<1>1. CASE \E o \in Ops : Submit(o) \/ Approve(o)
  BY <1>1, ReviewSteps
<1>2. CASE \E c \in Callers, o \in Ops : ExecuteDraft(c, o) \/ ExecuteIterable(c, o)
  BY <1>2, ClaimStep DEF ExecuteDraft, ExecuteIterable
<1>8. CASE \E c \in Callers, o \in Ops : ReconcileDraft(c, o) \/ ReconcileIterable(c, o)
  BY <1>8, ReconcileStep DEF ReconcileDraft, ReconcileIterable
<1>3. CASE \E c \in Callers : CallerStep(c)
  BY <1>3, LeaseStep, GiveUpStep, PostStep, AnswerStep, ConfirmStep, SaveCheckStep, WriteSteps
     DEF CallerStep
<1>4. CASE \E c \in Callers : Crash(c)
  BY <1>4, DoneMoves DEF Crash
<1>5. CASE \E o \in Ops : ProviderApplies(o) \/ ProviderRefuses(o)
  BY <1>5, ProviderSteps
<1>6. CASE \/ \E o \in Ops : Supersede(o) \/ SessionEnds(o)
           \/ \E p \in {Provider(o) : o \in Ops} : SwitchWrites(p) \/ ConnectionChanges(p)
  BY <1>6, QuietSteps
<1>7. CASE UNCHANGED vars
  BY <1>7 DEF vars, DraftInv, DraftTypeOK, CallerShape, CallerFits, NothingSentYet, OnePending,
     AtMostOnce, SucceededIsTrue, FailedForGood, CampaignHasTemplate, Pending, Unsent, NeverApplied
<1>. QED  BY <1>1, <1>2, <1>3, <1>4, <1>5, <1>6, <1>7, <1>8 DEF Next

\* The inductive invariant holds in every reachable state.
THEOREM DraftInvariant == Spec => []DraftInv
  BY DraftInvInit, DraftInvNext, PTL DEF Spec

-----------------------------------------------------------------------------
\* Rows and requests of draft_operations.py are always well formed.
THEOREM DraftTypeCorrect == Spec => []DraftTypeOK
<1>1. DraftInv => DraftTypeOK
  BY DEF DraftInv
<1>. QED  BY <1>1, DraftInvariant, PTL

\* However execute_draft, reconcile_draft and _execute_iterable interleave,
\* crash and are repeated, at most one POST leaves for an approved operation.
THEOREM PostsAtMostOnce == Spec => []AtMostOnce
<1>1. DraftInv => AtMostOnce
  BY DEF DraftInv
<1>. QED  BY <1>1, DraftInvariant, PTL

\* A row whose status is succeeded stands for a draft the provider holds.
THEOREM SuccessIsTrue == Spec => []SucceededIsTrue
<1>1. DraftInv => SucceededIsTrue
  BY DEF DraftInv
<1>. QED  BY <1>1, DraftInvariant, PTL

\* A row whose status is failed stands for a POST that was never applied.
THEOREM FailureIsTrue == Spec => []FailedIsTrue
<1>1. DraftInv => FailedIsTrue
  BY DEF DraftInv, FailedForGood, NeverApplied, FailedIsTrue
<1>. QED  BY <1>1, DraftInvariant, PTL

\* Neither verdict of a row is ever wrong.
THEOREM VerdictsAreTrue == Spec => []VerdictIsTrue
  BY SuccessIsTrue, FailureIsTrue, PTL DEF VerdictIsTrue

\* _execute_iterable posts a campaign only over a template the provider holds.
THEOREM CampaignsHaveTemplates == Spec => []CampaignHasTemplate
<1>1. DraftInv => CampaignHasTemplate
  BY DEF DraftInv
<1>. QED  BY <1>1, DraftInvariant, PTL

-----------------------------------------------------------------------------
(* The provider's id, the handle on an ambiguous draft.                    *)

Claiming(c) == caller[c].pc # "idle" /\ ~caller[c].reconcile

\* Who may write a row without an id: the one request that claimed it, while
\* the row has none.
IdFits(c) ==
    LET s == caller[c] IN
    IF s.reconcile THEN s.operation.providerId /\ row[s.op].providerId
    ELSE IF Kind[s.op] = "update" THEN s.operation.providerId
    ELSE ~row[s.op].providerId

IdInv ==
    /\ \A o \in Ops : Kind[o] # "template" /\ row[o].status \notin Claimed => ~row[o].providerId
    /\ \A c \in Callers : caller[c].pc # "idle" /\ Kind[caller[c].op] # "template" => IdFits(c)
    /\ \A c, d \in Callers : Claiming(c) /\ Claiming(d) /\ caller[c].op = caller[d].op => c = d

\* A request that was at work goes on, or ends, and no row is written.
LEMMA IdMoves ==
    ASSUME DraftInv, IdInv, NEW c \in Callers, NEW s \in CallerState, caller[c].pc # "idle",
           caller' = [caller EXCEPT ![c] = s], row' = row,
           s.pc # "idle" =>
               /\ s.op = caller[c].op
               /\ s.reconcile = caller[c].reconcile
               /\ caller[c].operation.providerId => s.operation.providerId
    PROVE  IdInv'
<1>1. caller'[c] = s /\ \A d \in Callers : d # c => caller'[d] = caller[d]
  BY DEF DraftInv, DraftTypeOK
<1>2. \A d \in Callers : Claiming(d)' => Claiming(d) /\ caller'[d].op = caller[d].op
  BY <1>1 DEF Claiming
<1>3. ASSUME NEW d \in Callers, caller'[d].pc # "idle", Kind[caller'[d].op] # "template"
      PROVE  IdFits(d)'
  <2>1. CASE d = c
    <3>1. IdFits(c)
      BY <1>1, <1>3, <2>1 DEF IdInv
    <3>. QED  BY <1>1, <1>3, <2>1, <3>1 DEF IdFits
  <2>2. CASE d # c
    BY <1>1, <1>3, <2>2 DEF IdFits, IdInv
  <2>. QED  BY <2>1, <2>2
<1>. QED  BY <1>2, <1>3 DEF IdInv

LEMMA IdDone ==
    ASSUME DraftInv, IdInv, NEW c \in Callers, caller[c].pc # "idle", Done(c), row' = row
    PROVE  IdInv'
<1>1. Idle \in CallerState /\ Idle.pc = "idle"
  BY NoneAssumption DEF Idle, CallerState, NoRow, Row, PC, Statuses, Claimed
<1>. QED  BY <1>1, IdMoves DEF Done

LEMMA IdGoto ==
    ASSUME DraftInv, IdInv, NEW c \in Callers, caller[c].pc # "idle", NEW pc \in PC,
           Goto(c, pc), row' = row
    PROVE  IdInv'
<1> DEFINE s == [caller[c] EXCEPT !.pc = pc]
<1>0. caller[c] \in CallerState
  BY DEF DraftInv, DraftTypeOK
<1>1. /\ s \in CallerState
      /\ s.op = caller[c].op
      /\ s.reconcile = caller[c].reconcile
      /\ s.operation = caller[c].operation
  BY <1>0 DEF CallerState
<1>2. caller' = [caller EXCEPT ![c] = s]
  BY DEF Goto, DraftInv, DraftTypeOK
<1> HIDE DEF s
<1>. QED  BY <1>1, <1>2, IdMoves

LEMMA IdReceive ==
    ASSUME DraftInv, IdInv, NEW c \in Callers, caller[c].pc # "idle", NEW outcome \in Outcomes,
           NEW learned \in BOOLEAN, Receive(c, outcome, learned), row' = row
    PROVE  IdInv'
<1> DEFINE op == [status |-> IF outcome = "CONFIRMED" THEN "succeeded" ELSE "unknown",
                  providerId |-> caller[c].operation.providerId \/ learned,
                  receipt |-> outcome]
           s == [caller[c] EXCEPT !.pc = "save", !.operation = op]
<1>0. caller[c] \in CallerState /\ caller[c].operation.providerId \in BOOLEAN
  BY DEF DraftInv, DraftTypeOK, CallerState, Row
<1>1. op \in Row
  BY <1>0 DEF Row, Statuses, Claimed, Outcomes
<1>2. caller[c].operation.providerId => op.providerId
  OBVIOUS
<1>3. caller' = [caller EXCEPT ![c] = s]
  BY DEF Receive, DraftInv, DraftTypeOK
<1> HIDE DEF op
<1>4. /\ s \in CallerState
      /\ s.op = caller[c].op
      /\ s.reconcile = caller[c].reconcile
      /\ s.operation = op
  BY <1>0, <1>1 DEF CallerState, PC
<1> HIDE DEF s
<1>. QED  BY <1>2, <1>3, <1>4, IdMoves

LEMMA IdExcept ==
    ASSUME DraftInv, IdInv, NEW c \in Callers, caller[c].pc # "idle",
           NEW result \in {"failed", "unknown"}, Except(c, result), row' = row
    PROVE  IdInv'
<1> DEFINE s == [caller[c] EXCEPT !.pc = "except", !.result = result]
<1>0. caller[c] \in CallerState
  BY DEF DraftInv, DraftTypeOK
<1>1. /\ s \in CallerState
      /\ s.op = caller[c].op
      /\ s.reconcile = caller[c].reconcile
      /\ s.operation = caller[c].operation
  BY <1>0 DEF CallerState, PC
<1>2. Done(c) \/ caller' = [caller EXCEPT ![c] = s]
  BY DEF Except, DraftInv, DraftTypeOK
<1> HIDE DEF s
<1>3. CASE Done(c)
  BY <1>3, IdDone
<1>4. CASE caller' = [caller EXCEPT ![c] = s]
  BY <1>1, <1>4, IdMoves
<1>. QED  BY <1>2, <1>3, <1>4

\* Everything a request does between its start and its write.
LEMMA IdLocalSteps ==
    ASSUME DraftInv, IdInv, NEW c \in Callers,
           \/ Lease(c) \/ GiveUp(c) \/ Post(c) \/ Answer(c) \/ Confirm(c)
           \/ SaveCheck(c) \/ Crash(c)
    PROVE  IdInv' /\ row' = row
<1>0. row' = row /\ caller[c].pc # "idle"
  BY DEF Lease, GiveUp, Post, Answer, Confirm, SaveCheck, Crash
<1>1. \/ Done(c)
      \/ \E pc \in PC : Goto(c, pc)
      \/ \E outcome \in Outcomes, learned \in BOOLEAN : Receive(c, outcome, learned)
      \/ \E result \in {"failed", "unknown"} : Except(c, result)
  <2>1. CASE Lease(c)
    <3>1. CASE LeaseOpens(caller[c].op, caller[c].reconcile)
      BY <2>1, <3>1 DEF Lease, PC
    <3>2. CASE ~LeaseOpens(caller[c].op, caller[c].reconcile)
      BY <2>1, <3>2 DEF Lease
    <3>. QED  BY <3>1, <3>2
  <2>2. CASE GiveUp(c)
    BY <2>2 DEF GiveUp
  <2>3. CASE Post(c)
    BY <2>3 DEF Post, PC
  <2>4. CASE Answer(c)
    <3>1. \/ Goto(c, "confirm")
          \/ Receive(c, "UNKNOWN", TRUE)
          \/ Receive(c, "UNKNOWN", FALSE)
          \/ Except(c, "failed")
          \/ Except(c, "unknown")
      BY <2>4 DEF Answer
    <3>. QED  BY <3>1 DEF PC, Outcomes
  <2>5. CASE Confirm(c)
    <3>1. \/ Receive(c, "CONFIRMED", TRUE)
          \/ Receive(c, "UNKNOWN", Kind[caller[c].op] # "template")
          \/ Receive(c, "UNKNOWN", TRUE)
          \/ Except(c, "unknown")
      BY <2>5 DEF Confirm
    <3>. QED  BY <3>1 DEF Outcomes
  <2>6. CASE SaveCheck(c)
    <3>1. Goto(c, "write") \/ Except(c, "unknown")
      BY <2>6 DEF SaveCheck
    <3>. QED  BY <3>1 DEF PC
  <2>7. CASE Crash(c)
    BY <2>7 DEF Crash
  <2>. QED  BY <2>1, <2>2, <2>3, <2>4, <2>5, <2>6, <2>7
<1>. QED  BY <1>0, <1>1, IdDone, IdGoto, IdReceive, IdExcept

\* A request starts: with the claim of an approved row, which is alone, or with
\* a reconciliation, which asks for the id unless it looks for a template.
LEMMA IdStarts ==
    ASSUME DraftInv, IdInv, NEW c \in Callers, NEW o \in Ops, NEW s \in CallerState, NEW r \in Row,
           caller[c].pc = "idle", caller' = [caller EXCEPT ![c] = s],
           row' = [row EXCEPT ![o] = r],
           s.pc = "lease", s.op = o, s.operation = r,
           r.status \in Claimed, row[o].providerId => r.providerId,
           \/ /\ s.reconcile
              /\ r = row[o]
              /\ Kind[o] # "template" => r.providerId
           \/ /\ ~s.reconcile
              /\ row[o].status \notin Claimed
              /\ Kind[o] = "update" => r.providerId
              /\ Kind[o] \notin {"update", "template"} => r.providerId = row[o].providerId
    PROVE  IdInv'
<1>1. caller'[c] = s /\ \A d \in Callers : d # c => caller'[d] = caller[d]
  BY DEF DraftInv, DraftTypeOK
<1>2. row'[o] = r /\ \A p \in Ops : p # o => row'[p] = row[p]
  BY DEF DraftInv, DraftTypeOK
<1>3. \A d \in Callers : caller[d].pc # "idle" =>
        /\ caller[d].op \in Ops
        /\ row[caller[d].op].status \in Claimed
  BY DEF DraftInv, CallerShape, CallerFits
<1>4. \A p \in Ops : Kind[p] # "template" /\ row'[p].status \notin Claimed => ~row'[p].providerId
  BY <1>2 DEF IdInv
<1>5. \A d \in Callers : caller'[d].pc # "idle" /\ Kind[caller'[d].op] # "template" => IdFits(d)'
  <2> SUFFICES ASSUME NEW d \in Callers, caller'[d].pc # "idle", Kind[caller'[d].op] # "template"
               PROVE  IdFits(d)'
    OBVIOUS
  <2>1. CASE d = c
    BY <1>1, <1>2, <2>1 DEF IdFits, IdInv
  <2>2. CASE d # c
    <3>1. caller'[d] = caller[d] /\ IdFits(d)
      BY <1>1, <2>2 DEF IdInv
    <3>2. row'[caller[d].op].providerId = row[caller[d].op].providerId
      BY <1>1, <1>2, <1>3, <2>2
    <3>. QED  BY <3>1, <3>2 DEF IdFits
  <2>. QED  BY <2>1, <2>2
<1>6. \A d, e \in Callers :
        Claiming(d)' /\ Claiming(e)' /\ caller'[d].op = caller'[e].op => d = e
  BY <1>1, <1>3 DEF Claiming, IdInv
<1>. QED  BY <1>4, <1>5, <1>6 DEF IdInv

LEMMA IdClaim ==
    ASSUME DraftInv, IdInv, NEW c \in Callers, NEW o \in Ops, ClaimDraft(c, o)
    PROVE  IdInv' /\ (row[o].providerId => row'[o].providerId)
                  /\ \A p \in Ops : p # o => row'[p] = row[p]
<1> DEFINE r == [row[o] EXCEPT !.status = "executing",
                               !.providerId = row[o].providerId \/ Kind[o] = "update"]
           s == [Idle EXCEPT !.pc = "lease", !.op = o, !.operation = r]
<1>0. row[o] \in Row /\ row[o].providerId \in BOOLEAN
  BY DEF DraftInv, DraftTypeOK, Row
<1>1. (row[o].providerId \/ Kind[o] = "update") \in BOOLEAN
  OBVIOUS
<1>2. r \in Row
  BY <1>0, <1>1 DEF Row, Statuses, Claimed
<1>3. r.status = "executing" /\ r.providerId = (row[o].providerId \/ Kind[o] = "update")
  BY <1>0 DEF Row
<1>4. /\ caller[c].pc = "idle"
      /\ row[o].status = "approved"
      /\ row' = [row EXCEPT ![o] = r]
      /\ caller' = [caller EXCEPT ![c] = s]
  BY DEF ClaimDraft
<1> HIDE DEF r
<1>5. s \in CallerState /\ s.pc = "lease" /\ s.op = o /\ s.operation = r /\ ~s.reconcile
  BY <1>2, NoneAssumption DEF Idle, CallerState, NoRow, PC, Statuses, Claimed
<1> HIDE DEF s
<1>6. row[o].providerId => r.providerId
  BY <1>3
<1>7. Kind[o] = "update" => r.providerId
  BY <1>3
<1>8. Kind[o] \notin {"update", "template"} => r.providerId = row[o].providerId
  BY <1>0, <1>3
<1>9. r.status \in Claimed /\ row[o].status \notin Claimed
  BY <1>3, <1>4 DEF Claimed
<1>10. IdInv'
  BY <1>2, <1>4, <1>5, <1>6, <1>7, <1>8, <1>9, IdStarts
<1>11. row'[o] = r /\ \A p \in Ops : p # o => row'[p] = row[p]
  BY <1>4 DEF DraftInv, DraftTypeOK
<1>. QED  BY <1>6, <1>10, <1>11

LEMMA IdReconcile ==
    ASSUME DraftInv, IdInv, NEW c \in Callers, NEW o \in Ops, Reconcile(c, o),
           Kind[o] # "template" => row[o].providerId
    PROVE  IdInv' /\ row' = row
<1> DEFINE s == [Idle EXCEPT !.pc = "lease", !.op = o, !.reconcile = TRUE, !.operation = row[o]]
<1>0. PICK r \in Row : r = row[o]
  BY DEF DraftInv, DraftTypeOK
<1>1. /\ caller[c].pc = "idle"
      /\ r.status \in Claimed
      /\ caller' = [caller EXCEPT ![c] = s]
      /\ row' = row
  BY <1>0 DEF Reconcile, Claimed
<1>2. s \in CallerState /\ s.pc = "lease" /\ s.op = o /\ s.operation = r /\ s.reconcile
  BY <1>0, NoneAssumption DEF Idle, CallerState, NoRow, PC, Statuses, Claimed
<1>3. row' = [row EXCEPT ![o] = r]
  BY <1>0, <1>1 DEF DraftInv, DraftTypeOK
<1> HIDE DEF s
<1>. QED  BY <1>0, <1>1, <1>2, <1>3, IdStarts

\* A request writes its row and ends.  A row's id survives, because whoever has
\* none is alone with a row that has none.
LEMMA IdWrite ==
    ASSUME DraftInv, IdInv, NEW c \in Callers, SaveWrite(c) \/ ExceptUpdate(c)
    PROVE  /\ IdInv'
           /\ \A o \in Ops : Kind[o] # "template" /\ row[o].providerId => row'[o].providerId
<1> DEFINE o == caller[c].op
<1>1. /\ caller[c].pc # "idle"
      /\ o \in Ops
      /\ row[o].status \in Claimed
      /\ caller[c] \in CallerState
  BY DEF SaveWrite, ExceptUpdate, DraftInv, DraftTypeOK, CallerShape, CallerFits
<1>2. PICK r \in Row : /\ row' = [row EXCEPT ![o] = r]
                       /\ r.status \in Claimed
                       /\ \/ r.providerId = caller[c].operation.providerId
                          \/ r.providerId = row[o].providerId
  <2>1. CASE SaveWrite(c)
    <3>1. caller[c].operation \in Row /\ row' = [row EXCEPT ![o] = caller[c].operation]
      BY <1>1, <2>1 DEF SaveWrite, CallerState
    <3>2. caller[c].operation.status \in Claimed
      BY <1>1, <2>1 DEF SaveWrite, DraftInv, CallerShape, CallerFits, Claimed
    <3>. QED  BY <3>1, <3>2
  <2>2. CASE ExceptUpdate(c)
    <3> DEFINE r == [row[o] EXCEPT !.status = caller[c].result]
    <3>1. row[o] \in Row /\ caller[c].result \in {"failed", "unknown"}
      BY <1>1 DEF DraftInv, DraftTypeOK, CallerState
    <3>2. r \in Row /\ r.providerId = row[o].providerId /\ r.status = caller[c].result
      BY <3>1 DEF Row, Statuses, Claimed
    <3>3. row' = [row EXCEPT ![o] = r]
      BY <1>1, <2>2 DEF ExceptUpdate, DraftInv, DraftTypeOK
    <3> HIDE DEF r
    <3>. QED  BY <3>1, <3>2, <3>3 DEF Claimed
  <2>. QED  BY <2>1, <2>2
<1>3. row'[o] = r /\ \A p \in Ops : p # o => row'[p] = row[p]
  BY <1>1, <1>2 DEF DraftInv, DraftTypeOK
<1>4. caller'[c] = Idle /\ \A d \in Callers : d # c => caller'[d] = caller[d]
  BY DEF SaveWrite, ExceptUpdate, Done, DraftInv, DraftTypeOK
<1>5. Idle.pc = "idle"
  BY DEF Idle
<1>6. Kind[o] # "template" => IdFits(c)
  BY <1>1 DEF IdInv
<1>7. Kind[o] # "template" /\ row[o].providerId => r.providerId
  BY <1>2, <1>6 DEF IdFits
<1>8. ASSUME NEW d \in Callers, d # c, caller[d].pc # "idle", Kind[caller[d].op] # "template"
      PROVE  IdFits(d)'
  <2>1. caller'[d] = caller[d] /\ IdFits(d) /\ caller[d].op \in Ops
    BY <1>4, <1>8 DEF IdInv, DraftInv, CallerShape, CallerFits
  <2>2. CASE caller[d].op # o
    BY <1>3, <2>1, <2>2 DEF IdFits
  <2>3. CASE caller[d].op = o
    <3>1. CASE caller[d].reconcile
      BY <1>3, <1>7, <1>8, <2>1, <2>3, <3>1 DEF IdFits
    <3>2. CASE ~caller[d].reconcile
      <4>1. caller[c].reconcile
        BY <1>1, <1>8, <2>3, <3>2 DEF IdInv, Claiming
      <4>2. row[o].providerId
        BY <1>6, <1>8, <2>3, <4>1 DEF IdFits
      <4>3. Kind[o] = "update"
        BY <2>1, <2>3, <3>2, <4>2 DEF IdFits
      <4>. QED  BY <2>1, <2>3, <3>2, <4>3 DEF IdFits
    <3>. QED  BY <3>1, <3>2
  <2>. QED  BY <2>2, <2>3
<1>9. \A p \in Ops : Kind[p] # "template" /\ row'[p].status \notin Claimed => ~row'[p].providerId
  BY <1>2, <1>3 DEF IdInv
<1>10. \A d \in Callers : caller'[d].pc # "idle" /\ Kind[caller'[d].op] # "template" => IdFits(d)'
  BY <1>4, <1>5, <1>8
<1>11. \A d, e \in Callers :
         Claiming(d)' /\ Claiming(e)' /\ caller'[d].op = caller'[e].op => d = e
  BY <1>4, <1>5 DEF Claiming, IdInv
<1>12. IdInv'
  BY <1>9, <1>10, <1>11 DEF IdInv
<1>13. \A p \in Ops : Kind[p] # "template" /\ row[p].providerId => row'[p].providerId
  BY <1>3, <1>7
<1>. QED  BY <1>12, <1>13

LEMMA IdReview ==
    ASSUME DraftInv, IdInv, NEW o \in Ops, Submit(o) \/ Approve(o)
    PROVE  IdInv' /\ \A p \in Ops : row'[p].providerId = row[p].providerId
<1> DEFINE status == IF Submit(o) THEN "pending" ELSE "approved"
           r == [row[o] EXCEPT !.status = status]
<1>1. row' = [row EXCEPT ![o].status = status] /\ caller' = caller
  BY DEF Submit, Approve
<1>2. row[o].status \notin Claimed
  BY DEF Submit, Approve, Claimed
<1>3. status \in {"pending", "approved"}
  OBVIOUS
<1> HIDE DEF status
<1>4. /\ row[o] \in Row
      /\ row'[o] = r
      /\ \A p \in Ops : p # o => row'[p] = row[p]
  BY <1>1 DEF DraftInv, DraftTypeOK
<1>5. r.providerId = row[o].providerId /\ r.status = status
  BY <1>4 DEF Row
<1> HIDE DEF r
<1>6. \A p \in Ops : row'[p].providerId = row[p].providerId
  BY <1>4, <1>5
<1>7. \A p \in Ops : row'[p].status \notin Claimed => row[p].status \notin Claimed
  BY <1>2, <1>4
<1>8. \A d \in Callers : caller[d].pc # "idle" => caller[d].op \in Ops
  BY DEF DraftInv, CallerShape, CallerFits
<1>9. \A d \in Callers : caller'[d].pc # "idle" /\ Kind[caller'[d].op] # "template" => IdFits(d)'
  BY <1>1, <1>6, <1>8 DEF IdInv, IdFits
<1>. QED  BY <1>1, <1>6, <1>7, <1>9 DEF IdInv, Claiming

IdKept == \A o \in Ops : Kind[o] # "template" /\ row[o].providerId => row'[o].providerId

LEMMA IdInvNext == DraftInv /\ IdInv /\ [Next]_vars => IdInv' /\ IdKept
<1> SUFFICES ASSUME DraftInv, IdInv, [Next]_vars PROVE IdInv' /\ IdKept
  OBVIOUS
<1>1. CASE \E o \in Ops : Submit(o) \/ Approve(o)
  BY <1>1, IdReview DEF IdKept
<1>2. CASE \E c \in Callers, o \in Ops : ExecuteDraft(c, o) \/ ExecuteIterable(c, o)
  BY <1>2, IdClaim DEF ExecuteDraft, ExecuteIterable, IdKept
<1>3. CASE \E c \in Callers, o \in Ops : ReconcileDraft(c, o) \/ ReconcileIterable(c, o)
  <2> SUFFICES ASSUME NEW c \in Callers, NEW o \in Ops,
                      ReconcileDraft(c, o) \/ ReconcileIterable(c, o)
               PROVE  IdInv' /\ IdKept
    BY <1>3
  <2>1. Reconcile(c, o) /\ (Kind[o] # "template" => row[o].providerId)
    BY KindAssumption DEF ReconcileDraft, ReconcileIterable, Provider, Kinds
  <2>. QED  BY <2>1, IdReconcile DEF IdKept
<1>4. CASE \E c \in Callers : CallerStep(c) \/ Crash(c)
  BY <1>4, IdLocalSteps, IdWrite DEF CallerStep, IdKept
<1>5. CASE \/ \E o \in Ops : ProviderApplies(o) \/ ProviderRefuses(o)
           \/ \E o \in Ops : Supersede(o) \/ SessionEnds(o)
           \/ \E p \in {Provider(o) : o \in Ops} : SwitchWrites(p) \/ ConnectionChanges(p)
           \/ UNCHANGED vars
  <2>1. UNCHANGED <<row, caller>>
    BY <1>5 DEF ProviderApplies, ProviderRefuses, Supersede, SessionEnds, SwitchWrites,
       ConnectionChanges, vars
  <2>. QED  BY <2>1 DEF IdInv, IdFits, Claiming, IdKept
<1>. QED  BY <1>1, <1>2, <1>3, <1>4, <1>5 DEF Next

\* The inductive invariant of the provider's id: an operation has one claiming
\* request, and only that one, on a row without an id, can write a row without.
THEOREM IdInvariant == Spec => []IdInv
<1>1. Init => IdInv
  BY DEF Init, IdInv, Claiming, NoRow, Idle
<1>2. DraftInv /\ IdInv /\ [Next]_vars => IdInv'
  BY IdInvNext
<1>. QED  BY <1>1, <1>2, DraftInvariant, PTL DEF Spec

\* _store_receipt and the except clauses of draft_operations.py never lose a
\* recorded provider id, however executions and reconciliations overlap.
THEOREM IdStaysKnown == Spec => IdIsKept
<1>1. DraftInv /\ IdInv /\ [Next]_vars => [IdKept]_vars
  BY IdInvNext
<1>. QED  BY <1>1, DraftInvariant, IdInvariant, PTL DEF Spec, IdIsKept, IdKept

=============================================================================
