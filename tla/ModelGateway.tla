---------------------------- MODULE ModelGateway ----------------------------
(***************************************************************************)
(* The way of an inference from the transport's budget                     *)
(* (deploy/hermes/transport.py) to the model gateway                       *)
(* (deploy/litellm/gateway.py): its durable ledger, the retirement of      *)
(* runs, the one inference slot and the LiteLLM child the gateway owns.    *)
(*                                                                         *)
(* Every inference carries a signed assertion with a nonce of its own and  *)
(* an expiry; the transport sends it once, but may give up waiting while   *)
(* the gateway still works on it.  A step of reserve is one SQLite         *)
(* transaction that uses the time its request was verified at.             *)
(***************************************************************************)
EXTENDS Naturals, FiniteSets, FiniteSetsExt

CONSTANTS
    ScopedRuns,     \* runs, each with one scope at the transport
    MaxInferences,  \* max_inferences of a binding
    MaxTokens,      \* max_output_tokens of a binding, the assertion's ceiling
    LeaseTime,      \* longest lease of a run
    Window,         \* longest lifetime of an assertion
    MaxTime,        \* bound: the clock
    MaxCalls,       \* bound: inferences in a behaviour
    MaxRestarts     \* bound: starts of the gateway and restarts of the transport

\* _timeout admits leases of at most 300 s, as long as an assertion may live.
ASSUME LeaseAssumption == LeaseTime \in Nat /\ Window \in Nat /\ LeaseTime <= Window
ASSUME GatewayBounds ==
    {MaxInferences, MaxTokens, MaxTime, MaxCalls, MaxRestarts} \subseteq Nat

Calls == 1 .. MaxCalls

VARIABLES
    now,        \* the clock
    scope,      \* the transport's record of each run
    call,       \* inferences, and how far the gateway is with each
    open,       \* the call the transport's slot is taken by (0: none)
    ledger,     \* DurableBudgetLedger: the runs table
    inference,  \* the gateway's inference_slot is taken
    main,       \* the gateway's process
    child,      \* the LiteLLM child
    restarts

transportVars == <<scope, open>>
processVars == <<main, child, restarts>>
gatewayVars == <<now, transportVars, call, ledger, inference, processVars>>

NoScope == [state |-> "none", expires |-> 0, inferences |-> 0, tokens |-> 0]
NoCall == [run |-> {}, tokens |-> 0, expires |-> 0, pc |-> "none", at |-> 0]
NoRow == [known |-> FALSE, used |-> 0, expires |-> 0]

GatewayInit ==
    /\ now = 0
    /\ scope = [r \in ScopedRuns |-> NoScope]
    /\ call = [n \in Calls |-> NoCall]
    /\ open = 0
    /\ ledger = [r \in ScopedRuns |-> NoRow]
    /\ inference = FALSE
    /\ main = "down"
    /\ child = "none"
    /\ restarts = 0

Run(n) == CHOOSE r \in ScopedRuns : call[n].run = {r}
Advance(n, pc) == call' = [call EXCEPT ![n].pc = pc]

-----------------------------------------------------------------------------
(* The transport.                                                          *)

Leased(r) == scope[r].state = "bound" /\ now < scope[r].expires

\* register: a run has one scope, and one run at a time a live one.
Register(r) ==
    /\ scope[r].state = "none"
    /\ ~ \E q \in ScopedRuns : Leased(q)
    /\ \E d \in 1 .. LeaseTime :
         scope' = [scope EXCEPT ![r] = [@ EXCEPT !.state = "bound", !.expires = now + d]]
    /\ UNCHANGED <<now, open, call, ledger, inference, processVars>>

\* revoke: the binding is gone for good.
Revoke(r) ==
    /\ scope[r].state = "bound"
    /\ scope' = [scope EXCEPT ![r].state = "void"]
    /\ UNCHANGED <<now, open, call, ledger, inference, processVars>>

\* A mistake: an assertion lives no longer than the request it is for.
AssertionExpiryShort(r) == Min({scope[r].expires, now + 1})

\* issue_budget_assertion in _forward.
AssertionExpiry(r) == Min({scope[r].expires, now + Window})

\* reserve_inference charges the worst case, which is never refunded.
Charged(r, tokens) == [scope[r] EXCEPT !.inferences = @ + 1, !.tokens = @ + tokens]

\* _forward of an inference, once its upstream call has the slot.
Infer(r, n, tokens) ==
    /\ Leased(r)
    /\ open = 0
    /\ call[n] = NoCall
    /\ \A m \in Calls : m < n => call[m] # NoCall
    /\ scope[r].inferences < MaxInferences
    /\ scope[r].tokens + tokens <= MaxTokens
    /\ scope' = [scope EXCEPT ![r] = Charged(r, tokens)]
    /\ call' = [call EXCEPT ![n] = [NoCall EXCEPT !.run = {r}, !.tokens = tokens,
                                      !.expires = AssertionExpiry(r), !.pc = "sent"]]
    /\ open' = n
    /\ UNCHANGED <<now, ledger, inference, processVars>>

\* The upstream call is answered, or its deadline closes the connection; the
\* gateway does not notice the latter.
EndUpstream ==
    /\ open # 0
    /\ open' = 0
    /\ UNCHANGED <<now, scope, call, ledger, inference, processVars>>

\* A restarted transport knows no scope; the adapter asks for each only once.
RestartTransport ==
    /\ restarts < MaxRestarts
    /\ restarts' = restarts + 1
    /\ scope' = [r \in ScopedRuns |-> IF scope[r].state = "none" THEN scope[r]
                                      ELSE [scope[r] EXCEPT !.state = "void"]]
    /\ open' = 0
    /\ UNCHANGED <<now, call, ledger, inference, main, child>>

-----------------------------------------------------------------------------
(* A request at the gateway.                                               *)

\* do_POST: without its child the gateway answers 503 before it books.
Receive(n) ==
    /\ call[n].pc = "sent"
    /\ main = "serving"
    /\ Advance(n, IF child = "exited" THEN "over" ELSE "received")
    /\ UNCHANGED <<now, transportVars, ledger, inference, processVars>>

\* Nobody listens: the connection is refused.
RefuseConnection(n) ==
    /\ call[n].pc = "sent"
    /\ main # "serving"
    /\ Advance(n, "over")
    /\ UNCHANGED <<now, transportVars, ledger, inference, processVars>>

\* prepare_request: _sanitize_request finds the body outside the policy.
RefuseBody(n) ==
    /\ call[n].pc = "received"
    /\ Advance(n, "over")
    /\ UNCHANGED <<now, transportVars, ledger, inference, processVars>>

\* _verify_budget_assertion, at the time the ledger will use as well.
VerifyAssertion(n) ==
    /\ call[n].pc = "received"
    /\ call' = [call EXCEPT ![n] =
                  IF call[n].expires > now THEN [@ EXCEPT !.pc = "verified", !.at = now]
                                           ELSE [@ EXCEPT !.pc = "over"]]
    /\ UNCHANGED <<now, transportVars, ledger, inference, processVars>>

\* DurableBudgetLedger.reserve: the run is not retired and has tokens left.
Bookable(n) ==
    LET row == ledger[Run(n)] IN
    /\ row.known => call[n].at < row.expires
    /\ call[n].tokens <= MaxTokens - row.used

Reserve(n) ==
    LET row == ledger[Run(n)] IN
    /\ call[n].pc = "verified"
    /\ IF Bookable(n)
       THEN /\ ledger' = [ledger EXCEPT ![Run(n)] =
                            [known |-> TRUE, used |-> row.used + call[n].tokens,
                             expires |-> Max({row.expires, call[n].expires})]]
            /\ Advance(n, "booked")
       ELSE Advance(n, "over") /\ UNCHANGED ledger
    /\ UNCHANGED <<now, transportVars, inference, processVars>>

\* One inference at a time: a busy gateway answers 429, and the tokens stay booked.
TakeSlot(n) ==
    /\ call[n].pc = "booked"
    /\ IF inference THEN Advance(n, "over") /\ UNCHANGED inference
                    ELSE Advance(n, "calling") /\ inference' = TRUE
    /\ UNCHANGED <<now, transportVars, ledger, processVars>>

\* A mistake: the slot is given back only after a good answer.
AnswerLeaking(n) ==
    /\ call[n].pc = "calling"
    /\ Advance(n, "over")
    /\ inference' \in {FALSE, TRUE}
    /\ UNCHANGED <<now, transportVars, ledger, processVars>>

\* LiteLLM answers, fails or times out; the finally clause gives the slot back.
Answer(n) ==
    /\ call[n].pc = "calling"
    /\ Advance(n, "over")
    /\ inference' = FALSE
    /\ UNCHANGED <<now, transportVars, ledger, processVars>>

-----------------------------------------------------------------------------
(* The gateway's process (main) and its child.                             *)

\* The startup receipt is verified and LiteLLM started.
Start ==
    /\ main = "down"
    /\ restarts < MaxRestarts
    /\ restarts' = restarts + 1
    /\ main' = "starting"
    /\ child' = "starting"
    /\ UNCHANGED <<now, transportVars, call, ledger, inference>>

ChildReady ==
    /\ child = "starting"
    /\ child' = "ready"
    /\ UNCHANGED <<now, transportVars, call, ledger, inference, main, restarts>>

ChildExits ==
    /\ child \in {"starting", "ready"}
    /\ child' = "exited"
    /\ UNCHANGED <<now, transportVars, call, ledger, inference, main, restarts>>

\* wait_until_ready ends: the gateway serves, or gives up.
Serve ==
    /\ main = "starting"
    /\ \/ child = "ready" /\ main' = "serving"
       \/ main' = "stopping"
    /\ UNCHANGED <<now, transportVars, call, ledger, inference, child, restarts>>

\* watch_child, and SIGTERM: the server is shut down.
Shutdown ==
    /\ main = "serving"
    /\ main' = "stopping"
    /\ UNCHANGED <<now, transportVars, call, ledger, inference, child, restarts>>

\* supervisor.terminate, and main returns: its threads are daemons.
Exit ==
    /\ main = "stopping"
    /\ main' = "down"
    /\ child' = "none"
    /\ call' = [n \in Calls |-> IF call[n].pc \in {"none", "sent"} THEN call[n]
                                ELSE [call[n] EXCEPT !.pc = "over"]]
    /\ inference' = FALSE
    /\ UNCHANGED <<now, transportVars, ledger, restarts>>

Tick ==
    /\ now < MaxTime
    /\ now' = now + 1
    /\ UNCHANGED <<transportVars, call, ledger, inference, processVars>>

-----------------------------------------------------------------------------
HandlerStep(n) ==
    \/ Receive(n) \/ RefuseConnection(n) \/ RefuseBody(n) \/ VerifyAssertion(n)
    \/ Reserve(n) \/ TakeSlot(n) \/ Answer(n)

GatewayNext ==
    \/ \E r \in ScopedRuns : Register(r) \/ Revoke(r)
    \/ \E r \in ScopedRuns, n \in Calls, tokens \in 1 .. MaxTokens : Infer(r, n, tokens)
    \/ \E n \in Calls : HandlerStep(n)
    \/ EndUpstream \/ RestartTransport
    \/ Start \/ ChildReady \/ ChildExits \/ Serve \/ Shutdown \/ Exit
    \/ Tick

GatewaySpec == GatewayInit /\ [][GatewayNext]_gatewayVars

\* Handler threads go on; the request's timeout bounds the call to LiteLLM.
FairGatewaySpec == GatewaySpec /\ \A n \in Calls : WF_gatewayVars(HandlerStep(n))

-----------------------------------------------------------------------------
(* Properties.                                                             *)

\* What the transport lets through the gateway books: whichever of the two
\* restarts, and however late a request is, a verified inference under a live
\* lease finds tokens left in the durable ledger and its run not retired.
AdmittedIsBooked ==
    \A n \in Calls : call[n].pc = "verified" => Bookable(n)

\* The one inference slot comes free again: no model call that fails, times
\* out or outlives its transport keeps every later run from the model.
SlotComesFree == inference ~> ~inference
=============================================================================
