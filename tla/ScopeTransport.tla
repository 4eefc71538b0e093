--------------------------- MODULE ScopeTransport ---------------------------
(***************************************************************************)
(* The way of an agent's calls to the outside: the transport               *)
(* (deploy/hermes/transport.py), which lets a registered scope call the    *)
(* MCP server and the model until the scope is revoked.  The budget of     *)
(* inferences, and the gateway behind it, is in ModelGateway: here a       *)
(* forward may be refused for its budget at any time.                      *)
(*                                                                         *)
(* Handler threads share three locks.  The registry's lock is held by a    *)
(* forward from its authorization to the end of its upstream call, so it   *)
(* is a variable; whatever happens under _scope_io_lock is one step; and   *)
(* _io_slot admits one upstream call.  That call has a thread of its own,  *)
(* which the forward gives up at its deadline and which may then live on,  *)
(* stuck in name resolution.                                               *)
(***************************************************************************)
EXTENDS Naturals, FiniteSets

CONSTANTS
    Scopes,         \* scopes; the adapter registers one for each run
    Handlers,       \* threads of the transport's HTTP server
    MaxActive,      \* maximum_active of the registry
    MaxRecords,     \* maximum_records of the registry
    MaxForwards,    \* bound: forwards in a behaviour
    MaxRestarts,    \* bound: restarts of the transport
    None

ASSUME LimitsAssumption ==
    {MaxActive, MaxRecords, MaxForwards, MaxRestarts} \subseteq Nat
ASSUME NoHandlerAssumption == None \notin Handlers
ASSUME NoScopeAssumption == None \notin Scopes

Calls == 1 .. MaxForwards

VARIABLES
    entry,      \* ScopeRegistry._scopes: the state of each scope's record
    lock,       \* holder of ScopeRegistry._lock
    tombstones, \* TransportServer._revoked_scopes
    slot,       \* TransportServer._io_slot is taken
    call,       \* upstream calls: what they carry, and the step of their thread
    forwards,   \* upstream calls so far
    handler,    \* step, scope and call of each handler thread
    asked,      \* scopes whose registration was requested
    acked,      \* scopes whose revocation was acknowledged
    lapsed,     \* scopes whose lease has expired
    restarts

registry == <<entry, lock>>
transport == <<tombstones, slot, call, forwards>>
history == <<asked, acked, lapsed, restarts>>
vars == <<registry, transport, handler, history>>

NoCall == [scope |-> None, pc |-> "none", cancelled |-> FALSE]
IdleHandler == [pc |-> "idle", scope |-> None, call |-> 0]

Init ==
    /\ entry = [s \in Scopes |-> "absent"]
    /\ lock = None
    /\ tombstones = {}
    /\ slot = FALSE
    /\ call = [n \in Calls |-> NoCall]
    /\ forwards = 0
    /\ handler = [h \in Handlers |-> IdleHandler]
    /\ asked = {}
    /\ acked = {}
    /\ lapsed = {}
    /\ restarts = 0

Goto(h, pc) == handler' = [handler EXCEPT ![h].pc = pc]
Answer(h) == handler' = [handler EXCEPT ![h] = IdleHandler]

\* The thread of an upstream call, from its registration in _scope_io on.
Running(n) == call[n].pc \in {"new", "connected", "sent"}

\* The call of scope s in _scope_io, or none.
ScopeIO(s) == {n \in Calls : Running(n) /\ call[n].scope = s}

Records == {s \in Scopes : entry[s] # "absent"}

-----------------------------------------------------------------------------
(* Requests, and the control plane.                                        *)

\* do_POST: a request with the right credentials reaches a handler thread.  The
\* adapter asks for a scope once, and revokes it afterwards, answered or not.
Receive(h, s) ==
    /\ handler[h].pc = "idle"
    /\ \/ /\ s \notin asked
          /\ asked' = asked \cup {s}
          /\ handler' = [handler EXCEPT ![h] =
                 [IdleHandler EXCEPT !.pc = "register", !.scope = s]]
       \/ /\ s \in asked
          /\ handler' = [handler EXCEPT ![h] =
                 [IdleHandler EXCEPT !.pc = "revoke", !.scope = s]]
          /\ UNCHANGED asked
       \/ /\ handler' = [handler EXCEPT ![h] =
                 [IdleHandler EXCEPT !.pc = "authorize", !.scope = s]]
          /\ UNCHANGED asked
    /\ UNCHANGED <<registry, transport, acked, lapsed, restarts>>

\* _expire: expired leases lose their binding.
Expired == [s \in Scopes |->
    IF entry[s] = "bound" /\ s \in lapsed THEN "void" ELSE entry[s]]

\* register: a scope is bound once; a revocation that came first stands.
Register(h) ==
    LET s == handler[h].scope IN
    /\ handler[h].pc = "register"
    /\ lock = None
    /\ IF /\ s \notin lapsed
          /\ entry[s] = "absent"
          /\ Cardinality(Records) < MaxRecords
          /\ Cardinality({q \in Scopes : Expired[q] = "bound"}) < MaxActive
         THEN entry' = [Expired EXCEPT ![s] = "bound"]
         ELSE entry' = Expired
    /\ Answer(h)
    /\ UNCHANGED <<lock, transport, history>>

\* revoke_scope, under _scope_io_lock: leave a tombstone and cancel the call
\* that is registered, before waiting for the registry.
RevokeScope(h) ==
    LET s == handler[h].scope IN
    /\ handler[h].pc = "revoke"
    /\ IF s \notin tombstones /\ Cardinality(tombstones) >= MaxRecords
         THEN Answer(h) /\ UNCHANGED <<tombstones, call>>
         ELSE /\ tombstones' = tombstones \cup {s}
              /\ call' = [n \in Calls |-> IF n \in ScopeIO(s)
                            THEN [call[n] EXCEPT !.cancelled = TRUE] ELSE call[n]]
              /\ \/ /\ ScopeIO(s) = {}
                    /\ handler' = [handler EXCEPT ![h].pc = "void"]
                 \/ \E n \in ScopeIO(s) :
                       handler' = [handler EXCEPT ![h].pc = "void", ![h].call = n]
    /\ UNCHANGED <<registry, slot, forwards, history>>

\* ScopeRegistry.revoke, once no forward holds the lock; a scope that is not
\* there yet gets a record that its registration will find.
Void(h) ==
    LET s == handler[h].scope IN
    /\ handler[h].pc = "void"
    /\ lock = None
    /\ IF entry[s] = "absent" /\ Cardinality(Records) >= MaxRecords
         THEN Answer(h) /\ UNCHANGED entry
         ELSE entry' = [entry EXCEPT ![s] = "void"] /\ Goto(h, "drained")
    /\ UNCHANGED <<lock, transport, history>>

\* A mistake: the acknowledgement does not wait for the cancelled call.
DrainedAnyway(h) ==
    /\ handler[h].pc = "drained"
    /\ acked' = acked \cup {handler[h].scope}
    /\ Answer(h)
    /\ UNCHANGED <<registry, transport, asked, lapsed, restarts>>

\* The end of revoke_scope: only a call whose thread is gone is acknowledged.
Drained(h) ==
    LET n == handler[h].call IN
    /\ handler[h].pc = "drained"
    /\ IF n # 0 /\ Running(n) THEN UNCHANGED acked
                              ELSE acked' = acked \cup {handler[h].scope}
    /\ Answer(h)
    /\ UNCHANGED <<registry, transport, asked, lapsed, restarts>>

-----------------------------------------------------------------------------
(* Forwards.                                                               *)

Authorized(s) == entry[s] = "bound" /\ s \notin lapsed

\* What authorize leaves of a scope it refuses.
Refused(s) == [entry EXCEPT ![s] = IF @ = "bound" THEN "void" ELSE @]

\* do_POST: the first authorization, before the body is read.  A scope that has
\* not expired is refused too when lease_active does not confirm it.
Authorize(h) ==
    LET s == handler[h].scope IN
    /\ handler[h].pc = "authorize"
    /\ lock = None
    /\ \/ Authorized(s) /\ Goto(h, "forward") /\ UNCHANGED entry
       \/ Answer(h) /\ entry' = Refused(s)
    /\ UNCHANGED <<lock, transport, history>>

\* _forward up to its upstream call: the authorization under the lock that it
\* keeps (and that lease_active may deny), the feature switch, which revokes, the
\* request's shape and budget (reserve_inference).
Forward(h) ==
    LET s == handler[h].scope
        n == forwards + 1
        Admit ==
            /\ forwards < MaxForwards
            /\ forwards' = n
            /\ lock' = h
            /\ call' = [call EXCEPT ![n] =
                   [NoCall EXCEPT !.scope = s]]
            /\ handler' = [handler EXCEPT ![h].pc = "slot", ![h].call = n]
    IN  /\ handler[h].pc = "forward"
        /\ lock = None
        /\ \/ /\ ~Authorized(s)
              /\ entry' = Refused(s)
              /\ Answer(h) /\ UNCHANGED <<lock, forwards, call>>
           \/ /\ Authorized(s)
              /\ entry' \in {entry, Refused(s)}
              /\ Answer(h) /\ UNCHANGED <<lock, forwards, call>>
           \/ /\ Authorized(s)
              /\ Admit
              /\ UNCHANGED entry
        /\ UNCHANGED <<tombstones, slot, history>>

\* upstream_request takes the one slot, or fails; the lease may also have run
\* out just now.
TakeSlot(h) ==
    /\ handler[h].pc = "slot"
    /\ \/ ~slot /\ slot' = TRUE /\ Goto(h, "claim") /\ UNCHANGED lock
       \/ Answer(h) /\ lock' = None /\ UNCHANGED slot
    /\ UNCHANGED <<entry, tombstones, call, forwards, history>>

\* A mistake: a call that finds a tombstone keeps the slot.
ClaimLeaking(h) ==
    LET n == handler[h].call IN
    /\ handler[h].pc = "claim"
    /\ IF handler[h].scope \in tombstones
         THEN lock' = None /\ Answer(h) /\ UNCHANGED <<slot, call>>
         ELSE call' = [call EXCEPT ![n].pc = "new"] /\ Goto(h, "wait") /\ UNCHANGED <<slot, lock>>
    /\ UNCHANGED <<entry, tombstones, forwards, history>>

\* upstream_request, under _scope_io_lock: a tombstone stops the call, otherwise
\* it is registered; its thread is started.
Claim(h) ==
    LET n == handler[h].call IN
    /\ handler[h].pc = "claim"
    /\ IF handler[h].scope \in tombstones
         THEN slot' = FALSE /\ lock' = None /\ Answer(h) /\ UNCHANGED call
         ELSE call' = [call EXCEPT ![n].pc = "new"] /\ Goto(h, "wait") /\ UNCHANGED <<slot, lock>>
    /\ UNCHANGED <<entry, tombstones, forwards, history>>

\* A mistake: a forward that gives up leaves its call alone.
AwaitUncancelled(h) ==
    /\ handler[h].pc = "wait"
    /\ lock' = None
    /\ Answer(h)
    /\ UNCHANGED <<entry, tombstones, slot, call, forwards, history>>

\* A mistake: a forward waits for its call without a deadline.
AwaitPatiently(h) ==
    LET n == handler[h].call IN
    /\ handler[h].pc = "wait"
    /\ ~Running(n)
    /\ call' = [call EXCEPT ![n].cancelled = TRUE]
    /\ lock' = None
    /\ Answer(h)
    /\ UNCHANGED <<entry, tombstones, slot, forwards, history>>

\* upstream_request's end, with a result or at the deadline: the call is
\* cancelled in any case and the forward leaves the registry's lock.
Await(h) ==
    LET n == handler[h].call IN
    /\ handler[h].pc = "wait"
    /\ call' = [call EXCEPT ![n].cancelled = TRUE]
    /\ lock' = None
    /\ Answer(h)
    /\ UNCHANGED <<entry, tombstones, slot, forwards, history>>

-----------------------------------------------------------------------------
(* The thread of an upstream call.                                         *)

\* A connection is attached unless the call was cancelled meanwhile.
Connect(n) ==
    /\ call[n].pc = "new" /\ ~call[n].cancelled
    /\ call' = [call EXCEPT ![n].pc = "connected"]
    /\ UNCHANGED <<registry, tombstones, slot, forwards, handler, history>>

\* The request is sent on the attached socket, which a cancellation closes.
Send(n) ==
    /\ call[n].pc = "connected" /\ ~call[n].cancelled
    /\ call' = [call EXCEPT ![n].pc = "sent"]
    /\ UNCHANGED <<registry, tombstones, slot, forwards, handler, history>>

\* perform's finally clause: answered, failed or cancelled.
End(n) ==
    /\ Running(n)
    /\ call' = [call EXCEPT ![n].pc = "over"]
    /\ slot' = FALSE
    /\ UNCHANGED <<registry, tombstones, forwards, handler, history>>

-----------------------------------------------------------------------------
(* Clock and restarts.                                                     *)

\* A lease expires.
Lapse(s) ==
    /\ s \notin lapsed
    /\ lapsed' = lapsed \cup {s}
    /\ UNCHANGED <<registry, transport, handler, asked, acked, restarts>>

\* The transport restarts with an empty registry; its threads are gone.
RestartTransport ==
    /\ restarts < MaxRestarts
    /\ restarts' = restarts + 1
    /\ entry' = [s \in Scopes |-> "absent"]
    /\ lock' = None
    /\ tombstones' = {}
    /\ slot' = FALSE
    /\ call' = [n \in Calls |-> IF Running(n) THEN [call[n] EXCEPT !.pc = "over"] ELSE call[n]]
    /\ handler' = [h \in Handlers |-> IdleHandler]
    /\ UNCHANGED <<forwards, asked, acked, lapsed>>

-----------------------------------------------------------------------------
HandlerStep(h) ==
    \/ Register(h) \/ RevokeScope(h) \/ Void(h) \/ Drained(h)
    \/ Authorize(h) \/ Forward(h) \/ TakeSlot(h) \/ Claim(h) \/ Await(h)

Next ==
    \/ \E h \in Handlers, s \in Scopes : Receive(h, s)
    \/ \E h \in Handlers : HandlerStep(h)
    \/ \E n \in Calls : Connect(n) \/ Send(n) \/ End(n)
    \/ \E s \in Scopes : Lapse(s)
    \/ RestartTransport

Spec == Init /\ [][Next]_vars

\* Handler threads go on; nothing is assumed of the threads of upstream calls.
FairSpec == Spec /\ \A h \in Handlers : WF_vars(HandlerStep(h))

-----------------------------------------------------------------------------
(* Properties.                                                             *)

\* Bytes leave only under the registry's lock: a call that can still send is the
\* one its forward waits for, and the forward's scope is bound until then.
SendsUnderAuthority ==
    \A n \in Calls :
        call[n].pc \in {"new", "connected"} /\ ~call[n].cancelled =>
            /\ lock # None
            /\ handler[lock].pc = "wait" /\ handler[lock].call = n
            /\ entry[call[n].scope] = "bound"

\* An acknowledged revocation is final: the scope is not bound, now or after any
\* late registration or restart, and no thread works for it any more.
AckedIsSilent ==
    \A s \in acked : entry[s] # "bound" /\ ScopeIO(s) = {}

\* The upstream slot is neither leaked nor given back twice, whichever of
\* deadline, tombstone and cancellation ends a call.
SlotIsOwned ==
    LET holders == {n \in Calls : Running(n)}
                     \cup {handler[h].call : h \in {g \in Handlers : handler[g].pc = "claim"}}
    IN  Cardinality(holders) = IF slot THEN 1 ELSE 0

\* Every request is answered, a revocation in particular, even if the thread of
\* an upstream call never comes back.
EveryRequestIsAnswered == \A h \in Handlers : handler[h].pc # "idle" ~> handler[h].pc = "idle"

=============================================================================
