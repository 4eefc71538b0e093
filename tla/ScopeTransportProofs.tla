------------------------ MODULE ScopeTransportProofs ------------------------
(***************************************************************************)
(* Proofs about the transport: for any number of scopes, handler threads,  *)
(* forwards and restarts, bytes leave only under the registry's lock, an   *)
(* acknowledged revocation is final, and the upstream slot is owned.       *)
(***************************************************************************)
EXTENDS ScopeTransport, FiniteSetTheorems, TLAPS

HandlerPcs == {"idle", "register", "revoke", "void", "drained",
               "authorize", "forward", "slot", "claim", "wait"}
CallPcs == {"none", "new", "connected", "sent", "over"}

CallRecord == [scope : Scopes \cup {None}, pc : CallPcs, cancelled : BOOLEAN]
HandlerRecord == [pc : HandlerPcs, scope : Scopes \cup {None}, call : {0} \cup Calls]

TypeOK ==
    /\ entry \in [Scopes -> {"absent", "bound", "void"}]
    /\ lock \in Handlers \cup {None}
    /\ tombstones \subseteq Scopes
    /\ slot \in BOOLEAN
    /\ call \in [Calls -> CallRecord]
    /\ forwards \in 0 .. MaxForwards
    /\ handler \in [Handlers -> HandlerRecord]
    /\ asked \subseteq Scopes
    /\ acked \subseteq Scopes
    /\ lapsed \subseteq Scopes
    /\ restarts \in Nat

\* Threads work for a scope, and calls are numbered in the order of forwards.
NamesInv ==
    /\ \A h \in Handlers : handler[h].pc # "idle" => handler[h].scope \in Scopes
    /\ \A h \in Handlers : handler[h].pc = "register" => handler[h].scope \in asked
    /\ \A h \in Handlers : handler[h].pc \in {"revoke", "void", "drained"} =>
                              handler[h].scope \in asked
    /\ \A n \in Calls : n > forwards => call[n] = NoCall

\* The registry's lock is held exactly from the authorization of a forward to
\* the end of its wait, and its scope stays bound meanwhile.
LockInv ==
    /\ \A h \in Handlers : handler[h].pc \in {"slot", "claim", "wait"} <=> lock = h
    /\ \A h \in Handlers : lock = h =>
          /\ handler[h].call \in Calls /\ handler[h].call <= forwards
          /\ call[handler[h].call].scope = handler[h].scope
          /\ entry[handler[h].scope] = "bound"
    /\ \A h \in Handlers : handler[h].pc \in {"slot", "claim"} =>
          call[handler[h].call].pc = "none"
    /\ \A n \in Calls : Running(n) /\ ~call[n].cancelled =>
          \E h \in Handlers : lock = h /\ handler[h].pc = "wait" /\ handler[h].call = n

\* The slot is taken by one call that runs or by one forward about to start it.
SlotInv ==
    /\ \A n \in Calls : Running(n) => slot
    /\ \A m, n \in Calls : Running(m) /\ Running(n) => m = n
    /\ \A h \in Handlers : handler[h].pc = "claim" => slot /\ \A n \in Calls : ~Running(n)
    /\ slot => \/ \E n \in Calls : Running(n)
               \/ \E h \in Handlers : handler[h].pc = "claim"

\* A revocation on its way has left a tombstone and knows the one call that may
\* still run; once acknowledged, nothing is left that could bind its scope again.
RevocationInv ==
    /\ \A h \in Handlers : handler[h].pc \in {"void", "drained"} =>
          /\ handler[h].scope \in tombstones
          /\ \A n \in Calls : Running(n) /\ call[n].scope = handler[h].scope =>
                handler[h].call = n
    /\ \A h \in Handlers : handler[h].pc = "drained" => entry[handler[h].scope] = "void"
    /\ \A s \in acked :
          /\ s \in asked
          /\ \/ entry[s] = "void"
             \/ /\ entry[s] = "absent"
                /\ \A h \in Handlers : ~(handler[h].pc = "register" /\ handler[h].scope = s)
          /\ \A n \in Calls : ~(Running(n) /\ call[n].scope = s)

TransportInv == TypeOK /\ NamesInv /\ LockInv /\ SlotInv /\ RevocationInv

-----------------------------------------------------------------------------
(* Effects of a step on one thread and on one call.                        *)

\* Handler h becomes a record with these fields, the others are left alone.
HandlerBecomes(h, pc, scope, n) ==
    /\ handler'[h].pc = pc /\ handler'[h].scope = scope /\ handler'[h].call = n
    /\ \A g \in Handlers : g # h => handler'[g] = handler[g]

\* Likewise for the call n.
CallBecomes(n, scope, pc, cancelled) ==
    /\ call'[n].scope = scope /\ call'[n].pc = pc /\ call'[n].cancelled = cancelled
    /\ \A m \in Calls : m # n => call'[m] = call[m]

\* A handler that answers is idle.
LEMMA AnswerBecomes ==
  ASSUME TypeOK, NEW h \in Handlers, Answer(h)
  PROVE  /\ handler' \in [Handlers -> HandlerRecord]
         /\ HandlerBecomes(h, "idle", None, 0)
  BY DEF Answer, TypeOK, HandlerBecomes, HandlerRecord, HandlerPcs, IdleHandler

\* A handler that goes on keeps its scope and its call.
LEMMA GotoBecomes ==
  ASSUME TypeOK, NEW h \in Handlers, NEW pc \in HandlerPcs, Goto(h, pc)
  PROVE  /\ handler' \in [Handlers -> HandlerRecord]
         /\ HandlerBecomes(h, pc, handler[h].scope, handler[h].call)
  <1>1. handler[h] \in HandlerRecord
    BY DEF TypeOK
  <1>2. [handler[h] EXCEPT !.pc = pc] \in HandlerRecord
    BY <1>1 DEF HandlerRecord
  <1>3. handler' = [handler EXCEPT ![h] = [handler[h] EXCEPT !.pc = pc]]
    BY DEF Goto
  <1>4. handler' \in [Handlers -> HandlerRecord]
    BY <1>2, <1>3 DEF TypeOK
  <1>5. handler'[h] = [handler[h] EXCEPT !.pc = pc]
    BY <1>3 DEF TypeOK
  <1>6. QED  BY <1>1, <1>3, <1>4, <1>5 DEF TypeOK, HandlerBecomes, HandlerRecord

\* A handler that goes on with call n keeps its scope.
LEMMA GotoCallBecomes ==
  ASSUME TypeOK, NEW h \in Handlers, NEW pc \in HandlerPcs, NEW n \in Calls,
         handler' = [handler EXCEPT ![h].pc = pc, ![h].call = n]
  PROVE  /\ handler' \in [Handlers -> HandlerRecord]
         /\ HandlerBecomes(h, pc, handler[h].scope, n)
  <1>1. handler[h] \in HandlerRecord
    BY DEF TypeOK
  <1>2. [handler[h] EXCEPT !.pc = pc, !.call = n] \in HandlerRecord
    BY <1>1 DEF HandlerRecord
  <1>3. handler' = [handler EXCEPT ![h] = [handler[h] EXCEPT !.pc = pc, !.call = n]]
    BY <1>1 DEF TypeOK, HandlerRecord
  <1>4. handler' \in [Handlers -> HandlerRecord]
    BY <1>2, <1>3 DEF TypeOK
  <1>5. handler'[h] = [handler[h] EXCEPT !.pc = pc, !.call = n]
    BY <1>3 DEF TypeOK
  <1>6. QED  BY <1>1, <1>3, <1>4, <1>5 DEF TypeOK, HandlerBecomes, HandlerRecord

\* The thread of a call makes a step.
LEMMA CallMoves ==
  ASSUME TypeOK, NEW n \in Calls, NEW pc \in CallPcs, call' = [call EXCEPT ![n].pc = pc]
  PROVE  /\ call' \in [Calls -> CallRecord]
         /\ CallBecomes(n, call[n].scope, pc, call[n].cancelled)
  <1>1. call[n] \in CallRecord
    BY DEF TypeOK
  <1>2. [call[n] EXCEPT !.pc = pc] \in CallRecord
    BY <1>1 DEF CallRecord
  <1>3. call' = [call EXCEPT ![n] = [call[n] EXCEPT !.pc = pc]]
    OBVIOUS
  <1>4. call' \in [Calls -> CallRecord]
    BY <1>2, <1>3 DEF TypeOK
  <1>5. call'[n] = [call[n] EXCEPT !.pc = pc]
    BY <1>3 DEF TypeOK
  <1>6. QED  BY <1>1, <1>3, <1>4, <1>5 DEF TypeOK, CallBecomes, CallRecord

\* A call is cancelled.
LEMMA CallCancelled ==
  ASSUME TypeOK, NEW n \in Calls, call' = [call EXCEPT ![n].cancelled = TRUE]
  PROVE  /\ call' \in [Calls -> CallRecord]
         /\ CallBecomes(n, call[n].scope, call[n].pc, TRUE)
  <1>1. call[n] \in CallRecord
    BY DEF TypeOK
  <1>2. [call[n] EXCEPT !.cancelled = TRUE] \in CallRecord
    BY <1>1 DEF CallRecord
  <1>3. call' = [call EXCEPT ![n] = [call[n] EXCEPT !.cancelled = TRUE]]
    OBVIOUS
  <1>4. call' \in [Calls -> CallRecord]
    BY <1>2, <1>3 DEF TypeOK
  <1>5. call'[n] = [call[n] EXCEPT !.cancelled = TRUE]
    BY <1>3 DEF TypeOK
  <1>6. QED  BY <1>1, <1>3, <1>4, <1>5 DEF TypeOK, CallBecomes, CallRecord

-----------------------------------------------------------------------------
(* The invariant is inductive: one lemma per action.                       *)

\* Nothing is registered.
LEMMA TransportInit == Init => TransportInv
  <1> SUFFICES ASSUME Init PROVE TransportInv
    OBVIOUS
  <1> USE LimitsAssumption, NoHandlerAssumption, NoScopeAssumption
  <1>1. /\ \A n \in Calls : call[n] = NoCall
        /\ \A h \in Handlers : handler[h] = IdleHandler
    BY DEF Init
  <1>2. NoCall \in CallRecord /\ IdleHandler \in HandlerRecord
    BY DEF NoCall, IdleHandler, CallRecord, HandlerRecord, CallPcs, HandlerPcs
  <1>0. MaxForwards \in Nat
    OBVIOUS
  <1>3. TypeOK
    <2>1. call \in [Calls -> CallRecord] /\ handler \in [Handlers -> HandlerRecord]
      BY <1>2 DEF Init
    <2>2. forwards \in 0 .. MaxForwards
      BY <1>0 DEF Init
    <2>3. slot \in BOOLEAN
      BY DEF Init
    <2>4. QED  BY <2>1, <2>2, <2>3 DEF Init, TypeOK
  <1>4. /\ \A n \in Calls : ~Running(n)
        /\ \A h \in Handlers : handler[h].pc = "idle"
    BY <1>1 DEF NoCall, IdleHandler, Running
  <1>5. QED  BY <1>1, <1>3, <1>4 DEF Init, TransportInv, NamesInv, LockInv, SlotInv,
                RevocationInv

\* A request names its scope; only the first one for its scope registers it.
LEMMA ReceiveKeeps ==
  ASSUME TransportInv, NEW h \in Handlers, NEW s \in Scopes, Receive(h, s)
  PROVE  TransportInv'
  <1> USE LimitsAssumption, NoHandlerAssumption, NoScopeAssumption DEF TransportInv
  <1>1. CASE /\ s \notin asked /\ asked' = asked \cup {s}
              /\ handler' = [handler EXCEPT ![h] = [IdleHandler EXCEPT !.pc = "register", !.scope = s]]
    <2>1. handler' \in [Handlers -> HandlerRecord] /\ HandlerBecomes(h, "register", s, 0)
      BY <1>1 DEF TypeOK, HandlerBecomes, HandlerRecord, HandlerPcs, IdleHandler
    <2>2. TypeOK'
      BY <1>1, <2>1 DEF TypeOK, Receive, registry, transport
    <2>3. NamesInv'
      BY <1>1, <2>1 DEF TypeOK, NamesInv, LockInv, SlotInv, RevocationInv, Running,
         HandlerBecomes, Receive, registry, transport
    <2>4. LockInv'
      BY <1>1, <2>1 DEF TypeOK, NamesInv, LockInv, SlotInv, RevocationInv, Running,
         HandlerBecomes, Receive, registry, transport
    <2>5. SlotInv'
      BY <1>1, <2>1 DEF TypeOK, NamesInv, LockInv, SlotInv, RevocationInv, Running,
         HandlerBecomes, Receive, registry, transport
    <2>6. RevocationInv'
      BY <1>1, <2>1 DEF TypeOK, NamesInv, LockInv, SlotInv, RevocationInv, Running,
         HandlerBecomes, Receive, registry, transport
    <2>7. QED  BY <2>2, <2>3, <2>4, <2>5, <2>6
  <1>2. CASE /\ s \in asked /\ UNCHANGED asked
              /\ handler' = [handler EXCEPT ![h] = [IdleHandler EXCEPT !.pc = "revoke", !.scope = s]]
    <2>1. handler' \in [Handlers -> HandlerRecord] /\ HandlerBecomes(h, "revoke", s, 0)
      BY <1>2 DEF TypeOK, HandlerBecomes, HandlerRecord, HandlerPcs, IdleHandler
    <2>2. TypeOK'
      BY <1>2, <2>1 DEF TypeOK, Receive, registry, transport
    <2>3. NamesInv'
      BY <1>2, <2>1 DEF TypeOK, NamesInv, LockInv, SlotInv, RevocationInv, Running,
         HandlerBecomes, Receive, registry, transport
    <2>4. LockInv'
      BY <1>2, <2>1 DEF TypeOK, NamesInv, LockInv, SlotInv, RevocationInv, Running,
         HandlerBecomes, Receive, registry, transport
    <2>5. SlotInv'
      BY <1>2, <2>1 DEF TypeOK, NamesInv, LockInv, SlotInv, RevocationInv, Running,
         HandlerBecomes, Receive, registry, transport
    <2>6. RevocationInv'
      BY <1>2, <2>1 DEF TypeOK, NamesInv, LockInv, SlotInv, RevocationInv, Running,
         HandlerBecomes, Receive, registry, transport
    <2>7. QED  BY <2>2, <2>3, <2>4, <2>5, <2>6
  <1>3. CASE /\ UNCHANGED asked
              /\ handler' = [handler EXCEPT ![h] = [IdleHandler EXCEPT !.pc = "authorize", !.scope = s]]
    <2>1. handler' \in [Handlers -> HandlerRecord] /\ HandlerBecomes(h, "authorize", s, 0)
      BY <1>3 DEF TypeOK, HandlerBecomes, HandlerRecord, HandlerPcs, IdleHandler
    <2>2. TypeOK'
      BY <1>3, <2>1 DEF TypeOK, Receive, registry, transport
    <2>3. NamesInv'
      BY <1>3, <2>1 DEF TypeOK, NamesInv, LockInv, SlotInv, RevocationInv, Running,
         HandlerBecomes, Receive, registry, transport
    <2>4. LockInv'
      BY <1>3, <2>1 DEF TypeOK, NamesInv, LockInv, SlotInv, RevocationInv, Running,
         HandlerBecomes, Receive, registry, transport
    <2>5. SlotInv'
      BY <1>3, <2>1 DEF TypeOK, NamesInv, LockInv, SlotInv, RevocationInv, Running,
         HandlerBecomes, Receive, registry, transport
    <2>6. RevocationInv'
      BY <1>3, <2>1 DEF TypeOK, NamesInv, LockInv, SlotInv, RevocationInv, Running,
         HandlerBecomes, Receive, registry, transport
    <2>7. QED  BY <2>2, <2>3, <2>4, <2>5, <2>6
  <1>4. QED  BY <1>1, <1>2, <1>3 DEF Receive, registry, transport

\* A registration binds only a scope that has no record, so none that was revoked.
LEMMA RegisterKeeps ==
  ASSUME TransportInv, NEW h \in Handlers, Register(h)
  PROVE  TransportInv'
  <1> USE LimitsAssumption, NoHandlerAssumption, NoScopeAssumption DEF TransportInv
  <1>1. CASE /\ entry[handler[h].scope] = "absent" /\ entry' = [Expired EXCEPT ![handler[h].scope] = "bound"]
    <2>1. handler' \in [Handlers -> HandlerRecord] /\ HandlerBecomes(h, "idle", None, 0)
      BY <1>1, AnswerBecomes DEF Register
    <2>2. entry' = [q \in Scopes |-> IF q = handler[h].scope THEN "bound" ELSE Expired[q]]
      BY <1>1 DEF Expired
    <2>3. Expired \in [Scopes -> {"absent", "bound", "void"}]
      BY <1>1 DEF Expired, TypeOK
    <2>4. entry' \in [Scopes -> {"absent", "bound", "void"}]
      BY <1>1, <2>2, <2>3
    <2>5. TypeOK'
      BY <1>1, <2>1, <2>2, <2>3, <2>4 DEF TypeOK, Register, transport, history
    <2>6. NamesInv'
      BY <1>1, <2>1, <2>2, <2>3, <2>4 DEF TypeOK, NamesInv, LockInv, SlotInv, RevocationInv,
         Running, HandlerBecomes, Expired, Register, transport, history
    <2>7. LockInv'
      BY <1>1, <2>1, <2>2, <2>3, <2>4 DEF TypeOK, NamesInv, LockInv, SlotInv, RevocationInv,
         Running, HandlerBecomes, Expired, Register, transport, history
    <2>8. SlotInv'
      BY <1>1, <2>1, <2>2, <2>3, <2>4 DEF TypeOK, NamesInv, LockInv, SlotInv, RevocationInv,
         Running, HandlerBecomes, Expired, Register, transport, history
    <2>9. RevocationInv'
      BY <1>1, <2>1, <2>2, <2>3, <2>4 DEF TypeOK, NamesInv, LockInv, SlotInv, RevocationInv,
         Running, HandlerBecomes, Expired, Register, transport, history
    <2>10. QED  BY <2>5, <2>6, <2>7, <2>8, <2>9
  <1>2. CASE entry' = Expired
    <2>1. handler' \in [Handlers -> HandlerRecord] /\ HandlerBecomes(h, "idle", None, 0)
      BY <1>2, AnswerBecomes DEF Register
    <2>2. entry' \in [Scopes -> {"absent", "bound", "void"}]
      BY <1>2 DEF Expired, TypeOK
    <2>3. TypeOK'
      BY <1>2, <2>1, <2>2 DEF TypeOK, Register, transport, history
    <2>4. NamesInv'
      BY <1>2, <2>1, <2>2 DEF TypeOK, NamesInv, LockInv, SlotInv, RevocationInv, Running,
         HandlerBecomes, Expired, Register, transport, history
    <2>5. LockInv'
      BY <1>2, <2>1, <2>2 DEF TypeOK, NamesInv, LockInv, SlotInv, RevocationInv, Running,
         HandlerBecomes, Expired, Register, transport, history
    <2>6. SlotInv'
      BY <1>2, <2>1, <2>2 DEF TypeOK, NamesInv, LockInv, SlotInv, RevocationInv, Running,
         HandlerBecomes, Expired, Register, transport, history
    <2>7. RevocationInv'
      BY <1>2, <2>1, <2>2 DEF TypeOK, NamesInv, LockInv, SlotInv, RevocationInv, Running,
         HandlerBecomes, Expired, Register, transport, history
    <2>8. QED  BY <2>3, <2>4, <2>5, <2>6, <2>7
  <1>3. QED  BY <1>1, <1>2 DEF Register, transport, history

\* No forward holds the lock, so no scope loses its binding under one.
LEMMA VoidKeeps ==
  ASSUME TransportInv, NEW h \in Handlers, Void(h)
  PROVE  TransportInv'
  <1> USE LimitsAssumption, NoHandlerAssumption, NoScopeAssumption DEF TransportInv
  <1>1. CASE Answer(h) /\ UNCHANGED entry
    <2>1. handler' \in [Handlers -> HandlerRecord] /\ HandlerBecomes(h, "idle", None, 0)
      BY <1>1, AnswerBecomes
    <2>2. TypeOK'
      BY <1>1, <2>1 DEF TypeOK, Void, transport, history
    <2>3. NamesInv'
      BY <1>1, <2>1 DEF TypeOK, NamesInv, LockInv, SlotInv, RevocationInv, Running,
         HandlerBecomes, Void, transport, history
    <2>4. LockInv'
      BY <1>1, <2>1 DEF TypeOK, NamesInv, LockInv, SlotInv, RevocationInv, Running,
         HandlerBecomes, Void, transport, history
    <2>5. SlotInv'
      BY <1>1, <2>1 DEF TypeOK, NamesInv, LockInv, SlotInv, RevocationInv, Running,
         HandlerBecomes, Void, transport, history
    <2>6. RevocationInv'
      BY <1>1, <2>1 DEF TypeOK, NamesInv, LockInv, SlotInv, RevocationInv, Running,
         HandlerBecomes, Void, transport, history
    <2>7. QED  BY <2>2, <2>3, <2>4, <2>5, <2>6
  <1>2. CASE entry' = [entry EXCEPT ![handler[h].scope] = "void"] /\ Goto(h, "drained")
    <2>1. /\ handler' \in [Handlers -> HandlerRecord]
          /\ HandlerBecomes(h, "drained", handler[h].scope, handler[h].call)
      BY <1>2, GotoBecomes DEF HandlerPcs
    <2>2. TypeOK'
      BY <1>2, <2>1 DEF TypeOK, Void, transport, history
    <2>3. NamesInv'
      BY <1>2, <2>1 DEF TypeOK, NamesInv, LockInv, SlotInv, RevocationInv, Running,
         HandlerBecomes, Void, transport, history
    <2>4. LockInv'
      BY <1>2, <2>1 DEF TypeOK, NamesInv, LockInv, SlotInv, RevocationInv, Running,
         HandlerBecomes, Void, transport, history
    <2>5. SlotInv'
      BY <1>2, <2>1 DEF TypeOK, NamesInv, LockInv, SlotInv, RevocationInv, Running,
         HandlerBecomes, Void, transport, history
    <2>6. RevocationInv'
      BY <1>2, <2>1 DEF TypeOK, NamesInv, LockInv, SlotInv, RevocationInv, Running,
         HandlerBecomes, Void, transport, history
    <2>7. QED  BY <2>2, <2>3, <2>4, <2>5, <2>6
  <1>3. QED  BY <1>1, <1>2 DEF Void, transport, history

\* The one call that could still run is over when the revocation is acknowledged.
LEMMA DrainedKeeps ==
  ASSUME TransportInv, NEW h \in Handlers, Drained(h)
  PROVE  TransportInv'
  <1> USE LimitsAssumption, NoHandlerAssumption, NoScopeAssumption DEF TransportInv
  <1>1. CASE UNCHANGED acked
    <2>1. handler' \in [Handlers -> HandlerRecord] /\ HandlerBecomes(h, "idle", None, 0)
      BY <1>1, AnswerBecomes DEF Drained
    <2>2. TypeOK'
      BY <1>1, <2>1 DEF TypeOK, Drained, registry, transport
    <2>3. NamesInv'
      BY <1>1, <2>1 DEF TypeOK, NamesInv, LockInv, SlotInv, RevocationInv, Running,
         HandlerBecomes, Drained, registry, transport
    <2>4. LockInv'
      BY <1>1, <2>1 DEF TypeOK, NamesInv, LockInv, SlotInv, RevocationInv, Running,
         HandlerBecomes, Drained, registry, transport
    <2>5. SlotInv'
      BY <1>1, <2>1 DEF TypeOK, NamesInv, LockInv, SlotInv, RevocationInv, Running,
         HandlerBecomes, Drained, registry, transport
    <2>6. RevocationInv'
      BY <1>1, <2>1 DEF TypeOK, NamesInv, LockInv, SlotInv, RevocationInv, Running,
         HandlerBecomes, Drained, registry, transport
    <2>7. QED  BY <2>2, <2>3, <2>4, <2>5, <2>6
  <1>2. CASE /\ ~(handler[h].call # 0 /\ Running(handler[h].call))
              /\ acked' = acked \cup {handler[h].scope}
    <2>1. handler' \in [Handlers -> HandlerRecord] /\ HandlerBecomes(h, "idle", None, 0)
      BY <1>2, AnswerBecomes DEF Drained
    <2>2. handler[h].scope \in Scopes /\ handler[h].scope \in asked
      BY <1>2 DEF NamesInv, Drained
    <2>3. \A n \in Calls : ~(Running(n) /\ call[n].scope = handler[h].scope)
      BY <1>2 DEF RevocationInv, Drained, Calls, TypeOK
    <2>4. call' = call /\ entry' = entry /\ asked' = asked
      BY <1>2 DEF Drained, registry, transport
    <2>5. TypeOK'
      BY <1>2, <2>1, <2>2, <2>3, <2>4 DEF TypeOK, Drained, registry, transport
    <2>6. NamesInv'
      BY <1>2, <2>1, <2>2, <2>3, <2>4 DEF TypeOK, NamesInv, LockInv, SlotInv, RevocationInv,
         Running, HandlerBecomes, Drained, registry, transport
    <2>7. LockInv'
      BY <1>2, <2>1, <2>2, <2>3, <2>4 DEF TypeOK, NamesInv, LockInv, SlotInv, RevocationInv,
         Running, HandlerBecomes, Drained, registry, transport
    <2>8. SlotInv'
      BY <1>2, <2>1, <2>2, <2>3, <2>4 DEF TypeOK, NamesInv, LockInv, SlotInv, RevocationInv,
         Running, HandlerBecomes, Drained, registry, transport
    <2>9. RevocationInv'
      BY <1>2, <2>1, <2>2, <2>3, <2>4 DEF TypeOK, NamesInv, LockInv, SlotInv, RevocationInv,
         Running, HandlerBecomes, Drained, registry, transport
    <2>10. QED  BY <2>5, <2>6, <2>7, <2>8, <2>9
  <1>3. QED  BY <1>1, <1>2 DEF Drained, registry, transport

\* The first authorization binds nothing.
LEMMA AuthorizeKeeps ==
  ASSUME TransportInv, NEW h \in Handlers, Authorize(h)
  PROVE  TransportInv'
  <1> USE LimitsAssumption, NoHandlerAssumption, NoScopeAssumption DEF TransportInv
  <1>1. CASE Goto(h, "forward") /\ UNCHANGED entry
    <2>1. /\ handler' \in [Handlers -> HandlerRecord]
          /\ HandlerBecomes(h, "forward", handler[h].scope, handler[h].call)
      BY <1>1, GotoBecomes DEF HandlerPcs
    <2>2. TypeOK'
      BY <1>1, <2>1 DEF TypeOK, Authorize, transport, history
    <2>3. NamesInv'
      BY <1>1, <2>1 DEF TypeOK, NamesInv, LockInv, SlotInv, RevocationInv, Running,
         HandlerBecomes, Authorize, transport, history
    <2>4. LockInv'
      BY <1>1, <2>1 DEF TypeOK, NamesInv, LockInv, SlotInv, RevocationInv, Running,
         HandlerBecomes, Authorize, transport, history
    <2>5. SlotInv'
      BY <1>1, <2>1 DEF TypeOK, NamesInv, LockInv, SlotInv, RevocationInv, Running,
         HandlerBecomes, Authorize, transport, history
    <2>6. RevocationInv'
      BY <1>1, <2>1 DEF TypeOK, NamesInv, LockInv, SlotInv, RevocationInv, Running,
         HandlerBecomes, Authorize, transport, history
    <2>7. QED  BY <2>2, <2>3, <2>4, <2>5, <2>6
  <1>2. CASE Answer(h) /\ entry' = Refused(handler[h].scope)
    <2>1. handler' \in [Handlers -> HandlerRecord] /\ HandlerBecomes(h, "idle", None, 0)
      BY <1>2, AnswerBecomes
    <2>2. entry' \in [Scopes -> {"absent", "bound", "void"}]
      BY <1>2 DEF Refused, TypeOK
    <2>3. TypeOK'
      BY <1>2, <2>1, <2>2 DEF TypeOK, Authorize, transport, history
    <2>4. NamesInv'
      BY <1>2, <2>1, <2>2 DEF TypeOK, NamesInv, LockInv, SlotInv, RevocationInv, Running,
         HandlerBecomes, Refused, Authorize, transport, history
    <2>5. LockInv'
      BY <1>2, <2>1, <2>2 DEF TypeOK, NamesInv, LockInv, SlotInv, RevocationInv, Running,
         HandlerBecomes, Refused, Authorize, transport, history
    <2>6. SlotInv'
      BY <1>2, <2>1, <2>2 DEF TypeOK, NamesInv, LockInv, SlotInv, RevocationInv, Running,
         HandlerBecomes, Refused, Authorize, transport, history
    <2>7. RevocationInv'
      BY <1>2, <2>1, <2>2 DEF TypeOK, NamesInv, LockInv, SlotInv, RevocationInv, Running,
         HandlerBecomes, Refused, Authorize, transport, history
    <2>8. QED  BY <2>3, <2>4, <2>5, <2>6, <2>7
  <1>3. QED  BY <1>1, <1>2 DEF Authorize, transport, history

\* The slot is taken only when it is free.
LEMMA TakeSlotKeeps ==
  ASSUME TransportInv, NEW h \in Handlers, TakeSlot(h)
  PROVE  TransportInv'
  <1> USE LimitsAssumption, NoHandlerAssumption, NoScopeAssumption DEF TransportInv
  <1>1. CASE ~slot /\ slot' = TRUE /\ Goto(h, "claim") /\ UNCHANGED lock
    <2>1. /\ handler' \in [Handlers -> HandlerRecord]
          /\ HandlerBecomes(h, "claim", handler[h].scope, handler[h].call)
      BY <1>1, GotoBecomes DEF HandlerPcs
    <2>2. TypeOK'
      BY <1>1, <2>1 DEF TypeOK, TakeSlot, history
    <2>3. NamesInv'
      BY <1>1, <2>1 DEF TypeOK, NamesInv, LockInv, SlotInv, RevocationInv, Running,
         HandlerBecomes, TakeSlot, history
    <2>4. LockInv'
      BY <1>1, <2>1 DEF TypeOK, NamesInv, LockInv, SlotInv, RevocationInv, Running,
         HandlerBecomes, TakeSlot, history
    <2>5. SlotInv'
      BY <1>1, <2>1 DEF TypeOK, NamesInv, LockInv, SlotInv, RevocationInv, Running,
         HandlerBecomes, TakeSlot, history
    <2>6. RevocationInv'
      BY <1>1, <2>1 DEF TypeOK, NamesInv, LockInv, SlotInv, RevocationInv, Running,
         HandlerBecomes, TakeSlot, history
    <2>7. QED  BY <2>2, <2>3, <2>4, <2>5, <2>6
  <1>2. CASE Answer(h) /\ lock' = None /\ UNCHANGED slot
    <2>1. handler' \in [Handlers -> HandlerRecord] /\ HandlerBecomes(h, "idle", None, 0)
      BY <1>2, AnswerBecomes
    <2>2. TypeOK'
      BY <1>2, <2>1 DEF TypeOK, TakeSlot, history
    <2>3. NamesInv'
      BY <1>2, <2>1 DEF TypeOK, NamesInv, LockInv, SlotInv, RevocationInv, Running,
         HandlerBecomes, TakeSlot, history
    <2>4. LockInv'
      BY <1>2, <2>1 DEF TypeOK, NamesInv, LockInv, SlotInv, RevocationInv, Running,
         HandlerBecomes, TakeSlot, history
    <2>5. SlotInv'
      BY <1>2, <2>1 DEF TypeOK, NamesInv, LockInv, SlotInv, RevocationInv, Running,
         HandlerBecomes, TakeSlot, history
    <2>6. RevocationInv'
      BY <1>2, <2>1 DEF TypeOK, NamesInv, LockInv, SlotInv, RevocationInv, Running,
         HandlerBecomes, TakeSlot, history
    <2>7. QED  BY <2>2, <2>3, <2>4, <2>5, <2>6
  <1>3. QED  BY <1>1, <1>2 DEF TakeSlot, history

\* A call starts only for a scope that is still bound and has no tombstone.
LEMMA ClaimKeeps ==
  ASSUME TransportInv, NEW h \in Handlers, Claim(h)
  PROVE  TransportInv'
  <1> USE LimitsAssumption, NoHandlerAssumption, NoScopeAssumption DEF TransportInv
  <1>1. CASE slot' = FALSE /\ lock' = None /\ Answer(h) /\ UNCHANGED call
    <2>1. handler' \in [Handlers -> HandlerRecord] /\ HandlerBecomes(h, "idle", None, 0)
      BY <1>1, AnswerBecomes
    <2>2. TypeOK'
      BY <1>1, <2>1 DEF TypeOK, Claim, history
    <2>3. NamesInv'
      BY <1>1, <2>1 DEF TypeOK, NamesInv, LockInv, SlotInv, RevocationInv, Running,
         HandlerBecomes, Claim, history
    <2>4. LockInv'
      BY <1>1, <2>1 DEF TypeOK, NamesInv, LockInv, SlotInv, RevocationInv, Running,
         HandlerBecomes, Claim, history
    <2>5. SlotInv'
      BY <1>1, <2>1 DEF TypeOK, NamesInv, LockInv, SlotInv, RevocationInv, Running,
         HandlerBecomes, Claim, history
    <2>6. RevocationInv'
      BY <1>1, <2>1 DEF TypeOK, NamesInv, LockInv, SlotInv, RevocationInv, Running,
         HandlerBecomes, Claim, history
    <2>7. QED  BY <2>2, <2>3, <2>4, <2>5, <2>6
  <1>2. CASE /\ handler[h].scope \notin tombstones /\ call' = [call EXCEPT ![handler[h].call].pc = "new"]
              /\ Goto(h, "wait") /\ UNCHANGED <<slot, lock>>
    <2>1. /\ handler' \in [Handlers -> HandlerRecord]
          /\ HandlerBecomes(h, "wait", handler[h].scope, handler[h].call)
      BY <1>2, GotoBecomes DEF HandlerPcs
    <2>2. handler[h].call \in Calls /\ ~(handler[h].call > forwards)
      BY <1>2 DEF Claim, LockInv, TypeOK, Calls
    <2>3. /\ call' \in [Calls -> CallRecord]
          /\ CallBecomes(handler[h].call, call[handler[h].call].scope, "new", call[handler[h].call].cancelled)
      BY <1>2, <2>2, CallMoves DEF CallPcs
    <2>4. TypeOK'
      BY <1>2, <2>1, <2>2, <2>3 DEF TypeOK, Claim, history
    <2>5. NamesInv'
      BY <1>2, <2>1, <2>2, <2>3 DEF TypeOK, NamesInv, LockInv, SlotInv, RevocationInv, Running,
         HandlerBecomes, CallBecomes, Claim, history
    <2>6. LockInv'
      BY <1>2, <2>1, <2>2, <2>3 DEF TypeOK, NamesInv, LockInv, SlotInv, RevocationInv, Running,
         HandlerBecomes, CallBecomes, Claim, history
    <2>7. SlotInv'
      BY <1>2, <2>1, <2>2, <2>3 DEF TypeOK, NamesInv, LockInv, SlotInv, RevocationInv, Running,
         HandlerBecomes, CallBecomes, Claim, history
    <2>8. RevocationInv'
      BY <1>2, <2>1, <2>2, <2>3 DEF TypeOK, NamesInv, LockInv, SlotInv, RevocationInv, Running,
         HandlerBecomes, CallBecomes, Claim, history
    <2>9. QED  BY <2>4, <2>5, <2>6, <2>7, <2>8
  <1>3. QED  BY <1>1, <1>2 DEF Claim, history

\* What cancelling the calls of a scope does to each call.
LEMMA CancelledCalls ==
  ASSUME TypeOK, NEW s,
         call' = [n \in Calls |-> IF n \in ScopeIO(s)
                                  THEN [call[n] EXCEPT !.cancelled = TRUE] ELSE call[n]]
  PROVE  /\ call' \in [Calls -> CallRecord]
         /\ \A n \in Calls : /\ call'[n].scope = call[n].scope /\ call'[n].pc = call[n].pc
                             /\ call[n].cancelled => call'[n].cancelled
                             /\ call[n] = NoCall => call'[n] = NoCall
  <1>1. ASSUME NEW n \in Calls
        PROVE  /\ call'[n] \in CallRecord
               /\ call'[n].scope = call[n].scope /\ call'[n].pc = call[n].pc
               /\ call[n].cancelled => call'[n].cancelled
    <2>1. call[n] \in CallRecord
      BY DEF TypeOK
    <2>2. CASE n \in ScopeIO(s)
      <3>1. call'[n] = [call[n] EXCEPT !.cancelled = TRUE]
        BY <2>2
      <3>2. QED  BY <3>1, <2>1 DEF CallRecord
    <2>3. CASE n \notin ScopeIO(s)
      BY <2>3, <2>1
    <2>4. QED  BY <2>2, <2>3
  <1>2. ASSUME NEW n \in Calls, call[n] = NoCall PROVE call'[n] = NoCall
    <2>1. call[n].pc = "none"
      BY <1>2 DEF NoCall
    <2>2. n \notin ScopeIO(s)
      BY <2>1 DEF ScopeIO, Running
    <2>3. QED  BY <1>2, <2>2
  <1>3. call' = [n \in Calls |-> call'[n]]
    OBVIOUS
  <1>4. call' \in [Calls -> CallRecord]
    BY <1>1, <1>3
  <1>5. QED  BY <1>1, <1>2, <1>4

\* The tombstone is left, and the one call of the scope is cancelled and remembered.
LEMMA RevokeScopeKeeps ==
  ASSUME TransportInv, NEW h \in Handlers, RevokeScope(h)
  PROVE  TransportInv'
  <1> USE LimitsAssumption, NoHandlerAssumption, NoScopeAssumption DEF TransportInv
  <1>1. CASE Answer(h) /\ UNCHANGED <<tombstones, call>>
    <2>1. handler' \in [Handlers -> HandlerRecord] /\ HandlerBecomes(h, "idle", None, 0)
      BY <1>1, AnswerBecomes
    <2>2. TypeOK'
      BY <1>1, <2>1 DEF TypeOK, RevokeScope, registry, history
    <2>3. NamesInv'
      BY <1>1, <2>1 DEF TypeOK, NamesInv, LockInv, SlotInv, RevocationInv, Running,
         HandlerBecomes, RevokeScope, registry, history
    <2>4. LockInv'
      BY <1>1, <2>1 DEF TypeOK, NamesInv, LockInv, SlotInv, RevocationInv, Running,
         HandlerBecomes, RevokeScope, registry, history
    <2>5. SlotInv'
      BY <1>1, <2>1 DEF TypeOK, NamesInv, LockInv, SlotInv, RevocationInv, Running,
         HandlerBecomes, RevokeScope, registry, history
    <2>6. RevocationInv'
      BY <1>1, <2>1 DEF TypeOK, NamesInv, LockInv, SlotInv, RevocationInv, Running,
         HandlerBecomes, RevokeScope, registry, history
    <2>7. QED  BY <2>2, <2>3, <2>4, <2>5, <2>6
  <1>2. CASE /\ ~(Answer(h) /\ UNCHANGED <<tombstones, call>>)
              /\ ScopeIO(handler[h].scope) = {} /\ handler' = [handler EXCEPT ![h].pc = "void"]
    <2>1. /\ handler' \in [Handlers -> HandlerRecord]
          /\ HandlerBecomes(h, "void", handler[h].scope, handler[h].call)
      BY <1>2, GotoBecomes DEF Goto, HandlerPcs
    <2>2. tombstones' = tombstones \cup {handler[h].scope}
      BY <1>2 DEF RevokeScope
    <2>3. /\ call' \in [Calls -> CallRecord]
          /\ \A n \in Calls : /\ call'[n].scope = call[n].scope /\ call'[n].pc = call[n].pc
                              /\ call[n].cancelled => call'[n].cancelled
                              /\ call[n] = NoCall => call'[n] = NoCall
      BY <1>2, CancelledCalls DEF RevokeScope
    <2>4. handler[h].scope \in Scopes /\ handler[h].scope \in asked /\ handler[h].pc = "revoke"
      BY <1>2 DEF NamesInv, RevokeScope
    <2>5. UNCHANGED <<entry, lock, slot, forwards, asked, acked, lapsed, restarts>>
      BY <1>2 DEF RevokeScope, registry, history
    <2>6. \A n \in Calls : Running(n)' <=> Running(n)
      BY <1>2, <2>3 DEF Running
    <2>7. \A n \in Calls : ~(Running(n) /\ call[n].scope = handler[h].scope)
      BY <1>2 DEF ScopeIO
    <2>8. TypeOK'
      BY <1>2, <2>1, <2>2, <2>3, <2>4, <2>5, <2>6, <2>7 DEF TypeOK, RevokeScope, registry,
         history
    <2>9. NamesInv'
      BY <2>1, <2>2, <2>3, <2>4, <2>5, <2>6, <2>7 DEF NamesInv, LockInv, SlotInv, RevocationInv,
         HandlerBecomes
    <2>10. LockInv'
      BY <2>1, <2>2, <2>3, <2>4, <2>5, <2>6, <2>7 DEF NamesInv, LockInv, SlotInv, RevocationInv,
         HandlerBecomes
    <2>11. SlotInv'
      BY <2>1, <2>2, <2>3, <2>4, <2>5, <2>6, <2>7 DEF NamesInv, LockInv, SlotInv, RevocationInv,
         HandlerBecomes
    <2>12. RevocationInv'
      BY <2>1, <2>2, <2>3, <2>4, <2>5, <2>6, <2>7 DEF NamesInv, LockInv, SlotInv, RevocationInv,
         HandlerBecomes
    <2>13. QED  BY <2>8, <2>9, <2>10, <2>11, <2>12
  <1>3. CASE /\ ~(Answer(h) /\ UNCHANGED <<tombstones, call>>)
              /\ \E n \in ScopeIO(handler[h].scope) :
                    handler' = [handler EXCEPT ![h].pc = "void", ![h].call = n]
    <2>1. PICK n \in ScopeIO(handler[h].scope) :
                 handler' = [handler EXCEPT ![h].pc = "void", ![h].call = n]
      BY <1>3 
    <2>2. tombstones' = tombstones \cup {handler[h].scope}
      BY <1>3 DEF RevokeScope
    <2>3. /\ call' \in [Calls -> CallRecord]
          /\ \A m \in Calls : /\ call'[m].scope = call[m].scope /\ call'[m].pc = call[m].pc
                              /\ call[m].cancelled => call'[m].cancelled
                              /\ call[m] = NoCall => call'[m] = NoCall
      BY <1>3, CancelledCalls DEF RevokeScope
    <2>4. handler[h].scope \in Scopes /\ handler[h].scope \in asked /\ handler[h].pc = "revoke"
      BY <1>3 DEF NamesInv, RevokeScope
    <2>5. UNCHANGED <<entry, lock, slot, forwards, asked, acked, lapsed, restarts>>
      BY <1>3 DEF RevokeScope, registry, history
    <2>6. \A m \in Calls : Running(m)' <=> Running(m)
      BY <1>3, <2>3 DEF Running
    <2>7. n \in Calls /\ Running(n)
      BY <1>3, <2>1 DEF ScopeIO
    <2>8. /\ handler' \in [Handlers -> HandlerRecord]
          /\ HandlerBecomes(h, "void", handler[h].scope, n)
      BY <1>3, <2>1, <2>7, GotoCallBecomes DEF HandlerPcs
    <2>9. TypeOK'
      BY <1>3, <2>1, <2>2, <2>3, <2>4, <2>5, <2>6, <2>7, <2>8 DEF TypeOK, RevokeScope, registry,
         history
    <2>10. NamesInv'
      BY <2>2, <2>3, <2>4, <2>5, <2>6, <2>7, <2>8 DEF NamesInv, LockInv, SlotInv, RevocationInv,
         HandlerBecomes
    <2>11. LockInv'
      BY <2>2, <2>3, <2>4, <2>5, <2>6, <2>7, <2>8 DEF NamesInv, LockInv, SlotInv, RevocationInv,
         HandlerBecomes
    <2>12. SlotInv'
      BY <2>2, <2>3, <2>4, <2>5, <2>6, <2>7, <2>8 DEF NamesInv, LockInv, SlotInv, RevocationInv,
         HandlerBecomes
    <2>13. RevocationInv'
      BY <2>2, <2>3, <2>4, <2>5, <2>6, <2>7, <2>8 DEF NamesInv, LockInv, SlotInv, RevocationInv,
         HandlerBecomes
    <2>14. QED  BY <2>9, <2>10, <2>11, <2>12, <2>13
  <1>4. QED  BY <1>1, <1>2, <1>3 DEF RevokeScope, registry, history

\* A forward takes the lock with its scope bound, and a call of its own.
LEMMA ForwardKeeps ==
  ASSUME TransportInv, NEW h \in Handlers, Forward(h)
  PROVE  TransportInv'
  <1> USE LimitsAssumption, NoHandlerAssumption, NoScopeAssumption DEF TransportInv
  <1>1. CASE Answer(h) /\ entry' \in {entry, Refused(handler[h].scope)} /\ UNCHANGED <<lock, forwards, call>>
    <2>1. handler' \in [Handlers -> HandlerRecord] /\ HandlerBecomes(h, "idle", None, 0)
      BY <1>1, AnswerBecomes
    <2>2. entry' \in [Scopes -> {"absent", "bound", "void"}]
      BY <1>1 DEF Refused, TypeOK
    <2>3. TypeOK'
      BY <1>1, <2>1, <2>2 DEF TypeOK, Forward, history
    <2>4. NamesInv'
      BY <1>1, <2>1, <2>2 DEF TypeOK, NamesInv, LockInv, SlotInv, RevocationInv, Running,
         HandlerBecomes, Refused, Forward, history
    <2>5. LockInv'
      BY <1>1, <2>1, <2>2 DEF TypeOK, NamesInv, LockInv, SlotInv, RevocationInv, Running,
         HandlerBecomes, Refused, Forward, history
    <2>6. SlotInv'
      BY <1>1, <2>1, <2>2 DEF TypeOK, NamesInv, LockInv, SlotInv, RevocationInv, Running,
         HandlerBecomes, Refused, Forward, history
    <2>7. RevocationInv'
      BY <1>1, <2>1, <2>2 DEF TypeOK, NamesInv, LockInv, SlotInv, RevocationInv, Running,
         HandlerBecomes, Refused, Forward, history
    <2>8. QED  BY <2>3, <2>4, <2>5, <2>6, <2>7
  <1>2. CASE /\ Authorized(handler[h].scope) /\ UNCHANGED entry
              /\ forwards < MaxForwards /\ forwards' = forwards + 1 /\ lock' = h
              /\ call' = [call EXCEPT ![forwards + 1] = [NoCall EXCEPT !.scope = handler[h].scope]]
              /\ handler' = [handler EXCEPT ![h].pc = "slot", ![h].call = forwards + 1]
    <2>1. forwards + 1 \in Calls /\ forwards' \in 0 .. MaxForwards /\ ~(forwards + 1 <= forwards)
      BY <1>2 DEF TypeOK, Calls
    <2>2. /\ handler' \in [Handlers -> HandlerRecord]
          /\ HandlerBecomes(h, "slot", handler[h].scope, forwards + 1)
      BY <1>2, <2>1, GotoCallBecomes DEF HandlerPcs
    <2>3. handler[h].scope \in Scopes
      BY <1>2 DEF NamesInv, Forward
    <2>4. [NoCall EXCEPT !.scope = handler[h].scope] \in CallRecord
      BY <1>2, <2>3 DEF CallRecord, NoCall, CallPcs
    <2>5. /\ call' \in [Calls -> CallRecord]
          /\ CallBecomes(forwards + 1, handler[h].scope, "none", FALSE)
      BY <1>2, <2>1, <2>4 DEF TypeOK, CallBecomes, NoCall, CallPcs
    <2>6. \A n \in Calls : n > forwards' => n > forwards /\ n # forwards + 1
      BY <1>2, <2>1 DEF Calls, TypeOK
    <2>7. \A n \in Calls : n <= forwards => n <= forwards' /\ n # forwards + 1
      BY <1>2, <2>1 DEF Calls, TypeOK
    <2>8. TypeOK'
      BY <1>2, <2>1, <2>2, <2>3, <2>4, <2>5, <2>6, <2>7 DEF TypeOK, Forward, history
    <2>9. NamesInv'
      BY <1>2, <2>1, <2>2, <2>3, <2>4, <2>5, <2>6, <2>7 DEF TypeOK, NamesInv, LockInv, SlotInv,
         RevocationInv, Running, HandlerBecomes, CallBecomes, Authorized, Calls, Forward,
         history
    <2>10. LockInv'
      BY <1>2, <2>1, <2>2, <2>3, <2>4, <2>5, <2>6, <2>7 DEF TypeOK, NamesInv, LockInv, SlotInv,
         RevocationInv, Running, HandlerBecomes, CallBecomes, Authorized, Calls, Forward,
         history
    <2>11. SlotInv'
      BY <1>2, <2>1, <2>2, <2>3, <2>4, <2>5, <2>6, <2>7 DEF TypeOK, NamesInv, LockInv, SlotInv,
         RevocationInv, Running, HandlerBecomes, CallBecomes, Authorized, Calls, Forward,
         history
    <2>12. RevocationInv'
      BY <1>2, <2>1, <2>2, <2>3, <2>4, <2>5, <2>6, <2>7 DEF TypeOK, NamesInv, LockInv, SlotInv,
         RevocationInv, Running, HandlerBecomes, CallBecomes, Authorized, Calls, Forward,
         history
    <2>13. QED  BY <2>8, <2>9, <2>10, <2>11, <2>12
  <1>3. QED  BY <1>1, <1>2 DEF Forward, history

\* The forward leaves the lock with its call cancelled.
LEMMA AwaitKeeps ==
  ASSUME TransportInv, NEW h \in Handlers, Await(h)
  PROVE  TransportInv'
  <1> USE LimitsAssumption, NoHandlerAssumption, NoScopeAssumption DEF TransportInv
  <1>1. handler' \in [Handlers -> HandlerRecord] /\ HandlerBecomes(h, "idle", None, 0)
    BY AnswerBecomes DEF Await
  <1>2. handler[h].call \in Calls /\ ~(handler[h].call > forwards)
    BY DEF Await, LockInv, TypeOK, Calls
  <1>3. /\ call' \in [Calls -> CallRecord]
        /\ CallBecomes(handler[h].call, call[handler[h].call].scope, call[handler[h].call].pc, TRUE)
    BY <1>2, CallCancelled DEF Await
  <1>4. TypeOK'
    BY <1>1, <1>2, <1>3 DEF TypeOK, Await, history
  <1>5. NamesInv'
    BY <1>1, <1>2, <1>3 DEF TypeOK, NamesInv, LockInv, SlotInv, RevocationInv, Running,
       HandlerBecomes, CallBecomes, Await, history
  <1>6. LockInv'
    BY <1>1, <1>2, <1>3 DEF TypeOK, NamesInv, LockInv, SlotInv, RevocationInv, Running,
       HandlerBecomes, CallBecomes, Await, history
  <1>7. SlotInv'
    BY <1>1, <1>2, <1>3 DEF TypeOK, NamesInv, LockInv, SlotInv, RevocationInv, Running,
       HandlerBecomes, CallBecomes, Await, history
  <1>8. RevocationInv'
    BY <1>1, <1>2, <1>3 DEF TypeOK, NamesInv, LockInv, SlotInv, RevocationInv, Running,
       HandlerBecomes, CallBecomes, Await, history
  <1>9. QED  BY <1>4, <1>5, <1>6, <1>7, <1>8

\* A call that runs goes on running.
LEMMA ConnectKeeps ==
  ASSUME TransportInv, NEW n \in Calls, Connect(n)
  PROVE  TransportInv'
  <1> USE LimitsAssumption, NoHandlerAssumption, NoScopeAssumption DEF TransportInv
  <1>1. /\ call' \in [Calls -> CallRecord]
        /\ CallBecomes(n, call[n].scope, "connected", call[n].cancelled)
    BY CallMoves DEF Connect, CallPcs
  <1>2. ~(n > forwards)
    BY DEF NamesInv, NoCall, Connect, Running
  <1>3. TypeOK'
    BY <1>1, <1>2 DEF TypeOK, Connect, registry, history
  <1>4. NamesInv'
    BY <1>1, <1>2 DEF TypeOK, NamesInv, LockInv, SlotInv, RevocationInv, Running,
       HandlerBecomes, CallBecomes, Connect, registry, history
  <1>5. LockInv'
    BY <1>1, <1>2 DEF TypeOK, NamesInv, LockInv, SlotInv, RevocationInv, Running,
       HandlerBecomes, CallBecomes, Connect, registry, history
  <1>6. SlotInv'
    BY <1>1, <1>2 DEF TypeOK, NamesInv, LockInv, SlotInv, RevocationInv, Running,
       HandlerBecomes, CallBecomes, Connect, registry, history
  <1>7. RevocationInv'
    BY <1>1, <1>2 DEF TypeOK, NamesInv, LockInv, SlotInv, RevocationInv, Running,
       HandlerBecomes, CallBecomes, Connect, registry, history
  <1>8. QED  BY <1>3, <1>4, <1>5, <1>6, <1>7

\* A call that has a connection goes on running.
LEMMA SendKeeps ==
  ASSUME TransportInv, NEW n \in Calls, Send(n)
  PROVE  TransportInv'
  <1> USE LimitsAssumption, NoHandlerAssumption, NoScopeAssumption DEF TransportInv
  <1>1. /\ call' \in [Calls -> CallRecord]
        /\ CallBecomes(n, call[n].scope, "sent", call[n].cancelled)
    BY CallMoves DEF Send, CallPcs
  <1>2. ~(n > forwards)
    BY DEF NamesInv, NoCall, Send, Running
  <1>3. TypeOK'
    BY <1>1, <1>2 DEF TypeOK, Send, registry, history
  <1>4. NamesInv'
    BY <1>1, <1>2 DEF TypeOK, NamesInv, LockInv, SlotInv, RevocationInv, Running,
       HandlerBecomes, CallBecomes, Send, registry, history
  <1>5. LockInv'
    BY <1>1, <1>2 DEF TypeOK, NamesInv, LockInv, SlotInv, RevocationInv, Running,
       HandlerBecomes, CallBecomes, Send, registry, history
  <1>6. SlotInv'
    BY <1>1, <1>2 DEF TypeOK, NamesInv, LockInv, SlotInv, RevocationInv, Running,
       HandlerBecomes, CallBecomes, Send, registry, history
  <1>7. RevocationInv'
    BY <1>1, <1>2 DEF TypeOK, NamesInv, LockInv, SlotInv, RevocationInv, Running,
       HandlerBecomes, CallBecomes, Send, registry, history
  <1>8. QED  BY <1>3, <1>4, <1>5, <1>6, <1>7

\* The end of a call gives back its slot.
LEMMA EndKeeps ==
  ASSUME TransportInv, NEW n \in Calls, End(n)
  PROVE  TransportInv'
  <1> USE LimitsAssumption, NoHandlerAssumption, NoScopeAssumption DEF TransportInv
  <1>1. /\ call' \in [Calls -> CallRecord]
        /\ CallBecomes(n, call[n].scope, "over", call[n].cancelled)
    BY CallMoves DEF End, CallPcs
  <1>2. ~(n > forwards)
    BY DEF NamesInv, NoCall, End, Running
  <1>3. TypeOK'
    BY <1>1, <1>2 DEF TypeOK, End, registry, history
  <1>4. NamesInv'
    BY <1>1, <1>2 DEF TypeOK, NamesInv, LockInv, SlotInv, RevocationInv, Running,
       HandlerBecomes, CallBecomes, End, registry, history
  <1>5. LockInv'
    BY <1>1, <1>2 DEF TypeOK, NamesInv, LockInv, SlotInv, RevocationInv, Running,
       HandlerBecomes, CallBecomes, End, registry, history
  <1>6. SlotInv'
    BY <1>1, <1>2 DEF TypeOK, NamesInv, LockInv, SlotInv, RevocationInv, Running,
       HandlerBecomes, CallBecomes, End, registry, history
  <1>7. RevocationInv'
    BY <1>1, <1>2 DEF TypeOK, NamesInv, LockInv, SlotInv, RevocationInv, Running,
       HandlerBecomes, CallBecomes, End, registry, history
  <1>8. QED  BY <1>3, <1>4, <1>5, <1>6, <1>7

\* The clock touches nothing else.
LEMMA LapseKeeps ==
  ASSUME TransportInv, NEW s \in Scopes, Lapse(s)
  PROVE  TransportInv'
  <1> USE LimitsAssumption, NoHandlerAssumption, NoScopeAssumption DEF TransportInv
  <1>1. TypeOK'
    BY DEF TypeOK, Lapse, registry, transport
  <1>2. NamesInv'
    BY DEF TypeOK, NamesInv, LockInv, SlotInv, RevocationInv, Running, registry, Lapse,
       registry, transport
  <1>3. LockInv'
    BY DEF TypeOK, NamesInv, LockInv, SlotInv, RevocationInv, Running, registry, Lapse,
       registry, transport
  <1>4. SlotInv'
    BY DEF TypeOK, NamesInv, LockInv, SlotInv, RevocationInv, Running, registry, Lapse,
       registry, transport
  <1>5. RevocationInv'
    BY DEF TypeOK, NamesInv, LockInv, SlotInv, RevocationInv, Running, registry, Lapse,
       registry, transport
  <1>6. QED  BY <1>1, <1>2, <1>3, <1>4, <1>5

\* Records, threads and slot are gone; a revoked scope cannot be asked for again.
LEMMA RestartTransportKeeps ==
  ASSUME TransportInv, RestartTransport
  PROVE  TransportInv'
  <1> USE LimitsAssumption, NoHandlerAssumption, NoScopeAssumption DEF TransportInv
  <1>1. \A n \in Calls : [call[n] EXCEPT !.pc = "over"] \in CallRecord
    BY DEF TypeOK, CallRecord, CallPcs
  <1>2. call' \in [Calls -> CallRecord]
    BY <1>1 DEF RestartTransport, TypeOK
  <1>3. \A n \in Calls : ~Running(n)'
    BY <1>1 DEF RestartTransport, Running, TypeOK, CallRecord
  <1>4. \A n \in Calls : ~Running(n) => call'[n] = call[n]
    BY DEF RestartTransport
  <1>5. \A n \in Calls : call[n] = NoCall => ~Running(n)
    BY DEF NoCall, Running
  <1>6. \A n \in Calls : n > forwards => call'[n] = NoCall
    BY <1>4, <1>5 DEF NamesInv
  <1>7. IdleHandler \in HandlerRecord
    BY DEF IdleHandler, HandlerRecord, HandlerPcs
  <1>8. /\ handler' \in [Handlers -> HandlerRecord]
          /\ \A h \in Handlers : handler'[h].pc = "idle"
    BY <1>7 DEF RestartTransport, IdleHandler
  <1>9. /\ entry' \in [Scopes -> {"absent", "bound", "void"}]
          /\ \A s \in Scopes : entry'[s] = "absent"
    BY DEF RestartTransport
  <1>10. /\ lock' = None /\ tombstones' = {} /\ slot' = FALSE /\ restarts' = restarts + 1
          /\ UNCHANGED <<forwards, asked, acked, lapsed>>
    BY DEF RestartTransport
  <1>11. TypeOK'
    <2>1. slot' \in BOOLEAN
      BY <1>10
    <2>2. restarts' \in Nat
      BY <1>10 DEF TypeOK
    <2>3. QED  BY <1>2, <1>8, <1>9, <1>10, <2>1, <2>2 DEF TypeOK
  <1>12. NamesInv'
    BY <1>3, <1>6, <1>8, <1>9, <1>10 DEF NamesInv, LockInv, SlotInv, RevocationInv, Running,
       HandlerBecomes, TypeOK, Calls
  <1>13. LockInv'
    BY <1>3, <1>6, <1>8, <1>9, <1>10 DEF NamesInv, LockInv, SlotInv, RevocationInv, Running,
       HandlerBecomes, TypeOK, Calls
  <1>14. SlotInv'
    BY <1>3, <1>6, <1>8, <1>9, <1>10 DEF NamesInv, LockInv, SlotInv, RevocationInv, Running,
       HandlerBecomes, TypeOK, Calls
  <1>15. RevocationInv'
    BY <1>3, <1>6, <1>8, <1>9, <1>10 DEF NamesInv, LockInv, SlotInv, RevocationInv, Running,
       HandlerBecomes, TypeOK, Calls
  <1>16. QED  BY <1>11, <1>12, <1>13, <1>14, <1>15

\* Every step keeps it.
LEMMA TransportNext == TransportInv /\ [Next]_vars => TransportInv'
  <1> SUFFICES ASSUME TransportInv, [Next]_vars PROVE TransportInv'
    OBVIOUS
  <1>1. ASSUME NEW h \in Handlers, NEW s \in Scopes, Receive(h, s) PROVE TransportInv'
    BY <1>1, ReceiveKeeps
  <1>2. ASSUME NEW h \in Handlers, HandlerStep(h) PROVE TransportInv'
    BY <1>2, RegisterKeeps, RevokeScopeKeeps, VoidKeeps, DrainedKeeps, AuthorizeKeeps,
       ForwardKeeps,
       TakeSlotKeeps, ClaimKeeps, AwaitKeeps DEF HandlerStep
  <1>3. ASSUME NEW n \in Calls, Connect(n) \/ Send(n) \/ End(n) PROVE TransportInv'
    BY <1>3, ConnectKeeps, SendKeeps, EndKeeps
  <1>4. ASSUME NEW s \in Scopes, Lapse(s) PROVE TransportInv'
    BY <1>4, LapseKeeps
  <1>5. CASE RestartTransport
    BY <1>5, RestartTransportKeeps
  <1>6. CASE UNCHANGED vars
    BY <1>6 DEF vars, registry, transport, history, TransportInv, TypeOK, NamesInv, LockInv,
       SlotInv,
       RevocationInv, Running
  <1>7. QED  BY <1>1, <1>2, <1>3, <1>4, <1>5, <1>6 DEF Next

-----------------------------------------------------------------------------
(* What the invariant gives.                                               *)

\* The inductive invariant holds for any number of scopes, handler threads,
\* forwards and restarts.
THEOREM TransportInvariant == Spec => []TransportInv
  BY TransportInit, TransportNext, PTL DEF Spec

\* Registry, slot, calls and handler threads keep their types.
THEOREM TransportTypeCorrect == Spec => []TypeOK
  <1>1. TransportInv => TypeOK
    BY DEF TransportInv
  <1>2. QED  BY <1>1, TransportInvariant, PTL

\* Bytes leave only under the registry's lock and a bound scope: a forward that
\* gives up at its deadline has cancelled its call (_forward, upstream_request).
THEOREM BytesLeaveUnderAuthority == Spec => []SendsUnderAuthority
  <1>1. TransportInv => SendsUnderAuthority
    <2> SUFFICES ASSUME TransportInv, NEW n \in Calls,
                        call[n].pc \in {"new", "connected"}, ~call[n].cancelled
                 PROVE  /\ lock # None
                        /\ handler[lock].pc = "wait" /\ handler[lock].call = n
                        /\ entry[call[n].scope] = "bound"
      BY DEF SendsUnderAuthority
    <2>1. Running(n)
      BY DEF Running
    <2>2. PICK h \in Handlers : lock = h /\ handler[h].pc = "wait" /\ handler[h].call = n
      BY <2>1 DEF TransportInv, LockInv
    <2>3. QED  BY <2>2, NoHandlerAssumption DEF TransportInv, LockInv
  <1>2. QED  BY <1>1, TransportInvariant, PTL

\* An acknowledged revocation is final, against late registrations, restarts and
\* the calls that were running when it came (revoke_scope).
THEOREM RevocationIsFinal == Spec => []AckedIsSilent
  <1>1. TransportInv => AckedIsSilent
    BY DEF TransportInv, RevocationInv, AckedIsSilent, ScopeIO
  <1>2. QED  BY <1>1, TransportInvariant, PTL

\* The upstream slot has exactly one owner while it is taken and none while it
\* is free, whichever of deadline, tombstone and cancellation ends a call.
THEOREM SlotHasOneOwner == Spec => []SlotIsOwned
  <1>1. ASSUME TransportInv PROVE SlotIsOwned
    <2> DEFINE claimed == {handler[h].call : h \in {g \in Handlers : handler[g].pc = "claim"}}
               holders == {n \in Calls : Running(n)} \cup claimed
    <2>1. SUFFICES Cardinality(holders) = IF slot THEN 1 ELSE 0
      BY DEF SlotIsOwned
    <2> USE <1>1 DEF TransportInv
    <2>2. CASE \E n \in Calls : Running(n)
      <3>1. PICK n \in Calls : Running(n)
        BY <2>2
      <3>2. slot /\ \A m \in Calls : Running(m) => m = n
        BY <3>1 DEF SlotInv
      <3>3. claimed = {}
        BY <3>1 DEF SlotInv
      <3>4. holders = {n}
        BY <3>1, <3>2, <3>3
      <3>5. QED  BY <3>2, <3>4, FS_Singleton
    <2>3. CASE \E h \in Handlers : handler[h].pc = "claim"
      <3>1. PICK h \in Handlers : handler[h].pc = "claim"
        BY <2>3
      <3>2. slot /\ \A n \in Calls : ~Running(n)
        BY <3>1 DEF SlotInv
      <3>3. \A g \in Handlers : handler[g].pc = "claim" => g = h
        BY <3>1 DEF LockInv
      <3>4. holders = {handler[h].call}
        BY <3>1, <3>2, <3>3
      <3>5. QED  BY <3>2, <3>4, FS_Singleton
    <2>4. CASE ~(\E n \in Calls : Running(n)) /\ ~(\E h \in Handlers : handler[h].pc = "claim")
      <3>1. ~slot
        BY <2>4 DEF SlotInv
      <3>2. holders = {}
        BY <2>4
      <3>3. QED  BY <3>1, <3>2, FS_EmptySet
    <2>5. QED  BY <2>2, <2>3, <2>4
  <1>2. QED  BY <1>1, TransportInvariant, PTL
=============================================================================
