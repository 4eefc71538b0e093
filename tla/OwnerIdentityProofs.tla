------------------------- MODULE OwnerIdentityProofs -------------------------
(***************************************************************************)
(* Proofs about the owner's identity, for any number of requests,          *)
(* browsers, sessions, authenticators and recovery batches: a credential   *)
(* opens one thing, an active owner has one authenticator, a revoked       *)
(* session stays revoked, and recovery ends in the session it opened.      *)
(***************************************************************************)
EXTENDS OwnerIdentity, FiniteSetTheorems, WellFoundedInduction, TLAPS

Statuses == {"none", "enrollment_required", "active", "recovery_required"}
States == {"none", "pending", "confirmed", "disabled"}
PCs == {"idle", "loaded", "ready", "verifyLogin", "verifyFresh", "verifyEnrollment",
        "establish", "rotate", "complete", "recover", "create"}

DeviceRow == [state : States, lastT : Int, drift : Int]
SessionRow == [made : BOOLEAN, revoked : BOOLEAN, restricted : BOOLEAN,
               fresh : BOOLEAN, key : Nat]
Request == [pc : PCs, browser : SUBSET Browsers, sid : {0} \cup Sessions, copy : SessionRow,
            status : Statuses, device : {0} \cup Devices, step : Int]
Credential == {"totp", "code"} \X Int \X Int
GrantRow == [by : Credential, to : Sessions \X Nat]

TypeOK ==
    /\ status \in Statuses
    /\ now \in Int
    /\ device \in [Devices -> DeviceRow]
    /\ batch \in [number : Nat, open : BOOLEAN]
    /\ consumed \subseteq Int \X Int
    /\ session \in [Sessions -> SessionRow]
    /\ web \subseteq Sessions \X Nat
    /\ preauth \subseteq Browsers
    /\ req \in [Requests -> Request]
    /\ grants \subseteq GrantRow

\* Cookies and requests name sessions that were opened.
SessionInv ==
    /\ \A s \in Sessions : ~session[s].made => session[s] = NoSession
    /\ \A w \in web : w[1] \in Made
    /\ \A q \in Requests : req[q].sid # 0 => req[q].sid \in Made
    /\ \A q \in Requests :
          req[q].pc \in {"loaded", "ready", "verifyFresh", "rotate"} => req[q].sid # 0
    /\ \A q \in Requests : req[q].copy.restricted => req[q].sid # 0

\* Only an enrolment that looks at the locked profile confirms a device.
DeviceInv ==
    /\ \A q \in Requests : req[q].pc \in Verifying \cup {"establish", "rotate", "complete"} =>
          req[q].device \in Devices
    /\ \A d, e \in Confirmed : d = e
    /\ status = "active" => Confirmed # {}
    /\ status \in {"none", "enrollment_required"} => Confirmed = {}

\* Requests whose code was verified: the step is theirs, and used up.
Verified == {q \in Requests : req[q].pc \in {"establish", "rotate", "complete"}}

CodeInv ==
    /\ \A q \in Verified : req[q].step <= device[req[q].device].lastT
    /\ \A p, q \in Verified :
          req[p].device = req[q].device /\ req[p].step = req[q].step => p = q
    /\ \A g \in grants : g.by[1] = "totp" =>
          /\ g.by[2] \in Devices
          /\ g.by[3] <= device[g.by[2]].lastT
          /\ \A q \in Verified : ~(req[q].device = g.by[2] /\ req[q].step = g.by[3])
    /\ \A g \in grants : g.by[1] = "code" => <<g.by[2], g.by[3]>> \in consumed
    /\ \A g, h \in grants : g.by = h.by => g = h

\* An unrestricted session has an authenticator's code behind it.
BackedInv ==
    \A s \in Made : \/ session[s].restricted
                    \/ \E g \in grants : g.by[1] = "totp" /\ g.to[1] = s

OwnerInv == TypeOK /\ SessionInv /\ DeviceInv /\ CodeInv /\ BackedInv

-----------------------------------------------------------------------------
(* Operators of the model.                                                 *)

\* A non-empty set of numbers has the minimum that Min chooses.
LEMMA MinIsMember ==
  ASSUME NEW S, S \subseteq Nat, S # {}
  PROVE  Min(S) \in S
  <1> DEFINE R == OpToRel(<, Nat)
  <1>0. IsWellFoundedOn(R, Nat)
    BY NatLessThanWellFounded
  <1>r. \A y, x \in Nat : y < x => <<y, x>> \in R
    BY DEF OpToRel
  <1> HIDE DEF R
  <1>1. PICK x \in S : \A y \in S : ~(<<y, x>> \in R)
    BY <1>0, WFMin
  <1>2. ASSUME NEW y \in S PROVE x <= y
    <2>1. x \in Nat /\ y \in Nat
      OBVIOUS
    <2>2. ~(y < x)
      BY <1>1, <1>r, <2>1, Zenon
    <2>3. QED  BY <2>1, <2>2
  <1>3. QED  BY <1>2 DEF Min

\* The next free session number.
LEMMA NextSession ==
  ASSUME Made # Sessions
  PROVE  Min(Sessions \ Made) \in Sessions /\ Min(Sessions \ Made) \notin Made
  <1>1. Sessions \ Made # {} /\ Sessions \ Made \subseteq Nat
    BY IdentityBounds DEF Made, Sessions
  <1>2. QED  BY <1>1, MinIsMember

\* What Revoke does to each row.
LEMMA RevokeRows ==
  ASSUME NEW t \in [Sessions -> SessionRow], NEW S
  PROVE  /\ Revoke(t, S) \in [Sessions -> SessionRow]
         /\ \A s \in Sessions : /\ Revoke(t, S)[s].made = t[s].made
                                /\ Revoke(t, S)[s].restricted = t[s].restricted
                                /\ Revoke(t, S)[s].fresh = t[s].fresh
                                /\ Revoke(t, S)[s].key = t[s].key
                                /\ t[s].revoked => Revoke(t, S)[s].revoked
                                /\ s \in S => Revoke(t, S)[s].revoked
                                /\ s \notin S => Revoke(t, S)[s] = t[s]
  <1>1. ASSUME NEW s \in Sessions
        PROVE  /\ Revoke(t, S)[s] \in SessionRow
               /\ Revoke(t, S)[s].made = t[s].made
               /\ Revoke(t, S)[s].restricted = t[s].restricted
               /\ Revoke(t, S)[s].fresh = t[s].fresh
               /\ Revoke(t, S)[s].key = t[s].key
               /\ t[s].revoked => Revoke(t, S)[s].revoked
               /\ s \in S => Revoke(t, S)[s].revoked
               /\ s \notin S => Revoke(t, S)[s] = t[s]
    <2>1. t[s] \in SessionRow
      OBVIOUS
    <2>2. CASE s \in S
      <3>1. Revoke(t, S)[s] = [t[s] EXCEPT !.revoked = TRUE]
        BY <2>2 DEF Revoke
      <3>2. QED  BY <2>1, <2>2, <3>1 DEF SessionRow
    <2>3. CASE s \notin S
      <3>1. Revoke(t, S)[s] = t[s]
        BY <2>3 DEF Revoke
      <3>2. QED  BY <2>1, <2>3, <3>1
    <2>4. QED  BY <2>2, <2>3
  <1>2. Revoke(t, S) = [s \in Sessions |-> Revoke(t, S)[s]]
    BY DEF Revoke
  <1>3. Revoke(t, S) \in [Sessions -> SessionRow]
    BY <1>1, <1>2
  <1>4. QED  BY <1>1, <1>3

\* A rotation changes one key.
LEMMA RotatedRow ==
  ASSUME NEW t \in [Sessions -> SessionRow], NEW s \in Sessions
  PROVE  /\ Rotated(s, t) \in [Sessions -> SessionRow]
         /\ Rotated(s, t)[s] = [t[s] EXCEPT !.key = t[s].key + 1]
         /\ \A r \in Sessions : r # s => Rotated(s, t)[r] = t[r]
  <1>1. t[s] \in SessionRow /\ t[s].key + 1 \in Nat
    BY DEF SessionRow
  <1>2. [t[s] EXCEPT !.key = t[s].key + 1] \in SessionRow
    BY <1>1 DEF SessionRow
  <1>3. Rotated(s, t) = [t EXCEPT ![s] = [t[s] EXCEPT !.key = t[s].key + 1]]
    BY DEF Rotated
  <1>4. QED  BY <1>2, <1>3

\* Saving named columns of a loaded copy keeps the row a row, and the others.
LEMMA SavedRow ==
  ASSUME NEW row \in SessionRow, NEW copy \in SessionRow, NEW fields
  PROVE  /\ Save(row, copy, fields) \in SessionRow
         /\ "made" \notin fields => Save(row, copy, fields).made = row.made
         /\ "revoked" \notin fields => Save(row, copy, fields).revoked = row.revoked
         /\ "restricted" \notin fields => Save(row, copy, fields).restricted = row.restricted
         /\ "key" \notin fields => Save(row, copy, fields).key = row.key
  <1>1. DOMAIN row = {"made", "revoked", "restricted", "fresh", "key"}
    BY DEF SessionRow
  <1>2. Save(row, copy, fields) =
            [made |-> IF "made" \in fields THEN copy.made ELSE row.made,
             revoked |-> IF "revoked" \in fields THEN copy.revoked ELSE row.revoked,
             restricted |-> IF "restricted" \in fields THEN copy.restricted ELSE row.restricted,
             fresh |-> IF "fresh" \in fields THEN copy.fresh ELSE row.fresh,
             key |-> IF "key" \in fields THEN copy.key ELSE row.key]
    BY <1>1 DEF Save
  <1>3. QED  BY <1>2 DEF SessionRow

-----------------------------------------------------------------------------
(* What a step does, as far as the invariant can tell.                     *)

\* The session table t differs from the current one in keys, freshness and
\* further revocations only.
Settled(t) ==
    /\ t \in [Sessions -> SessionRow]
    /\ \A s \in Sessions : /\ t[s].made = session[s].made
                           /\ t[s].restricted = session[s].restricted
                           /\ session[s].revoked => t[s].revoked
                           /\ ~session[s].made => t[s] = NoSession

\* Sessions stay made and stay revoked, and rows not made are blank.
SessionStep ==
    /\ session' \in [Sessions -> SessionRow]
    /\ \A s \in Sessions : /\ session[s].made => session'[s].made
                           /\ session[s].revoked => session'[s].revoked
                           /\ ~session'[s].made => session'[s] = NoSession

\* New cookies are of sessions that are made by then.
WebStep ==
    /\ web' \subseteq Sessions \X Nat
    /\ \A w \in web' : w \in web \/ session'[w[1]].made

\* A request record that agrees with the tables after the step.
AfterPCs == {"establish", "rotate", "complete"}

Fits(r) ==
    /\ r \in Request
    /\ r.sid # 0 => session'[r.sid].made
    /\ r.pc \in {"loaded", "ready", "verifyFresh", "rotate"} => r.sid # 0
    /\ r.copy.restricted => r.sid # 0
    /\ r.pc \in Verifying \cup AfterPCs => r.device \in Devices

\* Only request q changes.
RequestStep(q) ==
    /\ req' \in [Requests -> Request]
    /\ \A p \in Requests : p # q => req'[p] = req[p]
    /\ Fits(req'[q])

\* Verified requests after the step were so before, with the same code.
NothingVerified ==
    \A p \in Verified' : /\ p \in Verified
                         /\ req'[p].device = req[p].device /\ req'[p].step = req[p].step

LastTGrows == \A d \in Devices : device[d].lastT <= device'[d].lastT

\* A settled table is a session step.
LEMMA SettledIsStep ==
  ASSUME TypeOK, SessionInv, Settled(session')
  PROVE  SessionStep
  BY DEF Settled, SessionStep, SessionInv

\* An unchanged table is settled.
LEMMA SameIsSettled ==
  ASSUME TypeOK, SessionInv
  PROVE  Settled(session)
  BY DEF Settled, SessionInv, TypeOK

\* Revoking made sessions settles the table.
LEMMA RevokeSettles ==
  ASSUME TypeOK, SessionInv, NEW S, S \subseteq Made
  PROVE  Settled(Revoke(session, S))
  BY RevokeRows DEF Settled, SessionInv, TypeOK, Made

\* The invariant on sessions, request by request.
LEMMA SessionInvStep ==
  ASSUME TypeOK, SessionInv, SessionStep, WebStep,
         \/ UNCHANGED req
         \/ \E q \in Requests : RequestStep(q)
  PROVE  SessionInv'
  <1>1. \A s \in Sessions : ~session'[s].made => session'[s] = NoSession
    BY DEF SessionStep
  <1>2. \A w \in web' : w[1] \in Made'
    BY DEF WebStep, SessionInv, SessionStep, Made
  <1>3. ASSUME NEW p \in Requests
        PROVE  /\ req'[p].sid # 0 => req'[p].sid \in Made'
               /\ req'[p].pc \in {"loaded", "ready", "verifyFresh", "rotate"} => req'[p].sid # 0
               /\ req'[p].copy.restricted => req'[p].sid # 0
    <2>1. CASE req'[p] = req[p]
      BY <2>1 DEF SessionInv, SessionStep, Made
    <2>2. CASE Fits(req'[p])
      BY <2>2 DEF Fits, Request, Made
    <2>3. QED  BY <2>1, <2>2 DEF RequestStep
  <1>4. QED  BY <1>1, <1>2, <1>3 DEF SessionInv

\* Devices of requests.
LEMMA DeviceOfRequest ==
  ASSUME TypeOK, DeviceInv,
         \/ UNCHANGED req
         \/ \E q \in Requests : RequestStep(q)
  PROVE  \A p \in Requests : req'[p].pc \in Verifying \cup AfterPCs => req'[p].device \in Devices
  BY DEF DeviceInv, RequestStep, Fits, AfterPCs

\* Codes that were used up stay used up while no code is verified.
LEMMA UsedCodes ==
  ASSUME TypeOK, DeviceInv, CodeInv, TypeOK', NothingVerified, LastTGrows, consumed \subseteq consumed'
  PROVE  /\ \A q \in Verified' : req'[q].step <= device'[req'[q].device].lastT
         /\ \A p, q \in Verified' :
              req'[p].device = req'[q].device /\ req'[p].step = req'[q].step => p = q
         /\ \A g \in grants : g.by[1] = "totp" =>
              /\ g.by[2] \in Devices
              /\ g.by[3] <= device'[g.by[2]].lastT
              /\ \A q \in Verified' : ~(req'[q].device = g.by[2] /\ req'[q].step = g.by[3])
         /\ \A g \in grants : g.by[1] = "code" => <<g.by[2], g.by[3]>> \in consumed'
  <1>1. \A d \in Devices : device[d].lastT \in Int /\ device'[d].lastT \in Int
    BY DEF TypeOK, DeviceRow
  <1>2. \A q \in Verified : req[q].device \in Devices /\ req[q].step \in Int
    BY DEF Verified, DeviceInv, TypeOK, Request
  <1>3. \A q \in Verified' : req'[q].step <= device'[req'[q].device].lastT
    BY <1>1, <1>2 DEF CodeInv, NothingVerified, LastTGrows
  <1>4. \A p, q \in Verified' :
          req'[p].device = req'[q].device /\ req'[p].step = req'[q].step => p = q
    BY DEF CodeInv, NothingVerified
  <1>5. ASSUME NEW g \in grants, g.by[1] = "totp"
        PROVE  /\ g.by[2] \in Devices
               /\ g.by[3] <= device'[g.by[2]].lastT
               /\ \A q \in Verified' : ~(req'[q].device = g.by[2] /\ req'[q].step = g.by[3])
    <2>1. g.by[2] \in Devices /\ g.by[3] <= device[g.by[2]].lastT
      BY <1>5 DEF CodeInv
    <2>2. g.by[3] \in Int
      BY DEF TypeOK, GrantRow, Credential
    <2>3. g.by[3] <= device'[g.by[2]].lastT
      BY <1>1, <2>1, <2>2 DEF LastTGrows
    <2>4. QED  BY <1>5, <2>1, <2>3 DEF CodeInv, NothingVerified
  <1>6. \A g \in grants : g.by[1] = "code" => <<g.by[2], g.by[3]>> \in consumed'
    BY DEF CodeInv
  <1>7. QED  BY <1>3, <1>4, <1>5, <1>6

\* No code verified, no grant: what is used up stays used up.
LEMMA CodeInvQuiet ==
  ASSUME TypeOK, DeviceInv, CodeInv, TypeOK', NothingVerified, LastTGrows,
         UNCHANGED grants, consumed \subseteq consumed'
  PROVE  CodeInv'
  <1>1. \A g, h \in grants : g.by = h.by => g = h
    BY DEF CodeInv
  <1>2. QED  BY <1>1, UsedCodes DEF CodeInv

\* Sessions that were backed stay backed.
LEMMA BackedInvStep ==
  ASSUME BackedInv, grants \subseteq grants',
         \A s \in Made' : \/ session'[s].restricted
                          \/ s \in Made /\ ~session[s].restricted
                          \/ \E g \in grants' : g.by[1] = "totp" /\ g.to[1] = s
  PROVE  BackedInv'
  BY DEF BackedInv

\* Steps that leave status, devices, codes and grants alone, and sessions settled.
LEMMA OrdinaryStep ==
  ASSUME OwnerInv, Settled(session'), WebStep, preauth' \subseteq Browsers,
         batch' \in [number : Nat, open : BOOLEAN], now' \in Int,
         UNCHANGED <<status, device, consumed, grants>>,
         \/ UNCHANGED req
         \/ \E q \in Requests : RequestStep(q) /\ req'[q].pc \notin AfterPCs
  PROVE  OwnerInv' /\ SessionStep
  <1> USE DEF OwnerInv
  <1>1. SessionStep
    BY SettledIsStep
  <1>2. TypeOK'
    BY <1>1 DEF TypeOK, SessionStep, WebStep, RequestStep
  <1>3. SessionInv'
    BY <1>1, SessionInvStep
  <1>4. DeviceInv'
    <2>1. \A p \in Requests : req'[p].pc \in Verifying \cup AfterPCs => req'[p].device \in Devices
      BY DeviceOfRequest
    <2>2. QED  BY <2>1 DEF DeviceInv, Confirmed, AfterPCs, Verifying
  <1>5. NothingVerified
    BY DEF NothingVerified, Verified, RequestStep, AfterPCs
  <1>6. LastTGrows
    BY DEF LastTGrows, TypeOK, DeviceRow
  <1>7. CodeInv'
    BY <1>2, <1>5, <1>6, CodeInvQuiet
  <1>8. BackedInv'
    <2>1. \A s \in Made' : session'[s].restricted \/ (s \in Made /\ ~session[s].restricted)
      BY DEF Settled, Made
    <2>2. QED  BY <2>1, BackedInvStep
  <1>9. QED  BY <1>1, <1>2, <1>3, <1>4, <1>7, <1>8

-----------------------------------------------------------------------------
(* Ordinary steps: a request moves on, or sessions are revoked.            *)

\* A blank request fits any state.
LEMMA IdleFits == Fits(IdleRequest)
  <1>1. NoSession \in SessionRow /\ ~NoSession.restricted
    BY DEF NoSession, SessionRow
  <1>2. IdleRequest \in Request
    BY <1>1 DEF IdleRequest, Request, PCs, Statuses
  <1>3. /\ IdleRequest.pc = "idle" /\ IdleRequest.sid = 0 /\ IdleRequest.copy = NoSession
    BY DEF IdleRequest
  <1>4. QED  BY <1>1, <1>2, <1>3 DEF Fits, Verifying, AfterPCs

\* One request gets a new record that fits.
LEMMA RequestMoves ==
  ASSUME TypeOK, NEW q \in Requests, NEW r, req' = [req EXCEPT ![q] = r], Fits(r)
  PROVE  RequestStep(q) /\ req'[q] = r
  BY DEF RequestStep, TypeOK, Fits

\* A request that is done.
LEMMA DoneStep ==
  ASSUME TypeOK, NEW q \in Requests, Done(q)
  PROVE  RequestStep(q) /\ req'[q] = IdleRequest /\ req'[q].pc = "idle" /\ req'[q].pc \notin AfterPCs
  <1>1. RequestStep(q) /\ req'[q] = IdleRequest
    BY IdleFits, RequestMoves DEF Done
  <1>2. QED  BY <1>1 DEF IdleRequest, AfterPCs

\* Nothing happens to the tables and fewer cookies are left.
LEMMA TablesAlone ==
  ASSUME OwnerInv, UNCHANGED <<status, now, device, batch, consumed, session, grants>>,
         web' \subseteq web, preauth' \subseteq Browsers,
         \E q \in Requests : RequestStep(q) /\ req'[q].pc \notin AfterPCs
  PROVE  OwnerInv' /\ SessionStep
  <1> USE DEF OwnerInv
  <1>1. Settled(session')
    BY SameIsSettled
  <1>2. WebStep
    BY DEF WebStep, TypeOK
  <1>3. batch' \in [number : Nat, open : BOOLEAN] /\ now' \in Int
    BY DEF TypeOK
  <1>4. QED  BY <1>1, <1>2, <1>3, OrdinaryStep

\* A code that is refused leaves nothing.
LEMMA RefuseTotpKeeps ==
  ASSUME OwnerInv, NEW q \in Requests, RefuseTotp(q)
  PROVE  OwnerInv' /\ SessionStep
  <1> USE DEF OwnerInv
  <1>1. RequestStep(q) /\ req'[q].pc \notin AfterPCs
    BY DoneStep DEF RefuseTotp
  <1>2. QED  BY <1>1, TablesAlone DEF RefuseTotp, TypeOK

\* A recovery code that is refused leaves nothing.
LEMMA FailRecoveryKeeps ==
  ASSUME OwnerInv, NEW q \in Requests, FailRecovery(q)
  PROVE  OwnerInv' /\ SessionStep
  <1> USE DEF OwnerInv
  <1>1. RequestStep(q) /\ req'[q].pc \notin AfterPCs
    BY DoneStep DEF FailRecovery
  <1>2. QED  BY <1>1, TablesAlone DEF FailRecovery, TypeOK

\* An enrolment that came too late leaves nothing.
LEMMA FailEnrollmentKeeps ==
  ASSUME OwnerInv, NEW q \in Requests, FailEnrollment(q)
  PROVE  OwnerInv' /\ SessionStep
  <1> USE DEF OwnerInv
  <1>1. RequestStep(q) /\ req'[q].pc \notin AfterPCs
    BY DoneStep DEF FailEnrollment
  <1>2. QED  BY <1>1, TablesAlone DEF FailEnrollment, TypeOK

\* A page changes nothing.
LEMMA AnswerKeeps ==
  ASSUME OwnerInv, NEW q \in Requests, Answer(q)
  PROVE  OwnerInv' /\ SessionStep
  <1> USE DEF OwnerInv
  <1>1. RequestStep(q) /\ req'[q].pc \notin AfterPCs
    BY DoneStep DEF Answer
  <1>2. QED  BY <1>1, TablesAlone DEF Answer, TypeOK

\* A new password challenge drops the cookie it came with.
LEMMA PasswordChallengeKeeps ==
  ASSUME OwnerInv, NEW q \in Requests, NEW b \in Browsers, PasswordChallenge(q, b)
  PROVE  OwnerInv' /\ SessionStep
  <1> USE DEF OwnerInv
  <1>1. RequestStep(q) /\ req'[q].pc \notin AfterPCs
    BY DoneStep DEF PasswordChallenge
  <1>2. web' \subseteq web /\ preauth' \subseteq Browsers
    BY DEF PasswordChallenge, TypeOK
  <1>3. QED  BY <1>1, <1>2, TablesAlone DEF PasswordChallenge

\* The middleware loads a session that was made.
LEMMA AdmitKeeps ==
  ASSUME OwnerInv, NEW q \in Requests, NEW w \in web, Admit(q, w[1], w[2])
  PROVE  OwnerInv' /\ SessionStep
  <1> USE DEF OwnerInv
  <1> DEFINE r == [req[q] EXCEPT !.pc = "loaded", !.sid = w[1], !.copy = session[w[1]], !.status = status]
  <1>1. req[q] \in Request /\ w[1] \in Sessions /\ w[1] \in Made
    BY DEF TypeOK, SessionInv, Sessions
  <1>2. session[w[1]] \in SessionRow /\ session[w[1]].made /\ w[1] # 0
    BY <1>1, IdentityBounds DEF TypeOK, Made, Sessions
  <1>3. r \in Request
    BY <1>1, <1>2 DEF Request, TypeOK, PCs
  <1>4. r.pc = "loaded" /\ r.sid = w[1]
    BY <1>1 DEF Request
  <1>5. req' = [req EXCEPT ![q] = r] /\ session' = session
    BY DEF Admit
  <1>6. Fits(r)
    BY <1>2, <1>3, <1>4, <1>5 DEF Fits, Verifying, AfterPCs
  <1> HIDE DEF r
  <1>7. RequestStep(q) /\ req'[q].pc \notin AfterPCs
    BY <1>4, <1>5, <1>6, RequestMoves DEF AfterPCs
  <1>8. QED  BY <1>7, TablesAlone DEF Admit, TypeOK

\* A request that comes in with a verified password carries no session.
LEMMA PreauthenticatedStep ==
  ASSUME OwnerInv, NEW q \in Requests, NEW b \in Browsers, NEW pc \in {"verifyLogin", "recover"},
         NEW d \in {0} \cup Devices, pc = "verifyLogin" => d \in Devices, Preauthenticated(q, b, pc, d)
  PROVE  OwnerInv' /\ SessionStep
  <1> USE DEF OwnerInv
  <1> DEFINE r == [req[q] EXCEPT !.pc = pc, !.browser = {b}, !.status = status, !.device = d]
  <1>1. req[q] \in Request /\ req[q].pc = "idle"
    BY DEF TypeOK, Preauthenticated
  <1>2. r \in Request /\ r.pc = pc /\ r.sid = req[q].sid /\ r.copy = req[q].copy /\ r.device = d
    BY <1>1 DEF Request, TypeOK, PCs
  <1>3. req' = [req EXCEPT ![q] = r] /\ session' = session
    BY DEF Preauthenticated
  <1> HIDE DEF r
  <1>4. Fits(r)
    BY <1>1, <1>2, <1>3 DEF Fits, Verifying, AfterPCs, SessionInv, Made
  <1>5. RequestStep(q) /\ req'[q].pc \notin AfterPCs
    BY <1>2, <1>3, <1>4, RequestMoves DEF AfterPCs
  <1>6. QED  BY <1>5, TablesAlone DEF Preauthenticated, TypeOK

\* The challenge names a confirmed device.
LEMMA TotpChallengeKeeps ==
  ASSUME OwnerInv, NEW q \in Requests, NEW b \in Browsers, TotpChallenge(q, b)
  PROVE  OwnerInv' /\ SessionStep
  <1> USE DEF OwnerInv
  <1>1. PICK d \in Confirmed : Preauthenticated(q, b, "verifyLogin", d)
    BY DEF TotpChallenge
  <1>2. d \in Devices
    BY DEF Confirmed
  <1>3. QED  BY <1>1, <1>2, PreauthenticatedStep

\* The recovery challenge names no device.
LEMMA RecoveryChallengeKeeps ==
  ASSUME OwnerInv, NEW q \in Requests, NEW b \in Browsers, RecoveryChallenge(q, b)
  PROVE  OwnerInv' /\ SessionStep
  <1> USE DEF OwnerInv
  <1>1. QED  BY PreauthenticatedStep DEF RecoveryChallenge

\* What an enrolment makes of its request, from a session or from a password.
LEMMA EnrolStep ==
  ASSUME OwnerInv, NEW q \in Requests, NEW b \in Browsers, NEW pc \in {"create", "verifyEnrollment"},
         NEW d \in {0} \cup Devices, pc = "verifyEnrollment" => d \in Devices,
         MayEnrol(q, b), EnrolAs(q, b, pc, d), session' = session
  PROVE  RequestStep(q) /\ req'[q].pc \notin AfterPCs
  <1> USE DEF OwnerInv
  <1> DEFINE r == [req[q] EXCEPT !.pc = pc, !.device = d,
                     !.browser = IF EnrolsFromSession(q) THEN {} ELSE {b},
                     !.status = IF EnrolsFromSession(q) THEN req[q].status ELSE status]
  <1>1. req[q] \in Request
    BY DEF TypeOK
  <1>2. /\ r \in Request /\ r.pc = pc /\ r.sid = req[q].sid
        /\ r.copy = req[q].copy /\ r.device = d
    BY <1>1 DEF Request, TypeOK, PCs
  <1>3. req' = [req EXCEPT ![q] = r]
    BY DEF EnrolAs
  <1> HIDE DEF r
  <1>4. Fits(r)
    BY <1>1, <1>2, <1>3 DEF Fits, Verifying, AfterPCs, SessionInv, Made
  <1>5. QED  BY <1>2, <1>3, <1>4, RequestMoves DEF AfterPCs

\* The confirmation names a pending device.
LEMMA ConfirmTotpEnrollmentKeeps ==
  ASSUME OwnerInv, NEW q \in Requests, NEW b \in Browsers, NEW d \in Devices, ConfirmTotpEnrollment(q, b, d)
  PROVE  OwnerInv' /\ SessionStep
  <1> USE DEF OwnerInv
  <1>1. RequestStep(q) /\ req'[q].pc \notin AfterPCs
    BY EnrolStep DEF ConfirmTotpEnrollment
  <1>2. QED  BY <1>1, TablesAlone DEF ConfirmTotpEnrollment, TypeOK

\* A fresh verification names a confirmed device, and keeps its session.
LEMMA ReauthenticateKeeps ==
  ASSUME OwnerInv, NEW q \in Requests, Reauthenticate(q)
  PROVE  OwnerInv' /\ SessionStep
  <1> USE DEF OwnerInv
  <1>1. PICK d \in Confirmed : req' = [req EXCEPT ![q] = [@ EXCEPT !.pc = "verifyFresh", !.device = d]]
    BY DEF Reauthenticate
  <1> DEFINE r == [req[q] EXCEPT !.pc = "verifyFresh", !.device = d]
  <1>2. req[q] \in Request /\ req[q].pc = "ready" /\ d \in Devices
    BY DEF TypeOK, Reauthenticate, FullAdministrator, Confirmed
  <1>3. /\ r \in Request /\ r.pc = "verifyFresh" /\ r.sid = req[q].sid
        /\ r.copy = req[q].copy /\ r.device = d
    BY <1>2 DEF Request, TypeOK, PCs
  <1>4. req' = [req EXCEPT ![q] = r] /\ session' = session
    BY <1>1 DEF Reauthenticate
  <1> HIDE DEF r
  <1>5. Fits(r)
    BY <1>2, <1>3, <1>4 DEF Fits, Verifying, AfterPCs, SessionInv, Made
  <1>6. RequestStep(q) /\ req'[q].pc \notin AfterPCs
    BY <1>3, <1>4, <1>5, RequestMoves DEF AfterPCs
  <1>7. QED  BY <1>6, TablesAlone DEF Reauthenticate, TypeOK

\* Making a made session stale settles the table.
LEMMA StaleSettles ==
  ASSUME NEW t, Settled(t), NEW s \in Made
  PROVE  Settled([t EXCEPT ![s].fresh = FALSE])
  <1> DEFINE u == [t EXCEPT ![s].fresh = FALSE]
  <1>1. s \in Sessions /\ session[s].made /\ t \in [Sessions -> SessionRow] /\ t[s] \in SessionRow
    BY DEF Made, Settled
  <1>2. [t[s] EXCEPT !.fresh = FALSE] \in SessionRow
    BY <1>1 DEF SessionRow
  <1>3. /\ u \in [Sessions -> SessionRow] /\ u[s] = [t[s] EXCEPT !.fresh = FALSE]
        /\ \A r \in Sessions : r # s => u[r] = t[r]
    BY <1>1, <1>2
  <1>4. u[s].made = t[s].made /\ u[s].restricted = t[s].restricted /\ u[s].revoked = t[s].revoked
    BY <1>1, <1>3 DEF SessionRow
  <1> HIDE DEF u
  <1>5. Settled(u)
    BY <1>1, <1>3, <1>4 DEF Settled
  <1>6. QED  BY <1>5 DEF u

\* So does a rotation of its key.
LEMMA RotationSettles ==
  ASSUME NEW t, Settled(t), NEW s \in Made
  PROVE  Settled(Rotated(s, t))
  <1>1. s \in Sessions /\ session[s].made /\ t \in [Sessions -> SessionRow] /\ t[s] \in SessionRow
    BY DEF Made, Settled
  <1>2. /\ Rotated(s, t) \in [Sessions -> SessionRow]
        /\ Rotated(s, t)[s] = [t[s] EXCEPT !.key = t[s].key + 1]
        /\ \A r \in Sessions : r # s => Rotated(s, t)[r] = t[r]
    BY <1>1, RotatedRow
  <1>3. /\ Rotated(s, t)[s].made = t[s].made /\ Rotated(s, t)[s].restricted = t[s].restricted
        /\ Rotated(s, t)[s].revoked = t[s].revoked
    BY <1>1, <1>2 DEF SessionRow
  <1>4. QED  BY <1>1, <1>2, <1>3 DEF Settled

\* A step of an ordinary request or of the host that settles the session table.
LEMMA SettledStep ==
  ASSUME OwnerInv, UNCHANGED <<status, now, device, consumed, preauth, grants>>,
         Settled(session'), WebStep, batch' \in [number : Nat, open : BOOLEAN],
         \/ UNCHANGED req
         \/ \E q \in Requests : RequestStep(q) /\ req'[q].pc \notin AfterPCs
  PROVE  OwnerInv' /\ SessionStep
  <1>1. preauth' \subseteq Browsers /\ now' \in Int
    BY DEF OwnerInv, TypeOK
  <1>2. QED  BY <1>1, OrdinaryStep

\* Cookies that go away.
LEMMA FewerCookies ==
  ASSUME TypeOK, web' \subseteq web
  PROVE  WebStep
  BY DEF TypeOK, WebStep

\* The session of a request that holds one.
LEMMA SessionOfRequest ==
  ASSUME OwnerInv, NEW q \in Requests,
         req[q].pc \in {"loaded", "ready", "verifyFresh", "rotate"} \/ req[q].copy.restricted
  PROVE  req[q].sid \in Made /\ req[q].sid \in Sessions /\ req[q].copy \in SessionRow
  BY DEF OwnerInv, SessionInv, Made, TypeOK, Request

\* A rotated request has a cookie for its own session.
LEMMA RotatedCookies ==
  ASSUME OwnerInv, NEW q \in Requests, req[q].sid \in Made, NEW rows, rows \subseteq web,
         Settled(session'), web' = RotatedRows(q, rows)
  PROVE  WebStep
  <1> DEFINE s == req[q].sid
  <1>1. s \in Sessions /\ session[s].key + 1 \in Nat /\ session'[s].made
    BY DEF OwnerInv, TypeOK, SessionRow, Made, Settled
  <1>2. \A w \in web' : w \in web \/ w = <<s, session[s].key + 1>>
    BY DEF RotatedRows
  <1>3. QED  BY <1>1, <1>2 DEF WebStep, OwnerInv, TypeOK

\* The batch stays a batch.
LEMMA NewBatch ==
  ASSUME TypeOK, GenerateRecoveryBatch
  PROVE  batch' \in [number : Nat, open : BOOLEAN]
  BY DEF TypeOK, GenerateRecoveryBatch

\* The middleware revokes a session that was made.
LEMMA InvalidateKeeps ==
  ASSUME OwnerInv, NEW q \in Requests, NEW w \in web, Invalidate(q, w[1], w[2])
  PROVE  OwnerInv' /\ SessionStep
  <1> USE DEF OwnerInv
  <1>1. {w[1]} \subseteq Made
    BY DEF SessionInv
  <1>2. Settled(session')
    BY <1>1, RevokeSettles DEF Invalidate
  <1>3. WebStep /\ batch' \in [number : Nat, open : BOOLEAN]
    BY FewerCookies DEF Invalidate, TypeOK
  <1>4. QED  BY <1>2, <1>3, SettledStep DEF Invalidate

\* The purge revokes live sessions.
LEMMA PurgeSessionsKeeps ==
  ASSUME OwnerInv, NEW E \in SUBSET Sessions, PurgeSessions(E)
  PROVE  OwnerInv' /\ SessionStep
  <1> USE DEF OwnerInv
  <1> DEFINE S == E \cup {s \in Live : <<s, session[s].key>> \notin web}
  <1>1. S \subseteq Made
    BY DEF PurgeSessions, Live
  <1>2. session' = Revoke(session, S)
    BY DEF PurgeSessions
  <1> HIDE DEF S
  <1>3. Settled(session')
    BY <1>1, <1>2, RevokeSettles
  <1>4. WebStep /\ batch' \in [number : Nat, open : BOOLEAN]
    BY FewerCookies DEF PurgeSessions, TypeOK
  <1>5. QED  BY <1>3, <1>4, SettledStep DEF PurgeSessions

\* A verified password is forgotten.
LEMMA LogoutPreauthKeeps ==
  ASSUME OwnerInv, NEW b \in Browsers, LogoutPreauth(b)
  PROVE  OwnerInv' /\ SessionStep
  <1> USE DEF OwnerInv
  <1>1. Settled(session')
    BY SameIsSettled DEF LogoutPreauth
  <1>2. WebStep /\ batch' \in [number : Nat, open : BOOLEAN] /\ preauth' \subseteq Browsers /\ now' \in Int
    BY FewerCookies DEF LogoutPreauth, TypeOK
  <1>3. QED  BY <1>1, <1>2, OrdinaryStep DEF LogoutPreauth

\* The clock moves.
LEMMA TickKeeps ==
  ASSUME OwnerInv, Tick
  PROVE  OwnerInv' /\ SessionStep
  <1> USE DEF OwnerInv
  <1>1. Settled(session')
    BY SameIsSettled DEF Tick
  <1>2. WebStep /\ batch' \in [number : Nat, open : BOOLEAN] /\ preauth' \subseteq Browsers
    BY FewerCookies DEF Tick, TypeOK
  <1>3. now' \in Int
    BY DEF Tick, TypeOK
  <1>4. QED  BY <1>1, <1>2, <1>3, OrdinaryStep DEF Tick

\* The middleware saves no column that matters, whatever its copy says.
LEMMA RecordActivityKeeps ==
  ASSUME OwnerInv, NEW q \in Requests, RecordActivity(q)
  PROVE  OwnerInv' /\ SessionStep
  <1> USE DEF OwnerInv
  <1> DEFINE r == [req[q] EXCEPT !.pc = "ready"]
             s == req[q].sid
  <1>1. req[q].sid \in Made /\ req[q].sid \in Sessions /\ req[q].copy \in SessionRow
    BY SessionOfRequest DEF RecordActivity
  <1>2. session[s] \in SessionRow /\ session[s].made /\ req[q] \in Request /\ req[q].pc = "loaded"
    BY <1>1 DEF TypeOK, Made, RecordActivity
  <1> DEFINE row == Save(session[s], req[q].copy, {})
  <1>3. /\ row \in SessionRow /\ row.made = session[s].made
        /\ row.revoked = session[s].revoked /\ row.restricted = session[s].restricted
    <2>1. PICK F : F = {}
      OBVIOUS
    <2>2. "made" \notin F /\ "revoked" \notin F /\ "restricted" \notin F
      BY <2>1
    <2>3. PICK old, new \in SessionRow : old = session[s] /\ new = req[q].copy
      BY <1>1, <1>2
    <2>4. /\ Save(old, new, F) \in SessionRow /\ Save(old, new, F).made = old.made
          /\ Save(old, new, F).revoked = old.revoked
          /\ Save(old, new, F).restricted = old.restricted
      BY <2>2, SavedRow
    <2>5. QED  BY <2>1, <2>3, <2>4
  <1>4. session' = [session EXCEPT ![s] = row]
    BY DEF RecordActivity
  <1> HIDE DEF row
  <1>5. Settled(session')
    <2> HIDE DEF s
    <2>1. /\ session' \in [Sessions -> SessionRow] /\ session'[s] = row
          /\ \A o \in Sessions : o # s => session'[o] = session[o]
      BY <1>1, <1>3, <1>4 DEF TypeOK, s
    <2>2. QED  BY <1>2, <1>3, <2>1 DEF Settled, SessionInv
  <1>6. r \in Request /\ r.pc = "ready" /\ r.sid = s /\ r.copy = req[q].copy
    BY <1>2 DEF Request, PCs
  <1>7. req' = [req EXCEPT ![q] = r]
    BY DEF RecordActivity, Goto
  <1>8. Fits(r)
    <2>1. s # 0 /\ session'[s].made
      BY <1>1, <1>2, <1>5, IdentityBounds DEF Settled, Sessions
    <2> HIDE DEF r, s
    <2>2. QED  BY <1>6, <2>1 DEF Fits, Verifying, AfterPCs
  <1> HIDE DEF r, s
  <1>9. RequestStep(q) /\ req'[q].pc \notin AfterPCs
    BY <1>6, <1>7, <1>8, RequestMoves DEF AfterPCs
  <1>10. WebStep /\ batch' \in [number : Nat, open : BOOLEAN]
    BY FewerCookies DEF RecordActivity, TypeOK
  <1>11. QED  BY <1>5, <1>9, <1>10, SettledStep DEF RecordActivity

\* A logout revokes the session the request came with.
LEMMA LogoutKeeps ==
  ASSUME OwnerInv, NEW q \in Requests, Logout(q)
  PROVE  OwnerInv' /\ SessionStep
  <1> USE DEF OwnerInv
  <1>1. {req[q].sid} \subseteq Made
    BY SessionOfRequest DEF Logout
  <1>2. Settled(session')
    BY <1>1, RevokeSettles DEF Logout
  <1>3. WebStep /\ batch' \in [number : Nat, open : BOOLEAN]
    BY FewerCookies DEF Logout, TypeOK
  <1>4. RequestStep(q) /\ req'[q].pc \notin AfterPCs
    BY DoneStep DEF Logout
  <1>5. QED  BY <1>2, <1>3, <1>4, SettledStep DEF Logout

\* An owned session is revoked, possibly the caller's.
LEMMA RevokeSessionKeeps ==
  ASSUME OwnerInv, NEW q \in Requests, NEW t \in Sessions, RevokeSession(q, t)
  PROVE  OwnerInv' /\ SessionStep
  <1> USE DEF OwnerInv
  <1>1. {t} \subseteq Made
    BY DEF RevokeSession
  <1>2. Settled(session')
    BY <1>1, RevokeSettles DEF RevokeSession
  <1>3. WebStep /\ batch' \in [number : Nat, open : BOOLEAN]
    BY FewerCookies DEF RevokeSession, TypeOK
  <1>4. RequestStep(q) /\ req'[q].pc \notin AfterPCs
    BY DoneStep DEF RevokeSession
  <1>5. QED  BY <1>2, <1>3, <1>4, SettledStep DEF RevokeSession

\* The caller is left alone.
LEMMA AloneSettles ==
  ASSUME OwnerInv, NEW s \in Made
  PROVE  Settled(Alone(s)) /\ RowsAlone(s) \subseteq web
  <1>1. Live \ {s} \subseteq Made
    BY DEF Live
  <1>2. Settled(Revoke(session, Live \ {s}))
    BY <1>1, RevokeSettles DEF OwnerInv
  <1>3. Settled(Alone(s))
    BY <1>2, StaleSettles DEF Alone
  <1>4. QED  BY <1>3 DEF RowsAlone

\* A password change leaves the caller alone, with a new key.
LEMMA ChangePasswordKeeps ==
  ASSUME OwnerInv, NEW q \in Requests, ChangePassword(q)
  PROVE  OwnerInv' /\ SessionStep
  <1> USE DEF OwnerInv
  <1>0. PICK s : s = req[q].sid
    OBVIOUS
  <1>1. s \in Made
    BY <1>0, SessionOfRequest DEF ChangePassword, RequireFresh, FullAdministrator
  <1>2. Settled(Alone(s)) /\ RowsAlone(s) \subseteq web
    BY <1>1, AloneSettles
  <1>3. Settled(session')
    BY <1>0, <1>1, <1>2, RotationSettles DEF ChangePassword
  <1>4. WebStep
    BY <1>0, <1>1, <1>2, <1>3, RotatedCookies DEF ChangePassword
  <1>5. batch' \in [number : Nat, open : BOOLEAN]
    BY DEF ChangePassword, TypeOK
  <1>6. RequestStep(q) /\ req'[q].pc \notin AfterPCs
    BY DoneStep DEF ChangePassword
  <1>7. QED  BY <1>3, <1>4, <1>5, <1>6, SettledStep DEF ChangePassword

\* A regeneration leaves the caller alone, with a new key and a new batch.
LEMMA RegenerateRecoveryCodesKeeps ==
  ASSUME OwnerInv, NEW q \in Requests, RegenerateRecoveryCodes(q)
  PROVE  OwnerInv' /\ SessionStep
  <1> USE DEF OwnerInv
  <1>0. PICK s : s = req[q].sid
    OBVIOUS
  <1>1. s \in Made
    BY <1>0, SessionOfRequest DEF RegenerateRecoveryCodes, RequireFresh, FullAdministrator
  <1>2. Settled(Alone(s)) /\ RowsAlone(s) \subseteq web
    BY <1>1, AloneSettles
  <1>3. Settled(session')
    BY <1>0, <1>1, <1>2, RotationSettles DEF RegenerateRecoveryCodes
  <1>4. WebStep
    BY <1>0, <1>1, <1>2, <1>3, RotatedCookies DEF RegenerateRecoveryCodes
  <1>5. batch' \in [number : Nat, open : BOOLEAN]
    BY NewBatch DEF RegenerateRecoveryCodes
  <1>6. RequestStep(q) /\ req'[q].pc \notin AfterPCs
    BY DoneStep DEF RegenerateRecoveryCodes
  <1>7. QED  BY <1>3, <1>4, <1>5, <1>6, SettledStep DEF RegenerateRecoveryCodes

\* The other sessions are revoked.
LEMMA RevokeOtherSessionsKeeps ==
  ASSUME OwnerInv, NEW q \in Requests, RevokeOtherSessions(q)
  PROVE  OwnerInv' /\ SessionStep
  <1> USE DEF OwnerInv
  <1>0. PICK s : s = req[q].sid
    OBVIOUS
  <1>1. s \in Made
    BY <1>0, SessionOfRequest DEF RevokeOtherSessions, RequireFresh, FullAdministrator
  <1>2. Settled(session') /\ web' \subseteq web
    BY <1>0, <1>1, AloneSettles DEF RevokeOtherSessions
  <1>3. WebStep /\ batch' \in [number : Nat, open : BOOLEAN]
    BY <1>2, FewerCookies DEF RevokeOtherSessions, TypeOK
  <1>4. RequestStep(q) /\ req'[q].pc \notin AfterPCs
    BY DoneStep DEF RevokeOtherSessions
  <1>5. QED  BY <1>2, <1>3, <1>4, SettledStep DEF RevokeOtherSessions

-----------------------------------------------------------------------------
(* Sessions that open, codes that are used, devices that change.           *)

\* Session s opens, restricted or not; the others keep their restrictions.
Opened(s, x) ==
    /\ SessionStep /\ WebStep /\ preauth' \subseteq Browsers
    /\ s \in Sessions /\ session'[s].restricted = x
    /\ \A o \in Made' : o # s => o \in Made /\ session'[o].restricted = session[o].restricted

\* A session opens under a number not used before.
LEMMA EstablishStep ==
  ASSUME OwnerInv, NEW q \in Requests, NEW x \in BOOLEAN, NEW t, Settled(t), NEW rows,
         rows \subseteq web, NEW s, s = Min(Sessions \ Made), Establish(q, x, t, rows)
  PROVE  Opened(s, x)
  <1> USE DEF OwnerInv
  <1> DEFINE row == [NoSession EXCEPT !.made = TRUE, !.restricted = x]
  <1>1. s \in Sessions /\ s \notin Made
    BY NextSession DEF Establish
  <1>2. row \in SessionRow /\ row.made = TRUE /\ row.restricted = x
    BY DEF NoSession, SessionRow
  <1>3. session' = [t EXCEPT ![s] = row]
    BY DEF Establish
  <1>4. session[s] = NoSession /\ ~session[s].revoked
    BY <1>1 DEF SessionInv, Made, NoSession
  <1> HIDE DEF row
  <1>5. /\ session' \in [Sessions -> SessionRow] /\ session'[s] = row
        /\ \A o \in Sessions : o # s => session'[o] = t[o]
    BY <1>1, <1>2, <1>3 DEF Settled
  <1>6. SessionStep
    BY <1>1, <1>2, <1>4, <1>5 DEF SessionStep, Settled, Made
  <1>7. WebStep
    <2>1. \A w \in web' : w \in web \/ w = <<s, 0>>
      BY DEF Establish
    <2>2. session'[s].made
      BY <1>2, <1>5
    <2>3. PICK v : v = <<s, 0>>
      OBVIOUS
    <2>4. v \in Sessions \X Nat /\ v[1] = s
      BY <1>1, <2>3
    <2>5. QED  BY <2>1, <2>2, <2>3, <2>4 DEF WebStep, TypeOK
  <1>8. \A o \in Made' : o # s => o \in Made /\ session'[o].restricted = session[o].restricted
    BY <1>5 DEF Made, Settled
  <1>9. preauth' \subseteq Browsers
    BY DEF Establish, TypeOK
  <1>10. session'[s].restricted = x
    BY <1>2, <1>5
  <1>11. QED  BY <1>1, <1>6, <1>7, <1>8, <1>9, <1>10 DEF Opened

\* A verified code is spent on a grant and its request is done.
LEMMA CodeSpent ==
  ASSUME TypeOK, DeviceInv, CodeInv, TypeOK', LastTGrows, UNCHANGED consumed,
         NEW q \in Verified, Done(q), NEW s, NEW k,
         Grant(<<"totp", req[q].device, req[q].step>>, s, k)
  PROVE  CodeInv'
  <1>0. PICK d, n : d = req[q].device /\ n = req[q].step
    OBVIOUS
  <1>1. PICK g0 : g0 = [by |-> <<"totp", d, n>>, to |-> <<s, k>>]
    OBVIOUS
  <1>2. grants' = grants \cup {g0} /\ g0.by = <<"totp", d, n>>
    BY <1>0, <1>1 DEF Grant
  <1>3. q \in Requests /\ d \in Devices /\ n <= device[d].lastT /\ n \in Int
    BY <1>0 DEF Verified, DeviceInv, CodeInv, TypeOK, Request
  <1>4. NothingVerified /\ q \notin Verified'
    <2>1. RequestStep(q) /\ req'[q].pc = "idle"
      BY <1>3, DoneStep
    <2>2. QED  BY <2>1 DEF NothingVerified, Verified, RequestStep
  <1>5. /\ \A p \in Verified' : req'[p].step <= device'[req'[p].device].lastT
        /\ \A p, r \in Verified' :
             req'[p].device = req'[r].device /\ req'[p].step = req'[r].step => p = r
        /\ \A g \in grants : g.by[1] = "totp" =>
             /\ g.by[2] \in Devices
             /\ g.by[3] <= device'[g.by[2]].lastT
             /\ \A p \in Verified' : ~(req'[p].device = g.by[2] /\ req'[p].step = g.by[3])
        /\ \A g \in grants : g.by[1] = "code" => <<g.by[2], g.by[3]>> \in consumed'
    BY <1>4, UsedCodes
  <1>6. \A g \in grants : g.by # g0.by
    BY <1>0, <1>2 DEF CodeInv
  <1>7. /\ n <= device'[d].lastT
        /\ \A p \in Verified' : ~(req'[p].device = d /\ req'[p].step = n)
    <2>1. n <= device'[d].lastT
      BY <1>3 DEF LastTGrows, TypeOK, DeviceRow
    <2>2. ASSUME NEW p \in Verified', req'[p].device = d, req'[p].step = n PROVE FALSE
      BY <1>0, <1>4, <2>2 DEF NothingVerified, CodeInv
    <2>3. QED  BY <2>1, <2>2
  <1>8. \A g, h \in grants' : g.by = h.by => g = h
    BY <1>2, <1>6 DEF CodeInv
  <1>9. /\ g0.by[1] = "totp" /\ g0.by[2] = d /\ g0.by[3] = n
    BY <1>2
  <1>10. QED  BY <1>2, <1>3, <1>5, <1>7, <1>8, <1>9 DEF CodeInv

\* A login's code opens one session.
LEMMA EstablishTotpSessionKeeps ==
  ASSUME OwnerInv, NEW q \in Requests, EstablishTotpSession(q)
  PROVE  OwnerInv' /\ SessionStep
  <1> USE DEF OwnerInv
  <1>0. PICK s : s = Min(Sessions \ Made)
    OBVIOUS
  <1>1. Settled(session)
    BY SameIsSettled
  <1>2. /\ SessionStep /\ WebStep /\ preauth' \subseteq Browsers
        /\ s \in Sessions /\ session'[s].restricted = FALSE
        /\ \A o \in Made' : o # s => o \in Made /\ session'[o].restricted = session[o].restricted
    <2>0. PICK x \in BOOLEAN : x = FALSE
      OBVIOUS
    <2>1. PICK t, rows : t = session /\ rows = web
      OBVIOUS
    <2>2. Establish(q, x, t, rows)
      BY <2>0, <2>1 DEF EstablishTotpSession
    <2>3. Settled(t) /\ rows \subseteq web
      BY <1>1, <2>1
    <2>4. Opened(s, x)
      BY <1>0, <2>2, <2>3, EstablishStep
    <2>5. QED  BY <2>0, <2>4 DEF Opened
  <1>3. RequestStep(q)
    BY DoneStep DEF EstablishTotpSession
  <1>4. q \in Verified /\ req[q].device \in Devices /\ req[q].step \in Int
    BY DEF EstablishTotpSession, Verified, DeviceInv, TypeOK, Request
  <1>5. PICK g : /\ g = [by |-> <<"totp", req[q].device, req[q].step>>, to |-> <<s, 0>>]
                 /\ grants' = grants \cup {g}
    BY <1>0 DEF EstablishTotpSession, Grant
  <1>6. g \in GrantRow /\ g.by[1] = "totp" /\ g.to[1] = s
    <2>1. <<"totp", req[q].device, req[q].step>> \in Credential /\ <<s, 0>> \in Sessions \X Nat
      BY <1>2, <1>4 DEF Credential, Devices
    <2>2. QED  BY <1>5, <2>1 DEF GrantRow
  <1>7. TypeOK'
    BY <1>2, <1>3, <1>5, <1>6 DEF EstablishTotpSession, TypeOK, SessionStep, WebStep,
       RequestStep
  <1>8. SessionInv'
    BY <1>2, <1>3, SessionInvStep
  <1>9. DeviceInv'
    <2>1. \A p \in Requests : req'[p].pc \in Verifying \cup AfterPCs => req'[p].device \in Devices
      BY <1>3, DeviceOfRequest
    <2>2. QED  BY <2>1 DEF EstablishTotpSession, DeviceInv, Confirmed, AfterPCs, Verifying
  <1>10. CodeInv'
    <2>1. LastTGrows
      BY DEF EstablishTotpSession, LastTGrows, TypeOK, DeviceRow
    <2>2. QED  BY <1>4, <1>7, <2>1, CodeSpent DEF EstablishTotpSession
  <1>11. BackedInv'
    BY <1>2, <1>5, <1>6, BackedInvStep
  <1>12. QED  BY <1>2, <1>7, <1>8, <1>9, <1>10, <1>11

\* A recovery code is consumed and opens one restricted session.
LEMMA CompleteRecoveryKeeps ==
  ASSUME OwnerInv, NEW q \in Requests, NEW c \in (1..MaxBatches) \X (1..BatchSize), CompleteRecovery(q, c)
  PROVE  OwnerInv' /\ SessionStep
  <1> USE DEF OwnerInv
  <1>0. PICK s : s = Min(Sessions \ Made)
    OBVIOUS
  <1>1. Settled(Revoke(session, Live))
    BY RevokeSettles DEF Live
  <1>2. Opened(s, TRUE)
    <2>0. PICK x \in BOOLEAN : x = TRUE
      OBVIOUS
    <2>1. PICK t, rows :
             t = Revoke(session, Live) /\ rows = web \ {<<o, session[o].key>> : o \in Live}
      OBVIOUS
    <2>2. Establish(q, x, t, rows)
      BY <2>0, <2>1 DEF CompleteRecovery
    <2>3. Settled(t) /\ rows \subseteq web
      BY <1>1, <2>1
    <2>4. Opened(s, x)
      BY <1>0, <2>2, <2>3, EstablishStep
    <2>5. QED  BY <2>0, <2>4
  <1>3. RequestStep(q) /\ req'[q].pc = "idle" /\ req[q].pc = "recover"
    BY DoneStep DEF CompleteRecovery
  <1>4. c[1] \in Int /\ c[2] \in Int /\ c = <<c[1], c[2]>> /\ c \in Int \X Int
    OBVIOUS
  <1>5. PICK g : g = [by |-> <<"code", c[1], c[2]>>, to |-> <<s, 0>>] /\ grants' = grants \cup {g}
    BY <1>0 DEF CompleteRecovery, Grant
  <1>6. g \in GrantRow /\ g.by = <<"code", c[1], c[2]>>
    <2>1. <<"code", c[1], c[2]>> \in Credential /\ <<s, 0>> \in Sessions \X Nat
      BY <1>2, <1>4 DEF Credential, Opened
    <2>2. QED  BY <1>5, <2>1 DEF GrantRow
  <1>7. c \notin consumed /\ consumed' = consumed \cup {c}
    BY DEF CompleteRecovery, Consume
  <1>8. TypeOK'
    <2>1. consumed' \subseteq Int \X Int /\ grants' \subseteq GrantRow
      BY <1>4, <1>5, <1>6, <1>7 DEF TypeOK
    <2>2. status' \in Statuses
      BY DEF CompleteRecovery, Statuses
    <2>3. QED  BY <1>2, <1>3, <2>1, <2>2
             DEF CompleteRecovery, TypeOK, Opened, SessionStep, WebStep, RequestStep
  <1>9. SessionInv'
    BY <1>2, <1>3, SessionInvStep DEF Opened
  <1>10. DeviceInv'
    <2>1. \A p \in Requests : req'[p].pc \in Verifying \cup AfterPCs => req'[p].device \in Devices
      BY <1>3, DeviceOfRequest
    <2>2. QED  BY <2>1 DEF CompleteRecovery, DeviceInv, Confirmed, AfterPCs, Verifying
  <1>11. CodeInv'
    <2>1. LastTGrows /\ NothingVerified
      BY <1>3 DEF CompleteRecovery, LastTGrows, TypeOK, DeviceRow, NothingVerified, Verified,
         RequestStep
    <2>2. /\ \A p \in Verified' : req'[p].step <= device'[req'[p].device].lastT
          /\ \A p, r \in Verified' :
               req'[p].device = req'[r].device /\ req'[p].step = req'[r].step => p = r
          /\ \A h \in grants : h.by[1] = "totp" =>
               /\ h.by[2] \in Devices
               /\ h.by[3] <= device'[h.by[2]].lastT
               /\ \A p \in Verified' : ~(req'[p].device = h.by[2] /\ req'[p].step = h.by[3])
          /\ \A h \in grants : h.by[1] = "code" => <<h.by[2], h.by[3]>> \in consumed'
      BY <1>7, <1>8, <2>1, UsedCodes
    <2>3. g.by[1] = "code" /\ g.by[2] = c[1] /\ g.by[3] = c[2] /\ <<g.by[2], g.by[3]>> = c
      BY <1>4, <1>6
    <2>4. \A h \in grants : h.by # g.by
      <3>1. ASSUME NEW h \in grants, h.by = g.by PROVE FALSE
        <4>1. h.by[1] = "code" /\ <<h.by[2], h.by[3]>> = c
          BY <2>3, <3>1
        <4>2. QED  BY <1>7, <4>1 DEF CodeInv
      <3>2. QED  BY <3>1
    <2>5. \A h, i \in grants' : h.by = i.by => h = i
      BY <1>5, <2>4 DEF CodeInv
    <2>6. QED  BY <1>5, <1>7, <2>2, <2>3, <2>5 DEF CodeInv
  <1>12. BackedInv'
    BY <1>2, <1>5, BackedInvStep DEF Opened
  <1>13. QED  BY <1>2, <1>8, <1>9, <1>10, <1>11, <1>12 DEF Opened

\* The first authenticator is confirmed while there is none, and opens one session.
LEMMA CompleteInitialEnrollmentKeeps ==
  ASSUME OwnerInv, NEW q \in Requests, CompleteInitialEnrollment(q)
  PROVE  OwnerInv' /\ SessionStep
  <1> USE DEF OwnerInv
  <1>0. PICK s, d : s = Min(Sessions \ Made) /\ d = req[q].device
    OBVIOUS
  <1>1. Settled(session)
    BY SameIsSettled
  <1>2. Opened(s, FALSE)
    <2>0. PICK x \in BOOLEAN : x = FALSE
      OBVIOUS
    <2>1. PICK t, rows : t = session /\ rows = web
      OBVIOUS
    <2>2. Establish(q, x, t, rows)
      BY <2>0, <2>1 DEF CompleteInitialEnrollment
    <2>3. Settled(t) /\ rows \subseteq web
      BY <1>1, <2>1
    <2>4. Opened(s, x)
      BY <1>0, <2>2, <2>3, EstablishStep
    <2>5. QED  BY <2>0, <2>4
  <1>3. RequestStep(q)
    BY DoneStep DEF CompleteInitialEnrollment
  <1>4. q \in Verified /\ d \in Devices /\ req[q].step \in Int
    BY <1>0 DEF CompleteInitialEnrollment, Verified, DeviceInv, TypeOK, Request
  <1>5. PICK g : /\ g = [by |-> <<"totp", d, req[q].step>>, to |-> <<s, 0>>]
                 /\ grants' = grants \cup {g}
    BY <1>0 DEF CompleteInitialEnrollment, Grant
  <1>6. g \in GrantRow /\ g.by[1] = "totp" /\ g.to[1] = s
    <2>1. <<"totp", d, req[q].step>> \in Credential /\ <<s, 0>> \in Sessions \X Nat
      BY <1>2, <1>4 DEF Credential, Devices, Opened
    <2>2. QED  BY <1>5, <2>1 DEF GrantRow
  <1>7. /\ device' \in [Devices -> DeviceRow] /\ device'[d].state = "confirmed"
        /\ device'[d].lastT = device[d].lastT
        /\ \A e \in Devices : e # d => device'[e] = device[e]
    <2>1. device[d] \in DeviceRow
      BY <1>4 DEF TypeOK
    <2>2. device' = [device EXCEPT ![d] = [device[d] EXCEPT !.state = "confirmed"]]
      BY <1>0 DEF CompleteInitialEnrollment
    <2>3. [device[d] EXCEPT !.state = "confirmed"] \in DeviceRow
      BY <2>1 DEF DeviceRow, States
    <2>4. device'[d] = [device[d] EXCEPT !.state = "confirmed"]
      BY <1>4, <2>2 DEF TypeOK
    <2>5. QED  BY <1>4, <2>1, <2>2, <2>3, <2>4 DEF TypeOK, DeviceRow
  <1>8. batch' \in [number : Nat, open : BOOLEAN]
    BY NewBatch DEF CompleteInitialEnrollment
  <1>9. TypeOK'
    <2>1. grants' \subseteq GrantRow
      BY <1>5, <1>6 DEF TypeOK
    <2>2. status' \in Statuses
      BY DEF CompleteInitialEnrollment, Statuses
    <2>3. QED  BY <1>2, <1>3, <1>7, <1>8, <2>1, <2>2
             DEF CompleteInitialEnrollment, TypeOK, Opened, SessionStep, WebStep, RequestStep
  <1>10. SessionInv'
    BY <1>2, <1>3, SessionInvStep DEF Opened
  <1>11. DeviceInv'
    <2>1. \A p \in Requests : req'[p].pc \in Verifying \cup AfterPCs => req'[p].device \in Devices
      BY <1>3, DeviceOfRequest
    <2>2. Confirmed = {}
      BY DEF CompleteInitialEnrollment, MayCompleteInitial, DeviceInv
    <2>3. \A e \in Confirmed' : e = d
      BY <1>7, <2>2 DEF Confirmed
    <2>4. d \in Confirmed' /\ status' = "active"
      BY <1>4, <1>7 DEF Confirmed, CompleteInitialEnrollment
    <2>5. QED  BY <2>1, <2>3, <2>4 DEF DeviceInv, AfterPCs, Verifying
  <1>12. CodeInv'
    <2>1. LastTGrows
      BY <1>4, <1>7 DEF LastTGrows, TypeOK, DeviceRow
    <2>2. QED  BY <1>4, <1>9, <2>1, CodeSpent DEF CompleteInitialEnrollment
  <1>13. BackedInv'
    BY <1>2, <1>5, <1>6, BackedInvStep DEF Opened
  <1>14. QED  BY <1>2, <1>9, <1>10, <1>11, <1>12, <1>13 DEF Opened

\* What the end of a recovery leaves of the session table: the caller's session is
\* unrestricted, the others are revoked.
RecoveredTable(s) ==
    /\ s \in Live /\ session[s].restricted
    /\ session' \in [Sessions -> SessionRow]
    /\ session'[s].made /\ ~session'[s].revoked /\ ~session'[s].restricted
    /\ \A o \in Sessions : o # s =>
          /\ session'[o].made = session[o].made
          /\ session'[o].restricted = session[o].restricted
          /\ session[o].revoked => session'[o].revoked
          /\ session[o].made => session'[o].revoked
          /\ ~session[o].made => session'[o] = NoSession

LEMMA RecoveryTable ==
  ASSUME OwnerInv, NEW q \in Requests, CompleteRecoveryEnrollment(q)
  PROVE  RecoveredTable(req[q].sid)
  <1> USE DEF OwnerInv
  <1>0. PICK s : s = req[q].sid
    OBVIOUS
  <1>1. s \in Made /\ s \in Sessions
    BY <1>0, SessionOfRequest DEF CompleteRecoveryEnrollment, MayCompleteRecovery
  <1>2. session[s].restricted /\ ~session[s].revoked
    BY <1>0 DEF CompleteRecoveryEnrollment, MayCompleteRecovery
  <1>3. PICK S : S = Live \ {s}
    OBVIOUS
  <1>4. PICK t : t = Revoke(session, S)
    OBVIOUS
  <1>5. /\ t \in [Sessions -> SessionRow]
        /\ \A o \in Sessions : /\ t[o].made = session[o].made
                               /\ t[o].restricted = session[o].restricted
                               /\ session[o].revoked => t[o].revoked
                               /\ o \in S => t[o].revoked
                               /\ o \notin S => t[o] = session[o]
    BY <1>4, RevokeRows DEF TypeOK
  <1>6. PICK u : u = [t EXCEPT ![s].restricted = FALSE]
    OBVIOUS
  <1>7. [t[s] EXCEPT !.restricted = FALSE] \in SessionRow /\ t[s] \in SessionRow
    BY <1>1, <1>5 DEF SessionRow
  <1>8. /\ u \in [Sessions -> SessionRow] /\ u[s] = [t[s] EXCEPT !.restricted = FALSE]
        /\ \A o \in Sessions : o # s => u[o] = t[o]
    BY <1>1, <1>5, <1>6, <1>7
  <1>9. session' = Rotated(s, u)
    BY <1>0, <1>3, <1>4, <1>6 DEF CompleteRecoveryEnrollment
  <1>10. /\ session' \in [Sessions -> SessionRow] /\ session'[s] = [u[s] EXCEPT !.key = u[s].key + 1]
         /\ \A o \in Sessions : o # s => session'[o] = u[o]
    <2>1. /\ Rotated(s, u) \in [Sessions -> SessionRow]
          /\ Rotated(s, u)[s] = [u[s] EXCEPT !.key = u[s].key + 1]
          /\ \A o \in Sessions : o # s => Rotated(s, u)[o] = u[o]
      BY <1>1, <1>8, RotatedRow
    <2>2. QED  BY <1>9, <2>1
  <1>11. /\ session'[s].made = t[s].made /\ session'[s].revoked = t[s].revoked
         /\ session'[s].restricted = FALSE
    BY <1>7, <1>8, <1>10 DEF SessionRow
  <1>12. session'[s].made /\ ~session'[s].revoked /\ ~session'[s].restricted
    <2>1. t[s] = session[s]
      BY <1>1, <1>3, <1>5
    <2>2. session[s].made
      BY <1>1 DEF Made
    <2>3. QED  BY <1>2, <1>11, <2>1, <2>2, Zenon
  <1>13. ASSUME NEW o \in Sessions, o # s
         PROVE  /\ session'[o].made = session[o].made
                /\ session'[o].restricted = session[o].restricted
                /\ session[o].revoked => session'[o].revoked
                /\ session[o].made => session'[o].revoked
                /\ ~session[o].made => session'[o] = NoSession
    BY <1>3, <1>5, <1>8, <1>10, <1>13 DEF Live, Made, SessionInv
  <1>14. s \in Live
    BY <1>1, <1>2 DEF Live
  <1>15. RecoveredTable(s)
    BY <1>2, <1>10, <1>12, <1>13, <1>14 DEF RecoveredTable
  <1>16. QED  BY <1>0, <1>15

\* The new authenticator replaces the others, and its code frees the session that recovery opened.
LEMMA CompleteRecoveryEnrollmentKeeps ==
  ASSUME OwnerInv, NEW q \in Requests, CompleteRecoveryEnrollment(q)
  PROVE  OwnerInv' /\ SessionStep
  <1> USE DEF OwnerInv
  <1>0. PICK s, d : s = req[q].sid /\ d = req[q].device
    OBVIOUS
  <1>1. RecoveredTable(s)
    BY <1>0, RecoveryTable
  <1>2. s \in Sessions /\ s \in Made /\ session[s].key + 1 \in Nat
    BY <1>1 DEF RecoveredTable, Live, Made, TypeOK, SessionRow
  <1>3. SessionStep
    BY <1>1, <1>2 DEF RecoveredTable, SessionStep, Live, Made
  <1>4. RequestStep(q)
    BY DoneStep DEF CompleteRecoveryEnrollment
  <1>5. WebStep
    <2>1. \A w \in web' : w \in web \/ w = <<s, session[s].key + 1>>
      BY <1>0 DEF CompleteRecoveryEnrollment, RotatedRows
    <2>2. PICK v : v = <<s, session[s].key + 1>>
      OBVIOUS
    <2>3. v \in Sessions \X Nat /\ v[1] = s /\ session'[s].made
      BY <1>1, <1>2, <2>2 DEF RecoveredTable
    <2>4. QED  BY <2>1, <2>2, <2>3 DEF WebStep, TypeOK
  <1>6. q \in Verified /\ d \in Devices /\ req[q].step \in Int
    BY <1>0 DEF CompleteRecoveryEnrollment, Verified, DeviceInv, TypeOK, Request
  <1>7. PICK g : /\ g = [by |-> <<"totp", d, req[q].step>>, to |-> <<s, session[s].key + 1>>]
                 /\ grants' = grants \cup {g}
    BY <1>0 DEF CompleteRecoveryEnrollment, Grant
  <1>8. g \in GrantRow /\ g.by[1] = "totp" /\ g.to[1] = s
    <2>1. <<"totp", d, req[q].step>> \in Credential /\ <<s, session[s].key + 1>> \in Sessions \X Nat
      BY <1>2, <1>6 DEF Credential, Devices
    <2>2. QED  BY <1>7, <2>1 DEF GrantRow
  <1>9. /\ device' \in [Devices -> DeviceRow]
        /\ \A e \in Devices : /\ device'[e].lastT = device[e].lastT
                              /\ device'[e].state = "confirmed" <=> e = d
    <2>1. device' = [e \in Devices |-> IF e = d THEN [device[e] EXCEPT !.state = "confirmed"]
                       ELSE IF e \in Confirmed THEN [device[e] EXCEPT !.state = "disabled"]
                       ELSE device[e]]
      BY <1>0 DEF CompleteRecoveryEnrollment
    <2>2. ASSUME NEW e \in Devices
          PROVE  /\ device'[e] \in DeviceRow /\ device'[e].lastT = device[e].lastT
                 /\ device'[e].state = "confirmed" <=> e = d
      <3>1. device[e] \in DeviceRow
        BY DEF TypeOK
      <3>2. CASE e = d
        <4>1. device'[e] = [device[e] EXCEPT !.state = "confirmed"]
          BY <2>1, <3>2
        <4>2. QED  BY <3>1, <3>2, <4>1 DEF DeviceRow, States
      <3>3. CASE e # d /\ e \in Confirmed
        <4>1. device'[e] = [device[e] EXCEPT !.state = "disabled"]
          BY <2>1, <3>3
        <4>2. QED  BY <3>1, <3>3, <4>1 DEF DeviceRow, States
      <3>4. CASE e # d /\ e \notin Confirmed
        BY <2>1, <3>1, <3>4 DEF Confirmed
      <3>5. QED  BY <3>2, <3>3, <3>4
    <2>3. device' = [e \in Devices |-> device'[e]]
      BY <2>1
    <2>4. QED  BY <2>2, <2>3
  <1>10. batch' \in [number : Nat, open : BOOLEAN]
    BY NewBatch DEF CompleteRecoveryEnrollment
  <1>11. TypeOK'
    <2>1. grants' \subseteq GrantRow
      BY <1>7, <1>8 DEF TypeOK
    <2>2. status' \in Statuses
      BY DEF CompleteRecoveryEnrollment, Statuses
    <2>3. QED  BY <1>3, <1>4, <1>5, <1>9, <1>10, <2>1, <2>2
             DEF CompleteRecoveryEnrollment, TypeOK, SessionStep, WebStep, RequestStep
  <1>12. SessionInv'
    BY <1>3, <1>4, <1>5, SessionInvStep
  <1>13. DeviceInv'
    <2>1. \A p \in Requests : req'[p].pc \in Verifying \cup AfterPCs => req'[p].device \in Devices
      BY <1>4, DeviceOfRequest
    <2>2. Confirmed' = {d}
      BY <1>6, <1>9 DEF Confirmed
    <2>3. status' = "active"
      BY DEF CompleteRecoveryEnrollment
    <2>4. QED  BY <2>1, <2>2, <2>3 DEF DeviceInv, AfterPCs, Verifying
  <1>14. CodeInv'
    <2>1. LastTGrows
      BY <1>9 DEF LastTGrows, TypeOK, DeviceRow
    <2>2. PICK k : k = session[s].key + 1
      OBVIOUS
    <2>3. Grant(<<"totp", req[q].device, req[q].step>>, s, k)
      BY <1>0, <2>2 DEF CompleteRecoveryEnrollment
    <2>4. QED  BY <1>6, <1>11, <2>1, <2>3, CodeSpent DEF CompleteRecoveryEnrollment
  <1>15. BackedInv'
    <2>1. \A o \in Made' : \/ session'[o].restricted
                           \/ o \in Made /\ ~session[o].restricted
                           \/ o = s
      BY <1>1 DEF RecoveredTable, Made
    <2>2. QED  BY <1>7, <1>8, <2>1, BackedInvStep
  <1>16. QED  BY <1>3, <1>11, <1>12, <1>13, <1>14, <1>15

\* A fresh verification saves one column of its copy, and spends its code on the session's new key.
LEMMA RotateFreshKeeps ==
  ASSUME OwnerInv, NEW q \in Requests, RotateFresh(q)
  PROVE  OwnerInv' /\ SessionStep
  <1> USE DEF OwnerInv
  <1>0. PICK s : s = req[q].sid
    OBVIOUS
  <1>1. s \in Made /\ s \in Sessions /\ req[q].copy \in SessionRow /\ session[s].key + 1 \in Nat
    BY <1>0, SessionOfRequest DEF RotateFresh, TypeOK, SessionRow
  <1>2. PICK t : t = Rotated(s, session)
    OBVIOUS
  <1>3. Settled(t)
    BY <1>1, <1>2, SameIsSettled, RotationSettles
  <1>4. PICK copy : copy = [req[q].copy EXCEPT !.fresh = TRUE, !.key = req[q].copy.key + 1]
    OBVIOUS
  <1>5. copy \in SessionRow /\ t[s] \in SessionRow
    <2>1. PICK r, n : r \in SessionRow /\ r = req[q].copy /\ n = req[q].copy.key + 1
      BY <1>1
    <2>2. n \in Nat /\ copy = [r EXCEPT !.fresh = TRUE, !.key = n]
      BY <1>4, <2>1 DEF SessionRow
    <2>3. copy \in SessionRow
      BY <2>1, <2>2 DEF SessionRow
    <2>4. QED  BY <1>1, <1>3, <2>3 DEF Settled
  <1>6. PICK F, row : F = {"fresh"} /\ row = Save(t[s], copy, F)
    OBVIOUS
  <1>7. /\ row \in SessionRow /\ row.made = t[s].made
        /\ row.revoked = t[s].revoked /\ row.restricted = t[s].restricted
    <2>1. "made" \notin F /\ "revoked" \notin F /\ "restricted" \notin F
      BY <1>6
    <2>2. PICK old \in SessionRow : old = t[s]
      BY <1>5
    <2>3. /\ Save(old, copy, F) \in SessionRow /\ Save(old, copy, F).made = old.made
          /\ Save(old, copy, F).revoked = old.revoked
          /\ Save(old, copy, F).restricted = old.restricted
      BY <1>5, <2>1, SavedRow
    <2>4. QED  BY <1>6, <2>2, <2>3
  <1>8. session' = [t EXCEPT ![s] = row]
    BY <1>0, <1>2, <1>4, <1>6 DEF RotateFresh
  <1>9. Settled(session')
    <2>1. /\ session' \in [Sessions -> SessionRow] /\ session'[s] = row
          /\ \A o \in Sessions : o # s => session'[o] = t[o]
      BY <1>1, <1>3, <1>7, <1>8 DEF Settled
    <2>2. session[s].made
      BY <1>1 DEF Made
    <2>3. QED  BY <1>1, <1>3, <1>7, <2>1, <2>2 DEF Settled
  <1>10. SessionStep
    BY <1>9, SettledIsStep
  <1>11. WebStep
    BY <1>0, <1>1, <1>9, RotatedCookies DEF RotateFresh
  <1>12. RequestStep(q)
    BY DoneStep DEF RotateFresh
  <1>13. q \in Verified /\ req[q].device \in Devices /\ req[q].step \in Int
    BY DEF RotateFresh, Verified, DeviceInv, TypeOK, Request
  <1>14. PICK g, k : /\ k = session[s].key + 1
                     /\ g = [by |-> <<"totp", req[q].device, req[q].step>>, to |-> <<s, k>>]
    OBVIOUS
  <1>15. /\ grants' = grants \cup {g} /\ Grant(<<"totp", req[q].device, req[q].step>>, s, k)
    BY <1>0, <1>14 DEF RotateFresh, Grant
  <1>16. g \in GrantRow
    <2>1. <<"totp", req[q].device, req[q].step>> \in Credential /\ <<s, k>> \in Sessions \X Nat
      BY <1>1, <1>13, <1>14 DEF Credential, Devices
    <2>2. QED  BY <1>14, <2>1 DEF GrantRow
  <1>17. TypeOK'
    BY <1>10, <1>11, <1>12, <1>15, <1>16 DEF RotateFresh, TypeOK, SessionStep, WebStep,
       RequestStep
  <1>18. SessionInv'
    BY <1>10, <1>11, <1>12, SessionInvStep
  <1>19. DeviceInv'
    <2>1. \A p \in Requests : req'[p].pc \in Verifying \cup AfterPCs => req'[p].device \in Devices
      BY <1>12, DeviceOfRequest
    <2>2. QED  BY <2>1 DEF RotateFresh, DeviceInv, Confirmed, AfterPCs, Verifying
  <1>20. CodeInv'
    <2>1. LastTGrows
      BY DEF RotateFresh, LastTGrows, TypeOK, DeviceRow
    <2>2. QED  BY <1>13, <1>15, <1>17, <2>1, CodeSpent DEF RotateFresh
  <1>21. BackedInv'
    <2>1. \A o \in Made' : session'[o].restricted \/ (o \in Made /\ ~session[o].restricted)
      BY <1>9 DEF Settled, Made
    <2>2. QED  BY <1>15, <2>1, BackedInvStep
  <1>22. QED  BY <1>10, <1>17, <1>18, <1>19, <1>20, <1>21

\* A step that changes states of devices and verifies nothing.
LEMMA DevicesStep ==
  ASSUME OwnerInv, UNCHANGED <<now, consumed, preauth, grants>>, status' \in Statuses,
         batch' \in [number : Nat, open : BOOLEAN],
         device' \in [Devices -> DeviceRow], \A e \in Devices : device'[e].lastT = device[e].lastT,
         \A d, e \in Confirmed' : d = e, status' = "active" => Confirmed' # {},
         status' \in {"none", "enrollment_required"} => Confirmed' = {},
         Settled(session'), WebStep,
         \/ UNCHANGED req
         \/ \E q \in Requests : RequestStep(q) /\ req'[q].pc \notin AfterPCs
  PROVE  OwnerInv' /\ SessionStep
  <1> USE DEF OwnerInv
  <1>1. SessionStep
    BY SettledIsStep
  <1>2. TypeOK'
    BY <1>1 DEF TypeOK, SessionStep, WebStep, RequestStep
  <1>3. SessionInv'
    BY <1>1, SessionInvStep
  <1>4. DeviceInv'
    <2>1. \A p \in Requests : req'[p].pc \in Verifying \cup AfterPCs => req'[p].device \in Devices
      BY DeviceOfRequest
    <2>2. QED  BY <2>1 DEF DeviceInv, AfterPCs, Verifying
  <1>5. NothingVerified
    BY DEF NothingVerified, Verified, RequestStep, AfterPCs
  <1>6. LastTGrows
    BY DEF LastTGrows, TypeOK, DeviceRow
  <1>7. CodeInv'
    BY <1>2, <1>5, <1>6, CodeInvQuiet
  <1>8. BackedInv'
    <2>1. \A s \in Made' : session'[s].restricted \/ (s \in Made /\ ~session[s].restricted)
      BY DEF Settled, Made
    <2>2. QED  BY <2>1, BackedInvStep
  <1>9. QED  BY <1>1, <1>2, <1>3, <1>4, <1>7, <1>8

\* The profile begins without an authenticator.
LEMMA BootstrapOwnerKeeps ==
  ASSUME OwnerInv, BootstrapOwner
  PROVE  OwnerInv' /\ SessionStep
  <1> USE DEF OwnerInv
  <1>1. status = "none" /\ status' = "enrollment_required" /\ status' \in Statuses
    BY DEF BootstrapOwner, Statuses
  <1>2. Settled(session')
    BY SameIsSettled DEF BootstrapOwner
  <1>3. WebStep
    BY FewerCookies DEF BootstrapOwner
  <1>4. Confirmed = {} /\ Confirmed' = Confirmed
    BY <1>1 DEF BootstrapOwner, DeviceInv, Confirmed
  <1>5. /\ batch' \in [number : Nat, open : BOOLEAN] /\ device' \in [Devices -> DeviceRow]
        /\ \A e \in Devices : device'[e].lastT = device[e].lastT
    BY DEF BootstrapOwner, TypeOK
  <1>6. QED  BY <1>1, <1>2, <1>3, <1>4, <1>5, DevicesStep DEF BootstrapOwner

\* Devices in a set are disabled.
LEMMA DisabledDevices ==
  ASSUME TypeOK, NEW S, device' = [d \in Devices |-> IF d \in S THEN [device[d] EXCEPT !.state = "disabled"]
                                                               ELSE device[d]]
  PROVE  /\ device' \in [Devices -> DeviceRow]
         /\ \A d \in Devices : device'[d].lastT = device[d].lastT
         /\ Confirmed' = Confirmed \ S
  <1>1. ASSUME NEW d \in Devices
        PROVE  /\ device'[d] \in DeviceRow /\ device'[d].lastT = device[d].lastT
               /\ d \in S => device'[d].state = "disabled"
               /\ d \notin S => device'[d] = device[d]
    <2>1. device[d] \in DeviceRow
      BY DEF TypeOK
    <2>2. CASE d \in S
      <3>1. device'[d] = [device[d] EXCEPT !.state = "disabled"]
        BY <2>2
      <3>2. QED  BY <2>1, <2>2, <3>1 DEF DeviceRow, States
    <2>3. CASE d \notin S
      BY <2>1, <2>3
    <2>4. QED  BY <2>2, <2>3
  <1>2. device' = [d \in Devices |-> device'[d]]
    OBVIOUS
  <1>3. device' \in [Devices -> DeviceRow]
    BY <1>1, <1>2
  <1>4. Confirmed' = Confirmed \ S
    BY <1>1 DEF Confirmed
  <1>5. QED  BY <1>1, <1>3, <1>4

\* The reset leaves no authenticator and no live session.
LEMMA ResetOwnerMfaKeeps ==
  ASSUME OwnerInv, ResetOwnerMfa
  PROVE  OwnerInv' /\ SessionStep
  <1> USE DEF OwnerInv
  <1> DEFINE S == {d \in Devices : device[d].state \in {"pending", "confirmed"}}
  <1>1. status' = "enrollment_required" /\ status' \in Statuses
    BY DEF ResetOwnerMfa, Statuses
  <1>2. Settled(session')
    BY RevokeSettles DEF ResetOwnerMfa, Live
  <1>3. WebStep
    BY FewerCookies DEF ResetOwnerMfa
  <1>4. device' = [d \in Devices |-> IF d \in S THEN [device[d] EXCEPT !.state = "disabled"] ELSE device[d]]
    BY DEF ResetOwnerMfa
  <1>5. Confirmed \subseteq S
    BY DEF Confirmed
  <1> HIDE DEF S
  <1>6. /\ device' \in [Devices -> DeviceRow]
        /\ \A d \in Devices : device'[d].lastT = device[d].lastT
        /\ Confirmed' = Confirmed \ S
    BY <1>4, DisabledDevices
  <1>7. Confirmed' = {}
    BY <1>5, <1>6
  <1>8. batch' \in [number : Nat, open : BOOLEAN]
    BY DEF ResetOwnerMfa, TypeOK
  <1>9. QED  BY <1>1, <1>2, <1>3, <1>6, <1>7, <1>8, DevicesStep DEF ResetOwnerMfa

\* A new enrolment disables pending devices, confirmed ones stay.
LEMMA BeginTotpEnrollmentKeeps ==
  ASSUME OwnerInv, NEW q \in Requests, NEW b \in Browsers, BeginTotpEnrollment(q, b)
  PROVE  OwnerInv' /\ SessionStep
  <1> USE DEF OwnerInv
  <1>1. Settled(session')
    BY SameIsSettled DEF BeginTotpEnrollment
  <1>2. WebStep
    BY FewerCookies DEF BeginTotpEnrollment
  <1>3. PICK S : S = Pending
    OBVIOUS
  <1>4. /\ device' \in [Devices -> DeviceRow]
        /\ \A d \in Devices : device'[d].lastT = device[d].lastT
        /\ Confirmed' = Confirmed \ S
    BY <1>3, DisabledDevices DEF BeginTotpEnrollment
  <1>5. Confirmed' = Confirmed
    BY <1>3, <1>4 DEF Confirmed, Pending
  <1>6. RequestStep(q) /\ req'[q].pc \notin AfterPCs
    BY EnrolStep DEF BeginTotpEnrollment
  <1>7. /\ batch' \in [number : Nat, open : BOOLEAN] /\ status' \in Statuses
        /\ \A d, e \in Confirmed : d = e
        /\ status' = "active" => Confirmed # {}
        /\ status' \in {"none", "enrollment_required"} => Confirmed = {}
    BY DEF BeginTotpEnrollment, TypeOK, DeviceInv
  <1>8. QED  BY <1>1, <1>2, <1>4, <1>5, <1>6, <1>7, DevicesStep DEF BeginTotpEnrollment

\* A new device is pending.
LEMMA CreateTotpDeviceKeeps ==
  ASSUME OwnerInv, NEW q \in Requests, CreateTotpDevice(q)
  PROVE  OwnerInv' /\ SessionStep
  <1> USE DEF OwnerInv
  <1>1. Settled(session')
    BY SameIsSettled DEF CreateTotpDevice
  <1>2. WebStep
    BY FewerCookies DEF CreateTotpDevice
  <1>3. PICK new, n : new = {d \in Devices : device[d].state = "none"} /\ n = Min(new)
    OBVIOUS
  <1>4. new \subseteq Nat /\ new # {}
    BY <1>3, IdentityBounds DEF Devices, CreateTotpDevice
  <1>5. n \in Devices /\ device[n].state = "none" /\ device[n] \in DeviceRow
    BY <1>3, <1>4, MinIsMember DEF TypeOK
  <1>6. device' = [device EXCEPT ![n] = [device[n] EXCEPT !.state = "pending"]]
    BY <1>3 DEF CreateTotpDevice
  <1>7. [device[n] EXCEPT !.state = "pending"] \in DeviceRow
    BY <1>5 DEF DeviceRow, States
  <1>8. /\ device' \in [Devices -> DeviceRow] /\ device'[n] = [device[n] EXCEPT !.state = "pending"]
        /\ \A e \in Devices : e # n => device'[e] = device[e]
    BY <1>5, <1>6, <1>7 DEF TypeOK
  <1>9. device'[n].lastT = device[n].lastT /\ device'[n].state = "pending"
    BY <1>5, <1>8 DEF DeviceRow
  <1>10. Confirmed' = Confirmed /\ \A e \in Devices : device'[e].lastT = device[e].lastT
    BY <1>5, <1>8, <1>9 DEF Confirmed
  <1>11. RequestStep(q) /\ req'[q].pc \notin AfterPCs
    BY DoneStep DEF CreateTotpDevice
  <1>12. /\ batch' \in [number : Nat, open : BOOLEAN] /\ status' \in Statuses
         /\ \A d, e \in Confirmed : d = e
         /\ status' = "active" => Confirmed # {}
         /\ status' \in {"none", "enrollment_required"} => Confirmed = {}
    BY DEF CreateTotpDevice, TypeOK, DeviceInv
  <1>13. QED  BY <1>1, <1>2, <1>8, <1>10, <1>11, <1>12, DevicesStep DEF CreateTotpDevice

\* A code is verified only above the last step, which it becomes: no other request and no grant has it.
LEMMA VerifyTotpKeeps ==
  ASSUME OwnerInv, NEW q \in Requests, NEW k \in 0..MaxTime, VerifyTotp(q, k)
  PROVE  OwnerInv' /\ SessionStep
  <1> USE DEF OwnerInv
  <1>0. PICK d : d = req[q].device
    OBVIOUS
  <1>1. d \in Devices /\ device[d] \in DeviceRow /\ req[q] \in Request
    BY <1>0 DEF VerifyTotp, DeviceInv, TypeOK
  <1>2. k \in Int /\ k > device[d].lastT /\ k - now \in Int
    BY <1>0, <1>1, IdentityBounds DEF VerifyTotp, CodeMatches, DeviceRow, TypeOK
  <1>3. device' = [device EXCEPT ![d] = [device[d] EXCEPT !.lastT = k, !.drift = k - now]]
    BY <1>0 DEF VerifyTotp
  <1>4. [device[d] EXCEPT !.lastT = k, !.drift = k - now] \in DeviceRow
    BY <1>1, <1>2 DEF DeviceRow
  <1>5. /\ device' \in [Devices -> DeviceRow]
        /\ device'[d] = [device[d] EXCEPT !.lastT = k, !.drift = k - now]
        /\ \A e \in Devices : e # d => device'[e] = device[e]
    BY <1>1, <1>3, <1>4 DEF TypeOK
  <1>6. device'[d].lastT = k /\ device'[d].state = device[d].state
    BY <1>1, <1>5 DEF DeviceRow
  <1>7. LastTGrows
    <2>1. \A e \in Devices : device[e].lastT \in Int
      BY DEF TypeOK, DeviceRow
    <2>2. device[d].lastT <= device'[d].lastT
      BY <1>1, <1>2, <1>6, <2>1
    <2>3. \A e \in Devices : e # d => device[e].lastT <= device'[e].lastT
      BY <1>5, <2>1
    <2>4. QED  BY <2>2, <2>3 DEF LastTGrows
  <1>8. PICK pc, r : /\ pc = AfterVerify(req[q].pc)
                     /\ r = [req[q] EXCEPT !.pc = pc, !.step = k]
    OBVIOUS
  <1>9. pc \in AfterPCs /\ (pc = "rotate" => req[q].pc = "verifyFresh")
    BY <1>8 DEF VerifyTotp, Verifying, AfterVerify, AfterPCs
  <1>10. /\ r \in Request /\ r.pc = pc /\ r.step = k /\ r.sid = req[q].sid
         /\ r.copy = req[q].copy /\ r.device = d
    BY <1>0, <1>1, <1>2, <1>8, <1>9 DEF Request, PCs, AfterPCs
  <1>11. req' = [req EXCEPT ![q] = r] /\ session' = session
    BY <1>8 DEF VerifyTotp
  <1>12. Fits(r)
    BY <1>1, <1>9, <1>10, <1>11 DEF Fits, AfterPCs, Verifying, SessionInv, Made
  <1>13. RequestStep(q) /\ req'[q] = r
    BY <1>11, <1>12, RequestMoves
  <1>14. Settled(session') /\ WebStep
    BY SameIsSettled, FewerCookies DEF VerifyTotp
  <1>15. SessionStep
    BY <1>14, SettledIsStep
  <1>16. TypeOK'
    BY <1>5, <1>13, <1>15 DEF VerifyTotp, TypeOK, SessionStep, RequestStep
  <1>17. SessionInv'
    BY <1>13, <1>14, <1>15, SessionInvStep
  <1>18. DeviceInv'
    <2>1. \A p \in Requests : req'[p].pc \in Verifying \cup AfterPCs => req'[p].device \in Devices
      BY <1>13, DeviceOfRequest
    <2>2. Confirmed' = Confirmed /\ status' = status
      BY <1>1, <1>5, <1>6 DEF Confirmed, VerifyTotp
    <2>3. QED  BY <2>1, <2>2 DEF DeviceInv, AfterPCs, Verifying
  <1>19. CodeInv'
    <2>1. \A p \in Verified' : p # q => p \in Verified /\ req'[p] = req[p]
      BY <1>13 DEF Verified, RequestStep
    <2>2. \A p \in Verified : req[p].device \in Devices /\ req[p].step \in Int
      BY DEF Verified, DeviceInv, TypeOK, Request
    <2>3. \A e \in Devices : device[e].lastT \in Int /\ device'[e].lastT \in Int
      BY <1>5 DEF TypeOK, DeviceRow
    <2>4. ASSUME NEW p \in Verified' PROVE req'[p].step <= device'[req'[p].device].lastT
      <3>1. CASE p = q
        BY <1>2, <1>6, <1>10, <1>13, <3>1
      <3>2. CASE p # q
        BY <1>7, <2>1, <2>2, <2>3, <3>2 DEF CodeInv, LastTGrows
      <3>3. QED  BY <3>1, <3>2
    <2>5. \A p \in Verified : ~(req[p].device = d /\ req[p].step = k)
      BY <1>1, <1>2, <2>2, <2>3 DEF CodeInv
    <2>6. \A p, o \in Verified' :
             req'[p].device = req'[o].device /\ req'[p].step = req'[o].step => p = o
      BY <1>10, <1>13, <2>1, <2>5 DEF CodeInv
    <2>7. ASSUME NEW g \in grants, g.by[1] = "totp"
          PROVE  /\ g.by[2] \in Devices
                 /\ g.by[3] <= device'[g.by[2]].lastT
                 /\ \A p \in Verified' : ~(req'[p].device = g.by[2] /\ req'[p].step = g.by[3])
      <3>1. g.by[2] \in Devices /\ g.by[3] <= device[g.by[2]].lastT
        BY <2>7 DEF CodeInv
      <3>2. g.by[3] \in Int
        BY DEF TypeOK, GrantRow, Credential
      <3>3. g.by[3] <= device'[g.by[2]].lastT
        BY <1>7, <2>3, <3>1, <3>2 DEF LastTGrows
      <3>4. ~(d = g.by[2] /\ k = g.by[3])
        BY <1>2, <2>3, <3>1, <3>2
      <3>5. QED  BY <1>10, <1>13, <2>1, <2>7, <3>1, <3>3, <3>4 DEF CodeInv
    <2>8. /\ grants' = grants /\ consumed' = consumed
      BY DEF VerifyTotp
    <2>9. QED  BY <2>4, <2>6, <2>7, <2>8 DEF CodeInv
  <1>20. BackedInv'
    <2>1. \A s \in Made' : session'[s].restricted \/ (s \in Made /\ ~session[s].restricted)
      BY <1>14 DEF Settled, Made
    <2>2. grants' = grants
      BY DEF VerifyTotp
    <2>3. QED  BY <2>1, <2>2, BackedInvStep
  <1>21. QED  BY <1>15, <1>16, <1>17, <1>18, <1>19, <1>20

-----------------------------------------------------------------------------
(* The invariant, and what it gives.                                       *)

\* Before the bootstrap there is nothing.
LEMMA OwnerInit == Init => OwnerInv
  <1> SUFFICES ASSUME Init PROVE OwnerInv
    OBVIOUS
  <1>1. /\ \A d \in Devices : device[d] = NoDevice
        /\ \A s \in Sessions : session[s] = NoSession
        /\ \A q \in Requests : req[q] = IdleRequest
    BY DEF Init
  <1>2. NoSession \in SessionRow /\ ~NoSession.made /\ ~NoSession.restricted
    BY DEF NoSession, SessionRow
  <1>3. NoDevice \in DeviceRow /\ NoDevice.state = "none"
    BY DEF NoDevice, DeviceRow, States
  <1>4. IdleRequest \in Request
    BY IdleFits DEF Fits
  <1>5. IdleRequest.pc = "idle" /\ IdleRequest.sid = 0 /\ IdleRequest.copy = NoSession
    BY DEF IdleRequest
  <1>6. TypeOK
    <2>1. device \in [Devices -> DeviceRow] /\ session \in [Sessions -> SessionRow]
      BY <1>2, <1>3 DEF Init
    <2>2. req \in [Requests -> Request]
      BY <1>4 DEF Init
    <2>3. batch \in [number : Nat, open : BOOLEAN] /\ status \in Statuses
      BY DEF Init, Statuses
    <2>4. QED  BY <2>1, <2>2, <2>3 DEF Init, TypeOK
  <1>7. Made = {} /\ Confirmed = {} /\ Verified = {}
    BY <1>1, <1>2, <1>3, <1>5 DEF Made, Confirmed, Verified
  <1>8. SessionInv
    BY <1>1, <1>2, <1>5 DEF Init, SessionInv
  <1>9. DeviceInv
    BY <1>1, <1>5, <1>7 DEF Init, DeviceInv, Verifying
  <1>10. CodeInv /\ BackedInv
    BY <1>7 DEF Init, CodeInv, BackedInv
  <1>11. QED  BY <1>6, <1>8, <1>9, <1>10 DEF OwnerInv

\* Every step keeps the invariant, and never unrevokes a session.
LEMMA OwnerNext ==
  ASSUME OwnerInv, [Next]_vars
  PROVE  OwnerInv' /\ SessionStep
  <1>1. CASE BootstrapOwner \/ ResetOwnerMfa \/ Tick
    BY <1>1, BootstrapOwnerKeeps, ResetOwnerMfaKeeps, TickKeeps
  <1>2. ASSUME NEW E \in SUBSET Sessions, PurgeSessions(E) PROVE OwnerInv' /\ SessionStep
    BY <1>2, PurgeSessionsKeeps
  <1>3. ASSUME NEW b \in Browsers, LogoutPreauth(b) PROVE OwnerInv' /\ SessionStep
    BY <1>3, LogoutPreauthKeeps
  <1>4. ASSUME NEW q \in Requests, NEW k \in 0..MaxTime, VerifyTotp(q, k)
        PROVE  OwnerInv' /\ SessionStep
    BY <1>4, VerifyTotpKeeps
  <1>5. ASSUME NEW q \in Requests, NEW r \in web, Admit(q, r[1], r[2]) \/ Invalidate(q, r[1], r[2])
        PROVE  OwnerInv' /\ SessionStep
    BY <1>5, AdmitKeeps, InvalidateKeeps
  <1>6. ASSUME NEW q \in Requests, NEW b \in Browsers,
               \/ PasswordChallenge(q, b) \/ TotpChallenge(q, b) \/ RecoveryChallenge(q, b)
               \/ BeginTotpEnrollment(q, b)
               \/ \E d \in Devices : ConfirmTotpEnrollment(q, b, d)
        PROVE  OwnerInv' /\ SessionStep
    BY <1>6, PasswordChallengeKeeps, TotpChallengeKeeps, RecoveryChallengeKeeps,
       BeginTotpEnrollmentKeeps, ConfirmTotpEnrollmentKeeps
  <1>7. ASSUME NEW q \in Requests, NEW c \in (1..MaxBatches) \X (1..BatchSize), CompleteRecovery(q, c)
        PROVE  OwnerInv' /\ SessionStep
    BY <1>7, CompleteRecoveryKeeps
  <1>8. ASSUME NEW q \in Requests,
               \/ RefuseTotp(q) \/ RecordActivity(q) \/ EstablishTotpSession(q) \/ FailRecovery(q)
               \/ Logout(q) \/ CreateTotpDevice(q) \/ CompleteInitialEnrollment(q)
               \/ CompleteRecoveryEnrollment(q) \/ FailEnrollment(q)
        PROVE  OwnerInv' /\ SessionStep
    BY <1>8, RefuseTotpKeeps, RecordActivityKeeps, EstablishTotpSessionKeeps, FailRecoveryKeeps,
       LogoutKeeps, CreateTotpDeviceKeeps, CompleteInitialEnrollmentKeeps,
       CompleteRecoveryEnrollmentKeeps, FailEnrollmentKeeps
  <1>9. ASSUME NEW q \in Requests,
               \/ Reauthenticate(q) \/ RotateFresh(q) \/ ChangePassword(q)
               \/ RegenerateRecoveryCodes(q) \/ RevokeOtherSessions(q) \/ Answer(q)
               \/ \E t \in Sessions : RevokeSession(q, t)
        PROVE  OwnerInv' /\ SessionStep
    BY <1>9, ReauthenticateKeeps, RotateFreshKeeps, ChangePasswordKeeps,
       RegenerateRecoveryCodesKeeps, RevokeOtherSessionsKeeps, AnswerKeeps, RevokeSessionKeeps
  <1>10. CASE UNCHANGED vars
    <2>1. Settled(session') /\ WebStep
      BY <1>10, SameIsSettled, FewerCookies DEF vars, OwnerInv
    <2>2. preauth' \subseteq Browsers /\ batch' \in [number : Nat, open : BOOLEAN] /\ now' \in Int
      BY <1>10 DEF vars, OwnerInv, TypeOK
    <2>3. UNCHANGED <<status, device, consumed, grants>> /\ UNCHANGED req
      BY <1>10 DEF vars
    <2>4. QED  BY <2>1, <2>2, <2>3, OrdinaryStep
  <1>11. QED  BY <1>1, <1>2, <1>3, <1>4, <1>5, <1>6, <1>7, <1>8, <1>9, <1>10 DEF Next

\* The inductive invariant holds for any number of requests, browsers, sessions,
\* authenticators and recovery batches.
THEOREM OwnerInvariant == Spec => []OwnerInv
  BY OwnerInit, OwnerNext, PTL DEF Spec

\* Profile, devices, sessions, cookies and requests keep their types.
THEOREM OwnerTypeCorrect == Spec => []TypeOK
  <1>1. OwnerInv => TypeOK
    BY DEF OwnerInv
  <1>2. QED  BY <1>1, OwnerInvariant, PTL

\* A TOTP code or a recovery code opens or refreshes at most one session, in any
\* order of the requests that hold it (_verify_totp_transaction, consume_recovery_code).
THEOREM CredentialGrantsOnce == Spec => []OneGrantPerCredential
  <1>1. OwnerInv => OneGrantPerCredential
    BY DEF OwnerInv, CodeInv, BackedInv, OneGrantPerCredential
  <1>2. QED  BY <1>1, OwnerInvariant, PTL

\* However enrolments, resets and recoveries overlap, an active owner has exactly
\* one confirmed authenticator, and an owner who must enrol has none.
THEOREM ExactlyOneAuthenticator == Spec => []OneAuthenticator
  <1>1. ASSUME OwnerInv PROVE OneAuthenticator
    <2>1. Cardinality(Confirmed) <= 1
      <3>1. CASE Confirmed = {}
        BY <3>1, FS_EmptySet
      <3>2. CASE Confirmed # {}
        <4>1. PICK d : Confirmed = {d}
          BY <1>1, <3>2 DEF OwnerInv, DeviceInv
        <4>2. QED  BY <4>1, FS_Singleton
      <3>3. QED  BY <3>1, <3>2
    <2>2. QED  BY <1>1, <2>1 DEF OwnerInv, DeviceInv, OneAuthenticator
  <1>2. QED  BY <1>1, OwnerInvariant, PTL

\* A revoked session stays revoked, although requests save copies of its row that
\* they loaded before the revocation (Model.save with update_fields).
THEOREM RevokedStaysRevoked == Spec => RevokedForGood
  <1> DEFINE Kept == \A s \in Sessions : session[s].revoked => session'[s].revoked
  <1>1. OwnerInv /\ [Next]_vars => [Kept]_vars
    BY OwnerNext DEF SessionStep
  <1>2. QED  BY <1>1, OwnerInvariant, PTL DEF Spec, RevokedForGood

\* Only the end of a recovery makes a profile in recovery active.
LEMMA ActiveAgain ==
  ASSUME OwnerInv, [Next]_vars, status = "recovery_required", status' = "active"
  PROVE  \E q \in Requests : CompleteRecoveryEnrollment(q)
  <1>1. ~(BootstrapOwner \/ ResetOwnerMfa \/ Tick)
    BY DEF BootstrapOwner, ResetOwnerMfa, Tick
  <1>2. ~(\E E \in SUBSET Sessions : PurgeSessions(E)) /\ ~(\E b \in Browsers : LogoutPreauth(b))
    BY DEF PurgeSessions, LogoutPreauth
  <1>3. \A q \in Requests :
          /\ \A k \in 0..MaxTime : ~VerifyTotp(q, k)
          /\ \A r \in web : ~Admit(q, r[1], r[2]) /\ ~Invalidate(q, r[1], r[2])
          /\ ~RefuseTotp(q) /\ ~RecordActivity(q) /\ ~EstablishTotpSession(q)
    BY DEF VerifyTotp, Admit, Invalidate, RefuseTotp, RecordActivity, EstablishTotpSession
  <1>4. \A q \in Requests, b \in Browsers :
          /\ ~PasswordChallenge(q, b) /\ ~TotpChallenge(q, b) /\ ~RecoveryChallenge(q, b)
          /\ ~BeginTotpEnrollment(q, b)
          /\ \A d \in Devices : ~ConfirmTotpEnrollment(q, b, d)
    BY DEF PasswordChallenge, TotpChallenge, RecoveryChallenge, BeginTotpEnrollment,
       ConfirmTotpEnrollment
  <1>5. \A q \in Requests :
          /\ \A c \in (1..MaxBatches) \X (1..BatchSize) : ~CompleteRecovery(q, c)
          /\ ~FailRecovery(q) /\ ~Logout(q) /\ ~CreateTotpDevice(q)
          /\ ~CompleteInitialEnrollment(q) /\ ~FailEnrollment(q)
    BY DEF CompleteRecovery, FailRecovery, Logout, CreateTotpDevice, CompleteInitialEnrollment,
       MayCompleteInitial, FailEnrollment
  <1>6. \A q \in Requests :
          /\ ~Reauthenticate(q) /\ ~RotateFresh(q) /\ ~ChangePassword(q)
          /\ ~RegenerateRecoveryCodes(q) /\ ~RevokeOtherSessions(q) /\ ~Answer(q)
          /\ \A t \in Sessions : ~RevokeSession(q, t)
    BY DEF Reauthenticate, RotateFresh, ChangePassword, RegenerateRecoveryCodes,
       RevokeOtherSessions, Answer, RevokeSession
  <1>7. ~UNCHANGED vars
    BY DEF vars
  <1>8. QED  BY <1>1, <1>2, <1>3, <1>4, <1>5, <1>6, <1>7 DEF Next

\* Recovery ends in the session it opened: only a restricted session that is not
\* revoked makes the profile active again, and it is then the only live one
\* (_complete_recovery_enrollment).
THEOREM RecoveryStaysInItsSession == Spec => RecoveryEndsInItsSession
  <1> DEFINE Ends == status = "recovery_required" /\ status' = "active" =>
                       \E s \in Live : session[s].restricted /\ Live' = {s} /\ ~session'[s].restricted
  <1>1. ASSUME OwnerInv, [Next]_vars, status = "recovery_required", status' = "active"
        PROVE  \E s \in Live : session[s].restricted /\ Live' = {s} /\ ~session'[s].restricted
    <2>1. PICK q \in Requests : CompleteRecoveryEnrollment(q)
      BY <1>1, ActiveAgain
    <2>2. PICK s : s = req[q].sid
      OBVIOUS
    <2>3. RecoveredTable(s)
      BY <1>1, <2>1, <2>2, RecoveryTable
    <2>4. s \in Live /\ s \in Sessions /\ session[s].restricted /\ ~session'[s].restricted
      BY <2>3 DEF RecoveredTable, Live, Made
    <2>5. s \in Live'
      BY <2>3, <2>4 DEF RecoveredTable, Live, Made
    <2>6. \A o \in Live' : o = s
      BY <2>3 DEF RecoveredTable, Live, Made, NoSession
    <2>7. Live' = {s}
      BY <2>5, <2>6
    <2>8. QED  BY <2>4, <2>7
  <1>2. OwnerInv /\ [Next]_vars => [Ends]_vars
    BY <1>1
  <1>3. QED  BY <1>2, OwnerInvariant, PTL DEF Spec, RecoveryEndsInItsSession

=============================================================================
