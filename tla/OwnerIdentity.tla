---------------------------- MODULE OwnerIdentity ----------------------------
(***************************************************************************)
(* The owner's identity (backend/identity): password and TOTP sign-in,     *)
(* enrolment of an authenticator, recovery codes, sessions and their       *)
(* revocation, and the two host commands.                                  *)
(*                                                                         *)
(* A web request is a process.  What it does inside one transaction that   *)
(* locks its rows is one step; objects it loaded earlier (the session row, *)
(* the profile's status, the device) are copies that may be stale by then. *)
(* Passwords are right, and labels, addresses and audit rows are left out. *)
(***************************************************************************)
EXTENDS Integers, FiniteSets, FiniteSetsExt

CONSTANTS
    Requests,     \* web requests that run side by side
    Browsers,     \* cookies that carry a verified password
    MaxTime,      \* bound: the last thirty-second step, of clock and codes
    MaxDevices,   \* bound: authenticators ever enrolled
    MaxSessions,  \* bound: administrator sessions ever opened
    MaxTurns,     \* bound: key rotations of one session
    MaxBatches,   \* bound: recovery batches ever generated
    BatchSize     \* codes of a batch that are tried

ASSUME IdentityBounds ==
    {MaxTime, MaxDevices, MaxSessions, MaxTurns, MaxBatches, BatchSize} \subseteq Nat

VARIABLES
    status,    \* AdministratorProfile.status, "none" before the bootstrap
    now,       \* the clock, in TOTP steps
    device,    \* AdministratorTOTPDevice rows
    batch,     \* the last recovery batch and whether its codes are open
    consumed,  \* recovery codes with consumed_at set
    session,   \* AdministratorSession rows
    web,       \* django_session rows of signed-in users: <<session, key>>
    preauth,   \* django_session rows that hold PREAUTH_SESSION_KEY
    req,       \* what each running request has loaded
    grants     \* history: which credential opened or refreshed which session

vars == <<status, now, device, batch, consumed, session, web, preauth, req, grants>>

Devices == 1..MaxDevices
Sessions == 1..MaxSessions

NoDevice == [state |-> "none", lastT |-> -1, drift |-> 0]
NoSession == [made |-> FALSE, revoked |-> FALSE, restricted |-> FALSE,
              fresh |-> FALSE, key |-> 0]
IdleRequest == [pc |-> "idle", browser |-> {}, sid |-> 0, copy |-> NoSession,
                status |-> "none", device |-> 0, step |-> 0]

Init ==
    /\ status = "none"
    /\ now = 0
    /\ device = [d \in Devices |-> NoDevice]
    /\ batch = [number |-> 0, open |-> FALSE]
    /\ consumed = {}
    /\ session = [s \in Sessions |-> NoSession]
    /\ web = {}
    /\ preauth = {}
    /\ req = [q \in Requests |-> IdleRequest]
    /\ grants = {}

Made == {s \in Sessions : session[s].made}
Live == {s \in Made : ~session[s].revoked}
Confirmed == {d \in Devices : device[d].state = "confirmed"}
Pending == {d \in Devices : device[d].state = "pending"}

Done(q) == req' = [req EXCEPT ![q] = IdleRequest]
Goto(q, pc) == req' = [req EXCEPT ![q].pc = pc]

\* A mistake: save() without update_fields writes back the whole stale copy.
SaveEverything(row, copy, fields) == copy

\* Model.save(update_fields=...): only the named columns of a loaded object
\* reach the row.
Save(row, copy, fields) ==
    [f \in DOMAIN row |-> IF f \in fields THEN copy[f] ELSE row[f]]

\* The sessions S are revoked in a table that otherwise is t.
Revoke(t, S) == [s \in Sessions |-> IF s \in S THEN [t[s] EXCEPT !.revoked = TRUE] ELSE t[s]]

\* History: the credential that opened or refreshed a session.
Grant(by, s, key) == grants' = grants \cup {[by |-> by, to |-> <<s, key>>]}

-----------------------------------------------------------------------------
(* Credentials.                                                            *)

\* bootstrap_owner, from the interactive command.
BootstrapOwner ==
    /\ status = "none"
    /\ status' = "enrollment_required"
    /\ UNCHANGED <<now, device, batch, consumed, session, web, preauth, req, grants>>

\* generate_recovery_batch: whatever is open is invalidated by the new batch.
GenerateRecoveryBatch ==
    /\ batch.number < MaxBatches
    /\ batch' = [number |-> batch.number + 1, open |-> TRUE]

\* A mistake: min_t is last_t instead of last_t + 1.
CodeMatchesAgain(d, k) ==
    /\ k \in (now + device[d].drift - 1)..(now + device[d].drift + 1)
    /\ k >= device[d].lastT

\* TOTP.verify with tolerance 1 and min_t = last_t + 1: the code of step k.
CodeMatches(d, k) ==
    /\ k \in (now + device[d].drift - 1)..(now + device[d].drift + 1)
    /\ k >= device[d].lastT + 1

\* _verify_totp_transaction on the locked device row of request q.
MayVerify(q) ==
    LET d == req[q].device IN
    \/ device[d].state = "confirmed"
    \/ device[d].state = "pending" /\ req[q].pc = "verifyEnrollment"

Verifying == {"verifyLogin", "verifyFresh", "verifyEnrollment"}
AfterVerify(pc) ==
    CASE pc = "verifyLogin" -> "establish"
      [] pc = "verifyFresh" -> "rotate"
      [] pc = "verifyEnrollment" -> "complete"

VerifyTotp(q, k) ==
    /\ req[q].pc \in Verifying
    /\ MayVerify(q)
    /\ CodeMatches(req[q].device, k)
    /\ device' = [device EXCEPT ![req[q].device] =
                    [@ EXCEPT !.lastT = k, !.drift = k - now]]
    /\ req' = [req EXCEPT ![q] = [@ EXCEPT !.pc = AfterVerify(req[q].pc), !.step = k]]
    /\ UNCHANGED <<status, now, batch, consumed, session, web, preauth, grants>>

\* The code is wrong, the row was disabled or replaced meanwhile, or it still
\* waits out a failure (_throttle_allows): any request may be refused.
RefuseTotp(q) ==
    /\ req[q].pc \in Verifying
    /\ Done(q)
    /\ UNCHANGED <<status, now, device, batch, consumed, session, web, preauth, grants>>

\* reset_owner_mfa, from the interactive command.
ResetOwnerMfa ==
    /\ status # "none"
    /\ session' = Revoke(session, Live)
    /\ web' = web \ {<<s, session[s].key>> : s \in Live}
    /\ device' = [d \in Devices |-> IF device[d].state \in {"pending", "confirmed"}
                                    THEN [device[d] EXCEPT !.state = "disabled"]
                                    ELSE device[d]]
    /\ batch' = [batch EXCEPT !.open = FALSE]
    /\ status' = "enrollment_required"
    /\ UNCHANGED <<now, consumed, preauth, req, grants>>

-----------------------------------------------------------------------------
(* Sessions.                                                               *)

\* establish_administrator_session after django_login has cycled the key.
Establish(q, restricted, table, rows) ==
    LET s == Min(Sessions \ Made) IN
    /\ Made # Sessions
    /\ session' = [table EXCEPT ![s] = [NoSession EXCEPT !.made = TRUE,
                                                         !.restricted = restricted]]
    /\ web' = rows \cup {<<s, 0>>}
    /\ preauth' = preauth \ req[q].browser

\* rotate_administrator_session: the request's row gives way to a new one,
\* whose key goes into the locked session row.
Rotated(s, table) == [table EXCEPT ![s].key = @ + 1]
RotatedRows(q, rows) ==
    LET s == req[q].sid IN
    (rows \ {<<s, req[q].copy.key>>}) \cup {<<s, session[s].key + 1>>}

\* The middleware: enforce_administrator_session finds the cookie's session.
Usable(s, k) ==
    /\ session[s].key = k
    /\ ~session[s].revoked

Admit(q, s, k) ==
    /\ req[q].pc = "idle"
    /\ <<s, k>> \in web
    /\ Usable(s, k)
    /\ req' = [req EXCEPT ![q] = [@ EXCEPT !.pc = "loaded", !.sid = s,
                                           !.copy = session[s], !.status = status]]
    /\ UNCHANGED <<status, now, device, batch, consumed, session, web, preauth, grants>>

\* _invalidate_request_session: the session is revoked and the user logged out.
\* Past expires_at or absolute_expires_at this happens to a usable session too.
Invalidate(q, s, k) ==
    /\ req[q].pc = "idle"
    /\ <<s, k>> \in web
    /\ session' = Revoke(session, {s})
    /\ web' = web \ {<<s, k>>}
    /\ UNCHANGED <<status, now, device, batch, consumed, preauth, req, grants>>

\* The rest of the middleware: the copy's activity columns are saved (they are
\* not among the columns modelled).
RecordActivity(q) ==
    /\ req[q].pc = "loaded"
    /\ Goto(q, "ready")
    /\ session' = [session EXCEPT ![req[q].sid] = Save(@, req[q].copy, {})]
    /\ UNCHANGED <<status, now, device, batch, consumed, web, preauth, grants>>

\* purge_administrator_sessions: the expired rows E, then rows without a cookie.
PurgeSessions(E) ==
    LET orphaned == {s \in Live : <<s, session[s].key>> \notin web} IN
    /\ E \subseteq Live
    /\ session' = Revoke(session, E \cup orphaned)
    /\ web' = web \ {<<s, session[s].key>> : s \in E}
    /\ UNCHANGED <<status, now, device, batch, consumed, preauth, req, grants>>

-----------------------------------------------------------------------------
(* Signing in.                                                             *)

\* verify_owner_password: the old session data is flushed, a new row records
\* the verified password.  The request may come in with a session's cookie.
PasswordChallenge(q, b) ==
    /\ req[q].pc \in {"idle", "ready"}
    /\ req[q].copy.restricted = FALSE
    /\ status # "none"
    /\ preauth' = preauth \cup {b}
    /\ web' = web \ {<<req[q].sid, req[q].copy.key>>}
    /\ Done(q)
    /\ UNCHANGED <<status, now, device, batch, consumed, session, grants>>

\* valid_preauthentication and preauthenticated_profile: the profile is read.
Preauthenticated(q, b, pc, d) ==
    /\ req[q].pc = "idle"
    /\ b \in preauth
    /\ req' = [req EXCEPT ![q] = [@ EXCEPT !.pc = pc, !.browser = {b},
                                           !.status = status, !.device = d]]
    /\ UNCHANGED <<status, now, device, batch, consumed, session, web, preauth, grants>>

\* totp_challenge, up to the device whose code it will verify.
TotpChallenge(q, b) ==
    /\ status = "active"
    /\ \E d \in Confirmed : Preauthenticated(q, b, "verifyLogin", d)

\* _establish_totp_session, a transaction of its own.
EstablishTotpSession(q) ==
    /\ req[q].pc = "establish"
    /\ Establish(q, FALSE, session, web)
    /\ Grant(<<"totp", req[q].device, req[q].step>>, Min(Sessions \ Made), 0)
    /\ Done(q)
    /\ UNCHANGED <<status, now, device, batch, consumed>>

\* recovery_challenge, up to the recovery transaction.
RecoveryChallenge(q, b) ==
    /\ status = "active"
    /\ Preauthenticated(q, b, "recover", 0)

\* consume_recovery_code: an open code of the current batch, once.
Consume(c) ==
    /\ batch.open
    /\ c \in {batch.number} \X (1..BatchSize)
    /\ c \notin consumed
    /\ consumed' = consumed \cup {c}

\* _complete_recovery_authentication_transaction
CompleteRecovery(q, c) ==
    /\ req[q].pc = "recover"
    /\ Consume(c)
    /\ Establish(q, TRUE, Revoke(session, Live), web \ {<<s, session[s].key>> : s \in Live})
    /\ status' = "recovery_required"
    /\ Grant(<<"code", c[1], c[2]>>, Min(Sessions \ Made), 0)
    /\ Done(q)
    /\ UNCHANGED <<now, device, batch>>

\* ... or the code is wrong, consumed or invalidated: only the failure is recorded.
FailRecovery(q) ==
    /\ req[q].pc = "recover"
    /\ Done(q)
    /\ UNCHANGED <<status, now, device, batch, consumed, session, web, preauth, grants>>

\* logout_administrator, from a session and from a verified password (whose row
\* is also dropped when it expires).
Logout(q) ==
    /\ req[q].pc = "ready"
    /\ session' = Revoke(session, {req[q].sid})
    /\ web' = web \ {<<req[q].sid, req[q].copy.key>>}
    /\ Done(q)
    /\ UNCHANGED <<status, now, device, batch, consumed, preauth, grants>>

LogoutPreauth(b) ==
    /\ b \in preauth
    /\ preauth' = preauth \ {b}
    /\ UNCHANGED <<status, now, device, batch, consumed, session, web, req, grants>>

-----------------------------------------------------------------------------
(* Enrolment of an authenticator.                                          *)

\* enrollment_profile: a restricted session during recovery ...
EnrolsFromSession(q) ==
    /\ req[q].pc = "ready"
    /\ req[q].copy.restricted
    /\ req[q].status = "recovery_required"

\* ... or a verified password before the first authenticator.
EnrolsFromPassword(q, b) ==
    /\ req[q].pc = "idle"
    /\ b \in preauth
    /\ status = "enrollment_required"

MayEnrol(q, b) == EnrolsFromSession(q) \/ EnrolsFromPassword(q, b)
EnrolAs(q, b, pc, d) ==
    req' = [req EXCEPT ![q] = [@ EXCEPT !.pc = pc, !.device = d,
                !.browser = IF EnrolsFromSession(q) THEN {} ELSE {b},
                !.status = IF EnrolsFromSession(q) THEN req[q].status ELSE status]]

\* totp_enrollment: begin_totp_enrollment disables the devices it sees ...
BeginTotpEnrollment(q, b) ==
    /\ MayEnrol(q, b)
    /\ EnrolAs(q, b, "create", 0)
    /\ device' = [d \in Devices |-> IF d \in Pending THEN [device[d] EXCEPT !.state = "disabled"]
                                                     ELSE device[d]]
    /\ UNCHANGED <<status, now, batch, consumed, session, web, preauth, grants>>

\* ... and inserts its own; no row lock keeps two enrolments apart.
CreateTotpDevice(q) ==
    LET new == {d \in Devices : device[d].state = "none"} IN
    /\ req[q].pc = "create"
    /\ new # {}
    /\ device' = [device EXCEPT ![Min(new)].state = "pending"]
    /\ Done(q)
    /\ UNCHANGED <<status, now, batch, consumed, session, web, preauth, grants>>

\* totp_confirmation: confirm_totp_enrollment, up to the code.
ConfirmTotpEnrollment(q, b, d) ==
    /\ MayEnrol(q, b)
    /\ d \in Pending
    /\ EnrolAs(q, b, "verifyEnrollment", d)
    /\ UNCHANGED <<status, now, device, batch, consumed, session, web, preauth, grants>>

\* A mistake: the status read before the code was verified decides.
MayCompleteInitialOnce(q) ==
    /\ req[q].status = "enrollment_required"
    /\ device[req[q].device].state = "pending"

\* _complete_initial_enrollment looks again at the locked profile and device.
MayCompleteInitial(q) ==
    /\ req[q].status = "enrollment_required"
    /\ status = "enrollment_required"
    /\ device[req[q].device].state = "pending"

CompleteInitialEnrollment(q) ==
    /\ req[q].pc = "complete"
    /\ MayCompleteInitial(q)
    /\ device' = [device EXCEPT ![req[q].device].state = "confirmed"]
    /\ GenerateRecoveryBatch
    /\ status' = "active"
    /\ Establish(q, FALSE, session, web)
    /\ Grant(<<"totp", req[q].device, req[q].step>>, Min(Sessions \ Made), 0)
    /\ Done(q)
    /\ UNCHANGED <<now, consumed>>

\* A mistake: a session revoked since the request began may still finish.
MayCompleteRecoveryRevoked(q) ==
    /\ req[q].status = "recovery_required"
    /\ req[q].copy.restricted
    /\ status = "recovery_required"
    /\ session[req[q].sid].restricted
    /\ device[req[q].device].state = "pending"

\* _complete_recovery_enrollment locks profile, device and session.
MayCompleteRecovery(q) ==
    /\ req[q].status = "recovery_required"
    /\ req[q].copy.restricted
    /\ status = "recovery_required"
    /\ session[req[q].sid].restricted
    /\ ~session[req[q].sid].revoked
    /\ device[req[q].device].state = "pending"

CompleteRecoveryEnrollment(q) ==
    LET s == req[q].sid
        d == req[q].device
        others == Live \ {s} IN
    /\ req[q].pc = "complete"
    /\ MayCompleteRecovery(q)
    /\ session[s].key < MaxTurns
    /\ device' = [e \in Devices |->
                    IF e = d THEN [device[e] EXCEPT !.state = "confirmed"]
                    ELSE IF e \in Confirmed THEN [device[e] EXCEPT !.state = "disabled"]
                    ELSE device[e]]
    /\ GenerateRecoveryBatch
    /\ session' = Rotated(s, [Revoke(session, others) EXCEPT ![s].restricted = FALSE])
    /\ web' = RotatedRows(q, web \ {<<o, session[o].key>> : o \in others})
    /\ status' = "active"
    /\ Grant(<<"totp", d, req[q].step>>, s, session[s].key + 1)
    /\ Done(q)
    /\ UNCHANGED <<now, consumed, preauth>>

\* Neither completion applies any more: IdentityError.
FailEnrollment(q) ==
    /\ req[q].pc = "complete"
    /\ ~MayCompleteInitial(q)
    /\ ~MayCompleteRecovery(q)
    /\ Done(q)
    /\ UNCHANGED <<status, now, device, batch, consumed, session, web, preauth, grants>>

-----------------------------------------------------------------------------
(* A signed-in administrator.                                              *)

\* _full_administrator: the session loaded by the middleware is unrestricted.
FullAdministrator(q) == req[q].pc = "ready" /\ ~req[q].copy.restricted

\* reauthentication: fresh_reauthenticate, up to the code.
Reauthenticate(q) ==
    /\ FullAdministrator(q)
    /\ \E d \in Confirmed :
         req' = [req EXCEPT ![q] = [@ EXCEPT !.pc = "verifyFresh", !.device = d]]
    /\ UNCHANGED <<status, now, device, batch, consumed, session, web, preauth, grants>>

\* fresh_reauthenticate after the code: the key is rotated, then the copy's
\* fresh_verified_at is saved.
RotateFresh(q) ==
    LET s == req[q].sid IN
    /\ req[q].pc = "rotate"
    /\ session[s].key < MaxTurns
    /\ session' = [Rotated(s, session) EXCEPT ![s] =
                     Save(@, [req[q].copy EXCEPT !.fresh = TRUE,
                                                 !.key = req[q].copy.key + 1], {"fresh"})]
    /\ web' = RotatedRows(q, web)
    /\ Grant(<<"totp", req[q].device, req[q].step>>, s, session[s].key + 1)
    /\ Done(q)
    /\ UNCHANGED <<status, now, device, batch, consumed, preauth>>

\* require_fresh_administrator on the locked row.
RequireFresh(q) ==
    /\ FullAdministrator(q)
    /\ ~session[req[q].sid].restricted
    /\ session[req[q].sid].fresh

\* _revoke_other_sessions, and the caller's own freshness is used up.
Alone(s) == [Revoke(session, Live \ {s}) EXCEPT ![s].fresh = FALSE]
RowsAlone(s) == web \ {<<o, session[o].key>> : o \in Live \ {s}}

\* password_change: change_password rotates the caller's key.
ChangePassword(q) ==
    LET s == req[q].sid IN
    /\ RequireFresh(q)
    /\ session[s].key < MaxTurns
    /\ session' = Rotated(s, Alone(s))
    /\ web' = RotatedRows(q, RowsAlone(s))
    /\ Done(q)
    /\ UNCHANGED <<status, now, device, batch, consumed, preauth, grants>>

\* recovery_code_regeneration: regenerate_recovery_codes.
RegenerateRecoveryCodes(q) ==
    LET s == req[q].sid IN
    /\ RequireFresh(q)
    /\ session[s].key < MaxTurns
    /\ GenerateRecoveryBatch
    /\ session' = Rotated(s, Alone(s))
    /\ web' = RotatedRows(q, RowsAlone(s))
    /\ Done(q)
    /\ UNCHANGED <<status, now, device, consumed, preauth, grants>>

\* other_session_revocation: revoke_other_sessions.
RevokeOtherSessions(q) ==
    LET s == req[q].sid IN
    /\ RequireFresh(q)
    /\ session' = Alone(s)
    /\ web' = RowsAlone(s)
    /\ Done(q)
    /\ UNCHANGED <<status, now, device, batch, consumed, preauth, grants>>

\* session_revocation: revoke_owned_session, possibly of the caller itself.
RevokeSession(q, t) ==
    /\ FullAdministrator(q)
    /\ t \in Made
    /\ session' = Revoke(session, {t})
    /\ web' = web \ ({<<t, session[t].key>>}
                     \cup (IF t = req[q].sid THEN {<<t, req[q].copy.key>>} ELSE {}))
    /\ Done(q)
    /\ UNCHANGED <<status, now, device, batch, consumed, preauth, grants>>

\* A read-only page, or a refusal (fresh_verified_at may be too old by now).
Answer(q) ==
    /\ req[q].pc = "ready"
    /\ Done(q)
    /\ UNCHANGED <<status, now, device, batch, consumed, session, web, preauth, grants>>

-----------------------------------------------------------------------------
(* Time.                                                                   *)

Tick ==
    /\ now < MaxTime
    /\ now' = now + 1
    /\ UNCHANGED <<status, device, batch, consumed, session, web, preauth, req, grants>>

Next ==
    \/ BootstrapOwner \/ ResetOwnerMfa \/ Tick
    \/ \E E \in SUBSET Sessions : PurgeSessions(E)
    \/ \E b \in Browsers : LogoutPreauth(b)
    \/ \E q \in Requests :
         \/ \E k \in 0..MaxTime : VerifyTotp(q, k)
         \/ RefuseTotp(q)
         \/ \E r \in web : Admit(q, r[1], r[2]) \/ Invalidate(q, r[1], r[2])
         \/ RecordActivity(q) \/ EstablishTotpSession(q)
         \/ \E b \in Browsers :
              \/ PasswordChallenge(q, b) \/ TotpChallenge(q, b) \/ RecoveryChallenge(q, b)
              \/ BeginTotpEnrollment(q, b)
              \/ \E d \in Devices : ConfirmTotpEnrollment(q, b, d)
         \/ \E c \in (1..MaxBatches) \X (1..BatchSize) : CompleteRecovery(q, c)
         \/ FailRecovery(q) \/ Logout(q)
         \/ CreateTotpDevice(q) \/ CompleteInitialEnrollment(q)
         \/ CompleteRecoveryEnrollment(q) \/ FailEnrollment(q)
         \/ Reauthenticate(q) \/ RotateFresh(q) \/ ChangePassword(q)
         \/ RegenerateRecoveryCodes(q) \/ RevokeOtherSessions(q) \/ Answer(q)
         \/ \E t \in Sessions : RevokeSession(q, t)

Spec == Init /\ [][Next]_vars

-----------------------------------------------------------------------------
(* Properties.                                                             *)

\* Each credential opens at most one thing: a TOTP code of one device and one
\* step, or a recovery code, never gives two sessions (or a session and a
\* fresh verification), in whatever order the requests that hold it run; and
\* an unrestricted session always has an authenticator's code behind it.
OneGrantPerCredential ==
    /\ \A g, h \in grants : g.by = h.by => g = h
    /\ \A s \in Made : \/ session[s].restricted
                       \/ \E g \in grants : g.by[1] = "totp" /\ g.to[1] = s

\* An active owner has exactly one usable authenticator, and an owner who has
\* to enrol has none, although enrolments, resets and recoveries overlap.
OneAuthenticator ==
    /\ Cardinality(Confirmed) <= 1
    /\ status = "active" => Confirmed # {}
    /\ status = "enrollment_required" => Confirmed = {}

\* A revoked session stays revoked: no request that loaded the row before the
\* revocation brings it back by saving its copy.
RevokedForGood ==
    [][\A s \in Sessions : session[s].revoked => session'[s].revoked]_vars

\* Recovery ends in the session it opened: the profile becomes active again
\* only by a session that is restricted and not revoked, and afterwards that
\* session is the only one left.
RecoveryEndsInItsSession ==
    [][status = "recovery_required" /\ status' = "active" =>
         \E s \in Live : session[s].restricted /\ Live' = {s} /\ ~session'[s].restricted]_vars
=============================================================================
