----------------------------- MODULE Connections -----------------------------
(***************************************************************************)
(* One integration connection and its credential (backend/integrations:    *)
(* services.py, secret_store.py): the owner replaces, configures, tests    *)
(* and disables it in several tabs, while reviewed writes lease the        *)
(* credential.                                                             *)
(*                                                                         *)
(* An operation of the owner locks the connection's row and is one step,   *)
(* except the test, which probes the provider outside any transaction.  A  *)
(* write reads the connection, its secret and the two checks of its lease  *)
(* in queries of their own.  A row that does not exist yet is the          *)
(* not_configured row of version 1 that _locked_or_new would create.       *)
(***************************************************************************)
EXTENDS Naturals, FiniteSets

CONSTANTS
    OwnerTabs,   \* browser tabs of the owner
    Writers,     \* reviewed provider writes
    MaxVersion,  \* bound: versions of the connection
    MaxSecrets   \* bound: EncryptedSecret rows

ASSUME ConnectionBounds == {MaxVersion, MaxSecrets} \subseteq Nat

VARIABLES
    connection,  \* IntegrationConnection: state, version, secret
    secret,      \* EncryptedSecret rows: status and version
    tab,         \* each tab: version it shows, and its connection test if any
    writer,      \* each write: what it has read so far
    tested,      \* history: credentials a probe found to work
    used         \* history: credentials a write has sent with

connectionVars == <<connection, secret, tab, writer, tested, used>>

Secrets == 1..MaxSecrets
NoSecret == [status |-> "none", version |-> 0]
IdleTab == [pc |-> "idle", seen |-> 1, id |-> 0, version |-> 0, ok |-> FALSE]
IdleWriter == [pc |-> "idle", id |-> 0, version |-> 0]

ConnectionInit ==
    /\ connection = [state |-> "not_configured", version |-> 1, secret |-> 0]
    /\ secret = [i \in Secrets |-> NoSecret]
    /\ tab = [a \in OwnerTabs |-> IdleTab]
    /\ writer = [w \in Writers |-> IdleWriter]
    /\ tested = {}
    /\ used = {}

-----------------------------------------------------------------------------
(* The owner.                                                              *)

\* connections: the page shows the version its operations will expect.
ListConnections(a) ==
    /\ tab[a].pc = "idle"
    /\ tab[a].seen # connection.version
    /\ tab' = [tab EXCEPT ![a].seen = connection.version]
    /\ UNCHANGED <<connection, secret, writer, tested, used>>

\* _administrator with a fresh session, and _expect_version on the locked row.
MayChange(a) ==
    /\ tab[a].pc = "idle"
    /\ tab[a].seen = connection.version
    /\ connection.version < MaxVersion

\* The store's rows after put or replace, and after disable, which is idempotent.
Replaced(id) ==
    [secret EXCEPT ![id] = [status |-> "active", version |-> @.version + 1]]
Disabled(id) ==
    [secret EXCEPT ![id] = IF @.status = "disabled" THEN @
                           ELSE [status |-> "disabled", version |-> @.version + 1]]

\* replace_credential: put after none or a disabled one, else store.replace.
ReplaceCredential(a) ==
    LET put == connection.state \in {"not_configured", "disabled"}
        new == Cardinality({i \in Secrets : secret[i] # NoSecret}) + 1
        id == IF put THEN new ELSE connection.secret IN
    /\ MayChange(a)
    /\ id \in Secrets
    /\ secret' = Replaced(id)
    /\ connection' = [state |-> "configured", version |-> connection.version + 1, secret |-> id]
    /\ UNCHANGED <<tab, writer, tested, used>>

\* update_configuration: the state is kept.
UpdateConfiguration(a) ==
    /\ MayChange(a)
    /\ connection' = [connection EXCEPT !.version = @ + 1]
    /\ UNCHANGED <<secret, tab, writer, tested, used>>

\* disable_connection: without a secret the row's clean() refuses.
DisableConnection(a) ==
    LET id == connection.secret IN
    /\ MayChange(a)
    /\ id # 0
    /\ secret' = Disabled(id)
    /\ connection' = [connection EXCEPT !.state = "disabled", !.version = @ + 1]
    /\ UNCHANGED <<tab, writer, tested, used>>

\* test_connection: _connection_for_test reads connection and secret unlocked.
StartTest(a) ==
    /\ tab[a].pc = "idle"
    /\ tab[a].seen = connection.version
    /\ connection.state # "disabled"
    /\ connection.secret # 0
    /\ tab' = [tab EXCEPT ![a] = [@ EXCEPT !.pc = "lease", !.id = connection.secret,
                                           !.version = secret[connection.secret].version]]
    /\ UNCHANGED <<connection, secret, writer, tested, used>>

\* _open_lease with the current_version check of _secret_for_reference.
Current(id, version) ==
    /\ secret[id].version = version
    /\ secret[id].status = "active"

\* ... the credential is leased and the provider probed with it ...
Probe(a) ==
    /\ tab[a].pc = "lease"
    /\ Current(tab[a].id, tab[a].version)
    /\ \E ok \in BOOLEAN :
         /\ tab' = [tab EXCEPT ![a] = [@ EXCEPT !.pc = "probed", !.ok = ok]]
         /\ tested' = IF ok THEN tested \cup {<<tab[a].id, tab[a].version>>} ELSE tested
    /\ UNCHANGED <<connection, secret, writer, used>>

\* A mistake: the outcome is stored on whatever the row has become.
StillExpectedAnyway(a) == connection.secret # 0

\* _expect_version once more, on the locked row.
StillExpected(a) == tab[a].seen = connection.version

\* ... and its outcome stored, without a new version.
StoreTest(a) ==
    /\ tab[a].pc = "probed"
    /\ StillExpected(a)
    /\ connection' = [connection EXCEPT !.state = IF tab[a].ok THEN "healthy" ELSE "degraded"]
    /\ tab' = [tab EXCEPT ![a] = [IdleTab EXCEPT !.seen = tab[a].seen]]
    /\ UNCHANGED <<secret, writer, tested, used>>

\* The lease is refused, the version has moved, or the session has ended.
FailTest(a) ==
    /\ tab[a].pc \in {"lease", "probed"}
    /\ tab' = [tab EXCEPT ![a] = [IdleTab EXCEPT !.seen = tab[a].seen]]
    /\ UNCHANGED <<connection, secret, writer, tested, used>>

-----------------------------------------------------------------------------
(* A reviewed write (draft_operations.py).                                 *)

Goto(w, pc) == writer' = [writer EXCEPT ![w].pc = pc]

\* _reference: the connection is healthy ...
ReadConnection(w) ==
    /\ writer[w].pc = "idle"
    /\ connection.state = "healthy"
    /\ writer' = [writer EXCEPT ![w] = [@ EXCEPT !.pc = "secret", !.id = connection.secret]]
    /\ UNCHANGED <<connection, secret, tab, tested, used>>

\* ... and its secret, fetched by a second query, active.
ReadSecret(w) ==
    LET s == secret[writer[w].id] IN
    /\ writer[w].pc = "secret"
    /\ s.status = "active"
    /\ writer' = [writer EXCEPT ![w] = [@ EXCEPT !.pc = "lease", !.version = s.version]]
    /\ UNCHANGED <<connection, secret, tab, tested, used>>

\* _validate_lease_request for a write: one query over connection and secret.
LeaseAllowed(w) ==
    /\ connection.state = "healthy"
    /\ connection.secret = writer[w].id
    /\ Current(writer[w].id, writer[w].version)

\* lease, and again _open_lease when the context is entered ...
Lease(w) ==
    /\ writer[w].pc \in {"lease", "enter"}
    /\ LeaseAllowed(w)
    /\ Goto(w, IF writer[w].pc = "lease" THEN "enter" ELSE "open")
    /\ UNCHANGED <<connection, secret, tab, tested, used>>

\* ... which then fetches and decrypts the secret, and the write goes out.
OpenLease(w) ==
    /\ writer[w].pc = "open"
    /\ Current(writer[w].id, writer[w].version)
    /\ used' = used \cup {<<writer[w].id, secret[writer[w].id].version>>}
    /\ writer' = [writer EXCEPT ![w] = IdleWriter]
    /\ UNCHANGED <<connection, secret, tab, tested>>

\* PermissionDenied or SecretUnavailable.
RefuseWrite(w) ==
    /\ writer[w].pc # "idle"
    /\ writer' = [writer EXCEPT ![w] = IdleWriter]
    /\ UNCHANGED <<connection, secret, tab, tested, used>>

ConnectionNext ==
    \/ \E a \in OwnerTabs :
         \/ ListConnections(a) \/ ReplaceCredential(a) \/ UpdateConfiguration(a)
         \/ DisableConnection(a) \/ StartTest(a) \/ Probe(a) \/ StoreTest(a) \/ FailTest(a)
    \/ \E w \in Writers :
         ReadConnection(w) \/ ReadSecret(w) \/ Lease(w) \/ OpenLease(w) \/ RefuseWrite(w)

ConnectionSpec == ConnectionInit /\ [][ConnectionNext]_connectionVars

-----------------------------------------------------------------------------
(* Properties.                                                             *)

\* A connection shown as healthy has passed a test with exactly the credential
\* it holds now, and a usable one holds an active credential; a reviewed write
\* has only ever gone out with a credential that passed a test.  So it is
\* whatever is replaced or disabled while a test or a lease is under way.
TestedBeforeUse ==
    /\ connection.state = "healthy" =>
         <<connection.secret, secret[connection.secret].version>> \in tested
    /\ connection.state \in {"configured", "healthy", "degraded"} =>
         secret[connection.secret].status = "active"
    /\ connection.state = "disabled" => secret[connection.secret].status = "disabled"
    /\ used \subseteq tested
=============================================================================
