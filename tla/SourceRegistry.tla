---------------------------- MODULE SourceRegistry ----------------------------
(***************************************************************************)
(* A data source, one of its connections and the credential vault:         *)
(* DataSourcesService, ConnectionsService and LocalRedisVaultClient.       *)
(* PostgreSQL holds the rows, Redis the credentials: a request that writes *)
(* both writes the credential first.                                       *)
(***************************************************************************)
EXTENDS Naturals

CONSTANTS
  Client,       \* concurrent requests of administrators
  MaxStored,    \* bound: credentials that are stored
  NoCredential  \* a connection that is not there has no credential_ref

ASSUME RegistryConstants == MaxStored \in Nat

VARIABLES
  dataSource,  \* data_sources.is_active
  connection,  \* the connections row: is_active, credential_ref, status
  vault,       \* the credential_refs the vault can resolve
  request      \* per client: what it is about to commit, and what it has read

registryVars == <<dataSource, connection, vault, request>>

-----------------------------------------------------------------------------
(* Types *)

Credential == 1..MaxStored

ConnectionRow ==
  [there : BOOLEAN, active : BOOLEAN, ref : Credential \cup {NoCredential},
   status : {"UNKNOWN", "HEALTHY", "OFFLINE", "WARNING"}]

Operation ==
  {"none", "deactivateSource", "create", "update", "deactivate", "reactivate", "test"}

\* seen: is_active as the request has loaded it.
Request == [op : Operation, ref : Credential \cup {NoCredential}, seen : BOOLEAN]

NoRequest == [op |-> "none", ref |-> NoCredential, seen |-> FALSE]

RegistryTypeOK ==
  /\ dataSource \in BOOLEAN
  /\ connection \in ConnectionRow
  /\ vault \subseteq Credential
  /\ request \in [Client -> Request]

-----------------------------------------------------------------------------
(* The first half of a request: what it reads and checks, and the          *)
(* credential it stores.                                                   *)

Free(c) == request[c].op = "none"

Goes(c, op, ref) ==
  request' = [request EXCEPT
    ![c] = [op |-> op, ref |-> ref,
            seen |-> IF op = "deactivateSource" THEN dataSource ELSE connection.active]]

\* vault.store: a reference that was never used before.
Store(ref) ==
  /\ ref \in Credential
  /\ \A r \in vault : r < ref
  /\ vault' = vault \cup {ref}

\* Refused while a connection is active.
DeactivateSource(c) ==
  /\ Free(c)
  /\ ~(connection.there /\ connection.active)
  /\ Goes(c, "deactivateSource", NoCredential)
  /\ UNCHANGED <<dataSource, connection, vault>>

\* The name must be new.  Whether the data source is active is not asked.
CreateConnection(c) ==
  /\ Free(c)
  /\ ~connection.there
  /\ \E ref \in Credential : Store(ref) /\ Goes(c, "create", ref)
  /\ UNCHANGED <<dataSource, connection>>

\* (Broken variant: the row is committed before its credential is stored.)
UpdateConnectionFirst(c) ==
  /\ Free(c)
  /\ connection.there
  /\ \E ref \in Credential : ref \notin vault /\ Goes(c, "update", ref)
  /\ UNCHANGED <<dataSource, connection, vault>>

\* With a credential; without one, the attributes of the row alone change.
UpdateConnection(c) ==
  /\ Free(c)
  /\ connection.there
  /\ \E ref \in Credential : Store(ref) /\ Goes(c, "update", ref)
  /\ UNCHANGED <<dataSource, connection>>

DeactivateConnection(c) ==
  /\ Free(c)
  /\ connection.there
  /\ Goes(c, "deactivate", NoCredential)
  /\ UNCHANGED <<dataSource, connection, vault>>

\* Refused when the data source is inactive.
ReactivateConnection(c) ==
  /\ Free(c)
  /\ connection.there /\ dataSource
  /\ Goes(c, "reactivate", NoCredential)
  /\ UNCHANGED <<dataSource, connection, vault>>

\* The credential is resolved and the source called; a credential that does
\* not resolve is an error of the request.
TestConnection(c) ==
  /\ Free(c)
  /\ connection.there /\ connection.ref \in vault
  /\ Goes(c, "test", NoCredential)
  /\ UNCHANGED <<dataSource, connection, vault>>

-----------------------------------------------------------------------------
(* The second half: the row, its lineage edge and its audit event in one   *)
(* transaction.                                                            *)

\* SQLAlchemy writes is_active only where it differs from what was loaded.
Written(c) ==
  LET r == request[c] IN
  CASE r.op = "create"     -> {[there |-> TRUE, active |-> TRUE, ref |-> r.ref, status |-> "UNKNOWN"]}
    [] r.op = "update"     -> {[connection EXCEPT !.ref = r.ref]}
    [] r.op = "deactivate" -> {[connection EXCEPT !.active = @ /\ ~r.seen]}
    [] r.op = "reactivate" -> {[connection EXCEPT !.active = @ \/ ~r.seen]}
    [] r.op = "test"       -> {[connection EXCEPT !.status = s] : s \in {"HEALTHY", "OFFLINE", "WARNING"}}
    [] OTHER               -> {connection}

\* The second of two rows with one name is refused by the table.
CommitRequest(c) ==
  /\ ~Free(c)
  /\ request' = [request EXCEPT ![c] = NoRequest]
  /\ IF request[c].op = "create" /\ connection.there
       THEN UNCHANGED connection
       ELSE connection' \in Written(c)
  /\ dataSource' = (dataSource /\ ~(request[c].op = "deactivateSource" /\ request[c].seen))
  /\ UNCHANGED vault

\* The process ends, or the database refuses: what was stored in Redis stays.
RequestDies(c) ==
  /\ ~Free(c)
  /\ request' = [request EXCEPT ![c] = NoRequest]
  /\ UNCHANGED <<dataSource, connection, vault>>

ReactivateSource(c) ==
  /\ Free(c)
  /\ ~dataSource
  /\ dataSource' = TRUE
  /\ UNCHANGED <<connection, vault, request>>

-----------------------------------------------------------------------------

RegistryInit ==
  /\ dataSource = TRUE
  /\ connection = [there |-> FALSE, active |-> FALSE, ref |-> NoCredential, status |-> "UNKNOWN"]
  /\ vault = {}
  /\ request = [c \in Client |-> NoRequest]

RegistryNext == \E c \in Client :
  \/ DeactivateSource(c) \/ ReactivateSource(c)
  \/ CreateConnection(c) \/ UpdateConnection(c) \/ TestConnection(c)
  \/ DeactivateConnection(c) \/ ReactivateConnection(c)
  \/ CommitRequest(c) \/ RequestDies(c)

-----------------------------------------------------------------------------
(* Properties *)

\* A connection that is committed has a credential the vault knows, though the
\* two are kept in two stores and a request may end between them
\* (connections/service.py, credential_ref = self._vault.store(credential)).
CredentialsResolve == connection.there => connection.ref \in vault
=============================================================================
