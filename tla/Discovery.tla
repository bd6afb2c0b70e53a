------------------------------ MODULE Discovery ------------------------------
(***************************************************************************)
(* The metadata catalogue of one connection: run_discovery, the walk that  *)
(* reads a source and upserts its schemas, datasets and columns;           *)
(* apply_key_columns, which the walk shares with DatasetKeyService and     *)
(* BusinessKeyService; and the lineage edges written with the rows.        *)
(*                                                                         *)
(* The transaction that writes the keys of a dataset is three actions:     *)
(* loading the dataset, the DELETE of the old keys, and the commit.  Every *)
(* other transaction is one.                                               *)
(***************************************************************************)
EXTENDS Naturals, Sequences, FiniteSets

CONSTANTS
  Schema, Dataset, Column,
  SchemaOf,    \* dataset -> its schema
  Walk,        \* discovery jobs
  Admin,       \* concurrent requests that configure keys
  NoWork,      \* no key transaction
  KeyChoice,   \* the keys, as sequences of columns, that are asked for or reported
  MaxChanges,  \* bound: times the source changes or a dataset is switched on or off
  MaxConfigs   \* bound: times keys are configured

ASSUME DiscoveryConstants ==
  /\ SchemaOf \in [Dataset -> Schema]
  /\ \A k \in KeyChoice : k \in Seq(Column) /\ Len(k) > 0
  /\ {MaxChanges, MaxConfigs} \subseteq Nat
  /\ IsFiniteSet(Column)
  /\ Walk \cap Admin = {}

VARIABLES
  source,     \* per dataset: the columns it has in the source, {} if it is not there
  changes,    \* how often that has happened
  schemaRow,  \* schemas: absent, active or inactive
  datasetRow, \* datasets: the same
  columnRow,  \* per dataset, columns: the same
  keyRow,     \* per dataset, dataset_key_columns: column, ordinal, and who wrote it
  strategy,   \* datasets.key_strategy
  edges,      \* lineage_records
  walk,       \* per job: its status, the step of its task and what it has seen
  keying,     \* per key transaction: what it has loaded, and the rows its DELETE found
  configs     \* times keys have been configured

catalogue     == <<schemaRow, datasetRow, columnRow>>
keys          == <<keyRow, strategy>>
discoveryVars == <<source, changes, catalogue, keys, edges, walk, keying, configs>>

-----------------------------------------------------------------------------
(* Types *)

RowState  == {"absent", "active", "inactive"}
JobStatus == {"none", "asked", "QUEUED", "RUNNING", "COMPLETED", "FAILED", "CANCELLED"}
WalkStep  == {"idle", "list", "schemas", "datasets", "read", "keys", "complete"}

\* toList, toRead: what is left of list_schemas and of list_datasets.
\* undisturbed: the walk has met no error, and nothing but the walk has written
\* the catalogue or changed the source since it has listed the schemas.
WalkState ==
  [status : JobStatus, cancel : BOOLEAN, step : WalkStep, toList : SUBSET Schema,
   toRead : SUBSET Dataset, schemas : SUBSET Schema, datasets : SUBSET Dataset, undisturbed : BOOLEAN]

Transaction == Walk \cup Admin

Strategy == {"ROW_INDEX_FALLBACK", "SINGLE_COLUMN", "COMPOSITE"}

KeyRow == [column : Column, ordinal : Nat, by : 0..MaxConfigs]

\* A transaction that has loaded the dataset, and is to sample its source or to
\* delete its keys.  columns: what a walk has read.
Loaded(d, k, columns, next) ==
  [dataset |-> d, key |-> k, columns |-> columns, strategy |-> strategy[d], found |-> {}, at |-> next]

DiscoveryTypeOK ==
  /\ source \in [Dataset -> SUBSET Column]
  /\ changes \in 0..MaxChanges
  /\ schemaRow \in [Schema -> RowState]
  /\ datasetRow \in [Dataset -> RowState]
  /\ columnRow \in [Dataset -> [Column -> RowState]]
  /\ \A d \in Dataset : keyRow[d] \subseteq KeyRow
  /\ strategy \in [Dataset -> Strategy]
  /\ walk \in [Walk -> WalkState]
  /\ configs \in 0..MaxConfigs

-----------------------------------------------------------------------------
(* Requests and jobs *)

NoWalk ==
  [status |-> "none", cancel |-> FALSE, step |-> "idle", toList |-> {}, toRead |-> {},
   schemas |-> {}, datasets |-> {}, undisturbed |-> FALSE]

InFlight(j) == walk[j].status \in {"QUEUED", "RUNNING"}

\* Nothing but the walk of j itself was at work.
Disturbs(S) == walk' = [w \in Walk |-> IF w \in S THEN [walk[w] EXCEPT !.undisturbed = FALSE] ELSE walk[w]]

\* find_in_flight, and in a step of its own the job and its message.
AskDiscovery(j) ==
  /\ walk[j].status = "none"
  /\ \A i \in Walk : ~InFlight(i)
  /\ walk' = [walk EXCEPT ![j].status = "asked"]
  /\ UNCHANGED <<source, changes, catalogue, keys, edges, keying, configs>>

CreateJob(j) ==
  /\ walk[j].status = "asked"
  /\ walk' = [walk EXCEPT ![j].status = "QUEUED"]
  /\ UNCHANGED <<source, changes, catalogue, keys, edges, keying, configs>>

RequestCancel(j) ==
  /\ InFlight(j) /\ ~walk[j].cancel
  /\ walk' = [walk EXCEPT ![j].cancel = TRUE,
                          ![j].status = IF @ = "QUEUED" THEN "CANCELLED" ELSE @]
  /\ UNCHANGED <<source, changes, catalogue, keys, edges, keying, configs>>

\* The walk never touches its heartbeat: sweep_stale_jobs fails it, and it goes on.
SweepJob(j) ==
  /\ walk[j].status = "RUNNING"
  /\ walk' = [walk EXCEPT ![j].status = "FAILED"]
  /\ UNCHANGED <<source, changes, catalogue, keys, edges, keying, configs>>

-----------------------------------------------------------------------------
(* The walk *)

At(j, step) == walk[j].step = step

\* A message for a job that has ended is dropped.
Start(j) ==
  /\ walk[j].status = "QUEUED" /\ At(j, "idle")
  /\ walk' = [walk EXCEPT ![j].status = "RUNNING", ![j].step = "list"]
  /\ UNCHANGED <<source, changes, catalogue, keys, edges, keying, configs>>

\* The credential, the provider, list_schemas.
ListSchemas(j) ==
  /\ At(j, "list")
  /\ walk' = [i \in Walk |->
       IF i = j
         THEN [walk[j] EXCEPT !.step = "schemas", !.toList = {SchemaOf[d] : d \in {e \in Dataset : source[e] # {}}},
                              !.undisturbed = \A k \in Walk \ {j} : At(k, "idle")]
         ELSE [walk[i] EXCEPT !.undisturbed = FALSE]]
  /\ UNCHANGED <<source, changes, catalogue, keys, edges, keying, configs>>

\* One of _TERMINAL_ERRORS: nothing was written.
ListSchemasFails(j) ==
  /\ At(j, "list")
  /\ walk' = [walk EXCEPT ![j] = [NoWalk EXCEPT !.status = "FAILED"]]
  /\ UNCHANGED <<source, changes, catalogue, keys, edges, keying, configs>>

\* (Broken variant: the loop is left, and what follows it is executed.)
BreakOff(j) ==
  /\ At(j, "schemas") \/ At(j, "datasets")
  /\ walk[j].toList \cup walk[j].toRead # {}
  /\ walk[j].cancel
  /\ walk' = [walk EXCEPT ![j].step = "schemas", ![j].toList = {}]
  /\ UNCHANGED <<source, changes, catalogue, keys, edges, keying, configs>>

\* The flag is looked at before every schema and every dataset.
SeeCancel(j) ==
  /\ \/ At(j, "schemas") /\ walk[j].toList # {}
     \/ At(j, "datasets") /\ walk[j].toRead # {}
  /\ walk[j].cancel
  /\ walk' = [walk EXCEPT ![j] = [NoWalk EXCEPT !.status = "CANCELLED"]]
  /\ UNCHANGED <<source, changes, catalogue, keys, edges, keying, configs>>

\* upsert_schema, committed, and list_datasets.
UpsertSchema(j) ==
  /\ At(j, "schemas") /\ ~walk[j].cancel
  /\ \E s \in walk[j].toList :
       /\ schemaRow' = [schemaRow EXCEPT ![s] = "active"]
       /\ edges' = edges \cup {<<"connection", s>>}
       /\ \/ walk' = [walk EXCEPT ![j].toList = @ \ {s}, ![j].schemas = @ \cup {s}, ![j].step = "datasets",
                        ![j].toRead = {d \in Dataset : SchemaOf[d] = s /\ source[d] # {}}]
          \* SourceTimeoutError or SourceQueryError: the schema is seen, its datasets are not.
          \/ walk' = [walk EXCEPT ![j].toList = @ \ {s}, ![j].schemas = @ \cup {s}, ![j].undisturbed = FALSE]
  /\ UNCHANGED <<source, changes, datasetRow, columnRow, keys, keying, configs>>

NextSchema(j) ==
  /\ At(j, "datasets") /\ walk[j].toRead = {}
  /\ walk' = [walk EXCEPT ![j].step = "schemas"]
  /\ UNCHANGED <<source, changes, catalogue, keys, edges, keying, configs>>

\* The columns, the primary key, the row count and the foreign keys of a
\* dataset cannot be read.
DatasetFails(j) ==
  /\ At(j, "datasets") /\ ~walk[j].cancel
  /\ \E d \in walk[j].toRead :
       walk' = [walk EXCEPT ![j].toRead = @ \ {d}, ![j].undisturbed = FALSE]
  /\ UNCHANGED <<source, changes, catalogue, keys, edges, keying, configs>>

\* The rows that upsert_dataset makes of what it has read.
Reconciled(d, columns) ==
  [c \in Column |-> IF c \in columns THEN "active"
                    ELSE IF columnRow[d][c] = "active" THEN "inactive" ELSE columnRow[d][c]]

\* A key that a source reports is one of its columns.
Reported(columns) == {k \in KeyChoice : \A i \in DOMAIN k : k[i] \in columns}

\* upsert_dataset of a dataset without a primary key: its keys stay as they are.
\* One that has gone since it was listed has no columns.
UpsertDataset(j) ==
  /\ At(j, "datasets") /\ ~walk[j].cancel
  /\ \E d \in walk[j].toRead :
       /\ datasetRow' = [datasetRow EXCEPT ![d] = "active"]
       /\ columnRow' = [columnRow EXCEPT ![d] = Reconciled(d, source[d])]
       /\ edges' = edges \cup {<<SchemaOf[d], d>>} \cup {<<d, c>> : c \in source[d]}
       /\ walk' = [walk EXCEPT ![j].toRead = @ \ {d}, ![j].datasets = @ \cup {d}]
  /\ UNCHANGED <<source, changes, schemaRow, keys, keying, configs>>

\* upsert_dataset of one with a primary key, up to apply_key_columns.
BeginUpsert(j) ==
  /\ At(j, "datasets") /\ ~walk[j].cancel
  /\ \E d \in walk[j].toRead : \E k \in Reported(source[d]) :
       keying' = [keying EXCEPT ![j] = Loaded(d, k, source[d], "delete")]
  /\ walk' = [walk EXCEPT ![j].step = "keys"]
  /\ UNCHANGED <<source, changes, catalogue, keys, edges, configs>>

-----------------------------------------------------------------------------
(* apply_key_columns *)

DeleteKeys(t) ==
  /\ keying[t] # NoWork /\ keying[t].at = "delete"
  /\ keying' = [keying EXCEPT ![t].at = "write", ![t].found = keyRow[keying[t].dataset]]
  /\ UNCHANGED <<source, changes, catalogue, keys, edges, walk, configs>>

\* The rows a transaction leaves of the table: its DELETE has found those of
\* one moment, not what others have committed since.
KeyRowsAfter(t) ==
  LET work == keying[t] IN
  (keyRow[work.dataset] \ work.found) \cup
  {[column |-> work.key[i], ordinal |-> i - 1, by |-> configs + 1] : i \in DOMAIN work.key}

\* (Broken variant: the table without its constraints.)
UnconstrainedRows(rows) == TRUE

\* uq_dataset_key_columns_dataset_id_ordinal, and the primary key.
UniqueRows(rows) ==
  \A r, s \in rows : r.ordinal = s.ordinal \/ r.column = s.column => r = s

KeyStrategy(n) == CASE n = 0 -> "ROW_INDEX_FALLBACK" [] n = 1 -> "SINGLE_COLUMN" [] OTHER -> "COMPOSITE"

\* SQLAlchemy writes the strategy where it differs from the one that was loaded.
\* A walk that upserts a dataset holds the lock of its row.
WriteKeys(t) ==
  LET work == keying[t]
      d    == work.dataset
      new  == KeyStrategy(Len(work.key))
  IN /\ work # NoWork /\ work.at = "write"
     /\ configs < MaxConfigs
     /\ UniqueRows(KeyRowsAfter(t))
     /\ configs' = configs + 1
     /\ keyRow' = [keyRow EXCEPT ![d] = KeyRowsAfter(t)]
     /\ \/ new = work.strategy /\ UNCHANGED strategy
        \/ /\ new # work.strategy
           /\ \A j \in Walk \ {t} : At(j, "keys") => keying[j].dataset # d
           /\ strategy' = [strategy EXCEPT ![d] = new]
     /\ keying' = [keying EXCEPT ![t] = NoWork]

CommitUpsert(j) ==
  /\ At(j, "keys")
  /\ LET d       == keying[j].dataset
         columns == keying[j].columns
     IN /\ WriteKeys(j)
        /\ datasetRow' = [datasetRow EXCEPT ![d] = "active"]
        /\ columnRow' = [columnRow EXCEPT ![d] = Reconciled(d, columns)]
        /\ edges' = edges \cup {<<SchemaOf[d], d>>} \cup {<<d, c>> : c \in columns}
        /\ walk' = [walk EXCEPT ![j].step = "datasets", ![j].toRead = @ \ {d}, ![j].datasets = @ \cup {d}]
  /\ UNCHANGED <<source, changes, schemaRow>>

ActiveColumns(d) == {c \in Column : columnRow[d][c] = "active"}

\* PUT key-columns: distinct columns of the dataset, all of them active.
AskKeys(a) ==
  /\ keying[a] = NoWork
  /\ \E d \in Dataset : \E k \in Reported(ActiveColumns(d)) :
       keying' = [keying EXCEPT ![a] = Loaded(d, k, {}, "delete")]
  /\ UNCHANGED <<source, changes, catalogue, keys, edges, walk, configs>>

\* confirm: the dataset is loaded, and has no key.
ConfirmKey(a) ==
  /\ keying[a] = NoWork
  /\ \E d \in Dataset :
       /\ datasetRow[d] = "active"
       /\ strategy[d] = "ROW_INDEX_FALLBACK"
       /\ \E k \in Reported(ActiveColumns(d)) :
            keying' = [keying EXCEPT ![a] = Loaded(d, k, {}, "sample")]
  /\ UNCHANGED <<source, changes, catalogue, keys, edges, walk, configs>>

\* The source has been sampled, and the key that is asked for is the one
\* candidate.  The strategy is not looked at again.
Sampled(a) ==
  /\ keying[a] # NoWork /\ keying[a].at = "sample"
  /\ keying[a].key \in Reported(ActiveColumns(keying[a].dataset))
  /\ keying' = [keying EXCEPT ![a].at = "delete"]
  /\ UNCHANGED <<source, changes, catalogue, keys, edges, walk, configs>>

CommitKeys(a) ==
  /\ WriteKeys(a)
  /\ UNCHANGED <<source, changes, catalogue, edges, walk>>

\* A constraint is violated, or the process ends: the transaction is rolled back.
KeysFail(a) ==
  /\ keying[a] # NoWork
  /\ keying' = [keying EXCEPT ![a] = NoWork]
  /\ UNCHANGED <<source, changes, catalogue, keys, edges, walk, configs>>
-----------------------------------------------------------------------------
(* The end of a walk *)

Unseen(rows, seen) == [x \in DOMAIN rows |-> IF rows[x] = "active" /\ x \notin seen THEN "inactive" ELSE rows[x]]

\* The provider is closed, and deactivate_missing committed.
DeactivateMissing(j) ==
  /\ At(j, "schemas") /\ walk[j].toList = {}
  /\ schemaRow' = Unseen(schemaRow, walk[j].schemas)
  /\ datasetRow' = Unseen(datasetRow, walk[j].datasets)
  /\ walk' = [walk EXCEPT ![j].step = "complete"]
  /\ UNCHANGED <<source, changes, columnRow, keys, edges, keying, configs>>

\* (Broken variant: a status the table does not know.)
CompleteSucceeded(j) ==
  /\ At(j, "complete")
  /\ walk' = [walk EXCEPT ![j] = [NoWalk EXCEPT !.status = "SUCCEEDED"]]
  /\ UNCHANGED <<source, changes, catalogue, keys, edges, keying, configs>>

\* Whatever the sweep or a cancel request has made of the job since.
Complete(j) ==
  /\ At(j, "complete")
  /\ walk' = [walk EXCEPT ![j] = [NoWalk EXCEPT !.status = "COMPLETED", !.undisturbed = walk[j].undisturbed]]
  /\ UNCHANGED <<source, changes, catalogue, keys, edges, keying, configs>>

\* The process ends, or an error nobody catches ends the task: a
\* SourceQueryError of list_schemas, a violated constraint.
WalkDies(j) ==
  /\ ~At(j, "idle")
  /\ walk' = [walk EXCEPT ![j] = [NoWalk EXCEPT !.status = walk[j].status]]
  /\ keying' = [keying EXCEPT ![j] = NoWork]
  /\ UNCHANGED <<source, changes, catalogue, keys, edges, configs>>

-----------------------------------------------------------------------------
(* What else changes *)

\* PATCH /datasets/{id}.
SetActive(d) ==
  /\ datasetRow[d] # "absent"
  /\ changes < MaxChanges
  /\ changes' = changes + 1
  /\ datasetRow' = [datasetRow EXCEPT ![d] = IF @ = "active" THEN "inactive" ELSE "active"]
  /\ Disturbs(Walk)
  /\ UNCHANGED <<source, schemaRow, columnRow, keys, edges, keying, configs>>

SourceChanges ==
  /\ changes < MaxChanges
  /\ changes' = changes + 1
  /\ \E d \in Dataset, columns \in SUBSET Column : source' = [source EXCEPT ![d] = columns]
  /\ Disturbs(Walk)
  /\ UNCHANGED <<catalogue, keys, edges, keying, configs>>

-----------------------------------------------------------------------------

\* Nothing is catalogued, or a source was whose datasets had all the columns.
DiscoveryInit ==
  /\ source \in [Dataset -> {{}, Column}]
  /\ changes = 0
  /\ \E r \in {"absent", "active"} :
       /\ schemaRow = [s \in Schema |-> r]
       /\ datasetRow = [d \in Dataset |-> r]
       /\ columnRow = [d \in Dataset |-> [c \in Column |-> r]]
       /\ edges = IF r = "absent" THEN {}
                  ELSE {<<"connection", s>> : s \in Schema} \cup {<<SchemaOf[d], d>> : d \in Dataset}
                       \cup (Dataset \X Column)
  /\ keyRow = [d \in Dataset |-> {}]
  /\ strategy = [d \in Dataset |-> "ROW_INDEX_FALLBACK"]
  /\ walk = [j \in Walk |-> NoWalk]
  /\ keying = [t \in Transaction |-> NoWork]
  /\ configs = 0

DiscoveryNext ==
  \/ \E j \in Walk :
       \/ AskDiscovery(j) \/ CreateJob(j) \/ RequestCancel(j) \/ SweepJob(j)
       \/ Start(j) \/ ListSchemas(j) \/ ListSchemasFails(j) \/ SeeCancel(j) \/ UpsertSchema(j) \/ NextSchema(j)
       \/ DatasetFails(j) \/ UpsertDataset(j) \/ BeginUpsert(j) \/ CommitUpsert(j)
       \/ DeactivateMissing(j) \/ Complete(j) \/ WalkDies(j)
  \/ \E t \in Transaction : DeleteKeys(t)
  \/ \E a \in Admin : AskKeys(a) \/ ConfirmKey(a) \/ Sampled(a) \/ CommitKeys(a) \/ KeysFail(a)
  \/ (\E d \in Dataset : SetActive(d)) \/ SourceChanges

-----------------------------------------------------------------------------
(* Properties *)

\* The key columns of a dataset are those of one configuration, in its order,
\* and a dataset falls back to row indexes exactly when it has none, though
\* discovery and two kinds of requests replace them row by row, each in its own
\* transaction (datasets/key_resolution.py, apply_key_columns).
KeysAreOneConfiguration == \A d \in Dataset :
  /\ \A r, s \in keyRow[d] : r.by = s.by
  /\ {r.ordinal : r \in keyRow[d]} = {i \in 0..Cardinality(Column) : i < Cardinality(keyRow[d])}
  /\ strategy[d] = "ROW_INDEX_FALLBACK" <=> keyRow[d] = {}

\* A walk that has completed without an error, and that nothing has disturbed
\* from the moment it listed the schemas until now, has made the catalogue what
\* the source is: the same schemas, datasets and columns are active, whatever
\* was catalogued before, and lineage leads from each column to the connection
\* (discovery/tasks.py, discovery/service.py).
CompletedWalkMirrorsSource ==
  (\E j \in Walk : walk[j].status = "COMPLETED" /\ walk[j].undisturbed) =>
    /\ \A s \in Schema : schemaRow[s] = "active" <=> \E d \in Dataset : SchemaOf[d] = s /\ source[d] # {}
    /\ \A d \in Dataset :
         /\ datasetRow[d] = "active" <=> source[d] # {}
         /\ source[d] # {} => ActiveColumns(d) = source[d]
         /\ source[d] # {} => {<<"connection", SchemaOf[d]>>, <<SchemaOf[d], d>>} \subseteq edges
         /\ {d} \X source[d] \subseteq edges
=============================================================================
