--------------------------- MODULE Materialization ---------------------------
(***************************************************************************)
(* run_staging_materialization: the Celery task that copies the source     *)
(* table of a staging run batch by batch into a table of its own and       *)
(* writes the staged corrections over the copy.                            *)
(*                                                                         *)
(* One staging run: no two runs share a table, a job or a message.  The    *)
(* rows that the source may have are numbered in the order in which it     *)
(* lists them; several may have the same key, and the parts of a key may   *)
(* be NULL.  A row of the copy is the source row it came from, its key by  *)
(* now and the records that were written over it.                          *)
(***************************************************************************)
EXTENDS Naturals, FiniteSets, SequencesExt

CONSTANTS
  MaxRow,      \* source rows are numbered 1..MaxRow
  BatchSize,   \* STAGING_MATERIALIZATION_BATCH_SIZE
  Datasets,    \* what may be keyed and corrected: see data
  Worker,
  MaxChanges,  \* bound: rows that are inserted into or deleted from the source
  MaxSent,     \* bound: times the task is enqueued
  MaxCrashes,  \* bound: workers that die
  NoTable      \* there is no such table

Row  == 1..MaxRow
Null == 0

ASSUME MaterializationConstants ==
  /\ MaxRow \in Nat
  /\ BatchSize \in Nat \ {0}
  /\ {MaxChanges, MaxSent, MaxCrashes} \subseteq Nat

\* parts: how many key columns there are, none with ROW_INDEX_FALLBACK.
\* key: of each row.  sets: staging record -> the key its row has with it; a
\* record is the number of the row it was made for.  blank: the records no
\* corrected field of which has a column.  Two records have different
\* references (unique constraint); rows are numbered in the order of their keys.
ASSUME DatasetsAreKeyed ==
  \A d \in Datasets :
    /\ d.parts \in Nat
    /\ d.key \in [Row -> [1..d.parts -> Nat]]
    /\ DOMAIN d.sets \subseteq Row
    /\ \A x \in DOMAIN d.sets : d.sets[x] \in [1..d.parts -> Nat]
    /\ d.blank \subseteq DOMAIN d.sets
    /\ d.parts > 0 => \A x, y \in DOMAIN d.sets : d.key[x] = d.key[y] => x = y
    /\ \A q, r, s \in Row : q < r /\ r < s /\ d.key[q] = d.key[s] => d.key[r] = d.key[q]

VARIABLES
  source,     \* rows of the source table
  changes,    \* times it has changed
  data,       \* the keys of its rows, and the staging records
  run,        \* the staging_runs row
  job,        \* jobs.status of its STAGING_BUILD job
  cancelFlag, \* the cancel key in Redis
  cancelling, \* a cancel request has read QUEUED
  sent,       \* times the task was enqueued
  message,    \* the broker holds its message
  table,      \* the rows of the destination table, or NoTable
  litter,     \* a table could not be dropped
  worker,     \* the step of the task a worker executes, and the rows it counted as copied
  crashes,    \* workers that have died
  swept       \* the sweep has selected the job

broker == <<sent, message>>
api    == <<cancelFlag, cancelling, swept>>
vars   == <<source, changes, data, run, job, api, broker, table, litter, worker, crashes>>

-----------------------------------------------------------------------------
(* Types *)

JobStatus == {"QUEUED", "RUNNING", "COMPLETED", "FAILED", "CANCELLED"}
Ended     == {"COMPLETED", "FAILED", "CANCELLED"}

Resolved == {"READY", "FAILED", "CANCELLED"}
Phase ==
  {"QUEUED", "PREPARING_SCHEMA", "CREATING_TABLE", "COPYING_SOURCE", "APPLYING_CORRECTIONS",
   "VALIDATING", "FINALIZING"} \cup Resolved

\* named: destination_table is set.  counted: source_row_count.  stable: the
\* source is what it was when it was counted.
RunRow == [phase : Phase, named : BOOLEAN, counted : Nat, copied : Nat, stable : BOOLEAN]

CopiedRow == [from : Row, key : Seq(Nat), written : SUBSET Row]

\* A table that is not there is no table without rows.
ASSUME NoTableIsNoTable == NoTable \notin Seq(CopiedRow)

Step ==
  {"idle", "markRunning", "prepare", "connect", "name", "create", "count", "copy", "check", "apply",
   "finalize", "finish", "audit", "dropFailed", "failJob", "failRun", "dropCancelled", "cancelJob", "cancelRun"}

NoTask == [step |-> "idle", copied |-> 0]

-----------------------------------------------------------------------------
(* The source, its keys and its pages *)

Records == DOMAIN data.sets
Keyed   == data.parts > 0

\* A row comes at the place that is the number of rows up to it.
InKeyOrder(rows) ==
  [n \in 1..Cardinality(rows) |-> CHOOSE r \in rows : Cardinality({q \in rows : q <= r}) = n]

\* ORDER BY the key columns leaves rows of one key in any order, by all columns
\* when there is no key in one: rows that a query puts in each other's places.
Ties ==
  {t \in [source -> source] :
     /\ \A q, r \in source : t[q] = t[r] => q = r
     /\ \A r \in source : IF Keyed THEN data.key[t[r]] = data.key[r] ELSE t[r] = r}

\* LIMIT BatchSize OFFSET offset, of the rows there are when it is read.
Page(offset, tie) ==
  LET rows == InKeyOrder(source)
      last == IF offset + BatchSize < Len(rows) THEN offset + BatchSize ELSE Len(rows)
      page == SubSeq(rows, offset + 1, last)
  IN [i \in DOMAIN page |-> tie[page[i]]]

SourceChanges ==
  /\ changes < MaxChanges
  /\ changes' = changes + 1
  /\ \E r \in Row : source' = IF r \in source THEN source \ {r} ELSE source \cup {r}
  /\ run' = [run EXCEPT !.stable = FALSE]
  /\ UNCHANGED <<data, job, api, broker, table, litter, worker, crashes>>

-----------------------------------------------------------------------------
(* The task, step by step *)

Working(w, s) == worker[w].step = s

Goto(w, s) == worker' = [worker EXCEPT ![w].step = s]

\* (Broken variant: a message is executed whatever has become of the run.)
TakeUnguarded(w) ==
  /\ message /\ Working(w, "idle")
  /\ message' = FALSE
  /\ Goto(w, "markRunning")
  /\ UNCHANGED <<source, changes, data, run, job, api, sent, table, litter, crashes>>

\* A message for a run that is resolved, or whose job has ended, is dropped.
Take(w) ==
  /\ message /\ Working(w, "idle")
  /\ message' = FALSE
  /\ IF job \in Ended \/ run.phase \in Resolved THEN UNCHANGED worker ELSE Goto(w, "markRunning")
  /\ UNCHANGED <<source, changes, data, run, job, api, sent, table, litter, crashes>>

MarkRunning(w) ==
  /\ Working(w, "markRunning")
  /\ job' = "RUNNING"
  /\ Goto(w, "prepare")
  /\ UNCHANGED <<source, changes, data, run, api, broker, table, litter, crashes>>

Prepare(w) ==
  /\ Working(w, "prepare")
  /\ run' = [run EXCEPT !.phase = "PREPARING_SCHEMA"]
  /\ Goto(w, "connect")
  /\ UNCHANGED <<source, changes, data, job, api, broker, table, litter, crashes>>

\* The credential and the provider.  If there is none, there is no table to
\* drop either.
Connect(w) ==
  /\ Working(w, "connect")
  /\ Goto(w, "name") \/ Goto(w, "failJob")
  /\ UNCHANGED <<source, changes, data, run, job, api, broker, table, litter, crashes>>

NameTable(w) ==
  /\ Working(w, "name")
  /\ run' = [run EXCEPT !.phase = "CREATING_TABLE", !.named = TRUE]
  /\ Goto(w, "create")
  /\ UNCHANGED <<source, changes, data, job, api, broker, table, litter, crashes>>

\* (Broken variant: CREATE TABLE IF NOT EXISTS.)
CreateTableIfMissing(w) ==
  /\ Working(w, "create")
  /\ table' = IF table = NoTable THEN << >> ELSE table
  /\ Goto(w, "count")
  /\ UNCHANGED <<source, changes, data, run, job, api, broker, litter, crashes>>

\* DROP and CREATE, so that a retry does not go on where another one ended.
CreateTable(w) ==
  /\ Working(w, "create")
  /\ table' = << >>
  /\ Goto(w, "count")
  /\ UNCHANGED <<source, changes, data, run, job, api, broker, litter, crashes>>

Count(w) ==
  /\ Working(w, "count")
  /\ run' = [run EXCEPT !.phase = "COPYING_SOURCE", !.counted = Cardinality(source), !.stable = TRUE]
  /\ worker' = [worker EXCEPT ![w] = [step |-> "copy", copied |-> 0]]
  /\ UNCHANGED <<source, changes, data, job, api, broker, table, litter, crashes>>

\* A page is read, the flag looked at, the rows inserted.  A page that is not
\* full is the last one.
CopyPage(w) == \E tie \in Ties :
  LET page   == Page(worker[w].copied, tie)
      copied == worker[w].copied + Len(page)
  IN
  /\ Working(w, "copy")
  /\ page # << >> => ~cancelFlag /\ table # NoTable
  /\ table' = IF page = << >> THEN table
              ELSE table \o [i \in DOMAIN page |->
                               [from |-> page[i], key |-> data.key[page[i]], written |-> {}]]
  /\ run' = IF page = << >> THEN run ELSE [run EXCEPT !.copied = copied]
  /\ worker' = [worker EXCEPT
       ![w] = [step |-> IF Len(page) < BatchSize THEN "check" ELSE "copy", copied |-> copied]]
  /\ UNCHANGED <<source, changes, data, job, api, broker, litter, crashes>>

\* The flag is not looked at when there is no row left to copy.
SeeCancel(w) ==
  /\ Working(w, "copy")
  /\ worker[w].copied < Cardinality(source)
  /\ cancelFlag
  /\ Goto(w, "dropCancelled")
  /\ UNCHANGED <<source, changes, data, run, job, api, broker, table, litter, crashes>>

CheckCount(w) ==
  /\ Working(w, "check")
  /\ IF worker[w].copied = run.counted
       THEN run' = [run EXCEPT !.phase = "APPLYING_CORRECTIONS"] /\ Goto(w, "apply")
       ELSE UNCHANGED run /\ Goto(w, "dropFailed")
  /\ UNCHANGED <<source, changes, data, job, api, broker, table, litter, crashes>>

\* UPDATE ... WHERE key = record_ref, or IS NULL for a part of it that is: it
\* hits every row that has the key.  A record is passed over when its reference
\* cannot be parsed to a key, and when it would set no column.
Hits(x, key) == Keyed /\ x \notin data.blank /\ key = data.key[x]

\* The keys a row has, from its first one, as the records are written in this
\* order.
KeysOf(row, order) == CHOOSE k \in [0..Len(order) -> {row.key} \cup Range(data.sets)] :
  /\ k[0] = row.key
  /\ \A n \in DOMAIN order : k[n] = IF Hits(order[n], k[n - 1]) THEN data.sets[order[n]] ELSE k[n - 1]

\* (Broken variant: the records are matched to the rows by their position.)
OverlayByPosition(i, order) == [table[i] EXCEPT !.written = @ \cup ({i} \cap Records)]

\* A row of the table and the records that are written over it.
Overlay(i, order) ==
  LET k == KeysOf(table[i], order) IN
  [table[i] EXCEPT !.key = k[Len(order)],
                   !.written = @ \cup {order[n] : n \in {m \in DOMAIN order : Hits(order[m], k[m - 1])}}]

\* All records in one transaction, in whatever order they are read: the query
\* has no ORDER BY.
ApplyCorrections(w) ==
  /\ Working(w, "apply")
  /\ \E order \in SetToSeqs(Records) : table' = [i \in DOMAIN table |-> Overlay(i, order)]
  /\ run' = [run EXCEPT !.phase = "VALIDATING"]
  /\ Goto(w, "finalize")
  /\ UNCHANGED <<source, changes, data, job, api, broker, litter, crashes>>

Finalize(w) ==
  /\ Working(w, "finalize")
  /\ run' = [run EXCEPT !.phase = "FINALIZING"]
  /\ Goto(w, "finish")
  /\ UNCHANGED <<source, changes, data, job, api, broker, table, litter, crashes>>

\* (Broken variant: the phase is given the name of the job's status.)
FinishCompleted(w) ==
  /\ Working(w, "finish")
  /\ run' = [run EXCEPT !.phase = "COMPLETED"]
  /\ job' = "COMPLETED"
  /\ Goto(w, "audit")
  /\ UNCHANGED <<source, changes, data, api, broker, table, litter, crashes>>

\* mark_completed commits the phase with the job.
Finish(w) ==
  /\ Working(w, "finish")
  /\ run' = [run EXCEPT !.phase = "READY"]
  /\ job' = "COMPLETED"
  /\ Goto(w, "audit")
  /\ UNCHANGED <<source, changes, data, api, broker, table, litter, crashes>>

\* The audit event is a transaction of its own, the last one of the task.
Audit(w) ==
  /\ Working(w, "audit")
  /\ worker' = [worker EXCEPT ![w] = NoTask]
  /\ UNCHANGED <<source, changes, data, run, job, api, broker, table, litter, crashes>>

\* key = record_ref in SQL is true, false or, where a part is NULL, neither.
Equal(key, ref)  == \A n \in 1..data.parts : key[n] # Null /\ ref[n] # Null /\ key[n] = ref[n]
Differ(key, ref) == \E n \in 1..data.parts : key[n] # Null /\ ref[n] # Null /\ key[n] # ref[n]

\* preview_materialized: the rows whose key is IN, or NOT IN, the references.
\* Without a key CHANGED is none and UNCHANGED is all.
Preview(filter) ==
  LET refs == IF Keyed THEN {data.key[x] : x \in Records} ELSE {} IN
  {i \in DOMAIN table :
     /\ filter = "CHANGED"   => \E ref \in refs : Equal(table[i].key, ref)
     /\ filter = "UNCHANGED" => \A ref \in refs : Differ(table[i].key, ref)}

-----------------------------------------------------------------------------
(* How it fails, is cancelled or dies *)

\* A source error is one of _TERMINAL_SOURCE_ERRORS; any other exception, a
\* value that does not convert to the type of its column among them, ends in
\* the catch-all, which cleans up and fails the run in the same way, also when
\* it is the audit event of a run that is READY already.
Raises(w) ==
  /\ worker[w].step \notin {"idle", "dropFailed", "failJob", "failRun"}
  /\ Goto(w, "dropFailed")
  /\ UNCHANGED <<source, changes, data, run, job, api, broker, table, litter, crashes>>

\* _cleanup_destination_table does its best and reports nothing.
DropTable(w) ==
  /\ \/ Working(w, "dropFailed") /\ Goto(w, "failJob")
     \/ Working(w, "dropCancelled") /\ Goto(w, "cancelJob")
  /\ \/ table' = (IF run.named THEN NoTable ELSE table) /\ UNCHANGED litter
     \/ run.named /\ litter' = TRUE /\ UNCHANGED table
  /\ UNCHANGED <<source, changes, data, run, job, api, broker, crashes>>

\* (Broken variant: the phase of the run is left as it is.)
FailJobAlone(w) ==
  /\ Working(w, "failJob")
  /\ job' = "FAILED"
  /\ worker' = [worker EXCEPT ![w] = NoTask]
  /\ UNCHANGED <<source, changes, data, run, api, broker, table, litter, crashes>>

FailJob(w) ==
  /\ Working(w, "failJob")
  /\ job' = "FAILED"
  /\ Goto(w, "failRun")
  /\ UNCHANGED <<source, changes, data, run, api, broker, table, litter, crashes>>

FailRun(w) ==
  /\ Working(w, "failRun")
  /\ run' = [run EXCEPT !.phase = "FAILED"]
  /\ worker' = [worker EXCEPT ![w] = NoTask]
  /\ UNCHANGED <<source, changes, data, job, api, broker, table, litter, crashes>>

CancelJob(w) ==
  /\ Working(w, "cancelJob")
  /\ job' = "CANCELLED"
  /\ cancelFlag' = FALSE
  /\ Goto(w, "cancelRun")
  /\ UNCHANGED <<source, changes, data, run, cancelling, swept, broker, table, litter, crashes>>

CancelRun(w) ==
  /\ Working(w, "cancelRun")
  /\ run' = [run EXCEPT !.phase = "CANCELLED"]
  /\ worker' = [worker EXCEPT ![w] = NoTask]
  /\ UNCHANGED <<source, changes, data, job, api, broker, table, litter, crashes>>

\* The process ends: nobody resolves the run.
Crash(w) ==
  /\ crashes < MaxCrashes
  /\ ~Working(w, "idle")
  /\ crashes' = crashes + 1
  /\ worker' = [worker EXCEPT ![w] = NoTask]
  /\ UNCHANGED <<source, changes, data, run, job, api, broker, table, litter>>

-----------------------------------------------------------------------------
(* Enqueuing, cancelling, the sweep *)

\* The route enqueues the task once.  It is enqueued again by hand, when nobody
\* executes it ("a manual re-invocation").
Enqueue ==
  /\ sent < MaxSent
  /\ ~message /\ \A w \in Worker : Working(w, "idle")
  /\ sent' = sent + 1
  /\ message' = TRUE
  /\ UNCHANGED <<source, changes, data, run, job, api, table, litter, worker, crashes>>

RequestCancel ==
  /\ job \in {"QUEUED", "RUNNING"}
  /\ ~cancelling /\ ~cancelFlag
  /\ cancelFlag' = TRUE
  /\ cancelling' = (job = "QUEUED")
  /\ UNCHANGED <<source, changes, data, run, job, swept, broker, table, litter, worker, crashes>>

\* No run table is listed for a STAGING_BUILD: the phase stays QUEUED.
CancelQueued ==
  /\ cancelling
  /\ cancelling' = FALSE
  /\ job' = "CANCELLED"
  /\ UNCHANGED <<source, changes, data, run, cancelFlag, swept, broker, table, litter, worker, crashes>>

\* Copying never touches the job's heartbeat: any run that takes long is stale.
SweepSelect ==
  /\ job = "RUNNING" /\ ~swept
  /\ swept' = TRUE
  /\ UNCHANGED <<source, changes, data, run, job, cancelFlag, cancelling, broker, table, litter, worker,
                 crashes>>

SweepCommit ==
  /\ swept
  /\ swept' = FALSE
  /\ job' = "FAILED"
  /\ UNCHANGED <<source, changes, data, run, cancelFlag, cancelling, broker, table, litter, worker, crashes>>

-----------------------------------------------------------------------------
(* Specification *)

Init ==
  /\ source \in SUBSET Row
  /\ changes = 0
  /\ data \in Datasets
  /\ run = [phase |-> "QUEUED", named |-> FALSE, counted |-> 0, copied |-> 0, stable |-> FALSE]
  /\ job = "QUEUED"
  /\ cancelFlag = FALSE /\ cancelling = FALSE /\ swept = FALSE
  /\ sent = 0 /\ message = FALSE
  /\ table = NoTable /\ litter = FALSE
  /\ worker = [w \in Worker |-> NoTask]
  /\ crashes = 0

TaskStep(w) ==
  \/ MarkRunning(w) \/ Prepare(w) \/ Connect(w) \/ NameTable(w) \/ CreateTable(w) \/ Count(w)
  \/ CopyPage(w) \/ SeeCancel(w) \/ CheckCount(w) \/ ApplyCorrections(w) \/ Finalize(w) \/ Finish(w)
  \/ Audit(w) \/ DropTable(w) \/ FailJob(w) \/ FailRun(w) \/ CancelJob(w) \/ CancelRun(w) \/ Raises(w)

Next ==
  \/ \E w \in Worker : Take(w) \/ TaskStep(w) \/ Crash(w)
  \/ Enqueue \/ RequestCancel \/ CancelQueued \/ SweepSelect \/ SweepCommit
  \/ SourceChanges

\* A worker that executes the task goes on with it.
Fairness == \A w \in Worker : WF_vars(TaskStep(w))

Spec == Init /\ [][Next]_vars /\ Fairness

-----------------------------------------------------------------------------
(* Properties *)

TypeOK ==
  /\ source \subseteq Row
  /\ changes \in 0..MaxChanges
  /\ data \in Datasets
  /\ run \in RunRow
  /\ job \in JobStatus
  /\ {cancelFlag, cancelling, swept, message, litter} \subseteq BOOLEAN
  /\ sent \in 0..MaxSent
  /\ table \in Seq(CopiedRow) \cup {NoTable}
  /\ worker \in [Worker -> [step : Step, copied : Nat]]
  /\ crashes \in 0..MaxCrashes

\* The key columns tell any two rows apart; no correction of a row gives it
\* another key; no row has a key with a NULL in it.
KeysIdentify == \A q, r \in Row : data.key[q] = data.key[r] => q = r
KeysAreKept  == \A x \in Records : data.sets[x] = data.key[x]
KeysAreWhole == \A r \in Row : \A n \in 1..data.parts : data.key[r][n] # Null

\* A run that is READY has as many rows as were counted; if the source has not
\* changed since, and its key orders it, every row of it exactly once, though
\* pages are separate queries and a retry may follow on a worker that died
\* half-way (staging/tasks.py, "the row-count invariant this phase must never
\* silently violate", "never append into a half-filled table").  It lacks its
\* table only while the task takes it back, or when its worker died over that.
ReadyTableIsTheSource ==
  run.phase = "READY" =>
    /\ table = NoTable => crashes > 0 \/ \E w \in Worker : worker[w].step \in {"failJob", "failRun"}
    /\ table # NoTable =>
         /\ Len(table) = run.counted
         /\ run.stable /\ (Keyed => KeysIdentify) => {table[i].from : i \in DOMAIN table} = source

\* A staged correction is on every row that has the key of its row, hence on its
\* own one alone if the key identifies rows, and on none if there is no key
\* (staging/tasks.py, "overlays the same approved corrections ... onto the
\* matching rows"); the preview of the changed rows shows those, if there is
\* neither a NULL in a key nor a record that sets nothing.
CorrectionsOnTheirRows ==
  run.phase = "READY" /\ table # NoTable /\ KeysAreKept =>
    /\ \A i \in DOMAIN table :
         table[i].written = {x \in Records \ data.blank : Keyed /\ data.key[x] = data.key[table[i].from]}
    /\ Keyed /\ KeysIdentify =>
         \A i \in DOMAIN table : table[i].written = {table[i].from} \cap (Records \ data.blank)
    /\ KeysAreWhole /\ data.blank = {} =>
         /\ Preview("CHANGED") = {i \in DOMAIN table : table[i].written # {}}
         /\ Preview("UNCHANGED") = {i \in DOMAIN table : table[i].written = {}}

\* What preview and publication can see of it: a table at once and whole, that
\* does not change, and does not disappear once its task has ended, whatever
\* sweeps, cancel requests and retries do to the job (StagedTable).
Outcome ==
  IF run.phase = "READY" THEN "ready"
  ELSE IF run.phase \in Resolved THEN "discarded"
  ELSE "building"

Offered ==
  IF run.phase = "READY" /\ table # NoTable THEN [rows |-> table, counted |-> run.counted]
  ELSE [rows |-> << >>, counted |-> 0]

Settled == run.phase \in Resolved /\ \A w \in Worker : Working(w, "idle")

Promised == INSTANCE StagedTable WITH outcome <- Outcome, offered <- Offered, settled <- Settled

KeepsItsPromise == Promised!Spec

\* A task that is executed resolves its run, unless its worker dies
\* (staging/tasks.py, "can never get stuck mid-phase forever").
ExecutedRunsResolve ==
  (\E w \in Worker : Working(w, "markRunning")) ~> run.phase \in Resolved \/ crashes > 0
=============================================================================
