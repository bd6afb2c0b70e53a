# DataCraft backend: a TLA+ verification project

DataCraft finds data-quality problems in customers' databases, has people decide
on corrections, has the corrections approved, and delivers the corrected data.
The backend (`src/app`) is a FastAPI service and a set of Celery workers over one
PostgreSQL database; Redis is the Celery broker and holds a few flags.

This directory models the parts of it where the order of events matters, checks
the models with TLC on small instances, and proves the most important invariants
with TLAPS for instances of any size.

## 1. The system

### How it executes

* Every HTTP request and every Celery task has a SQLAlchemy session of its own
  (`app/core/database.py`: `autoflush=False`, `expire_on_commit=False`), at
  PostgreSQL's default isolation level READ COMMITTED.  A handler is a sequence
  of reads, each of what is committed at that moment, and one or more commits.
  Nothing is re-read at the commit; a flush writes only the columns whose value
  differs from the one that was loaded.
* Only three handlers lock a row (`SELECT ... FOR UPDATE`): `ApprovalService.decide`
  (its request), `StagingService.trigger` (the review run) and
  `PublishingService.trigger` (the staging run).
* A service creates the row of a job and commits; the *route* then calls
  `.delay()`.  A process that stops in between leaves a QUEUED job without a
  message.  Celery acknowledges a message when it is delivered, so a worker that
  dies loses it.
* `jobs.sweep_stale_jobs` runs every 300 s and fails jobs that have been RUNNING
  for longer than `STALE_JOB_THRESHOLD_MINUTES`.

### Components

| Component | State | Operations | What is hard | What makes it correct |
|---|---|---|---|---|
| jobs (`modules/jobs`) | `jobs.status`, `updated_at`; Redis flag `job:<id>:cancel_requested` | create, mark_running/completed/failed/cancelled, cancel, sweep | cancel against pick-up; the sweep against a worker that is still alive; a worker that dies | a job ends and leaves no run in flight; one worker executes it; one cancelled in the queue has no effect |
| profiling, validation (`tasks.py`, `service.py`, `engine.py`) | `profile_runs`, `validation_runs`, results, `datasets.last_*` | start, execute with cancel checks, per-column / per-row results, timeout thread | in-flight check without lock, partial results, abandoned evaluation thread | results only of completed validation runs; a failure is of the row it names |
| review: decisions (`decision_service.py`) | `corrections`, `issues.status`, `correction_suggestions.is_selected` | accept, edit, reject, skip, correct_directly, bulk_action | guards read before they are relied on, partial column updates, order of updates in a flush | terminal decisions are final; issue, selection and correction agree; scope frozen after submission |
| review: runs (`service.py`, `suggestion_service.py`) | `review_runs.status`, suggestions | create, archive, restore, generate suggestions | status written from a stale read | an open approval request freezes its run |
| approval (`service.py`, `status_logic.py`) | `approval_requests`, `approval_decisions`, `approval_decision_issues` | submit, decide | submit without lock; scope recomputed at each decide | one open request per run; no issue decided twice; status is the summary of the decisions; requests get closed |
| staging (`service.py`, `record_builder.py`) | `staging_runs`, `staging_records` | trigger (attempt, records, job) | build outside the lock, uses today's corrections for yesterday's approval, no recovery of BUILDING | what is approved is staged, on the row it was approved for; one attempt is current |
| materialization (`staging/tasks.py`) | `staging_runs.materialization_phase`, a table per attempt | run_staging_materialization | phases, cancel, clean-up, row counts, a second delivery | READY means the table is complete, and it stays once the task has ended; a task that is executed resolves its run |
| publishing (`service.py`, `tasks.py`, `run_options.py`, `file_export.py`) | `publish_runs`, overwrite flag in Redis, the exported file | trigger, acknowledge_drift, run_publish | drift gate with a second delivery, checks made at trigger time only | only the current READY attempt is published, once, drift acknowledged |
| discovery | `schemas`, `datasets`, `columns`, `is_active` | start, run_discovery | per-dataset faults, cancellation | a walk that meets no fault leaves the catalogue as the source is |
| rules | `rules`, `rule_versions`, `rule_assignments` | create, publish_version, promote, dismiss, assign, disable, detection | current version flag, promotion against dismissal | nothing automated becomes active without promotion |
| datasets (keys, preview) | `key_strategy`, key columns | set_key_columns, discover/confirm business key | verification against a source that changes | a confirmed key finds each row; the key rows are of one configuration |
| connections, vault, data_sources | `is_active`, credentials in Redis | create, update, (de)activate, test | parent and child checked in different transactions | a committed connection has a credential that resolves |
| users, auth | users, roles; refresh tokens in Redis | login, refresh, logout, change/reset password | issue against revoke-all | a token is used once; a login has one live token |
| ai | suggestions, usage logs, conversations | five jobs, chat, evidence engines | two queries of a source that changes, an answer nobody controls, a failure of one issue, commits inside a larger operation | a suggestion never says more than was derived; the value under review is no evidence; every call accounted for |
| lineage, audit | edges, events | record_edge(s), record | written in the caller's transaction | exist iff the operation committed |
| reports, previews | none | read only | | |
| source_adapters | none | five providers, timeout thread | a call that outlives its timeout | |
| core, alembic, scripts | configuration, constraints | | | |

## 2. The plan

Modules are written bottom up: a `...Db` module declares rows and actors, one
module per service, task or algorithm has its steps, and a last one composes them,
with the properties beside the actions.  `MC...` modules instantiate for TLC,
`...Proofs` modules hold the theorems.

| Part | Modules | State |
|---|---|---|
| Review and approval: the longest human workflow, with the most handlers on the same rows | `ReviewDb` ← `CorrectionDecisions`, `ApprovalRequests`, `ReviewRuns` ← `ReviewApproval`; `ReviewApprovalProofs` | done, proved |
| Jobs: what every asynchronous operation rests on | `JobsDb` ← `JobsApi`, `RunWorker`, `StaleSweep` ← `JobRuns`; `JobRunsProofs` | done for profiling and validation, proved |
| Delivery: from the approved run to the exported file | `DeliveryDb` ← `StagingRuns`, `PublishRuns` ← `Delivery`; `DeliveryProofs` | done, proved |
| Materialization: the copy of the source with the corrections over it | `Materialization`, which implements the abstract `StagedTable`; `MaterializationProofs` | done, proved with the refinement |
| Row provenance: from the source through validation and approval to a staged record, row by row | `SourceRows` ← `RuleChecks`, `KeyCandidates`, `StagedRecords` ← `RowProvenance`; `RowProvenanceProofs` | done, proved |
| AI corrections: what is derived from the rows and what is kept of an answer | `CellValues` ← `Relationships`, `Progressions`, `Templates` ← `Inference` ← `Suggesting`; `SuggestingProofs` | done for correction suggestions; accounting, derivation, whole candidates and independence of the failing value proved, for any number of batches, the engines' accuracy model-checked |
| Administration: sources and credentials, the catalogue, rules, sessions | `SourceRegistry`, `Discovery`, `Access`, `Rules` ← `Administration`; `AdministrationProofs` | done, proved |

What is left, in this order:

* An abstract specification of an *approval request* as a set of decided issues that
  only grows, with its status a function of it.  Its parts are proved (`NoDoubleDecision`,
  `StatusIsSummary`), the refinement is not stated.  The life of a *publish run* is proved as an action
  property (`RunIsExecutedOnce`), not as a module of its own.
* A composition of `ReviewApproval` with `StagingRuns!TriggerStaging`, whose
  parameter `approved` becomes what `_resolve_approved_scope` reads.
* The detection of rules, the generators and the jobs of the AI that only add rows.

## 3. How the models correspond to the code

### Common conventions

* **Steps.** What a handler reads up to the point where it relies on it, and what it
  commits, are different actions whenever another actor may run in between.
  `call[c]` (`api[c]` in the job modules) is the request a caller has in flight,
  with what it has read; `worker[w]` is the task of a Celery worker.  A handler
  that refuses a request changes nothing, so refusals are the negated guards.
* **Sessions.** `Flushed(row, loaded, new)` is what an UPDATE does to a column: the
  new value if it differs from the one that was loaded, otherwise whatever the
  column has become.  Nothing is refreshed at a commit.
* **Row locks** are not variables: a lock is held exactly while the request that
  took it is between its two actions, so "locked" is a state formula over `call`.
* **Rows** that may not exist yet have the status `"NO_ROW"`; ids are model
  values, chosen by the creating action, and their number is a bound.  An action
  `OutOf...` ends a request that finds no id left; it is part of the bound, not of
  the code.
* **Broken variants** (comments in parentheses) are operators no action uses.  Each
  is a plausible error in the operator that follows; replacing that operator by it
  must violate a property of a run.

### Review and approval

`ReviewDb` has `runStatus`, `issueStatus`, `suggestions`, `selected`, `correction`,
`request`, `decisions`.  An accept is `Decide`/`Accept` (run check) → `CheckNotTerminal`
(first loop or check) → `ReadCorrection` (the row the upsert will compare with) →
`CommitDecision`, or `FailDecision` when the flush violates
`uq_correction_suggestions_issue_selected`: the flush sends its UPDATEs in the order
of primary keys, so switching a selection works in one direction and fails in the
other (`KeyOf`).  `Submit`/`CommitSubmit` take no lock; `DecideRequest`/`CommitDecide`
hold the row of the request.  Archive, restore, rule-based generation (a commit per
batch) and AI generation (a commit per issue) are in `ReviewRuns`.  A value is a model
value; what matters is whether there is one, and which.  `Endpoint` selects which
requests an instance makes.

### Jobs

`JobsDb` has `job`, `run`, `results`, `counted`, the cancel flags, the messages, and
`overdue` (the heartbeat is older than the threshold; `TimePasses` makes it so).
`JobsApi` has the start of a run up to its dispatch, and the five steps of a cancel.
`RunWorker` has the tasks `run_profile` and `run_validation` between their commits: a
worker works on *pieces* (a column, or a batch of rows between two cancel checks)
and `left`, `rows` and `counted` are what is in its memory and in its session.
`Crash` loses the task with its message, as Celery's early acknowledgement does;
`CrashSpec` has it, `Spec` has not.  `StaleSweep` selects, reads run rows and commits.

### Delivery

`StagingRuns`: `TriggerStaging` (under the lock of the review run), `CommitAttempt` (the
attempt becomes current before it is built), `BuildRecord` (one commit each),
`FinishBuild`, `BuildFails`, `BuildAbandoned`.  A *record* stands for a `record_ref` and its
corrections; the records in `Conflicting` are those `build_corrected_fields` refuses.
`PublishRuns`: `TriggerPublish`/`CommitPublish` (under the lock of the staging run),
`Dispatch` (overwrite flag, then the message), `AcknowledgeDrift` and `Redispatch`
(`acknowledge_drift` and its route), then the task: `DropResolved`, `LeaveBlocked`, `Take`,
`MarkRunning`, `StartPublish`, `CheckTarget`, `Write` or `WriteFails`, `Finish` or
`FailJob` and `FailRun`.  `Abandon` is a worker that dies and also an exception that
`run_publish` does not catch; it has no catch-all.  `Cancel`, `SweepSelect` and
`SweepCommit` are what `JobsService.cancel` and the sweep do to a PUBLISH job: the job
only.  `file` has the export targets at which a file exists;
what is in them is not modelled.  With `Patient`, clients acknowledge
drift once and only when the run rests, PENDING and blocked; without it at any time.

### Materialization

`run` is the staging run (its phase, whether the destination table is named, the
counts), `table` the rows of the destination table, `worker[w]` the step of the task.
The task is `Take`, `MarkRunning`, `Prepare`, `Connect`, `NameTable`, `CreateTable` (DROP and
CREATE), `Count`, then `CopyPage` (a page of `iter_rows` is a query of its own, by key
order and offset) or `SeeCancel`, `CheckCount`, `ApplyCorrections` (all in one transaction,
in any order), `Finalize`, `Finish` (READY, committed with the job) and `Audit`, a transaction of
its own that is still inside the `try`.  `Raises` is any error of any step, among them a
value that does not convert and an audit event that cannot be written; `DropTable` is `_cleanup_destination_table`, which may fail
without a word (`litter`), then `FailJob`, `FailRun` or `CancelJob`, `CancelRun`.  `Crash` loses the
task, `Enqueue` sends it again when nobody executes it.  A row of the copy is the
source row it came from, its key and the records written over it; names, types and
other values are left out.  `stable` says that the source is what it was when it was counted.

`data` is one of the constant `Datasets`: the key of each source row, a tuple with a part per key
column (none with `ROW_INDEX_FALLBACK`; a part may be NULL; rows may share a key), and the staging records, with the key that
each gives its row and those of which no corrected field has a column.  `ORDER BY` the key leaves rows of one key
in any order, in each page another (`Ties`).  `Hits` is the UPDATE: nothing without a key or without a column, `IS
NULL` for a part that is NULL, and every row that has the key.  `Preview` compares as SQL
does with `IN` and `NOT IN`, which a NULL makes neither true nor false.

`StagedTable` is what preview and publication see of it: a table that is offered
whole and at once, or discarded, and does not change after that.  Until that is settled, the task that offered it
may take it back (`Withdraw`, then `Discard`).  `Materialization`
instantiates it with `Outcome`, `Offered` and `Settled`; `KeepsItsPromise` is that it implements it.

### Row provenance

One dataset row by row.  `SourceRows` has what a source may answer: a sample with the
`LIMIT` and `TABLESAMPLE` the row-count estimate leads to, exact aggregates, rows by keys.
`RuleChecks` has the evaluators: which of the rows that were read a rule fails on.
`KeyCandidates` has the search for the narrowest combination of columns that identifies
rows.  `StagedRecords` has `generate_record_ref`, its parsing, grouping, drift and
conflicts.  `RowProvenance` lets them act: `SetKey`, or `SampleForKey` and `AdoptKey`
(confirm); `ReadRows` and `Evaluate` (the two queries of a validation, the second of which may
time out or not be implemented); `Approve`; `Stage`; and `SourceChanges` in between.
Values are positive numbers or `Null`; a reference is the sequence of the texts that the
separator joins (values that contain the separator are left out), and one that no
cell holds is a number that is not positive.  Which columns a dataset has does not change.

### AI corrections

`Suggesting` is any number of batches of `generate_corrections` at the same time, since neither the
route nor the task keeps a second one from starting, and each reads once which issues are suggested for: `Generate`, `NextIssue`, `FetchRow` (the
failing row), `SampleRows` (the rows it is compared with, a second query), `Answer` (any
answer, with its usage log, committed in the middle), `FailBeforeCall`, `FailAfterCall`, `Write`
(the suggestion), `Finish`, `Crash`.  `Inference` has which engines apply, the ranking of their
candidates and the two filters of the answer; `Relationships`, `Progressions` and `Templates`
are the engines, as operators from rows to a set that is empty when the code
declines.  A column carries the percentage of distinct values in its latest profile, which the code
prefers to counting the rows it has read; that a profile is made while a batch runs is left out.  A text is a sequence of atoms (a word, its case, the number after
it); numbers are small integers, fits and confidences are in thousandths and ratios in
hundredths, rounded down, so that products stay within 32 bits; dates are months, days and
hours of 2000–2099.  Two constants are smaller in the instance than in the code, like the tables: the sample from which
on a numeric column may be an identifier is 7 rows (`PromotionSample`; 20 in the code), and a
progression may have 1,000 slots (`MaxSlots`; 10,000 in the code, and 2,000 for months and years).
The theorems hold for every value of both.

### Administration

Four parts that share no row; a behaviour of `Administration` is one of a single part.
`SourceRegistry`: a data source, a connection and the vault; a request that stores a
credential does so first, `CommitRequest` is its transaction, `RequestDies` its end before it.
`Discovery`: the walk of a connection (`ListSchemas`, `UpsertSchema`, `UpsertDataset`, or `BeginUpsert`,
`DeleteKeys`, `CommitUpsert` where there is a primary key; `DatasetFails`, `SeeCancel`,
`DeactivateMissing`, `Complete`), and the requests that write the same keys (`AskKeys`,
`ConfirmKey`, `Sampled`, `CommitKeys`).  `Rules`: a rule, its versions and assignments, each
request as read and commit.  `Access`: the refresh tokens of a user, one command of
Redis per action, a pipeline being one.

## 4. What is checked

| Run | Instance | Shows |
|---|---|---|
| `ReviewSerial` | one request at a time, two issues, two suggestions for the first, two approval requests, all endpoints except deciding a closed request, fairness | the submitted scope is frozen, a closed request decided all of it, terminal decisions stay, the selected suggestion is the one the correction came from, an open request is closed in the end |
| `ReviewConcurrent` | two requests at a time: accept, skip, correct, submit, decide (also closed requests), archive, restore, AI generation | what the row lock of `decide` gives however requests overlap |
| `ReviewBulkOtherRun` | two runs | **fails**: a bulk action on one run changes a frozen run |
| `JobsSafety` | a profile and a validation, two requests, two workers, the sweep, no crash | no orphaned run, no double execution |
| `JobsCrashes` | two pieces, one request, one worker, crashes, fairness | validation results appear at once; a job cancelled in the queue is not worked on and leaves nothing; running and cancelled jobs end |
| `JobsLiveSwept` | one worker | **fails**: a run that makes progress is swept |
| `DeliverySafety` | two attempts, two publish runs, two records of which one cannot be built, one target, two requests, two workers, the sweep, losses, patient clients | attempts follow one another, one publish run is live, what is published is whole, drift is acknowledged first, no wake-up is lost |
| `DeliveryTwice` | one attempt and run, two workers, impatient clients | **fails**: a PUBLISHED run is executed again |
| `Materializing` | up to three rows, pages of two, two corrections, four datasets (a key, a key two rows share, a NULL in a key of two columns with a record that sets none, no key), two changes of the source, two deliveries, one crash, a cancel request, the sweep | a READY table is the source if the key orders it, each correction is on the rows of its key and the preview shows those, `StagedTable` is implemented, an executed task resolves its run |
| `Administering` | two requests (connections, rules, tokens); one walk over two datasets in two schemas, one request for keys, one change of the source | credentials resolve, a login has one live token, promotion is whole, keys are one configuration, an undisturbed walk makes the catalogue what the source is |
| `Suggesting` | 75 small tables, most with one planted fault, six with a profile, which may be stale; two confidences, one edit of the source, two batches or one death on the tables that have few rows | a fault is repaired exactly, the value under review is no evidence, what is stored is derived, attempts are accounted for |
| `RowProvenance` | five tables of up to three rows and three columns, three sets of rules, three keys, three estimates, up to two approved issues, one edit, one new key | a staged record is about the row that was validated, nothing approved is lost or overruled, a confirmed key finds its rows |

A run that fails shows a disagreement between the code and what its documents say;
each is in `PROJECT.json` under `findings` with the line that is contradicted.

**Bounds.**  Races in this code are between a reader and a writer of one row, so two
callers, two workers and the sweep contain them; two issues make partial approval
possible, two requests make "closed, then submitted again" possible, two suggestions
make a switch possible; two attempts make one of them superseded, two publish runs
make a retry possible; two pieces make partial results possible.  `MaxMessages`
bounds only acknowledgements (a client that acknowledges for ever fills the broker).
Ids run out, and then nothing more happens: that is why the runs with
`CHECK_DEADLOCK FALSE` have it.  In `Materializing`, three rows in pages of two make a
full page, a short one and an insertion or deletion that shifts them; a second
delivery and one crash make a table that is left half-filled and taken up again; the
source changes twice, so that its number of rows may be the old one.  Two workers never execute
it at once there.  In `Suggesting`, the planted faults are one or two per engine and
strategy, with tables on which the engines have to decline or disagree; the
commits are so few that one edit and one death fall between any two of them.  Each table says how many
batches may be asked for and how many may die: two batches overlap on four tables, on which they have
one issue and a death, two issues, no prompt version, or advanced evidence; more than two are
left to the theorem.
In `RowProvenance`, three rows allow for a key of one column, of two, or none, two issues for two
in one record or in two; samples of two rows are smaller than some of the tables.

**Symmetry** is used on callers, workers and ids that no definition orders, and in
runs without temporal properties only.

**Fairness.**  A request that is being served goes on (weak fairness of its steps): it
is a thread that waits for nothing but row locks.  A message is delivered while a
worker is free, a worker goes on with its task, Celery beat keeps starting the sweep,
time passes: weak fairness each.  Nobody is assumed to start, cancel or crash anything.  In
`Materializing` a worker that executes the task goes on with it; that it is delivered is not assumed.  Only
`ReviewSerial` assumes something of people: approvers keep deciding what is open; their
turn comes again and again but not continuously, since they share callers with
others, hence strong fairness.  `Delivery` assumes no fairness: it states what liveness
would rest on as an invariant, `NoLostWakeUp`.

**Assumptions on constants** are named, and TLC evaluates them in every run:

* `ReviewConstants`, `JobConstants`, `DeliveryConstants`, `RegistryConstants`, `DiscoveryConstants`,
  `RulesConstants`, `AccessConstants`, `MaterializationConstants`: what the schema says.  Foreign keys
  are functions, ids are not null, bounds are numbers, a page and a dataset's columns
  are at least one, a correction is of a row, a table has finitely many columns, and
  a discovery is no request.
* `RowsAndKeys`: tables are finite, a row has the columns that keys are made of, cells hold
  a number or nothing, no column is twice in one key (`set_key_columns` refuses it), and rules
  have a supported type.  `RowsFillTheirColumns`: a table has the column under
  correction, and every row has exactly the table's columns.  `NumbersAreWritten`: a table
  has finitely many rows, and what its cells hold as numbers are integers.
* `DatasetsAreKeyed`: the keys of one dataset have one width, two records have different references, rows are numbered
  in the order of their keys.
* `KeysAreElsewhere`: the hypothesis of `OwnValueSaysNothing`, which the run's tables meet.
* `ConfidencesAreNumbers`.  `NoTableIsNoTable`, `NoRuleIsNoRow`, `NothingIsNoValue`, `NoLogIsNoEntry`:
  what stands for an absent table, rule, value or log is none.

## 5. What is proved

Of the 40 properties of the passing runs, TLAPS proves 35 for every value of the constants: any
number of runs, issues, rows, requests, workers, jobs, messages and crashes (TLAPS 1.4.5
with Z3, Zenon and LS4).  Each safety property follows from an inductive invariant that adds
what the actors in flight have read and what still holds of it; each action has a step of
its own, and lemmas say what the actions of a part leave alone.

**Review and approval** (`ReviewApprovalProofs`)

* `TypeCorrect`.
* `NoDoubleDecision` and `StatusIsSummary`, from `DecisionInv`.  That a decision does not
  overlap earlier ones depends on what its request read, so it adds `DecidersHoldLock`: who is
  between reading and committing is the only one for its request, what it has chosen is part of
  what it read as remaining, and none of that is decided in the meantime.
* What the services rely on holds for any number of callers as long as particular requests do not
  overlap.  Each theorem names those that may not; everything else may:

  | Theorem | in flight at the same time may not be | besides |
  |---|---|---|
  | `SelectionIsTheSource`, `TerminalIsFinal` | two decisions of one issue (`DecisionsApart`) | |
  | `OpenRequestKeepsItsRun` | two requests that will write the status of one run: submit, archive, restore, a generation that read DRAFT (`StatusApart`) | approvers decide open requests (`OpenOnly`) |
  | `SubmittedScopeIsStable` | a submission and a decision of an issue of its run (`SubmitsApart`) | a bulk action is on issues of its run (`BulkWithinRun`) |
  | `ClosedMeansAllDecided` | what `StatusApart` and `SubmitsApart` exclude | `OpenOnly`, `BulkWithinRun` |

  Where one request is served at a time nothing is excluded (`OneCallerIsApart`).  The invariants say that
  what a request in flight has read is still so: `SeenInv` of corrections and selections,
  `FreezeInv` of open requests and of the run's status, `GuardInv` of the guard on the run, `ScopeInv` of the
  scope that is counted and decided.  Each has one lemma for the caller that steps and one
  (`DecisionSeenStays`, `StatusSeenStays`, `ScopeSeenStays`) for all the others.

  None of the conditions can be dropped: with two callers TLC violates the property as soon as one of its
  overlaps is allowed.  Without `OpenOnly` a closed request is decided further (with three issues in part, so that it
  is open again while its run is in review), and `ReviewBulkOtherRun` is a bulk action on another run.

**Jobs** (`JobRunsProofs`)

* `TypeCorrect` and `SingleExecution`, with crashes, from `TaskInv`: a task is
  with its creator, in the broker, or with one worker, and never in two places.  That is
  what the code relies on where it does not look whether somebody else executes the job.
* `NoRunOrphaned`, without crashes, from `OrphanInv`: whoever has ended a job
  and not its run is at a step that still writes the run, and what it has loaded of
  the run will not make that write void.  With a crash between the two commits the theorem is
  false (`validation/tasks.py:471`), which is why it is stated for `Spec`.
* `ValidationIsAtomic`, with crashes: an action property, from `TaskInv`.
* `CancelledInQueueStays`, with crashes, from two invariants of a job: while it is QUEUED no
  worker has got past the guard (`Waiting`); once flagged then, its worker has done no work and has
  still to pass a check before any, or has a profile without a column and may complete it with nothing done; the flag
  is taken away only when the task is nowhere (`Stopped`).

**Delivery** (`DeliveryProofs`)

* `TypeCorrect`; `AttemptsFollow` from `AttemptInv`: a trigger holds the lock of a review run of
  which no attempt is being built, an attempt is built by one request that
  lacks exactly what it has left, and (`NewestInv`, stronger than what the property asks) the current
  attempt is the newest one even when it is BUILDING or FAILED, which the design document does not want (section 6).  `PublicationIsWhole` adds `RunInv`: a publish run
  exists only for a READY attempt.
* `GateHolds`, from `GateInv`: a worker that has a run with drift has seen the acknowledgement, and
  nobody takes it back.
* `WakeUpIsNotLost`, from `WakeInv`: a job that is no longer QUEUED has had a worker, which has it still, has
  started the run, or was lost; what a worker has loaded as PUBLISHING is no longer PENDING.
* `RunIsExecutedOnce`: a publish run is made PENDING, becomes PUBLISHING once, and ends FAILED, or PUBLISHED with the
  records of its attempt; no step does anything else to its row.  `PublishedStays` and `OneRunIsLive`
  follow from the same invariant, `SoleInv`: of message, worker and sending request a publish run has one
  at most.  They hold under one condition on the clients, `AcknowledgedAtRest`: the drift of a
  run that is still PENDING is acknowledged when nothing about the run is on its way, that is, after its
  task has been stopped by it.  Acknowledging a run that is past PENDING, or again, is harmless, as
  the route enqueues only what is PENDING (`Redispatch`).  `Patient` implies the condition (`PatientIsAtRest`); without it TLC
  violates all three: `DeliveryTwice` is the shortest way.

**Materialization** (`MaterializationProofs`)

* `TypeCorrect` and `TableIsTheSource`, from `CopyingInv`: one task at a time executes the
  run, and at each step of it the table has the rows that were counted as copied, which are the first ones in key
  order while the source stands still, up to rows of one key, if the key is one (`KeysIdentify`), or no key orders the rows.  A READY run has its table, or the
  task is taking it back, or died over that (`Complete`, `TakenBack`).  The lemmas about `InKeyOrder` (a bijection from the
  positions to the rows) rest on the well-foundedness of the numbers.
* `PromiseIsKept`: `Materialization` implements `StagedTable`; every step maps to a step of
  it or to a stutter under `Outcome`, `Offered` and `Settled`; the error after READY is `Withdraw`, `Discard`.
* `CorrectionsAreOnTheirRows`, from `CorrectionsInv`: the records over a row of the table are those that
  have its key and a column, none without a key; if the key identifies rows, that is the record of the row alone;
  and the preview of the changed rows shows the rows with a record over them, if no key has a NULL in
  it and every record sets something.  The hypotheses are in the property, the first of them that corrections
  leave the key of their row as it is (`KeysAreKept`).  The code requires none of them, and
  without any one TLC finds a counterexample (section 6; `KeyEdited` is the instance for the first).

**Administration** (`AdministrationProofs`)

* `TypeCorrect`, for all four parts at once.
* `CommittedCredentialResolves`: what a request is about to write into the row is in the vault.
* `TokenIsRotated`, from `AccessInv`: of a login, one token is live or one request is rotating it;
  `OneOfALogin` says with equalities what the property says with cardinalities.
* `PromotionCommitsWhole`: nothing is assigned before the rule exists.
* `KeyIsOneConfiguration`, from `KeysInv`: what a DELETE has found of the key columns is either the key still,
  or has been replaced to the last row.
* `CompletedWalkIsFaithful`, from `WalksInv`: what an undisturbed walk has read so far is
  mirrored in the catalogue, nobody else walks, and what it still has to read is the rest of the source.

**Row provenance** (`RowProvenanceProofs`), from `ProvenanceInv`

* `ApprovedIsStaged`: grouping by reference partitions the approved issues, and a record without
  conflict has each of its values.
* `RecordsFindTheirRows`: parsing inverts the generation of a reference, so that with a key
  that identifies rows the query finds the row of the issue, or nothing if it is gone.
* `ConfirmedKeyIdentifies`: a candidate is verified on the whole table, and no narrower combination is.

**AI corrections** (`SuggestingProofs`)

* `EveryCallIsAccountedFor`, from `AccountInv`, which says for each batch that every issue of its table is
  suggested for, at hand, or still to come, and that those still to come had no suggestion when it was asked for;
  and that a log without its suggestion is the one some batch holds, besides one for each death.  `since`, how many
  suggestions there were when a batch was asked for, is history: it tells two batches that overlapped from
  two that did not.
* `StoredIsDerived`, from `DerivedInv`: the source has versions of the rows of its table, the evidence was
  gathered from those, and what is stored passed the filters for its own evidence.
* `EnginesSayWhole`, on which it rests: every candidate of the engines has a value and a
  confidence between 0 and 1000 thousandths, whatever the rows.  It goes engine by engine
  (`RelationshipIsWhole`, `SequenceIsWhole`, `TemporalIsWhole`, `TemplateIsWhole`) and through the
  ranking of their candidates (`AggregateIsOne`).  The relationships divide by a sum over
  the group; that a sum of naturals is one (`SumIsNatural`) is proved by looking at the least number of
  elements for which it would fail, since the library's induction cannot be instantiated here.
* Both assume `NullIsNoFunction`: what stands for an absent value is not a function, which the values
  are.  It is a hypothesis and no ASSUME because TLC does not compare a model value with a function.
* `OwnValueSaysNothing`, from `GatheredInv`: as long as the batch asks about a failing row, its evidence is what the
  engines gather from the versions it has read, and that is the same for any two lists of rows
  that agree but for the target of the row under review.  It goes engine by engine
  (`SameConstants`, `SameRatios`, `SameDerivations`, `SameTemplates`): each counts over rows other than the
  failing one, or compares columns other than the target.  A row is told apart by its other
  columns (`KeyIsElsewhere`), as the code tells it apart by its key: were two rows alike in all of
  them, leaving out the failing row would leave out its twin too.

**Only model-checked**: liveness (`OpenRequestsGetClosed`, `RunningJobsEnd`,
`CancelledJobsEnd`, `ExecutedRunsResolve`), since TLAPS cannot prove it
under fairness here;
`FaultIsRepaired`, which compares what the engines recommend with a truth that each table of the run states
for itself: that a candidate is whole is proved, but which value it has is computed by folds over rows and texts, and what
those compute for every input needs induction over data.

## 6. Disagreements without a run

Met while modelling; the models have these behaviours, and the properties above are
stated so that they exclude them.  Those for which the code or its documents say
otherwise are marked with a star.

* Review: a decision that has passed the run check commits after a submission (★
  `decision_service.py:72`); two overlapping submissions both create a request; a
  closed request is decided again after archive, restore and a further decision, and
  may become open by that while its run is in review;
  two overlapping decisions both pass the terminal check; generating suggestions
  overwrites the status of a run that was archived or submitted meanwhile.  Accepting the
  suggestion with the smaller key after the one with the larger key fails on the
  unique index, since one flush sends its UPDATEs in the order of keys (★
  `decision_service.py:149`; `DataQualityPlatform_Database_Design_v2.md:1087` and
  `tests/integration/test_review.py:253` allow it).
* Jobs: a crash between the commits of job and run leaves the run in flight for good;
  through a cancel or the sweep, job and run end with different statuses; a profile of a dataset without an
  active column completes although it was flagged in the queue, since the flag is read before each column only; a job
  cancelled as "never picked up" may just have been (★ `jobs/service.py:130`); overlapping
  starts, or a revived job, give a dataset two runs in flight; cancelling a validation among
  the rows rolls back the count of its rules (★ `validation/tasks.py:360` against the comment at 164).
* Delivery: an attempt that fails takes the current flag from the READY one before it (★
  `DataQualityPlatform_Database_Design_v2.md:1124`, "is_current flips to true on success"), so
  nothing of the review run can be published until a later attempt succeeds; a
  superseded attempt is published if it was current when it was triggered
  (`publishing/tasks.py:42`); two runs with the
  same target overwrite each other (★ `file_export.py:42`, "No silent overwrite, ever");
  a run stays PUBLISHING after a crash, PENDING after its job is cancelled, an attempt
  stays BUILDING after a crash; staging reads today's corrections for an earlier approval.
* Materialization: a source that changes while it is copied and keeps its number of
  rows is copied with a row twice and another not at all, and so is, without a change, one whose key rows share,
  since the pages need not agree on their order; a correction that gives its row
  the key of another record's row may draw that record's correction onto it; a correction is written to
  every row of its key; without a key a run is READY and no correction is in its table; a row with a NULL in its key is
  corrected, but the preview has it among neither the changed nor the unchanged rows, and a record
  that sets no column is shown as changed; a run that
  is READY loses its table and FAILS when its audit event cannot be written, and stays READY
  without a table when its worker dies between the two; a worker that dies
  leaves the phase where it is; the sweep may fail the job of a run that ends READY.
* Staging: references are parsed with the key of the moment, whatever the key was when they
  were written, and a key set by hand is not checked to identify rows.
* Discovery: a dataset whose metadata could not be read once is deactivated.  Keys: two
  transactions may leave the key rows of one and the `key_strategy` of the other, since an
  equal value is not written (★ `DataQualityPlatform_Database_Design_v2.md:164`).
* Rules: a PATCH makes a rule that has to be reviewed ACTIVE; a dismissal that overlaps a promotion
  leaves a DISABLED rule with an enabled assignment.
* Data sources: an active connection of an inactive data source is reachable.  Tokens:
  one that is issued while all tokens of its user are revoked survives.
* AI: two batches that overlap give one issue two suggestions (★ `suggestion_service.py:849`, "Only issues
  without an existing correction_suggestions row are considered"), since the suggestions are read once and no
  constraint makes the issue unique; a profile older than the rows decides which columns group rows and which are
  measured, so a value that the rows tell may not be recommended; a date that does not exist is taken to the end of its month (★ `evidence_temporal.py:457`
  against its docstring, lines 63–65).

## 7. What is not modelled, and why

* Suggestion generators, rule detection and the statistics of a profile: sequential computations of a
  few lines over one column, with unit tests; whatever they return is a case of the models.
* Reports, previews, revalidation and the chat: they read, or append rows nobody relies on.
* The jobs of the AI other than corrections: they add rows and fail alone.
* Four of the five source adapters: they answer the questions of `SourceRows` in other dialects.
* Audit events and most lineage edges: rows written once in somebody else's transaction.
* Roles, permissions, passwords, configuration, cryptography, migrations, scripts and seeds.

Not modelled of what is modelled: the content of messages, timestamps (except the heartbeat),
the 24 h lifetime of the overwrite flag, blank suggestions of the AI (no instance has one), matches
inside a word and the zero padding of identifiers (`Templates`, `Progressions`), `BUSINESS_RULE`
expressions (`RuleChecks`), what two threads do to one session after
`with_timeout` has given up (SQLAlchemy does not define it), and failures of PostgreSQL
itself.
