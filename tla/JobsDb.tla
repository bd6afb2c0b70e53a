-------------------------------- MODULE JobsDb --------------------------------
(***************************************************************************)
(* The jobs table, the run rows linked to it, and what moves around them:  *)
(* the cancel flags in Redis, the messages in the Celery broker, the API   *)
(* requests, the workers and the stale-job sweep.                          *)
(*                                                                         *)
(* Nobody locks a row here.  Sessions are opened with expire_on_commit and *)
(* autoflush off (app/core/database.py): an actor decides on the rows it   *)
(* loaded, and its UPDATE replaces whatever the row has become since.      *)
(***************************************************************************)
EXTENDS Integers, FiniteSets

CONSTANTS
  Job,       \* ids of jobs, existing or not yet (bounds how many are started)
  Caller,    \* requests the API serves at the same time
  Worker,    \* Celery worker processes
  Dataset,
  KindOf,    \* the job_type of a job
  DatasetOf, \* the dataset a job works on (entity_id)
  Endpoint,  \* what the clients ask for in this instance: "start", "cancel"
  Pieces,    \* bound: columns of a dataset, batches of 500 of its rows
  None

VARIABLES
  job,        \* jobs.status
  overdue,    \* jobs whose updated_at is older than STALE_JOB_THRESHOLD_MINUTES
  run,        \* status of the profile or validation run linked to the job
  results,    \* column profiles or batches of validation results of the run
  counted,    \* validation runs whose rules_evaluated_count is stored
  cancelFlag, \* jobs with a cancel_requested key
  message,    \* jobs whose task is in the broker
  api,        \* the request a caller has in flight
  worker,     \* the task a worker executes
  sweep       \* the execution of sweep_stale_jobs

rows == <<job, overdue, run, results, counted>>
vars == <<rows, cancelFlag, message, api, worker, sweep>>

-----------------------------------------------------------------------------
(* Types *)

JobType   == {"PROFILE_RUN", "VALIDATION_RUN"}
InFlight  == {"QUEUED", "RUNNING"}
Ended     == {"COMPLETED", "FAILED", "CANCELLED"}
JobStatus == {"NO_ROW"} \cup InFlight \cup Ended

ASSUME JobConstants ==
  /\ KindOf \in [Job -> JobType]
  /\ DatasetOf \in [Job -> Dataset]
  /\ Pieces \in Nat \ {0}
  /\ None \notin Job

ApiCall ==
  [step : {"idle", "create", "dispatch", "setFlag", "cancelJob", "readRun", "cancelRun"},
   job : Job \cup {None},
   seen : JobStatus]

NoCall == [step |-> "idle", job |-> None, seen |-> "NO_ROW"]

\* left, rows and counted are in the memory and in the session of the worker;
\* progress tells that it has stored a piece since its job became overdue.
Task ==
  [step : {"idle", "markRunning", "startRun", "prepare", "evaluate", "pieces", "failRun", "cancelRun"},
   job : Job \cup {None},
   left : 0..Pieces,
   rows : 0..Pieces,
   counted : BOOLEAN,
   progress : BOOLEAN]

NoTask ==
  [step |-> "idle", job |-> None, left |-> 0, rows |-> 0, counted |-> FALSE, progress |-> FALSE]

Sweep == [step : {"idle", "reading"}, jobs : SUBSET Job, unread : SUBSET Job, runs : SUBSET Job]

NoSweep == [step |-> "idle", jobs |-> {}, unread |-> {}, runs |-> {}]

-----------------------------------------------------------------------------
(* JobsService: every operation that changes a job commits at once *)

InFlightJobs(kind, dataset) ==
  {j \in Job : KindOf[j] = kind /\ DatasetOf[j] = dataset /\ job[j] \in InFlight}

\* mark_running, mark_completed, mark_failed, mark_cancelled: all of them move
\* updated_at.  update_progress, the heartbeat, has no caller.
Mark(j, status) ==
  /\ job' = [job EXCEPT ![j] = status]
  /\ overdue' = overdue \ {j}

SetRun(j, status) == run' = [run EXCEPT ![j] = status]

CancelRequested(j) == j \in cancelFlag

\* The threshold passes without the job having been written.
TimePasses(j) ==
  /\ job[j] = "RUNNING"
  /\ j \notin overdue
  /\ overdue' = overdue \cup {j}
  /\ worker' = [w \in Worker |->
                  IF worker[w].job = j THEN [worker[w] EXCEPT !.progress = FALSE] ELSE worker[w]]
  /\ UNCHANGED <<job, run, results, counted, cancelFlag, message, api, sweep>>
=============================================================================
