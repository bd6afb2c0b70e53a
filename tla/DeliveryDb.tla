------------------------------ MODULE DeliveryDb ------------------------------
(***************************************************************************)
(* The rows of staging and publishing, the exported files, and the         *)
(* requests and workers that are about to change them.                     *)
(*                                                                         *)
(* A record stands for one staged row: its record_ref and the corrections  *)
(* of the approved issues on it, with their values at that moment.         *)
(***************************************************************************)
EXTENDS Integers, FiniteSets

CONSTANTS
  Review,      \* review runs
  StagingRun,  \* ids of staging attempts (bounds how many are made)
  PublishRun,  \* ids of publish runs (bounds how many are made)
  Record,
  Conflicting, \* records build_corrected_fields refuses
  Target,      \* files in the export directory
  Caller,      \* requests the API serves at the same time
  Worker,      \* Celery workers
  Patient,     \* clients acknowledge drift once, and only after the task has seen it
  MaxMessages, \* bound: messages in the broker for one publish run
  None

VARIABLES
  staging,    \* staging_runs, with their staging_records
  publish,    \* publish_runs
  job,        \* jobs.status of the PUBLISH job of a publish run
  overwrite,  \* publish runs with a true overwrite key in Redis
  message,    \* run_publish messages in the broker, per publish run
  file,       \* targets at which a file exists
  lost,       \* publish runs that lost a message: to the broker, or with a worker
  call,       \* the request a caller has in flight
  worker,     \* the run_publish a worker executes
  sweep       \* publish runs whose jobs the sweep has selected

db   == <<staging, publish, job>>
vars == <<db, overwrite, message, file, lost, call, worker, sweep>>

-----------------------------------------------------------------------------
(* Types *)

StagingStatus == {"NO_ROW", "BUILDING", "READY", "FAILED"}
PublishStatus == {"NO_ROW", "PENDING", "PUBLISHING", "PUBLISHED", "FAILED"}
JobStatus     == {"NO_ROW", "QUEUED", "RUNNING", "COMPLETED", "FAILED", "CANCELLED"}

Live  == {"PENDING", "PUBLISHING", "PUBLISHED"}
Ended == {"COMPLETED", "FAILED", "CANCELLED"}

ASSUME DeliveryConstants ==
  /\ IsFiniteSet(StagingRun)
  /\ Conflicting \subseteq Record
  /\ Patient \in BOOLEAN
  /\ MaxMessages \in Nat \ {0}
  /\ None \notin Review \cup StagingRun \cup PublishRun \cup Target

\* approved: the lineage edge from the approval request, and with it the
\* records the attempt is made for.
StagingRow ==
  [status : StagingStatus, review : Review \cup {None}, attempt : Nat, current : BOOLEAN,
   approved : SUBSET Record, records : SUBSET Record, drift : BOOLEAN]

NoStaging ==
  [status |-> "NO_ROW", review |-> None, attempt |-> 0, current |-> FALSE,
   approved |-> {}, records |-> {}, drift |-> FALSE]

\* written: the records that were written (published_record_count, which is
\* counted in the file after writing it).
PublishRow ==
  [status : PublishStatus, staging : StagingRun \cup {None}, target : Target \cup {None},
   acknowledged : BOOLEAN, written : SUBSET Record]

NoPublish ==
  [status |-> "NO_ROW", staging |-> None, target |-> None, acknowledged |-> FALSE, written |-> {}]

\* The columns of an object that differ from what was loaded are written, the
\* others keep what they have become.
Flushed(row, loaded, new) == IF new # loaded THEN new ELSE row

-----------------------------------------------------------------------------
(* Requests in flight *)

Idle == [op |-> "idle"]

IsIdle(c) == call[c] = Idle

Return(c) == call' = [call EXCEPT ![c] = Idle]
=============================================================================
