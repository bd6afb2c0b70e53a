---------------------------- MODULE JobRunsProofs ----------------------------
(***************************************************************************)
(* Proofs about JobRuns, for any number of jobs, requests and workers.     *)
(*                                                                         *)
(* TaskInv says where the task of a job can be and what its worker may     *)
(* still store; it survives crashes.  OrphanInv says who is left to write  *)
(* the run row of a job; it does not.  Waiting and Stopped say what a      *)
(* worker may still do when a job was cancelled in the queue.              *)
(***************************************************************************)
EXTENDS JobRuns, TLAPS

Types ==
  /\ job \in [Job -> JobStatus]
  /\ overdue \subseteq Job
  /\ run \in [Job -> JobStatus]
  /\ results \in [Job -> Nat]
  /\ counted \subseteq Job
  /\ cancelFlag \subseteq Job
  /\ message \subseteq Job
  /\ api \in [Caller -> ApiCall]
  /\ worker \in [Worker -> Task]
  /\ sweep \in Sweep

\* A job that does not exist has a creator at most.
UnbornInv ==
  \A j \in Job : job[j] = "NO_ROW" =>
    /\ run[j] = "NO_ROW"
    /\ results[j] = 0
    /\ j \notin message
    /\ j \notin sweep.jobs \cup sweep.unread \cup sweep.runs
    /\ \A w \in Worker : worker[w].job # j
    /\ \A c \in Caller : api[c].job = j => api[c].step = "create"

\* Until it is dispatched a task is with its creator alone.
CreatorInv ==
  \A c \in Caller :
    /\ api[c].step = "idle" <=> api[c].job = None
    /\ api[c].step = "create" => job[api[c].job] = "NO_ROW"
    /\ api[c].step \in {"create", "dispatch"} =>
         /\ results[api[c].job] = 0
         /\ api[c].job \notin message
         /\ \A w \in Worker : worker[w].job # api[c].job
         /\ \A d \in Caller :
              api[d].job = api[c].job /\ api[d].step \in {"create", "dispatch"} => d = c

\* A task in the broker is with no worker, and has stored nothing.
MessageInv ==
  \A j \in message : results[j] = 0 /\ \A w \in Worker : worker[w].job # j

\* A worker holds at most what is left of its task.
WorkerInv ==
  \A w \in Worker :
    /\ worker[w].step = "idle" <=> worker[w].job = None
    /\ worker[w].job # None => results[worker[w].job] + worker[w].rows + worker[w].left <= Pieces
    /\ worker[w].rows # 0 => worker[w].step = "pieces"
    /\ worker[w].left # 0 => worker[w].step \in {"evaluate", "pieces"}
    /\ worker[w].step \in {"markRunning", "startRun", "prepare"} => results[worker[w].job] = 0

StoredInv == \A j \in Job : results[j] <= Pieces

TaskInv ==
  Types /\ UnbornInv /\ CreatorInv /\ MessageInv /\ WorkerInv /\ OneWorkerPerJob /\ StoredInv

\* Whoever has not yet written the run of a job is still there.
OrphanInv ==
  \A j \in Job :
    /\ run[j] = "NO_ROW" => job[j] = "NO_ROW"
    /\ job[j] = "RUNNING" => WorkedOn(j)
    /\ run[j] = "RUNNING" => WorkedOn(j)
    /\ run[j] = "QUEUED" /\ job[j] \in Ended => WorkedOn(j) \/ Cancelling(j)
    /\ \A w \in Worker :
         worker[w].job = j /\ worker[w].step \in {"failRun", "cancelRun"} => job[j] \in Ended
    /\ j \in sweep.jobs \ (sweep.unread \cup sweep.runs) => run[j] \in Ended \/ WorkedOn(j)
-----------------------------------------------------------------------------
(* Tasks and calls in their types *)

\* Nothing is left is a possible number of pieces.
LEMMA ZeroPieces == 0 \in 0..Pieces
  BY JobConstants

\* A task that is closed, taken, prepared or has stored a piece is a task.
LEMMA ClosedTask ==
  ASSUME NEW t \in Task, NEW s \in {"failRun", "cancelRun"}
  PROVE  [t EXCEPT !.step = s, !.left = 0, !.rows = 0, !.counted = FALSE] \in Task
  BY ZeroPieces DEF Task

LEMMA TakenTask ==
  ASSUME NEW j \in Job
  PROVE  [NoTask EXCEPT !.step = "markRunning", !.job = j] \in Task
  BY ZeroPieces DEF Task, NoTask

LEMMA StoredTask ==
  ASSUME NEW t \in Task, t.left > 0
  PROVE  [t EXCEPT !.left = @ - 1, !.progress = TRUE] \in Task
  <1>1. t.left - 1 \in 0..Pieces
    BY JobConstants DEF Task
  <1> QED
    BY <1>1 DEF Task

LEMMA PreparedTask ==
  ASSUME NEW t \in Task, NEW n \in 0..Pieces, NEW b \in BOOLEAN
  PROVE  [t EXCEPT !.step = IF b THEN "evaluate" ELSE "pieces", !.left = n, !.counted = b] \in Task
  BY DEF Task

\* A worker that is not idle has a job.
LEMMA AtWork ==
  ASSUME Types, WorkerInv, NEW w \in Worker, worker[w].step # "idle"
  PROVE  worker[w] \in Task /\ worker[w].job \in Job
  BY DEF Types, WorkerInv, Task

\* A request that is being served is about a job.
LEMMA Serving ==
  ASSUME Types, CreatorInv, NEW c \in Caller, api[c].step # "idle"
  PROVE  api[c] \in ApiCall /\ api[c].job \in Job
  BY DEF Types, CreatorInv, ApiCall

\* A caller that returns is a caller.
LEMMA NoCallTyped == NoCall \in ApiCall
  BY DEF NoCall, ApiCall, JobStatus

-----------------------------------------------------------------------------
(* TaskInv *)

\* No job exists initially, and nobody is at work.
LEMMA TaskInit == Init => TaskInv
  BY JobConstants
  DEF Init, TaskInv, Types, UnbornInv, CreatorInv, MessageInv, WorkerInv, OneWorkerPerJob,
      StoredInv, JobStatus, InFlight, Ended, ApiCall, NoCall, Task, NoTask, Sweep, NoSweep

LEMMA TaskStart ==
  ASSUME TaskInv, NEW c \in Caller, NEW j \in Job, StartRequest(c, j)
  PROVE  TaskInv'
  BY JobConstants
  DEF StartRequest, At, rows, TaskInv, Types, UnbornInv, CreatorInv, MessageInv, WorkerInv,
      OneWorkerPerJob, StoredInv, ApiCall, JobStatus

LEMMA TaskCreateJobAndRun ==
  ASSUME TaskInv, NEW c \in Caller, CreateJobAndRun(c)
  PROVE  TaskInv'
  BY JobConstants
  DEF CreateJobAndRun, At, Goto, Mark, SetRun, ApiCall, JobStatus, InFlight,
      TaskInv, Types, UnbornInv, CreatorInv, MessageInv, WorkerInv,
      OneWorkerPerJob, StoredInv

LEMMA TaskDispatch ==
  ASSUME TaskInv, NEW c \in Caller, Dispatch(c)
  PROVE  TaskInv'
  <1> USE JobConstants DEF Dispatch, At, Return, NoCall, ApiCall, rows, JobStatus, TaskInv
  <1>1. Types'
    <2>1. api' \in [Caller -> ApiCall]
      BY NoCallTyped DEF Types
    <2> QED
      BY <2>1, Serving DEF Types
  <1>2. UnbornInv'
    BY SMTT(30) DEF Types, UnbornInv, CreatorInv, MessageInv, WorkerInv, OneWorkerPerJob, StoredInv
  <1>3. CreatorInv'
    BY SMTT(30) DEF Types, UnbornInv, CreatorInv, MessageInv, WorkerInv, OneWorkerPerJob, StoredInv
  <1>4. MessageInv'
    BY SMTT(30) DEF Types, UnbornInv, CreatorInv, MessageInv, WorkerInv, OneWorkerPerJob, StoredInv
  <1>5. WorkerInv'
    BY SMTT(30) DEF Types, UnbornInv, CreatorInv, MessageInv, WorkerInv, OneWorkerPerJob, StoredInv
  <1>6. OneWorkerPerJob'
    BY SMTT(30) DEF Types, UnbornInv, CreatorInv, MessageInv, WorkerInv, OneWorkerPerJob, StoredInv
  <1>7. StoredInv'
    BY SMTT(30) DEF Types, UnbornInv, CreatorInv, MessageInv, WorkerInv, OneWorkerPerJob, StoredInv
  <1> QED
    BY <1>1, <1>2, <1>3, <1>4, <1>5, <1>6, <1>7

LEMMA TaskDispatchFails ==
  ASSUME TaskInv, NEW c \in Caller, DispatchFails(c)
  PROVE  TaskInv'
  <1> USE JobConstants DEF DispatchFails, At, Return, NoCall, ApiCall, rows, JobStatus, TaskInv
  <1>1. Types'
    <2>1. api' \in [Caller -> ApiCall]
      BY NoCallTyped DEF Types
    <2> QED
      BY <2>1, Serving DEF Types
  <1>2. UnbornInv'
    BY SMTT(30) DEF Types, UnbornInv, CreatorInv, MessageInv, WorkerInv, OneWorkerPerJob, StoredInv
  <1>3. CreatorInv'
    BY SMTT(30) DEF Types, UnbornInv, CreatorInv, MessageInv, WorkerInv, OneWorkerPerJob, StoredInv
  <1>4. MessageInv'
    BY SMTT(30) DEF Types, UnbornInv, CreatorInv, MessageInv, WorkerInv, OneWorkerPerJob, StoredInv
  <1>5. WorkerInv'
    BY SMTT(30) DEF Types, UnbornInv, CreatorInv, MessageInv, WorkerInv, OneWorkerPerJob, StoredInv
  <1>6. OneWorkerPerJob'
    BY SMTT(30) DEF Types, UnbornInv, CreatorInv, MessageInv, WorkerInv, OneWorkerPerJob, StoredInv
  <1>7. StoredInv'
    BY SMTT(30) DEF Types, UnbornInv, CreatorInv, MessageInv, WorkerInv, OneWorkerPerJob, StoredInv
  <1> QED
    BY <1>1, <1>2, <1>3, <1>4, <1>5, <1>6, <1>7

LEMMA TaskCancelRequest ==
  ASSUME TaskInv, NEW c \in Caller, NEW j \in Job, CancelRequest(c, j)
  PROVE  TaskInv'
  BY JobConstants
  DEF CancelRequest, At, ApiCall, rows, InFlight, JobStatus,
      TaskInv, Types, UnbornInv, CreatorInv, MessageInv, WorkerInv,
      OneWorkerPerJob, StoredInv

LEMMA TaskSetCancelFlag ==
  ASSUME TaskInv, NEW c \in Caller, SetCancelFlag(c)
  PROVE  TaskInv'
  <1> USE JobConstants DEF SetCancelFlag, At, Goto, Return, NoCall, ApiCall, rows, JobStatus, TaskInv
  <1>1. Types'
    <2>1. api' \in [Caller -> ApiCall]
      BY NoCallTyped DEF Types
    <2> QED
      BY <2>1, Serving DEF Types
  <1>2. UnbornInv'
    BY SMTT(30) DEF Types, UnbornInv, CreatorInv, MessageInv, WorkerInv, OneWorkerPerJob, StoredInv
  <1>3. CreatorInv'
    BY SMTT(30) DEF Types, UnbornInv, CreatorInv, MessageInv, WorkerInv, OneWorkerPerJob, StoredInv
  <1>4. MessageInv'
    BY SMTT(30) DEF Types, UnbornInv, CreatorInv, MessageInv, WorkerInv, OneWorkerPerJob, StoredInv
  <1>5. WorkerInv'
    BY SMTT(30) DEF Types, UnbornInv, CreatorInv, MessageInv, WorkerInv, OneWorkerPerJob, StoredInv
  <1>6. OneWorkerPerJob'
    BY SMTT(30) DEF Types, UnbornInv, CreatorInv, MessageInv, WorkerInv, OneWorkerPerJob, StoredInv
  <1>7. StoredInv'
    BY SMTT(30) DEF Types, UnbornInv, CreatorInv, MessageInv, WorkerInv, OneWorkerPerJob, StoredInv
  <1> QED
    BY <1>1, <1>2, <1>3, <1>4, <1>5, <1>6, <1>7

LEMMA TaskCancelQueuedJob ==
  ASSUME TaskInv, NEW c \in Caller, CancelQueuedJob(c)
  PROVE  TaskInv'
  BY JobConstants
  DEF CancelQueuedJob, At, Goto, Mark, ApiCall, JobStatus, Ended,
      TaskInv, Types, UnbornInv, CreatorInv, MessageInv, WorkerInv,
      OneWorkerPerJob, StoredInv

LEMMA TaskReadQueuedRun ==
  ASSUME TaskInv, NEW c \in Caller, ReadQueuedRun(c)
  PROVE  TaskInv'
  <1> USE JobConstants DEF ReadQueuedRun, At, Goto, Return, NoCall, ApiCall, rows, JobStatus, TaskInv
  <1>1. Types'
    <2>1. api' \in [Caller -> ApiCall]
      BY NoCallTyped DEF Types
    <2> QED
      BY <2>1, Serving DEF Types
  <1>2. UnbornInv'
    BY SMTT(30) DEF Types, UnbornInv, CreatorInv, MessageInv, WorkerInv, OneWorkerPerJob, StoredInv
  <1>3. CreatorInv'
    <2>1. \A d \in Caller : api'[d].step \in {"create", "dispatch"} => api'[d] = api[d]
      BY NoCallTyped DEF Types
    <2>2. \A d \in Caller : api'[d].step = "idle" <=> api'[d].job = None
      BY Serving, JobConstants DEF Types, CreatorInv
    <2> QED
      BY <2>1, <2>2 DEF CreatorInv
  <1>4. MessageInv'
    BY SMTT(30) DEF Types, UnbornInv, CreatorInv, MessageInv, WorkerInv, OneWorkerPerJob, StoredInv
  <1>5. WorkerInv'
    BY SMTT(30) DEF Types, UnbornInv, CreatorInv, MessageInv, WorkerInv, OneWorkerPerJob, StoredInv
  <1>6. OneWorkerPerJob'
    BY SMTT(30) DEF Types, UnbornInv, CreatorInv, MessageInv, WorkerInv, OneWorkerPerJob, StoredInv
  <1>7. StoredInv'
    BY SMTT(30) DEF Types, UnbornInv, CreatorInv, MessageInv, WorkerInv, OneWorkerPerJob, StoredInv
  <1> QED
    BY <1>1, <1>2, <1>3, <1>4, <1>5, <1>6, <1>7

LEMMA TaskCancelQueuedRun ==
  ASSUME TaskInv, NEW c \in Caller, CancelQueuedRun(c)
  PROVE  TaskInv'
  BY JobConstants
  DEF CancelQueuedRun, At, Return, SetRun, NoCall, ApiCall, JobStatus, Ended,
      TaskInv, Types, UnbornInv, CreatorInv, MessageInv, WorkerInv,
      OneWorkerPerJob, StoredInv

LEMMA TaskTake ==
  ASSUME TaskInv, NEW w \in Worker, NEW j \in Job, Take(w, j)
  PROVE  TaskInv'
  <1> USE JobConstants DEF Take, Executing, NoTask, rows, TaskInv
  <1>1. Types'
    <2>1. [NoTask EXCEPT !.step = "markRunning", !.job = j] \in Task
      BY TakenTask
    <2> QED
      BY <2>1 DEF Types
  <1>2. UnbornInv'
    BY SMTT(30) DEF Types, UnbornInv, CreatorInv, MessageInv, WorkerInv, OneWorkerPerJob, StoredInv, Task
  <1>3. CreatorInv'
    BY SMTT(30) DEF Types, UnbornInv, CreatorInv, MessageInv, WorkerInv, OneWorkerPerJob, StoredInv, Task
  <1>4. MessageInv'
    BY SMTT(30) DEF Types, UnbornInv, CreatorInv, MessageInv, WorkerInv, OneWorkerPerJob, StoredInv, Task
  <1>5. WorkerInv'
    BY SMTT(30) DEF Types, UnbornInv, CreatorInv, MessageInv, WorkerInv, OneWorkerPerJob, StoredInv, Task
  <1>6. OneWorkerPerJob'
    BY SMTT(30) DEF Types, UnbornInv, CreatorInv, MessageInv, WorkerInv, OneWorkerPerJob, StoredInv, Task
  <1>7. StoredInv'
    BY SMTT(30) DEF Types, UnbornInv, CreatorInv, MessageInv, WorkerInv, OneWorkerPerJob, StoredInv, Task
  <1> QED
    BY <1>1, <1>2, <1>3, <1>4, <1>5, <1>6, <1>7

LEMMA TaskDrop ==
  ASSUME TaskInv, NEW w \in Worker, NEW j \in Job, Drop(w, j)
  PROVE  TaskInv'
  BY SMTT(60), JobConstants
  DEF Drop, Executing, rows,
      TaskInv, Types, UnbornInv, CreatorInv, MessageInv, WorkerInv,
      OneWorkerPerJob, StoredInv

LEMMA TaskMarkRunning ==
  ASSUME TaskInv, NEW w \in Worker, MarkRunning(w)
  PROVE  TaskInv'
  BY SMTT(60), JobConstants
  DEF MarkRunning, Executing, Mark, Proceed, Task, JobStatus, InFlight,
      TaskInv, Types, UnbornInv, CreatorInv, MessageInv, WorkerInv,
      OneWorkerPerJob, StoredInv

LEMMA TaskStartRun ==
  ASSUME TaskInv, NEW w \in Worker, StartRun(w)
  PROVE  TaskInv'
  <1> USE JobConstants DEF StartRun, Executing, SetRun, Proceed, JobStatus, InFlight, TaskInv
  <1>1. Types'
    <2>1. worker' \in [Worker -> Task]
      BY DEF Types, Task
    <2> QED
      BY <2>1 DEF Types
  <1>2. UnbornInv'
    BY SMTT(30) DEF Types, UnbornInv, CreatorInv, MessageInv, WorkerInv, OneWorkerPerJob, StoredInv, Task
  <1>3. CreatorInv'
    BY SMTT(30) DEF Types, UnbornInv, CreatorInv, MessageInv, WorkerInv, OneWorkerPerJob, StoredInv, Task
  <1>4. MessageInv'
    BY SMTT(30) DEF Types, UnbornInv, CreatorInv, MessageInv, WorkerInv, OneWorkerPerJob, StoredInv, Task
  <1>5. WorkerInv'
    BY SMTT(30) DEF Types, UnbornInv, CreatorInv, MessageInv, WorkerInv, OneWorkerPerJob, StoredInv, Task
  <1>6. OneWorkerPerJob'
    BY SMTT(30) DEF Types, UnbornInv, CreatorInv, MessageInv, WorkerInv, OneWorkerPerJob, StoredInv, Task
  <1>7. StoredInv'
    BY SMTT(30) DEF Types, UnbornInv, CreatorInv, MessageInv, WorkerInv, OneWorkerPerJob, StoredInv, Task
  <1> QED
    BY <1>1, <1>2, <1>3, <1>4, <1>5, <1>6, <1>7

LEMMA TaskPrepare ==
  ASSUME TaskInv, NEW w \in Worker, Prepare(w)
  PROVE  TaskInv'
  <1> USE JobConstants DEF Prepare, Executing, rows, TaskInv
  <1>1. Types'
    <2>3. IsValidation(w) \in BOOLEAN
      BY DEF IsValidation
    <2>4. worker' \in [Worker -> Task]
      <3>1. PICK n \in 0..Pieces :
              worker' = [worker EXCEPT ![w].step = IF IsValidation(w) THEN "evaluate" ELSE "pieces",
                                       ![w].left = n,
                                       ![w].counted = IsValidation(w)]
        OBVIOUS
      <3>2. worker[w] \in Task
        BY AtWork DEF Types
      <3>3. [worker[w] EXCEPT !.step = IF IsValidation(w) THEN "evaluate" ELSE "pieces",
                              !.left = n, !.counted = IsValidation(w)] \in Task
        BY <2>3, <3>2, PreparedTask
      <3> QED
        BY <3>1, <3>3 DEF Types
    <2> QED
      BY <2>4 DEF Types
  <1>2. UnbornInv'
    BY SMTT(30) DEF Types, UnbornInv, CreatorInv, MessageInv, WorkerInv, OneWorkerPerJob, StoredInv, Task
  <1>3. CreatorInv'
    BY SMTT(30) DEF Types, UnbornInv, CreatorInv, MessageInv, WorkerInv, OneWorkerPerJob, StoredInv, Task
  <1>4. MessageInv'
    BY SMTT(30) DEF Types, UnbornInv, CreatorInv, MessageInv, WorkerInv, OneWorkerPerJob, StoredInv, Task
  <1>5. WorkerInv'
    BY SMTT(30) DEF Types, UnbornInv, CreatorInv, MessageInv, WorkerInv, OneWorkerPerJob, StoredInv, Task
  <1>6. OneWorkerPerJob'
    BY SMTT(30) DEF Types, UnbornInv, CreatorInv, MessageInv, WorkerInv, OneWorkerPerJob, StoredInv, Task
  <1>7. StoredInv'
    BY SMTT(30) DEF Types, UnbornInv, CreatorInv, MessageInv, WorkerInv, OneWorkerPerJob, StoredInv, Task
  <1> QED
    BY <1>1, <1>2, <1>3, <1>4, <1>5, <1>6, <1>7

LEMMA TaskEvaluate ==
  ASSUME TaskInv, NEW w \in Worker, Evaluate(w)
  PROVE  TaskInv'
  BY JobConstants
  DEF Evaluate, Executing, Proceed, Task, rows,
      TaskInv, Types, UnbornInv, CreatorInv, MessageInv, WorkerInv,
      OneWorkerPerJob, StoredInv

LEMMA TaskProfileColumn ==
  ASSUME TaskInv, NEW w \in Worker, ProfileColumn(w)
  PROVE  TaskInv'
  <1> USE JobConstants DEF ProfileColumn, Executing, TaskInv
  <1>1. Types'
    <2>1. worker' \in [Worker -> Task]
      BY AtWork, StoredTask DEF Types
    <2>2. results' \in [Job -> Nat]
      BY AtWork DEF Types
    <2> QED
      BY <2>1, <2>2 DEF Types
  <1>2. UnbornInv'
    BY SMTT(30) DEF Types, UnbornInv, CreatorInv, MessageInv, WorkerInv, OneWorkerPerJob, StoredInv, Task
  <1>3. CreatorInv'
    BY SMTT(30) DEF Types, UnbornInv, CreatorInv, MessageInv, WorkerInv, OneWorkerPerJob, StoredInv, Task
  <1>4. MessageInv'
    BY SMTT(30) DEF Types, UnbornInv, CreatorInv, MessageInv, WorkerInv, OneWorkerPerJob, StoredInv, Task
  <1>5. WorkerInv'
    BY SMTT(30) DEF Types, UnbornInv, CreatorInv, MessageInv, WorkerInv, OneWorkerPerJob, StoredInv, Task
  <1>6. OneWorkerPerJob'
    BY SMTT(30) DEF Types, UnbornInv, CreatorInv, MessageInv, WorkerInv, OneWorkerPerJob, StoredInv, Task
  <1>7. StoredInv'
    BY SMTT(30) DEF Types, UnbornInv, CreatorInv, MessageInv, WorkerInv, OneWorkerPerJob, StoredInv, Task
  <1> QED
    BY <1>1, <1>2, <1>3, <1>4, <1>5, <1>6, <1>7

LEMMA TaskValidateRows ==
  ASSUME TaskInv, NEW w \in Worker, ValidateRows(w)
  PROVE  TaskInv'
  <1> USE JobConstants DEF ValidateRows, Executing, rows, TaskInv
  <1>1. Types'
    <2>1. worker' \in [Worker -> Task]
      BY DEF Types, Task
    <2> QED
      BY <2>1 DEF Types
  <1>2. UnbornInv'
    BY SMTT(30) DEF Types, UnbornInv, CreatorInv, MessageInv, WorkerInv, OneWorkerPerJob, StoredInv, Task
  <1>3. CreatorInv'
    BY SMTT(30) DEF Types, UnbornInv, CreatorInv, MessageInv, WorkerInv, OneWorkerPerJob, StoredInv, Task
  <1>4. MessageInv'
    BY SMTT(30) DEF Types, UnbornInv, CreatorInv, MessageInv, WorkerInv, OneWorkerPerJob, StoredInv, Task
  <1>5. WorkerInv'
    BY SMTT(30) DEF Types, UnbornInv, CreatorInv, MessageInv, WorkerInv, OneWorkerPerJob, StoredInv, Task
  <1>6. OneWorkerPerJob'
    BY SMTT(30) DEF Types, UnbornInv, CreatorInv, MessageInv, WorkerInv, OneWorkerPerJob, StoredInv, Task
  <1>7. StoredInv'
    BY SMTT(30) DEF Types, UnbornInv, CreatorInv, MessageInv, WorkerInv, OneWorkerPerJob, StoredInv, Task
  <1> QED
    BY <1>1, <1>2, <1>3, <1>4, <1>5, <1>6, <1>7

LEMMA TaskComplete ==
  ASSUME TaskInv, NEW w \in Worker, Complete(w)
  PROVE  TaskInv'
  BY JobConstants
  DEF Complete, Executing, Mark, SetRun, FlushSession, Release, NoTask, Task, JobStatus, Ended,
      TaskInv, Types, UnbornInv, CreatorInv, MessageInv, WorkerInv,
      OneWorkerPerJob, StoredInv

LEMMA TaskStopAtCheckpoint ==
  ASSUME TaskInv, NEW w \in Worker, StopAtCheckpoint(w)
  PROVE  TaskInv'
  <1> USE JobConstants DEF StopAtCheckpoint, Executing, Mark, FlushSession, Close, JobStatus, Ended, TaskInv
  <1>1. Types'
    <2>1. worker' \in [Worker -> Task]
      BY AtWork, ClosedTask DEF Types
    <2>2. job' \in [Job -> JobStatus] /\ overdue' \subseteq Job
      BY DEF Types
    <2>3. results' \in [Job -> Nat] /\ counted' \subseteq Job
      BY AtWork DEF Types, Task
    <2> QED
      BY <2>1, <2>2, <2>3 DEF Types
  <1>2. UnbornInv'
    BY SMTT(30) DEF Types, UnbornInv, CreatorInv, MessageInv, WorkerInv, OneWorkerPerJob, StoredInv, Task
  <1>3. CreatorInv'
    BY SMTT(30) DEF Types, UnbornInv, CreatorInv, MessageInv, WorkerInv, OneWorkerPerJob, StoredInv, Task
  <1>4. MessageInv'
    BY SMTT(30) DEF Types, UnbornInv, CreatorInv, MessageInv, WorkerInv, OneWorkerPerJob, StoredInv, Task
  <1>5. WorkerInv'
    BY SMTT(30) DEF Types, UnbornInv, CreatorInv, MessageInv, WorkerInv, OneWorkerPerJob, StoredInv, Task
  <1>6. OneWorkerPerJob'
    BY SMTT(30) DEF Types, UnbornInv, CreatorInv, MessageInv, WorkerInv, OneWorkerPerJob, StoredInv, Task
  <1>7. StoredInv'
    BY SMTT(30) DEF Types, UnbornInv, CreatorInv, MessageInv, WorkerInv, OneWorkerPerJob, StoredInv, Task
  <1> QED
    BY <1>1, <1>2, <1>3, <1>4, <1>5, <1>6, <1>7

LEMMA TaskCancelRun ==
  ASSUME TaskInv, NEW w \in Worker, CancelRun(w)
  PROVE  TaskInv'
  BY JobConstants
  DEF CancelRun, Executing, SetRun, Release, NoTask, Task, JobStatus, Ended,
      TaskInv, Types, UnbornInv, CreatorInv, MessageInv, WorkerInv,
      OneWorkerPerJob, StoredInv

LEMMA TaskSourceFails ==
  ASSUME TaskInv, NEW w \in Worker, SourceFails(w)
  PROVE  TaskInv'
  <1> USE JobConstants DEF SourceFails, Executing, Mark, Close, JobStatus, Ended, TaskInv
  <1>1. Types'
    <2>1. worker' \in [Worker -> Task]
      BY AtWork, ClosedTask DEF Types
    <2>2. job' \in [Job -> JobStatus] /\ overdue' \subseteq Job
      BY DEF Types
    <2>3. results' \in [Job -> Nat] /\ counted' \subseteq Job
      BY AtWork DEF Types, Task
    <2> QED
      BY <2>1, <2>2, <2>3 DEF Types
  <1>2. UnbornInv'
    BY SMTT(30) DEF Types, UnbornInv, CreatorInv, MessageInv, WorkerInv, OneWorkerPerJob, StoredInv, Task
  <1>3. CreatorInv'
    BY SMTT(30) DEF Types, UnbornInv, CreatorInv, MessageInv, WorkerInv, OneWorkerPerJob, StoredInv, Task
  <1>4. MessageInv'
    BY SMTT(30) DEF Types, UnbornInv, CreatorInv, MessageInv, WorkerInv, OneWorkerPerJob, StoredInv, Task
  <1>5. WorkerInv'
    BY SMTT(30) DEF Types, UnbornInv, CreatorInv, MessageInv, WorkerInv, OneWorkerPerJob, StoredInv, Task
  <1>6. OneWorkerPerJob'
    BY SMTT(30) DEF Types, UnbornInv, CreatorInv, MessageInv, WorkerInv, OneWorkerPerJob, StoredInv, Task
  <1>7. StoredInv'
    BY SMTT(30) DEF Types, UnbornInv, CreatorInv, MessageInv, WorkerInv, OneWorkerPerJob, StoredInv, Task
  <1> QED
    BY <1>1, <1>2, <1>3, <1>4, <1>5, <1>6, <1>7

LEMMA TaskUnexpected ==
  ASSUME TaskInv, NEW w \in Worker, Unexpected(w)
  PROVE  TaskInv'
  <1> USE JobConstants DEF Unexpected, Mark, Close, JobStatus, Ended, TaskInv
  <1>1. Types'
    <2>1. worker' \in [Worker -> Task]
      BY AtWork, ClosedTask DEF Types
    <2>2. job' \in [Job -> JobStatus] /\ overdue' \subseteq Job
      BY DEF Types
    <2>3. results' \in [Job -> Nat] /\ counted' \subseteq Job
      BY AtWork DEF Types, Task
    <2> QED
      BY <2>1, <2>2, <2>3 DEF Types
  <1>2. UnbornInv'
    BY SMTT(30) DEF Types, UnbornInv, CreatorInv, MessageInv, WorkerInv, OneWorkerPerJob, StoredInv, Task
  <1>3. CreatorInv'
    BY SMTT(30) DEF Types, UnbornInv, CreatorInv, MessageInv, WorkerInv, OneWorkerPerJob, StoredInv, Task
  <1>4. MessageInv'
    BY SMTT(30) DEF Types, UnbornInv, CreatorInv, MessageInv, WorkerInv, OneWorkerPerJob, StoredInv, Task
  <1>5. WorkerInv'
    <2>1. worker'[w].step = "failRun" /\ worker'[w].job \in Job
      BY AtWork DEF Types
    <2>2. worker'[w].left = 0 /\ worker'[w].rows = 0 /\ worker'[w].job = worker[w].job
      BY AtWork DEF Types
    <2>3. \A v \in Worker \ {w} : worker'[v] = worker[v]
      BY DEF Types
    <2>4. results[worker[w].job] \in Nat /\ results[worker[w].job] <= Pieces
      BY AtWork DEF Types, StoredInv
    <2>5. WorkerInv!(w)'
      BY <2>1, <2>2, <2>4, JobConstants
    <2>6. ASSUME NEW v \in Worker \ {w} PROVE WorkerInv!(v)'
      BY <2>3, <2>6 DEF WorkerInv
    <2> QED
      BY <2>5, <2>6 DEF WorkerInv
  <1>6. OneWorkerPerJob'
    BY SMTT(30) DEF Types, UnbornInv, CreatorInv, MessageInv, WorkerInv, OneWorkerPerJob, StoredInv, Task
  <1>7. StoredInv'
    BY SMTT(30) DEF Types, UnbornInv, CreatorInv, MessageInv, WorkerInv, OneWorkerPerJob, StoredInv, Task
  <1> QED
    BY <1>1, <1>2, <1>3, <1>4, <1>5, <1>6, <1>7

LEMMA TaskFailRun ==
  ASSUME TaskInv, NEW w \in Worker, FailRun(w)
  PROVE  TaskInv'
  BY JobConstants
  DEF FailRun, Executing, SetRun, Release, NoTask, Task, JobStatus, Ended,
      TaskInv, Types, UnbornInv, CreatorInv, MessageInv, WorkerInv,
      OneWorkerPerJob, StoredInv

LEMMA TaskCrash ==
  ASSUME TaskInv, NEW w \in Worker, Crash(w)
  PROVE  TaskInv'
  BY JobConstants
  DEF Crash, Executing, Release, NoTask, Task, rows,
      TaskInv, Types, UnbornInv, CreatorInv, MessageInv, WorkerInv,
      OneWorkerPerJob, StoredInv

LEMMA TaskSweepSelect ==
  ASSUME TaskInv, SweepSelect
  PROVE  TaskInv'
  BY JobConstants
  DEF SweepSelect, Sweep, rows,
      TaskInv, Types, UnbornInv, CreatorInv, MessageInv, WorkerInv,
      OneWorkerPerJob, StoredInv

LEMMA TaskSweepReadRun ==
  ASSUME TaskInv, NEW j \in Job, SweepReadRun(j)
  PROVE  TaskInv'
  <1> USE JobConstants DEF SweepReadRun, Sweep, rows, TaskInv
  <1>1. Types'
    BY DEF Types
  <1>2. UnbornInv'
    BY SMTT(30) DEF Types, UnbornInv, CreatorInv, MessageInv, WorkerInv, OneWorkerPerJob, StoredInv
  <1>3. CreatorInv'
    BY SMTT(30) DEF Types, UnbornInv, CreatorInv, MessageInv, WorkerInv, OneWorkerPerJob, StoredInv
  <1>4. MessageInv'
    BY SMTT(30) DEF Types, UnbornInv, CreatorInv, MessageInv, WorkerInv, OneWorkerPerJob, StoredInv
  <1>5. WorkerInv'
    BY SMTT(30) DEF Types, UnbornInv, CreatorInv, MessageInv, WorkerInv, OneWorkerPerJob, StoredInv
  <1>6. OneWorkerPerJob'
    BY SMTT(30) DEF Types, UnbornInv, CreatorInv, MessageInv, WorkerInv, OneWorkerPerJob, StoredInv
  <1>7. StoredInv'
    BY SMTT(30) DEF Types, UnbornInv, CreatorInv, MessageInv, WorkerInv, OneWorkerPerJob, StoredInv
  <1> QED
    BY <1>1, <1>2, <1>3, <1>4, <1>5, <1>6, <1>7

LEMMA TaskSweepCommit ==
  ASSUME TaskInv, SweepCommit
  PROVE  TaskInv'
  <1> USE JobConstants DEF SweepCommit, NoSweep, Sweep, JobStatus, Ended, TaskInv
  <1>1. Types'
    BY DEF Types
  <1>2. UnbornInv'
    BY SMTT(30) DEF Types, UnbornInv, CreatorInv, MessageInv, WorkerInv, OneWorkerPerJob, StoredInv
  <1>3. CreatorInv'
    <2>1. ASSUME NEW c \in Caller, api[c].step = "create" PROVE job'[api[c].job] = "NO_ROW"
      BY <2>1, Serving DEF Types, CreatorInv, UnbornInv
    <2> QED
      BY <2>1 DEF CreatorInv
  <1>4. MessageInv'
    BY SMTT(30) DEF Types, UnbornInv, CreatorInv, MessageInv, WorkerInv, OneWorkerPerJob, StoredInv
  <1>5. WorkerInv'
    BY SMTT(30) DEF Types, UnbornInv, CreatorInv, MessageInv, WorkerInv, OneWorkerPerJob, StoredInv
  <1>6. OneWorkerPerJob'
    BY SMTT(30) DEF Types, UnbornInv, CreatorInv, MessageInv, WorkerInv, OneWorkerPerJob, StoredInv
  <1>7. StoredInv'
    BY SMTT(30) DEF Types, UnbornInv, CreatorInv, MessageInv, WorkerInv, OneWorkerPerJob, StoredInv
  <1> QED
    BY <1>1, <1>2, <1>3, <1>4, <1>5, <1>6, <1>7

LEMMA TaskTimePasses ==
  ASSUME TaskInv, NEW j \in Job, TimePasses(j)
  PROVE  TaskInv'
  <1> USE JobConstants DEF TimePasses, TaskInv
  <1>1. Types'
    <2>1. \A t \in Task : [t EXCEPT !.progress = FALSE] \in Task
      BY DEF Task
    <2>2. worker' \in [Worker -> Task]
      BY <2>1 DEF Types
    <2> QED
      BY <2>2 DEF Types
  <1>2. UnbornInv'
    BY SMTT(30) DEF Types, UnbornInv, CreatorInv, MessageInv, WorkerInv, OneWorkerPerJob, StoredInv, Task
  <1>3. CreatorInv'
    BY SMTT(30) DEF Types, UnbornInv, CreatorInv, MessageInv, WorkerInv, OneWorkerPerJob, StoredInv, Task
  <1>4. MessageInv'
    BY SMTT(30) DEF Types, UnbornInv, CreatorInv, MessageInv, WorkerInv, OneWorkerPerJob, StoredInv, Task
  <1>5. WorkerInv'
    BY SMTT(30) DEF Types, UnbornInv, CreatorInv, MessageInv, WorkerInv, OneWorkerPerJob, StoredInv, Task
  <1>6. OneWorkerPerJob'
    BY SMTT(30) DEF Types, UnbornInv, CreatorInv, MessageInv, WorkerInv, OneWorkerPerJob, StoredInv, Task
  <1>7. StoredInv'
    BY SMTT(30) DEF Types, UnbornInv, CreatorInv, MessageInv, WorkerInv, OneWorkerPerJob, StoredInv, Task
  <1> QED
    BY <1>1, <1>2, <1>3, <1>4, <1>5, <1>6, <1>7

\* A step of the system, or the end of a worker process.
LEMMA TaskStep ==
  ASSUME TaskInv, [Next \/ WorkersCrash]_vars
  PROVE  TaskInv'
  <1>1. ASSUME NEW c \in Caller, ApiNext(c) PROVE TaskInv'
    BY <1>1, TaskStart, TaskCreateJobAndRun, TaskDispatch, TaskDispatchFails, TaskCancelRequest,
       TaskSetCancelFlag, TaskCancelQueuedJob, TaskReadQueuedRun, TaskCancelQueuedRun
    DEF ApiNext, ServeStart, ServeCancel
  <1>2. ASSUME NEW w \in Worker, WorkerNext(w) PROVE TaskInv'
    BY <1>2, TaskTake, TaskDrop, TaskMarkRunning, TaskStartRun, TaskPrepare, TaskEvaluate,
       TaskProfileColumn, TaskValidateRows, TaskComplete, TaskStopAtCheckpoint, TaskCancelRun,
       TaskSourceFails, TaskUnexpected, TaskFailRun
    DEF WorkerNext, TakeNext, ExecuteNext
  <1>3. CASE SweepNext
    BY <1>3, TaskSweepSelect, TaskSweepReadRun, TaskSweepCommit DEF SweepNext
  <1>4. ASSUME NEW j \in Job, TimePasses(j) PROVE TaskInv'
    BY <1>4, TaskTimePasses
  <1>5. CASE WorkersCrash
    BY <1>5, TaskCrash DEF WorkersCrash
  <1>6. CASE UNCHANGED vars
    BY <1>6 DEF vars, rows, TaskInv, Types, UnbornInv, CreatorInv, MessageInv, WorkerInv,
               OneWorkerPerJob, StoredInv
  <1> QED
    BY <1>1, <1>2, <1>3, <1>4, <1>5, <1>6 DEF Next

\* Whatever crashes, tasks stay where they can be.
THEOREM TasksInPlace == CrashSpec => []TaskInv
  BY TaskInit, TaskStep, PTL DEF CrashSpec

\* Every row, message and actor has its type, and no run has more results than
\* its dataset has pieces, whatever crashes.
THEOREM TypeCorrect == CrashSpec => []TypeOK
  <1>1. TaskInv => TypeOK
    BY JobConstants DEF TaskInv, Types, StoredInv, TypeOK
  <1> QED
    BY <1>1, TasksInPlace, PTL

\* No two workers execute the same job, whatever crashes.
THEOREM SingleExecution == CrashSpec => []OneWorkerPerJob
  <1>1. TaskInv => OneWorkerPerJob
    BY DEF TaskInv
  <1> QED
    BY <1>1, TasksInPlace, PTL

-----------------------------------------------------------------------------
(* OrphanInv: what a worker or a request does to it, as long as none crashes *)

LEMMA OrphanStartRequest ==
  ASSUME TaskInv, OrphanInv, NEW c \in Caller, NEW j \in Job, StartRequest(c, j)
  PROVE  OrphanInv'
  BY JobConstants
  DEF StartRequest, At, ApiCall, rows, InFlight, JobStatus,
      OrphanInv, WorkedOn, Cancelling, TaskInv, Types, UnbornInv, CreatorInv, MessageInv,
      WorkerInv, OneWorkerPerJob, Ended

LEMMA OrphanCreateJobAndRun ==
  ASSUME TaskInv, OrphanInv, NEW c \in Caller, CreateJobAndRun(c)
  PROVE  OrphanInv'
  BY JobConstants
  DEF CreateJobAndRun, At, Goto, Mark, SetRun, ApiCall, JobStatus, InFlight,
      OrphanInv, WorkedOn, Cancelling, TaskInv, Types, UnbornInv, CreatorInv, MessageInv,
      WorkerInv, OneWorkerPerJob, Ended

LEMMA OrphanDispatch ==
  ASSUME TaskInv, OrphanInv, NEW c \in Caller, Dispatch(c)
  PROVE  OrphanInv'
  BY JobConstants
  DEF Dispatch, At, Return, NoCall, ApiCall, rows, JobStatus,
      OrphanInv, WorkedOn, Cancelling, TaskInv, Types, UnbornInv, CreatorInv, MessageInv,
      WorkerInv, OneWorkerPerJob, Ended, InFlight

LEMMA OrphanDispatchFails ==
  ASSUME TaskInv, OrphanInv, NEW c \in Caller, DispatchFails(c)
  PROVE  OrphanInv'
  BY JobConstants
  DEF DispatchFails, At, Return, NoCall, ApiCall, rows, JobStatus,
      OrphanInv, WorkedOn, Cancelling, TaskInv, Types, UnbornInv, CreatorInv, MessageInv,
      WorkerInv, OneWorkerPerJob, Ended, InFlight

LEMMA OrphanCancelRequest ==
  ASSUME TaskInv, OrphanInv, NEW c \in Caller, NEW j \in Job, CancelRequest(c, j)
  PROVE  OrphanInv'
  BY JobConstants
  DEF CancelRequest, At, ApiCall, rows, InFlight, JobStatus,
      OrphanInv, WorkedOn, Cancelling, TaskInv, Types, UnbornInv, CreatorInv, MessageInv,
      WorkerInv, OneWorkerPerJob, Ended

LEMMA OrphanSetCancelFlag ==
  ASSUME TaskInv, OrphanInv, NEW c \in Caller, SetCancelFlag(c)
  PROVE  OrphanInv'
  BY JobConstants
  DEF SetCancelFlag, At, Goto, Return, NoCall, ApiCall, rows, JobStatus,
      OrphanInv, WorkedOn, Cancelling, TaskInv, Types, UnbornInv, CreatorInv, MessageInv,
      WorkerInv, OneWorkerPerJob, Ended, InFlight

LEMMA OrphanCancelQueuedJob ==
  ASSUME TaskInv, OrphanInv, NEW c \in Caller, CancelQueuedJob(c)
  PROVE  OrphanInv'
  BY JobConstants
  DEF CancelQueuedJob, At, Goto, Mark, ApiCall, JobStatus, Ended,
      OrphanInv, WorkedOn, Cancelling, TaskInv, Types, UnbornInv, CreatorInv, MessageInv,
      WorkerInv, OneWorkerPerJob, InFlight

LEMMA OrphanReadQueuedRun ==
  ASSUME TaskInv, OrphanInv, NEW c \in Caller, ReadQueuedRun(c)
  PROVE  OrphanInv'
  BY JobConstants
  DEF ReadQueuedRun, At, Goto, Return, NoCall, ApiCall, rows, JobStatus,
      OrphanInv, WorkedOn, Cancelling, TaskInv, Types, UnbornInv, CreatorInv, MessageInv,
      WorkerInv, OneWorkerPerJob, Ended, InFlight

LEMMA OrphanCancelQueuedRun ==
  ASSUME TaskInv, OrphanInv, NEW c \in Caller, CancelQueuedRun(c)
  PROVE  OrphanInv'
  BY JobConstants
  DEF CancelQueuedRun, At, Return, SetRun, NoCall, ApiCall, JobStatus, Ended,
      OrphanInv, WorkedOn, Cancelling, TaskInv, Types, UnbornInv, CreatorInv, MessageInv,
      WorkerInv, OneWorkerPerJob, InFlight

LEMMA OrphanTake ==
  ASSUME TaskInv, OrphanInv, NEW w \in Worker, NEW j \in Job, Take(w, j)
  PROVE  OrphanInv'
  BY JobConstants
  DEF Take, Executing, NoTask, Task, rows,
      OrphanInv, WorkedOn, Cancelling, TaskInv, Types, UnbornInv, CreatorInv, MessageInv,
      WorkerInv, OneWorkerPerJob, Ended, InFlight

LEMMA OrphanDrop ==
  ASSUME TaskInv, OrphanInv, NEW w \in Worker, NEW j \in Job, Drop(w, j)
  PROVE  OrphanInv'
  BY JobConstants
  DEF Drop, Executing, rows,
      OrphanInv, WorkedOn, Cancelling, TaskInv, Types, UnbornInv, CreatorInv, MessageInv,
      WorkerInv, OneWorkerPerJob, Ended, InFlight

LEMMA OrphanMarkRunning ==
  ASSUME TaskInv, OrphanInv, NEW w \in Worker, MarkRunning(w)
  PROVE  OrphanInv'
  BY JobConstants
  DEF MarkRunning, Executing, Mark, Proceed, Task, JobStatus, InFlight,
      OrphanInv, WorkedOn, Cancelling, TaskInv, Types, UnbornInv, CreatorInv, MessageInv,
      WorkerInv, OneWorkerPerJob, Ended

LEMMA OrphanStartRun ==
  ASSUME TaskInv, OrphanInv, NEW w \in Worker, StartRun(w)
  PROVE  OrphanInv'
  BY JobConstants
  DEF StartRun, Executing, SetRun, Proceed, Task, JobStatus, InFlight,
      OrphanInv, WorkedOn, Cancelling, TaskInv, Types, UnbornInv, CreatorInv, MessageInv,
      WorkerInv, OneWorkerPerJob, Ended

LEMMA OrphanPrepare ==
  ASSUME TaskInv, OrphanInv, NEW w \in Worker, Prepare(w)
  PROVE  OrphanInv'
  <1>1. worker \in [Worker -> Task]
    BY DEF TaskInv, Types
  <1>2. \A v \in Worker : worker'[v].job = worker[v].job
    BY <1>1 DEF Prepare, Task
  <1>3. \A v \in Worker :
          worker'[v].step \in {"failRun", "cancelRun"} => worker'[v].step = worker[v].step
    BY <1>1 DEF Prepare, Task
  <1>4. UNCHANGED <<job, run, api, sweep>>
    BY DEF Prepare, rows
  <1> QED
    BY <1>2, <1>3, <1>4 DEF OrphanInv, WorkedOn, Cancelling

LEMMA OrphanEvaluate ==
  ASSUME TaskInv, OrphanInv, NEW w \in Worker, Evaluate(w)
  PROVE  OrphanInv'
  BY SMTT(60), JobConstants
  DEF Evaluate, Executing, Proceed, Task, rows,
      OrphanInv, WorkedOn, Cancelling, TaskInv, Types, UnbornInv, CreatorInv, MessageInv,
      WorkerInv, OneWorkerPerJob, Ended, InFlight

LEMMA OrphanProfileColumn ==
  ASSUME TaskInv, OrphanInv, NEW w \in Worker, ProfileColumn(w)
  PROVE  OrphanInv'
  <1>1. worker \in [Worker -> Task]
    BY DEF TaskInv, Types
  <1>2. \A v \in Worker : worker'[v].job = worker[v].job
    BY <1>1 DEF ProfileColumn, Task
  <1>3. \A v \in Worker :
          worker'[v].step \in {"failRun", "cancelRun"} => worker'[v].step = worker[v].step
    BY <1>1 DEF ProfileColumn, Task
  <1>4. UNCHANGED <<job, run, api, sweep>>
    BY DEF ProfileColumn, rows
  <1> QED
    BY <1>2, <1>3, <1>4 DEF OrphanInv, WorkedOn, Cancelling

LEMMA OrphanValidateRows ==
  ASSUME TaskInv, OrphanInv, NEW w \in Worker, ValidateRows(w)
  PROVE  OrphanInv'
  <1>1. worker \in [Worker -> Task]
    BY DEF TaskInv, Types
  <1>2. \A v \in Worker : worker'[v].job = worker[v].job
    BY <1>1 DEF ValidateRows, Task
  <1>3. \A v \in Worker :
          worker'[v].step \in {"failRun", "cancelRun"} => worker'[v].step = worker[v].step
    BY <1>1 DEF ValidateRows, Task
  <1>4. UNCHANGED <<job, run, api, sweep>>
    BY DEF ValidateRows, rows
  <1> QED
    BY <1>2, <1>3, <1>4 DEF OrphanInv, WorkedOn, Cancelling

LEMMA OrphanComplete ==
  ASSUME TaskInv, OrphanInv, NEW w \in Worker, Complete(w)
  PROVE  OrphanInv'
  BY SMTT(60), JobConstants
  DEF Complete, Executing, Mark, SetRun, FlushSession, Release, NoTask, Task, JobStatus, Ended,
      OrphanInv, WorkedOn, Cancelling, TaskInv, Types, UnbornInv, CreatorInv, MessageInv,
      WorkerInv, OneWorkerPerJob, InFlight

LEMMA OrphanStopAtCheckpoint ==
  ASSUME TaskInv, OrphanInv, NEW w \in Worker, StopAtCheckpoint(w)
  PROVE  OrphanInv'
  <1>1. worker[w] \in Task /\ worker[w].job \in Job
    BY AtWork DEF StopAtCheckpoint, Executing, TaskInv, Types
  <1>2. \A v \in Worker : worker'[v].job = worker[v].job
    BY <1>1 DEF StopAtCheckpoint, Close, TaskInv, Types, Task
  <1>3. \A v \in Worker : v # w => worker'[v] = worker[v]
    BY DEF StopAtCheckpoint, Close, TaskInv, Types
  <1>4. /\ job'[worker[w].job] = "CANCELLED"
        /\ \A k \in Job : k # worker[w].job => job'[k] = job[k]
    BY <1>1 DEF StopAtCheckpoint, Mark, TaskInv, Types
  <1>5. UNCHANGED <<run, api, sweep>>
    BY DEF StopAtCheckpoint
  <1>6. \A k \in Job : (WorkedOn(k))' = WorkedOn(k) /\ (Cancelling(k))' = Cancelling(k)
    BY <1>2, <1>5 DEF WorkedOn, Cancelling
  <1>7. ASSUME NEW k \in Job, NEW v \in Worker,
               worker'[v].job = k, worker'[v].step \in {"failRun", "cancelRun"}
        PROVE  job'[k] \in Ended
    BY <1>2, <1>3, <1>4, <1>7 DEF OrphanInv, Ended
  <1>8. WorkedOn(worker[w].job)
    BY DEF WorkedOn
  <1>9. ASSUME NEW k \in Job
        PROVE  /\ run'[k] = "NO_ROW" => job'[k] = "NO_ROW"
               /\ job'[k] = "RUNNING" => WorkedOn(k)
               /\ run'[k] = "RUNNING" => WorkedOn(k)
               /\ run'[k] = "QUEUED" /\ job'[k] \in Ended => WorkedOn(k) \/ Cancelling(k)
               /\ k \in sweep'.jobs \ (sweep'.unread \cup sweep'.runs)
                    => run'[k] \in Ended \/ WorkedOn(k)
    <2>1. CASE k = worker[w].job
      <3>1. run[k] # "NO_ROW"
        BY <1>1, <2>1 DEF TaskInv, UnbornInv, OrphanInv
      <3> QED
        BY <1>5, <1>8, <2>1, <3>1
    <2>2. CASE k # worker[w].job
      BY <1>4, <1>5, <2>2 DEF OrphanInv
    <2> QED
      BY <2>1, <2>2
  <1> QED
    BY <1>6, <1>7, <1>9 DEF OrphanInv

LEMMA OrphanCancelRun ==
  ASSUME TaskInv, OrphanInv, NEW w \in Worker, CancelRun(w)
  PROVE  OrphanInv'
  BY SMTT(60), JobConstants
  DEF CancelRun, Executing, SetRun, Release, NoTask, Task, JobStatus, Ended,
      OrphanInv, WorkedOn, Cancelling, TaskInv, Types, UnbornInv, CreatorInv, MessageInv,
      WorkerInv, OneWorkerPerJob, InFlight

LEMMA OrphanSourceFails ==
  ASSUME TaskInv, OrphanInv, NEW w \in Worker, SourceFails(w)
  PROVE  OrphanInv'
  <1>1. worker[w] \in Task /\ worker[w].job \in Job
    BY AtWork DEF SourceFails, Executing, TaskInv, Types
  <1>2. \A v \in Worker : worker'[v].job = worker[v].job
    BY <1>1 DEF SourceFails, Close, TaskInv, Types, Task
  <1>3. \A v \in Worker : v # w => worker'[v] = worker[v]
    BY DEF SourceFails, Close, TaskInv, Types
  <1>4. /\ job'[worker[w].job] = "FAILED"
        /\ \A k \in Job : k # worker[w].job => job'[k] = job[k]
    BY <1>1 DEF SourceFails, Mark, TaskInv, Types
  <1>5. UNCHANGED <<run, api, sweep>>
    BY DEF SourceFails
  <1>6. \A k \in Job : (WorkedOn(k))' = WorkedOn(k) /\ (Cancelling(k))' = Cancelling(k)
    BY <1>2, <1>5 DEF WorkedOn, Cancelling
  <1>7. ASSUME NEW k \in Job, NEW v \in Worker,
               worker'[v].job = k, worker'[v].step \in {"failRun", "cancelRun"}
        PROVE  job'[k] \in Ended
    BY <1>2, <1>3, <1>4, <1>7 DEF OrphanInv, Ended
  <1>8. WorkedOn(worker[w].job)
    BY DEF WorkedOn
  <1>9. ASSUME NEW k \in Job
        PROVE  /\ run'[k] = "NO_ROW" => job'[k] = "NO_ROW"
               /\ job'[k] = "RUNNING" => WorkedOn(k)
               /\ run'[k] = "RUNNING" => WorkedOn(k)
               /\ run'[k] = "QUEUED" /\ job'[k] \in Ended => WorkedOn(k) \/ Cancelling(k)
               /\ k \in sweep'.jobs \ (sweep'.unread \cup sweep'.runs)
                    => run'[k] \in Ended \/ WorkedOn(k)
    <2>1. CASE k = worker[w].job
      <3>1. run[k] # "NO_ROW"
        BY <1>1, <2>1 DEF TaskInv, UnbornInv, OrphanInv
      <3> QED
        BY <1>5, <1>8, <2>1, <3>1
    <2>2. CASE k # worker[w].job
      BY <1>4, <1>5, <2>2 DEF OrphanInv
    <2> QED
      BY <2>1, <2>2
  <1> QED
    BY <1>6, <1>7, <1>9 DEF OrphanInv

LEMMA OrphanUnexpected ==
  ASSUME TaskInv, OrphanInv, NEW w \in Worker, Unexpected(w)
  PROVE  OrphanInv'
  <1>1. worker[w] \in Task /\ worker[w].job \in Job
    BY AtWork DEF Unexpected, TaskInv, Types
  <1>2. \A v \in Worker : worker'[v].job = worker[v].job
    BY <1>1 DEF Unexpected, Close, TaskInv, Types, Task
  <1>3. \A v \in Worker : v # w => worker'[v] = worker[v]
    BY DEF Unexpected, Close, TaskInv, Types
  <1>4. /\ job'[worker[w].job] = "FAILED"
        /\ \A k \in Job : k # worker[w].job => job'[k] = job[k]
    BY <1>1 DEF Unexpected, Mark, TaskInv, Types
  <1>5. UNCHANGED <<run, api, sweep>>
    BY DEF Unexpected
  <1>6. \A k \in Job : (WorkedOn(k))' = WorkedOn(k) /\ (Cancelling(k))' = Cancelling(k)
    BY <1>2, <1>5 DEF WorkedOn, Cancelling
  <1>7. ASSUME NEW k \in Job, NEW v \in Worker,
               worker'[v].job = k, worker'[v].step \in {"failRun", "cancelRun"}
        PROVE  job'[k] \in Ended
    BY <1>2, <1>3, <1>4, <1>7 DEF OrphanInv, Ended
  <1>8. WorkedOn(worker[w].job)
    BY DEF WorkedOn
  <1>9. ASSUME NEW k \in Job
        PROVE  /\ run'[k] = "NO_ROW" => job'[k] = "NO_ROW"
               /\ job'[k] = "RUNNING" => WorkedOn(k)
               /\ run'[k] = "RUNNING" => WorkedOn(k)
               /\ run'[k] = "QUEUED" /\ job'[k] \in Ended => WorkedOn(k) \/ Cancelling(k)
               /\ k \in sweep'.jobs \ (sweep'.unread \cup sweep'.runs)
                    => run'[k] \in Ended \/ WorkedOn(k)
    <2>1. CASE k = worker[w].job
      <3>1. run[k] # "NO_ROW"
        BY <1>1, <2>1 DEF TaskInv, UnbornInv, OrphanInv
      <3> QED
        BY <1>5, <1>8, <2>1, <3>1
    <2>2. CASE k # worker[w].job
      BY <1>4, <1>5, <2>2 DEF OrphanInv
    <2> QED
      BY <2>1, <2>2
  <1> QED
    BY <1>6, <1>7, <1>9 DEF OrphanInv

LEMMA OrphanFailRun ==
  ASSUME TaskInv, OrphanInv, NEW w \in Worker, FailRun(w)
  PROVE  OrphanInv'
  BY JobConstants
  DEF FailRun, Executing, SetRun, Release, NoTask, Task, JobStatus, Ended,
      OrphanInv, WorkedOn, Cancelling, TaskInv, Types, UnbornInv, CreatorInv, MessageInv,
      WorkerInv, OneWorkerPerJob, InFlight

LEMMA OrphanSweepSelect ==
  ASSUME TaskInv, OrphanInv, SweepSelect
  PROVE  OrphanInv'
  BY JobConstants
  DEF SweepSelect, Sweep, rows,
      OrphanInv, WorkedOn, Cancelling, TaskInv, Types, UnbornInv, CreatorInv, MessageInv,
      WorkerInv, OneWorkerPerJob, Ended, InFlight

LEMMA OrphanSweepReadRun ==
  ASSUME TaskInv, OrphanInv, NEW j \in Job, SweepReadRun(j)
  PROVE  OrphanInv'
  <1>1. UNCHANGED <<job, run, api, worker>>
    BY DEF SweepReadRun, rows
  <1>2. ASSUME NEW k \in Job, k \in sweep'.jobs \ (sweep'.unread \cup sweep'.runs)
        PROVE  run[k] \in Ended \/ WorkedOn(k)
    <2>1. CASE k = j
      <3>1. run[j] \notin InFlight
        BY <1>2, <2>1 DEF SweepReadRun, TaskInv, Types, Sweep
      <3>2. job[j] # "NO_ROW"
        BY DEF SweepReadRun, TaskInv, UnbornInv
      <3> QED
        BY <2>1, <3>1, <3>2 DEF OrphanInv, TaskInv, Types, JobStatus, InFlight, Ended
    <2>2. CASE k # j
      <3>1. k \in sweep.jobs \ (sweep.unread \cup sweep.runs)
        BY <1>2, <2>2 DEF SweepReadRun, TaskInv, Types, Sweep, InFlight
      <3> QED
        BY <3>1 DEF OrphanInv
    <2> QED
      BY <2>1, <2>2
  <1> QED
    BY <1>1, <1>2 DEF OrphanInv, WorkedOn, Cancelling

LEMMA OrphanSweepCommit ==
  ASSUME TaskInv, OrphanInv, SweepCommit
  PROVE  OrphanInv'
  BY JobConstants
  DEF SweepCommit, NoSweep, Sweep, JobStatus, Ended,
      OrphanInv, WorkedOn, Cancelling, TaskInv, Types, UnbornInv, CreatorInv, MessageInv,
      WorkerInv, OneWorkerPerJob, InFlight

LEMMA OrphanTimePasses ==
  ASSUME TaskInv, OrphanInv, NEW j \in Job, TimePasses(j)
  PROVE  OrphanInv'
  BY JobConstants
  DEF TimePasses, Task,
      OrphanInv, WorkedOn, Cancelling, TaskInv, Types, UnbornInv, CreatorInv, MessageInv,
      WorkerInv, OneWorkerPerJob, Ended, InFlight

\* No job exists initially, so none is orphaned.
LEMMA OrphanInit == Init => OrphanInv
  BY DEF Init, OrphanInv, NoTask, NoCall, NoSweep, Ended

LEMMA OrphanStep ==
  ASSUME TaskInv, OrphanInv, [Next]_vars
  PROVE  OrphanInv'
  <1>1. ASSUME NEW c \in Caller, ApiNext(c) PROVE OrphanInv'
    BY <1>1, OrphanStartRequest, OrphanCreateJobAndRun, OrphanDispatch, OrphanDispatchFails,
       OrphanCancelRequest, OrphanSetCancelFlag, OrphanCancelQueuedJob, OrphanReadQueuedRun,
       OrphanCancelQueuedRun
    DEF ApiNext, ServeStart, ServeCancel
  <1>2. ASSUME NEW w \in Worker, WorkerNext(w) PROVE OrphanInv'
    BY <1>2, OrphanTake, OrphanDrop, OrphanMarkRunning, OrphanStartRun, OrphanPrepare,
       OrphanEvaluate, OrphanProfileColumn, OrphanValidateRows, OrphanComplete,
       OrphanStopAtCheckpoint, OrphanCancelRun, OrphanSourceFails, OrphanUnexpected, OrphanFailRun
    DEF WorkerNext, TakeNext, ExecuteNext
  <1>3. CASE SweepNext
    BY <1>3, OrphanSweepSelect, OrphanSweepReadRun, OrphanSweepCommit DEF SweepNext
  <1>4. ASSUME NEW j \in Job, TimePasses(j) PROVE OrphanInv'
    BY <1>4, OrphanTimePasses
  <1>5. CASE UNCHANGED vars
    BY <1>5 DEF vars, rows, OrphanInv, WorkedOn, Cancelling
  <1> QED
    BY <1>1, <1>2, <1>3, <1>4, <1>5 DEF Next

\* As long as no worker crashes, whoever ends a job still has its run to write:
\* a run is not left QUEUED or RUNNING behind a job that has ended.
THEOREM NoRunOrphaned == Spec => []NoOrphanRun
  <1>1. TaskInv /\ [Next]_vars => TaskInv'
    BY TaskStep
  <1>2. OrphanInv => NoOrphanRun
    BY DEF OrphanInv, NoOrphanRun, Attended, InFlight
  <1> QED
    BY TaskInit, OrphanInit, <1>1, OrphanStep, <1>2, PTL DEF Spec

\* What a worker stores of a validation it stores when it completes it,
\* together with the status of job and run, whatever crashes.
THEOREM ValidationIsAtomic == CrashSpec => ValidationResultsAppearAtOnce
  <1> DEFINE AtOnce ==
        \A j \in Job :
          KindOf[j] = "VALIDATION_RUN" /\ results'[j] # results[j] =>
            job'[j] = "COMPLETED" /\ run'[j] = "COMPLETED"
  <1>1. ASSUME NEW w \in Worker, TaskInv, Complete(w) PROVE AtOnce
    <2>1. worker[w].job \in Job
      BY <1>1, AtWork DEF TaskInv, Complete, Executing
    <2> QED
      BY <1>1, <2>1 DEF Complete, FlushSession, Mark, SetRun, TaskInv, Types
  <1>2. ASSUME NEW w \in Worker, TaskInv, StopAtCheckpoint(w) PROVE UNCHANGED results
    <2>1. CASE Executing(w, "evaluate") /\ FlushSession(w)
      <3>1. worker[w].rows = 0 /\ worker[w].job \in Job
        BY <1>2, <2>1, AtWork DEF TaskInv, WorkerInv, Executing
      <3>2. results[worker[w].job] \in Nat
        BY <1>2, <3>1 DEF TaskInv, Types
      <3> QED
        BY <1>2, <2>1, <3>1, <3>2 DEF FlushSession, TaskInv, Types
    <2> QED
      BY <1>2, <2>1 DEF StopAtCheckpoint
  <1>3. ASSUME NEW w \in Worker, TaskInv, ProfileColumn(w) PROVE AtOnce
    BY <1>3 DEF ProfileColumn, IsValidation, TaskInv, Types
  <1>4. ASSUME NEW w \in Worker, TaskInv, WorkerNext(w) PROVE AtOnce
    BY <1>1, <1>2, <1>3, <1>4
    DEF WorkerNext, TakeNext, ExecuteNext, Take, Drop, MarkRunning, StartRun, Prepare, Evaluate,
        ValidateRows, CancelRun, SourceFails, Unexpected, FailRun, rows
  <1>5. ASSUME NEW c \in Caller, ApiNext(c) PROVE UNCHANGED results
    BY <1>5
    DEF ApiNext, StartRequest, CancelRequest, ServeStart, CreateJobAndRun, Dispatch, DispatchFails,
        ServeCancel, SetCancelFlag, CancelQueuedJob, ReadQueuedRun, CancelQueuedRun, rows
  <1>6. SweepNext \/ (\E j \in Job : TimePasses(j)) \/ WorkersCrash => UNCHANGED results
    BY DEF SweepNext, SweepSelect, SweepReadRun, SweepCommit, TimePasses, WorkersCrash, Crash, rows
  <1>7. TaskInv /\ [Next \/ WorkersCrash]_vars => [AtOnce]_vars
    BY <1>4, <1>5, <1>6 DEF Next
  <1> QED
    BY TasksInPlace, <1>7, PTL DEF CrashSpec, ValidationResultsAppearAtOnce

-----------------------------------------------------------------------------
(* A job that is cancelled in the queue.  While it is QUEUED no worker has  *)
(* got past the guard; with the flag set then, none gets past the first     *)
(* check, and when the flag is taken away its task is nowhere.              *)

Waiting(j) ==
  job[j] = "QUEUED" =>
    /\ run[j] # "COMPLETED" /\ results[j] = 0
    /\ \A w \in Worker : worker[w].job = j => worker[w].step = "markRunning" /\ ~worker[w].progress

\* The task has done no work, and has still to pass a check, or is a profile and
\* may have no column to pass one for.
NotBegun(w) ==
  /\ ~worker[w].progress /\ worker[w].rows = 0
  /\ \/ worker[w].step \in {"markRunning", "startRun", "prepare", "evaluate", "failRun", "cancelRun"}
     \/ worker[w].step = "pieces" /\ (worker[w].left > 0 \/ ~IsValidation(w))

Gone(j) ==
  /\ j \notin message
  /\ ~WorkedOn(j)
  /\ \A c \in Caller : api[c].job = j => api[c].step # "dispatch"

Stopped(j) ==
  /\ job[j] # "NO_ROW"
  /\ results[j] = 0
  /\ run[j] = "COMPLETED" => KindOf[j] = "PROFILE_RUN"
  /\ j \in cancelFlag \/ Gone(j)
  /\ \A w \in Worker : worker[w].job = j => NotBegun(w)

\* What a request, the sweep or time does is no work.
LEMMA StoppedByOthers ==
  ASSUME TaskInv, NEW j \in Job,
         \/ \E c \in Caller : ApiNext(c)
         \/ SweepNext
         \/ \E i \in Job : TimePasses(i)
         \/ UNCHANGED vars
  PROVE  (Waiting(j) => Waiting(j)') /\ (Stopped(j) => Stopped(j)')
  <1>1. ASSUME NEW c \in Caller, NEW i \in Job, StartRequest(c, i)
        PROVE  (Waiting(j) => Waiting(j)') /\ (Stopped(j) => Stopped(j)')
    BY <1>1 DEF StartRequest, At, rows, Waiting, Stopped, Gone, WorkedOn, NotBegun, IsValidation, TaskInv, Types
  <1>2. ASSUME NEW c \in Caller, CreateJobAndRun(c)
        PROVE  (Waiting(j) => Waiting(j)') /\ (Stopped(j) => Stopped(j)')
    <2>1. api[c].job \in Job /\ job[api[c].job] = "NO_ROW" /\ results[api[c].job] = 0
          /\ \A w \in Worker : worker[w].job # api[c].job
      BY <1>2, Serving DEF CreateJobAndRun, At, TaskInv, CreatorInv
    <2> QED
      BY <1>2, <2>1
      DEF CreateJobAndRun, At, Goto, Mark, SetRun, Waiting, Stopped, Gone, WorkedOn, NotBegun, IsValidation,
          TaskInv, Types
  <1>3. ASSUME NEW c \in Caller, Dispatch(c) \/ DispatchFails(c)
        PROVE  (Waiting(j) => Waiting(j)') /\ (Stopped(j) => Stopped(j)')
    BY <1>3, JobConstants
    DEF Dispatch, DispatchFails, At, Return, NoCall, rows, Waiting, Stopped, Gone, WorkedOn,
        NotBegun, IsValidation, TaskInv, Types
  <1>4. ASSUME NEW c \in Caller, NEW i \in Job, CancelRequest(c, i)
        PROVE  (Waiting(j) => Waiting(j)') /\ (Stopped(j) => Stopped(j)')
    BY <1>4 DEF CancelRequest, At, rows, Waiting, Stopped, Gone, WorkedOn, NotBegun, IsValidation, TaskInv, Types
  <1>5. ASSUME NEW c \in Caller, ServeCancel(c)
        PROVE  (Waiting(j) => Waiting(j)') /\ (Stopped(j) => Stopped(j)')
    <2>1. CASE SetCancelFlag(c)
      <3>1. \A d \in Caller : api'[d].job = j /\ api'[d].step = "dispatch" =>
              api[d].job = j /\ api[d].step = "dispatch"
        <4>1. CASE Goto(c, "cancelJob")
          BY <4>1 DEF Goto, TaskInv, Types
        <4>2. CASE Return(c)
          BY <4>2 DEF Return, NoCall, TaskInv, Types
        <4> QED
          BY <2>1, <4>1, <4>2 DEF SetCancelFlag
      <3> QED
        BY <2>1, <3>1 DEF SetCancelFlag, rows, Waiting, Stopped, Gone, WorkedOn, NotBegun, IsValidation
    <2>2. CASE CancelQueuedJob(c)
      BY <2>2
      DEF CancelQueuedJob, At, Goto, Mark, Waiting, Stopped, Gone, WorkedOn, NotBegun, IsValidation, TaskInv, Types
    <2>3. CASE ReadQueuedRun(c)
      <3>1. \A d \in Caller : api'[d].job = j /\ api'[d].step = "dispatch" =>
              api[d].job = j /\ api[d].step = "dispatch"
        <4>1. CASE Goto(c, "cancelRun")
          BY <4>1 DEF Goto, TaskInv, Types
        <4>2. CASE Return(c)
          BY <4>2 DEF Return, NoCall, TaskInv, Types
        <4> QED
          BY <2>3, <4>1, <4>2 DEF ReadQueuedRun
      <3> QED
        BY <2>3, <3>1 DEF ReadQueuedRun, rows, Waiting, Stopped, Gone, WorkedOn, NotBegun, IsValidation
    <2>4. CASE CancelQueuedRun(c)
      BY <2>4, JobConstants
      DEF CancelQueuedRun, At, Return, NoCall, SetRun, Waiting, Stopped, Gone, WorkedOn,
          NotBegun, IsValidation, TaskInv, Types
    <2> QED
      BY <1>5, <2>1, <2>2, <2>3, <2>4 DEF ServeCancel
  <1>6. CASE SweepNext
    BY <1>6
    DEF SweepNext, SweepSelect, SweepReadRun, SweepCommit, rows, Waiting, Stopped, Gone, WorkedOn,
        NotBegun, IsValidation, TaskInv, Types
  <1>7. ASSUME NEW i \in Job, TimePasses(i)
        PROVE  (Waiting(j) => Waiting(j)') /\ (Stopped(j) => Stopped(j)')
    <2>1. \A w \in Worker :
            /\ worker'[w].job = worker[w].job
            /\ worker'[w].step = worker[w].step
            /\ worker'[w].left = worker[w].left
      BY <1>7 DEF TimePasses, TaskInv, Types, Task
    <2> QED
      BY <1>7, <2>1 DEF TimePasses, Waiting, Stopped, Gone, WorkedOn, NotBegun, IsValidation
  <1>8. CASE UNCHANGED vars
    BY <1>8 DEF vars, rows, Waiting, Stopped, Gone, WorkedOn, NotBegun, IsValidation
  <1> QED
    BY <1>1, <1>2, <1>3, <1>4, <1>5, <1>6, <1>7, <1>8 DEF ApiNext, ServeStart

\* A worker finds the flag, or has not looked yet.
LEMMA StoppedByWorker ==
  ASSUME TaskInv, NEW j \in Job, NEW w \in Worker, WorkerNext(w) \/ Crash(w)
  PROVE  (Waiting(j) => Waiting(j)') /\ (Stopped(j) => Stopped(j)')
  <1>1. CASE Crash(w)
    BY <1>1, JobConstants
    DEF Crash, Executing, Release, NoTask, rows, Waiting, Stopped, Gone, WorkedOn, NotBegun, IsValidation,
        TaskInv, Types
  <1>2. ASSUME NEW i \in Job, Take(w, i)
        PROVE  (Waiting(j) => Waiting(j)') /\ (Stopped(j) => Stopped(j)')
    BY <1>2
    DEF Take, Executing, NoTask, rows, Waiting, Stopped, Gone, WorkedOn, NotBegun, IsValidation,
        TaskInv, Types
  <1>3. ASSUME NEW i \in Job, Drop(w, i)
        PROVE  (Waiting(j) => Waiting(j)') /\ (Stopped(j) => Stopped(j)')
    BY <1>3 DEF Drop, Executing, rows, Waiting, Stopped, Gone, WorkedOn, NotBegun, IsValidation
  <1>4. CASE ExecuteNext(w)
    <2>1. worker[w].step # "idle" /\ worker[w].job \in Job /\ worker[w] \in Task
      BY <1>4, AtWork
      DEF ExecuteNext, MarkRunning, StartRun, Prepare, Evaluate, ProfileColumn, ValidateRows, Complete,
          StopAtCheckpoint, CancelRun, SourceFails, Unexpected, FailRun, Executing, TaskInv
    <2>2. CASE worker[w].job # j
      <3>1. /\ job'[j] = job[j] /\ run'[j] = run[j] /\ results'[j] = results[j]
            /\ \A v \in Worker : worker'[v].job = j => worker'[v] = worker[v]
            /\ j \in cancelFlag' <=> j \in cancelFlag
            /\ UNCHANGED <<message, api>>
        <4>1. \A v \in Worker \ {w} : worker'[v] = worker[v]
          BY <1>4
          DEF ExecuteNext, MarkRunning, StartRun, Prepare, Evaluate, ProfileColumn, ValidateRows,
              Complete, StopAtCheckpoint, CancelRun, SourceFails, Unexpected, FailRun, TaskInv, Types,
              Proceed, Release, Close
        <4>2. worker'[w].job \in {worker[w].job, None}
          <5>1. CASE \E t \in {"startRun", "prepare", "pieces"} : Proceed(w, t)
            BY <5>1, <2>1 DEF Proceed, TaskInv, Types, Task
          <5>2. CASE Release(w)
            BY <5>2 DEF Release, NoTask, TaskInv, Types
          <5>3. CASE \E t \in {"cancelRun", "failRun"} : Close(w, t)
            BY <5>3, <2>1 DEF Close, TaskInv, Types, Task
          <5>4. CASE Prepare(w)
            BY <5>4, <2>1 DEF Prepare, TaskInv, Types, Task
          <5>5. CASE ProfileColumn(w) \/ ValidateRows(w)
            BY <5>5, <2>1 DEF ProfileColumn, ValidateRows, TaskInv, Types, Task
          <5> QED
            BY <1>4, <5>1, <5>2, <5>3, <5>4, <5>5
            DEF ExecuteNext, MarkRunning, StartRun, Evaluate, Complete, StopAtCheckpoint, CancelRun,
                SourceFails, Unexpected, FailRun
        <4>3. job'[j] = job[j] /\ run'[j] = run[j]
          BY <1>4, <2>1, <2>2
          DEF ExecuteNext, MarkRunning, StartRun, Prepare, Evaluate, ProfileColumn, ValidateRows,
              Complete, StopAtCheckpoint, CancelRun, SourceFails, Unexpected, FailRun, TaskInv, Types,
              Mark, SetRun, rows
        <4>4. results'[j] = results[j] /\ (j \in cancelFlag' <=> j \in cancelFlag)
          BY <1>4, <2>1, <2>2
          DEF ExecuteNext, MarkRunning, StartRun, Prepare, Evaluate, ProfileColumn, ValidateRows,
              Complete, StopAtCheckpoint, CancelRun, SourceFails, Unexpected, FailRun, TaskInv, Types,
              FlushSession, rows
        <4>5. UNCHANGED <<message, api>>
          BY <1>4
          DEF ExecuteNext, MarkRunning, StartRun, Prepare, Evaluate, ProfileColumn, ValidateRows,
              Complete, StopAtCheckpoint, CancelRun, SourceFails, Unexpected, FailRun
        <4> QED
          BY <4>1, <4>2, <4>3, <4>4, <4>5, <2>2, JobConstants
      <3> QED
        BY <3>1 DEF Waiting, Stopped, Gone, WorkedOn, NotBegun, IsValidation
    <2>3. CASE worker[w].job = j
      <3>1. \A v \in Worker : worker[v].job = j => v = w
        BY <2>1, <2>3, JobConstants DEF TaskInv, OneWorkerPerJob
      <3>2. Waiting(j) => Waiting(j)'
        <4>1. CASE MarkRunning(w) \/ Unexpected(w)
          BY <4>1, <2>1, <2>3 DEF MarkRunning, Unexpected, Mark, Waiting, TaskInv, Types
        <4>2. CASE Complete(w) \/ StopAtCheckpoint(w) \/ SourceFails(w)
          BY <4>2, <2>1, <2>3 DEF Complete, StopAtCheckpoint, SourceFails, Mark, Waiting, TaskInv, Types
        <4>3. CASE worker[w].step # "markRunning"
          <5>1. Waiting(j) => job[j] # "QUEUED"
            BY <4>3, <2>3 DEF Waiting
          <5>2. job'[j] = "QUEUED" => job[j] = "QUEUED"
            BY <1>4, <2>1, <2>3
            DEF ExecuteNext, MarkRunning, StartRun, Prepare, Evaluate, ProfileColumn, ValidateRows,
                Complete, StopAtCheckpoint, CancelRun, SourceFails, Unexpected, FailRun, TaskInv, Types,
                Mark, rows
          <5> QED
            BY <5>1, <5>2 DEF Waiting
        <4> QED
          BY <1>4, <4>1, <4>2, <4>3
          DEF ExecuteNext, StartRun, Prepare, Evaluate, ProfileColumn, ValidateRows, CancelRun,
              FailRun, Executing
      <3>3. ASSUME Stopped(j) PROVE Stopped(j)'
        <4>1. j \in cancelFlag /\ NotBegun(w) /\ j \notin message
              /\ \A c \in Caller : api[c].job = j => api[c].step # "dispatch"
          BY <3>3, <2>3 DEF Stopped, Gone, WorkedOn, TaskInv, MessageInv, CreatorInv
        <4>2. CASE MarkRunning(w) \/ StartRun(w)
          <5>0. \E t \in {"startRun", "prepare"} : Proceed(w, t)
            BY <4>2 DEF MarkRunning, StartRun
          <5>1. NotBegun(w)' /\ \A v \in Worker : worker'[v].job = j => v = w
            BY <5>0, <4>1, <3>1, <2>1 DEF Proceed, NotBegun, IsValidation, TaskInv, Types, Task
          <5>2. job'[j] # "NO_ROW" /\ (run'[j] = "COMPLETED" => run[j] = "COMPLETED")
            BY <4>2, <3>3, <2>1, <2>3 DEF MarkRunning, StartRun, Mark, SetRun, Stopped, TaskInv, Types
          <5> QED
            BY <4>1, <4>2, <5>1, <5>2, <3>3 DEF MarkRunning, StartRun, Stopped
        <4>3. CASE Prepare(w)
          <5>1. PICK n \in 0..Pieces :
                  worker' = [worker EXCEPT ![w].step = IF IsValidation(w) THEN "evaluate" ELSE "pieces",
                                           ![w].left = n, ![w].counted = IsValidation(w)]
            BY <4>3 DEF Prepare
          <5>2. NotBegun(w)'
            <6>1. worker[w] \in Task
              BY <2>1
            <6>2. worker'[w] = [worker[w] EXCEPT !.step = IF IsValidation(w) THEN "evaluate" ELSE "pieces",
                                                 !.left = n, !.counted = IsValidation(w)]
              BY <5>1 DEF TaskInv, Types
            <6> QED
              BY <4>1, <6>1, <6>2 DEF NotBegun, IsValidation, Task
          <5>3. \A v \in Worker : worker'[v].job = j => v = w
            BY <5>1, <3>1 DEF TaskInv, Types
          <5> QED
            BY <4>1, <4>3, <5>2, <5>3, <3>3 DEF Prepare, Stopped, rows
        <4>4. CASE Evaluate(w) \/ ProfileColumn(w) \/ ValidateRows(w)
          BY <4>1, <4>4, <2>3 DEF Evaluate, ProfileColumn, ValidateRows, CancelRequested
        <4>5. CASE Complete(w)
          <5>1. ~IsValidation(w) /\ worker[w].rows = 0
            BY <4>1, <4>5 DEF Complete, Executing, NotBegun
          <5>2. KindOf[j] = "PROFILE_RUN"
            BY <5>1, <2>3, JobConstants DEF IsValidation, JobType
          <5>3. results'[j] = 0
            BY <4>5, <5>1, <2>3, <3>3 DEF Complete, FlushSession, Stopped, TaskInv, Types
          <5>4. \A v \in Worker : worker'[v].job # j
            BY <4>5, <3>1, JobConstants DEF Complete, Release, NoTask, TaskInv, Types
          <5> QED
            BY <4>1, <4>5, <5>2, <5>3, <5>4, <2>3 DEF Complete, Mark, Stopped, TaskInv, Types
        <4>6. CASE StopAtCheckpoint(w)
          <5>1. results'[j] = results[j]
            BY <4>6, <2>1, <2>3, <3>3
            DEF StopAtCheckpoint, FlushSession, Executing, Stopped, TaskInv, WorkerInv, Types
          <5> QED
            BY <4>1, <4>6, <5>1, <3>1, <3>3, <2>1, <2>3
            DEF StopAtCheckpoint, Mark, Close, Stopped, NotBegun, IsValidation, TaskInv, Types
        <4>7. CASE CancelRun(w)
          <5>1. \A v \in Worker : worker'[v].job # j
            BY <4>7, <3>1, JobConstants DEF CancelRun, Release, NoTask, TaskInv, Types
          <5> QED
            BY <4>1, <4>7, <5>1, <3>3, <2>1, <2>3
            DEF CancelRun, SetRun, Stopped, Gone, WorkedOn, TaskInv, Types
        <4>8. CASE SourceFails(w) \/ Unexpected(w)
          <5>0. Close(w, "failRun")
            BY <4>8 DEF SourceFails, Unexpected
          <5>1. NotBegun(w)' /\ \A v \in Worker : worker'[v].job = j => v = w
            BY <5>0, <4>1, <3>1, <2>1 DEF Close, NotBegun, IsValidation, TaskInv, Types, Task
          <5>2. job'[j] # "NO_ROW"
            BY <4>8, <2>1, <2>3 DEF SourceFails, Unexpected, Mark, TaskInv, Types
          <5> QED
            BY <4>1, <4>8, <5>1, <5>2, <3>3 DEF SourceFails, Unexpected, Stopped
        <4>9. CASE FailRun(w)
          <5>1. \A v \in Worker : worker'[v].job # j
            BY <4>9, <3>1, JobConstants DEF FailRun, Release, NoTask, TaskInv, Types
          <5> QED
            BY <4>1, <4>9, <5>1, <3>3, <2>1, <2>3
            DEF FailRun, SetRun, Stopped, TaskInv, Types
        <4> QED
          BY <1>4, <4>2, <4>3, <4>4, <4>5, <4>6, <4>7, <4>8, <4>9 DEF ExecuteNext
      <3> QED
        BY <3>2, <3>3
    <2> QED
      BY <2>2, <2>3
  <1> QED
    BY <1>1, <1>2, <1>3, <1>4 DEF WorkerNext, TakeNext

\* A job whose cancel flag is set while it is QUEUED is not worked on, leaves no
\* results, and does not complete unless it is a profile without a column,
\* whatever crashes: requests and workers read the flag, the job and the run in
\* steps of their own.
THEOREM CancelledInQueueStays == CrashSpec => CancelledInQueueLeavesNothing
  <1> DEFINE Left(j) == /\ results[j] = 0
                        /\ \A w \in Worker : worker[w].job = j => ~worker[w].progress
                        /\ run[j] = "COMPLETED" => KindOf[j] = "PROFILE_RUN"
  <1>1. ASSUME NEW j \in Job
        PROVE  CrashSpec => [](j \in cancelFlag /\ job[j] = "QUEUED" => []Left(j))
    <2>1. Init => Waiting(j)
      BY DEF Init, Waiting
    <2>2. TaskInv /\ [Next \/ WorkersCrash]_vars =>
            (Waiting(j) => Waiting(j)') /\ (Stopped(j) => Stopped(j)')
      BY StoppedByOthers, StoppedByWorker DEF Next, WorkersCrash
    <2>3. TaskInv /\ Waiting(j) /\ j \in cancelFlag /\ job[j] = "QUEUED" => Stopped(j)
      BY DEF Waiting, Stopped, NotBegun, TaskInv, WorkerInv
    <2>4. Stopped(j) => Left(j)
      BY DEF Stopped, NotBegun
    <2> HIDE DEF Left
    <2> QED
      BY TasksInPlace, <2>1, <2>2, <2>3, <2>4, PTL DEF CrashSpec
  <1> QED
    BY <1>1 DEF CancelledInQueueLeavesNothing

=============================================================================
