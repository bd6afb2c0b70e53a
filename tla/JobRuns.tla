------------------------------- MODULE JobRuns -------------------------------
(***************************************************************************)
(* Profile and validation runs from the request to the end: API, broker,   *)
(* workers and the sweep on the same rows.                                 *)
(***************************************************************************)
EXTENDS JobsApi, RunWorker, StaleSweep

Init ==
  /\ job        = [j \in Job |-> "NO_ROW"]
  /\ overdue    = {}
  /\ run        = [j \in Job |-> "NO_ROW"]
  /\ results    = [j \in Job |-> 0]
  /\ counted    = {}
  /\ cancelFlag = {}
  /\ message    = {}
  /\ api        = [c \in Caller |-> NoCall]
  /\ worker     = [w \in Worker |-> NoTask]
  /\ sweep      = NoSweep

Next ==
  \/ \E c \in Caller : ApiNext(c)
  \/ \E w \in Worker : WorkerNext(w)
  \/ SweepNext
  \/ \E j \in Job : TimePasses(j)

WorkersCrash == \E w \in Worker : Crash(w)

Spec == Init /\ [][Next]_vars

CrashSpec == Init /\ [][Next \/ WorkersCrash]_vars

-----------------------------------------------------------------------------
(* Fairness: a request that is being served goes on, messages are          *)
(* delivered while a worker is free, a worker goes on with its task, Beat  *)
(* keeps starting the sweep, and time passes.  Nobody has to start         *)
(* anything, to cancel it, or to crash.                                    *)

Fairness ==
  /\ \A c \in Caller : WF_vars(ServeStart(c)) /\ WF_vars(ServeCancel(c))
  /\ \A w \in Worker : WF_vars(TakeNext(w)) /\ WF_vars(ExecuteNext(w))
  /\ WF_vars(SweepNext)
  /\ \A j \in Job : WF_vars(TimePasses(j))

FairCrashSpec == CrashSpec /\ Fairness

-----------------------------------------------------------------------------
(* Types *)

\* Every row, message and actor has the shape the code gives it.
TypeOK ==
  /\ job \in [Job -> JobStatus]
  /\ overdue \subseteq Job
  /\ run \in [Job -> JobStatus]
  /\ results \in [Job -> 0..Pieces]
  /\ counted \subseteq Job
  /\ cancelFlag \subseteq Job
  /\ message \subseteq Job
  /\ api \in [Caller -> ApiCall]
  /\ worker \in [Worker -> Task]
  /\ sweep \in Sweep

-----------------------------------------------------------------------------
(* Who is still going to write *)

\* A cancel request that goes on to the run row; one that has found it QUEUED
\* writes it.
Cancelling(j) ==
  \E c \in Caller : api[c].job = j /\ api[c].step \in {"readRun", "cancelRun"}

WorkedOn(j) == \E w \in Worker : worker[w].job = j

Attended(j) == Cancelling(j) \/ WorkedOn(j) \/ j \in sweep.jobs

-----------------------------------------------------------------------------
(* Safety *)

\* A run is never left QUEUED or RUNNING when its job has ended: whoever ends
\* the job still has the run to write, although job and run are committed one
\* after the other by API, worker and sweep at the same time
\* (jobs/service.py, "leaving the linked run row stuck at QUEUED forever").  A
\* worker that crashes in between does leave it.
NoOrphanRun ==
  \A j \in Job : run[j] \in InFlight /\ job[j] \in Ended => Attended(j)

\* A task is in one place only: with its creator, in the broker or with one
\* worker.  Nobody checks this; what a worker does relies on it.
OneWorkerPerJob ==
  \A w, v \in Worker : worker[w].job # None /\ worker[w].job = worker[v].job => w = v

\* Validation results are all or nothing: they appear with the COMPLETED
\* status of job and run, whatever happened to the task before.
ValidationResultsAppearAtOnce ==
  [][\A j \in Job :
       KindOf[j] = "VALIDATION_RUN" /\ results'[j] # results[j] =>
         job'[j] = "COMPLETED" /\ run'[j] = "COMPLETED"]_vars

\* A job whose cancel flag is set before a worker takes it is not worked on and
\* leaves no results, however the request and the worker overlap.  It does not
\* complete either, unless it is a profile without a column: the flag is read
\* before each column and nowhere else (profiling/tasks.py:184).
CancelledInQueueLeavesNothing ==
  \A j \in Job :
    [](j \in cancelFlag /\ job[j] = "QUEUED" =>
         [](/\ results[j] = 0
            /\ \A w \in Worker : worker[w].job = j => ~worker[w].progress
            /\ run[j] = "COMPLETED" => KindOf[j] = "PROFILE_RUN"))

-----------------------------------------------------------------------------
(* Liveness *)

\* A job does not stay RUNNING for ever, even if its worker dies (the purpose
\* of the sweep).
RunningJobsEnd == \A j \in Job : job[j] = "RUNNING" ~> job[j] \in Ended

\* A job somebody has cancelled ends, even if its message or its worker is lost.
CancelledJobsEnd == \A j \in Job : j \in cancelFlag ~> job[j] \in Ended

-----------------------------------------------------------------------------
(* What comments say and the code does not do *)

\* The sweep does not pick a run that has made progress since its heartbeat
\* became too old.
LiveRunsAreNotSwept ==
  [][\A w \in Worker :
       worker[w].progress => worker[w].job \notin sweep'.jobs \ sweep.jobs]_vars

=============================================================================
