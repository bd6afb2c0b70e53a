------------------------------ MODULE RunWorker ------------------------------
(***************************************************************************)
(* The Celery tasks run_profile and run_validation.                        *)
(*                                                                         *)
(* Both mark the job and then the run as RUNNING, read the source, check   *)
(* the cancel flag before every piece of work, and mark job and run at the *)
(* end.  Success is one commit; failing and cancelling are two, the job    *)
(* first.  A profile commits each column; a validation keeps its results   *)
(* in the session until it completes.                                      *)
(***************************************************************************)
EXTENDS JobsDb

Executing(w, step) == worker[w].step = step

Proceed(w, step) == worker' = [worker EXCEPT ![w].step = step]

Release(w) == worker' = [worker EXCEPT ![w] = NoTask]

IsValidation(w) == KindOf[worker[w].job] = "VALIDATION_RUN"

\* A commit stores everything the session holds; rolling back forgets it.
FlushSession(w) ==
  /\ results' = [results EXCEPT ![worker[w].job] = @ + worker[w].rows]
  /\ counted' = IF worker[w].counted THEN counted \cup {worker[w].job} ELSE counted

Close(w, step) ==
  worker' = [worker EXCEPT ![w].step = step, ![w].left = 0, ![w].rows = 0, ![w].counted = FALSE]

-----------------------------------------------------------------------------
(* Taking a task *)

\* (Broken variant: the message is not acknowledged before the task has run.)
TakeUnacknowledged(w, j) ==
  /\ Executing(w, "idle")
  /\ j \in message
  /\ job[j] \notin Ended
  /\ run[j] \notin Ended
  /\ worker' = [worker EXCEPT ![w] = [NoTask EXCEPT !.step = "markRunning", !.job = j]]
  /\ UNCHANGED <<rows, cancelFlag, message, api, sweep>>

\* Messages are acknowledged on delivery: a task that is lost with its worker
\* is not delivered again.
Take(w, j) ==
  /\ Executing(w, "idle")
  /\ j \in message
  /\ message' = message \ {j}
  /\ job[j] \notin Ended
  /\ run[j] \notin Ended
  /\ worker' = [worker EXCEPT ![w] = [NoTask EXCEPT !.step = "markRunning", !.job = j]]
  /\ UNCHANGED <<rows, cancelFlag, api, sweep>>

\* The idempotency guard: a job or a run that has ended is not executed.
Drop(w, j) ==
  /\ Executing(w, "idle")
  /\ j \in message
  /\ message' = message \ {j}
  /\ job[j] \in Ended \/ run[j] \in Ended
  /\ UNCHANGED <<rows, cancelFlag, api, worker, sweep>>

\* The job is set to RUNNING even if it has been cancelled since the guard.
MarkRunning(w) ==
  /\ Executing(w, "markRunning")
  /\ Mark(worker[w].job, "RUNNING")
  /\ Proceed(w, "startRun")
  /\ UNCHANGED <<run, results, counted, cancelFlag, message, api, sweep>>

StartRun(w) ==
  /\ Executing(w, "startRun")
  /\ SetRun(worker[w].job, "RUNNING")
  /\ Proceed(w, "prepare")
  /\ UNCHANGED <<job, overdue, results, counted, cancelFlag, message, api, sweep>>

-----------------------------------------------------------------------------
(* The work *)

\* Connect, resolve the rules of a validation, sample the rows.  A table may be
\* empty, and a dataset may have no active column.
Prepare(w) ==
  /\ Executing(w, "prepare")
  /\ \E n \in 0..Pieces :
       worker' = [worker EXCEPT ![w].step = IF IsValidation(w) THEN "evaluate" ELSE "pieces",
                                ![w].left = n,
                                ![w].counted = IsValidation(w)]
  /\ UNCHANGED <<rows, cancelFlag, message, api, sweep>>

\* A validation checks the flag before it evaluates its rules.
Evaluate(w) ==
  /\ Executing(w, "evaluate")
  /\ ~CancelRequested(worker[w].job)
  /\ Proceed(w, "pieces")
  /\ UNCHANGED <<rows, cancelFlag, message, api, sweep>>

\* (Broken variant: the flag is not looked at between the columns.)
ProfileColumnUnchecked(w) ==
  /\ Executing(w, "pieces") /\ ~IsValidation(w)
  /\ worker[w].left > 0
  /\ \E stored \in {0, 1} :
       results' = [results EXCEPT ![worker[w].job] = @ + stored]
  /\ worker' = [worker EXCEPT ![w].left = @ - 1, ![w].progress = TRUE]
  /\ UNCHANGED <<job, overdue, run, counted, cancelFlag, message, api, sweep>>

\* (Broken variant: a column that has been stored stays on the list.)
ProfileColumnAgain(w) ==
  /\ Executing(w, "pieces") /\ ~IsValidation(w)
  /\ worker[w].left > 0
  /\ ~CancelRequested(worker[w].job)
  /\ \E stored \in {0, 1} :
       /\ results' = [results EXCEPT ![worker[w].job] = @ + stored]
       /\ worker' = [worker EXCEPT ![w].left = @ - (1 - stored), ![w].progress = TRUE]
  /\ UNCHANGED <<job, overdue, run, counted, cancelFlag, message, api, sweep>>

\* A column whose statistics fail is skipped.
ProfileColumn(w) ==
  /\ Executing(w, "pieces") /\ ~IsValidation(w)
  /\ worker[w].left > 0
  /\ ~CancelRequested(worker[w].job)
  /\ \E stored \in {0, 1} :
       results' = [results EXCEPT ![worker[w].job] = @ + stored]
  /\ worker' = [worker EXCEPT ![w].left = @ - 1, ![w].progress = TRUE]
  /\ UNCHANGED <<job, overdue, run, counted, cancelFlag, message, api, sweep>>

\* 500 rows are flushed to the open transaction.
ValidateRows(w) ==
  /\ Executing(w, "pieces") /\ IsValidation(w)
  /\ worker[w].left > 0
  /\ ~CancelRequested(worker[w].job)
  /\ worker' = [worker EXCEPT ![w].left = @ - 1, ![w].rows = @ + 1, ![w].progress = TRUE]
  /\ UNCHANGED <<rows, cancelFlag, message, api, sweep>>

Complete(w) ==
  /\ Executing(w, "pieces")
  /\ worker[w].left = 0
  /\ Mark(worker[w].job, "COMPLETED")
  /\ SetRun(worker[w].job, "COMPLETED")
  /\ FlushSession(w)
  /\ Release(w)
  /\ UNCHANGED <<cancelFlag, message, api, sweep>>

-----------------------------------------------------------------------------
(* Being cancelled *)

\* (Broken variant: the results flushed so far are not rolled back.)
StopAtCheckpointKeepingRows(w) ==
  /\ \/ Executing(w, "evaluate")
     \/ Executing(w, "pieces") /\ worker[w].left > 0
  /\ CancelRequested(worker[w].job)
  /\ Mark(worker[w].job, "CANCELLED")
  /\ FlushSession(w)
  /\ Close(w, "cancelRun")
  /\ UNCHANGED <<run, cancelFlag, message, api, sweep>>

\* Among the rows of a validation the session is rolled back first; before
\* them mark_cancelled commits what it holds.
StopAtCheckpoint(w) ==
  /\ \/ Executing(w, "evaluate") /\ FlushSession(w)
     \/ Executing(w, "pieces") /\ worker[w].left > 0 /\ UNCHANGED <<results, counted>>
  /\ CancelRequested(worker[w].job)
  /\ Mark(worker[w].job, "CANCELLED")
  /\ Close(w, "cancelRun")
  /\ UNCHANGED <<run, cancelFlag, message, api, sweep>>

\* The flag goes first, but from here nobody reads it.
CancelRun(w) ==
  /\ Executing(w, "cancelRun")
  /\ cancelFlag' = cancelFlag \ {worker[w].job}
  /\ SetRun(worker[w].job, "CANCELLED")
  /\ Release(w)
  /\ UNCHANGED <<job, overdue, results, counted, message, api, sweep>>

-----------------------------------------------------------------------------
(* Failing *)

\* The vault or the source fails while the task prepares, before or after the
\* rules are resolved, or the evaluation times out: _fail without a rollback.
SourceFails(w) ==
  /\ \/ /\ Executing(w, "prepare")
        /\ \E resolved \in {FALSE, IsValidation(w)} :
             counted' = IF resolved THEN counted \cup {worker[w].job} ELSE counted
     \/ /\ Executing(w, "evaluate")
        /\ worker[w].left > 0
        /\ counted' = counted \cup {worker[w].job}
  /\ Mark(worker[w].job, "FAILED")
  /\ Close(w, "failRun")
  /\ UNCHANGED <<run, results, cancelFlag, message, api, sweep>>

\* The catch-all: roll back, then _fail.
Unexpected(w) ==
  /\ worker[w].step \in {"markRunning", "startRun", "prepare", "evaluate", "pieces", "cancelRun"}
  /\ Mark(worker[w].job, "FAILED")
  /\ Close(w, "failRun")
  /\ UNCHANGED <<run, results, counted, cancelFlag, message, api, sweep>>

FailRun(w) ==
  /\ Executing(w, "failRun")
  /\ SetRun(worker[w].job, "FAILED")
  /\ Release(w)
  /\ UNCHANGED <<job, overdue, results, counted, cancelFlag, message, api, sweep>>

\* The worker process ends; its session is gone, and its message too.
Crash(w) ==
  /\ ~Executing(w, "idle")
  /\ Release(w)
  /\ UNCHANGED <<rows, cancelFlag, message, api, sweep>>

-----------------------------------------------------------------------------

TakeNext(w) == \E j \in Job : Take(w, j) \/ Drop(w, j)

ExecuteNext(w) ==
  \/ MarkRunning(w) \/ StartRun(w)
  \/ Prepare(w) \/ Evaluate(w) \/ ProfileColumn(w) \/ ValidateRows(w) \/ Complete(w)
  \/ StopAtCheckpoint(w) \/ CancelRun(w)
  \/ SourceFails(w) \/ Unexpected(w) \/ FailRun(w)

WorkerNext(w) == TakeNext(w) \/ ExecuteNext(w)
=============================================================================
