------------------------------- MODULE JobsApi -------------------------------
(***************************************************************************)
(* What API requests do to jobs: POST .../profile and POST .../validate    *)
(* start one (ProfilingService.start_profiling,                            *)
(* ValidationService.start_validation), POST /jobs/{id}/cancel asks for it *)
(* to stop (JobsService.cancel).                                           *)
(***************************************************************************)
EXTENDS JobsDb

At(c, step) == api[c].step = step

Goto(c, step) == api' = [api EXCEPT ![c].step = step]

Return(c) == api' = [api EXCEPT ![c] = NoCall]

-----------------------------------------------------------------------------
(* Starting *)

\* No job of the same type is in flight for the dataset.  The id of the new
\* job is fresh.
StartRequest(c, j) ==
  /\ At(c, "idle") /\ "start" \in Endpoint
  /\ job[j] = "NO_ROW"
  /\ \A d \in Caller : api[d].job # j
  /\ InFlightJobs(KindOf[j], DatasetOf[j]) = {}
  /\ api' = [api EXCEPT ![c] = [step |-> "create", job |-> j, seen |-> "NO_ROW"]]
  /\ UNCHANGED <<rows, cancelFlag, message, worker, sweep>>

\* Job and run are committed together.
CreateJobAndRun(c) ==
  LET j == api[c].job IN
  /\ At(c, "create")
  /\ Mark(j, "QUEUED")
  /\ SetRun(j, "QUEUED")
  /\ Goto(c, "dispatch")
  /\ UNCHANGED <<results, counted, cancelFlag, message, worker, sweep>>

\* run_profile.delay, run_validation.delay
Dispatch(c) ==
  /\ At(c, "dispatch")
  /\ message' = message \cup {api[c].job}
  /\ Return(c)
  /\ UNCHANGED <<rows, cancelFlag, worker, sweep>>

\* The broker is down, or the API process ends after its commit: the rows stay.
DispatchFails(c) ==
  /\ At(c, "dispatch")
  /\ Return(c)
  /\ UNCHANGED <<rows, cancelFlag, message, worker, sweep>>

-----------------------------------------------------------------------------
(* Cancelling *)

CancelRequest(c, j) ==
  /\ At(c, "idle") /\ "cancel" \in Endpoint
  /\ job[j] \in InFlight
  /\ api' = [api EXCEPT ![c] = [step |-> "setFlag", job |-> j, seen |-> job[j]]]
  /\ UNCHANGED <<rows, cancelFlag, message, worker, sweep>>

\* (Broken variant: every job is left to its worker.)
SetCancelFlagOnly(c) ==
  /\ At(c, "setFlag")
  /\ cancelFlag' = cancelFlag \cup {api[c].job}
  /\ Return(c)
  /\ UNCHANGED <<rows, message, worker, sweep>>

\* A job that was RUNNING is left to its worker.
SetCancelFlag(c) ==
  /\ At(c, "setFlag")
  /\ cancelFlag' = cancelFlag \cup {api[c].job}
  /\ IF api[c].seen = "QUEUED" THEN Goto(c, "cancelJob") ELSE Return(c)
  /\ UNCHANGED <<rows, message, worker, sweep>>

\* (Broken variant: the linked run is forgotten, as it once was.)
CancelQueuedJobOnly(c) ==
  /\ At(c, "cancelJob")
  /\ Mark(api[c].job, "CANCELLED")
  /\ Return(c)
  /\ UNCHANGED <<run, results, counted, cancelFlag, message, worker, sweep>>

\* A job that was QUEUED is marked at once, whatever it is by now.
CancelQueuedJob(c) ==
  /\ At(c, "cancelJob")
  /\ Mark(api[c].job, "CANCELLED")
  /\ Goto(c, "readRun")
  /\ UNCHANGED <<run, results, counted, cancelFlag, message, worker, sweep>>

ReadQueuedRun(c) ==
  /\ At(c, "readRun")
  /\ IF run[api[c].job] = "QUEUED" THEN Goto(c, "cancelRun") ELSE Return(c)
  /\ UNCHANGED <<rows, cancelFlag, message, worker, sweep>>

CancelQueuedRun(c) ==
  /\ At(c, "cancelRun")
  /\ SetRun(api[c].job, "CANCELLED")
  /\ Return(c)
  /\ UNCHANGED <<job, overdue, results, counted, cancelFlag, message, worker, sweep>>

-----------------------------------------------------------------------------

ServeStart(c) == CreateJobAndRun(c) \/ Dispatch(c) \/ DispatchFails(c)

ServeCancel(c) ==
  SetCancelFlag(c) \/ CancelQueuedJob(c) \/ ReadQueuedRun(c) \/ CancelQueuedRun(c)

ApiNext(c) ==
  \/ \E j \in Job : StartRequest(c, j) \/ CancelRequest(c, j)
  \/ ServeStart(c)
  \/ ServeCancel(c)
=============================================================================
