----------------------------- MODULE PublishRuns -----------------------------
(***************************************************************************)
(* PublishingService.trigger and acknowledge_drift, and the Celery task    *)
(* run_publish that writes the file.                                       *)
(*                                                                         *)
(* trigger holds a row lock on the staging run up to its commit; the task  *)
(* and the acknowledgement take none.  A run with drift is dequeued, left  *)
(* PENDING, and enqueued again once the drift is acknowledged.             *)
(***************************************************************************)
EXTENDS DeliveryDb

PublishCall ==
  [op : {"publish"}, staging : StagingRun, target : Target, overwrite : BOOLEAN]
DispatchCall    == [op : {"dispatch"}, run : PublishRun, overwrite : BOOLEAN]
RedispatchCall  == [op : {"redispatch"}, run : PublishRun]
CancelCall      == [op : {"cancel"}, run : PublishRun]

\* What the task has loaded or computed: jobStatus and status are the columns
\* as its session last saw them.
Task ==
  [step : {"idle", "markRunning", "startPublish", "checkTarget", "write", "finish", "failJob", "failRun"},
   run : PublishRun \cup {None},
   jobStatus : JobStatus, status : PublishStatus]

NoTask == [step |-> "idle", run |-> None, jobStatus |-> "NO_ROW", status |-> "NO_ROW"]

RunsOf(s) == {p \in PublishRun : publish[p].staging = s}

\* (Broken variant: trigger reads the staging run without FOR UPDATE.)
LockedNever(s) == FALSE

Locked(s) == \E c \in Caller : call[c].op = "publish" /\ call[c].staging = s

Drifted(p) == staging[publish[p].staging].drift

-----------------------------------------------------------------------------
(* Triggering *)

\* (Broken variant: an attempt need not be READY.)
TriggerPublishBuilding(c, s, t, o) ==
  /\ IsIdle(c)
  /\ ~Locked(s)
  /\ staging[s].current
  /\ \A p \in RunsOf(s) : publish[p].status \notin Live
  /\ call' = [call EXCEPT ![c] = [op |-> "publish", staging |-> s, target |-> t, overwrite |-> o]]
  /\ UNCHANGED <<db, overwrite, message, file, lost, worker, sweep>>

\* What is read while the row lock is held.
TriggerPublish(c, s, t, o) ==
  /\ IsIdle(c)
  /\ ~Locked(s)
  /\ staging[s].status = "READY" /\ staging[s].current
  /\ \A p \in RunsOf(s) : publish[p].status \notin Live
  /\ call' = [call EXCEPT ![c] = [op |-> "publish", staging |-> s, target |-> t, overwrite |-> o]]
  /\ UNCHANGED <<db, overwrite, message, file, lost, worker, sweep>>

CommitPublish(c) ==
  /\ call[c].op = "publish"
  /\ \E p \in PublishRun :
       /\ publish[p].status = "NO_ROW"
       /\ publish' = [publish EXCEPT ![p] =
            [NoPublish EXCEPT !.status = "PENDING", !.staging = call[c].staging,
                              !.target = call[c].target]]
       /\ job' = [job EXCEPT ![p] = "QUEUED"]
       /\ call' = [call EXCEPT ![c] =
            [op |-> "dispatch", run |-> p, overwrite |-> call[c].overwrite]]
  /\ UNCHANGED <<staging, overwrite, message, file, lost, worker, sweep>>

\* The bound on publish runs, not something the service refuses.
OutOfPublishRuns(c) ==
  /\ call[c].op = "publish"
  /\ \A p \in PublishRun : publish[p].status # "NO_ROW"
  /\ Return(c)
  /\ UNCHANGED <<db, overwrite, message, file, lost, worker, sweep>>

Enqueue(p) == message' = [message EXCEPT ![p] = @ + 1]

\* The overwrite flag goes to Redis, then the message to the broker.
Dispatch(c) ==
  LET p == call[c].run IN
  /\ call[c].op = "dispatch"
  /\ overwrite' = IF call[c].overwrite THEN overwrite \cup {p} ELSE overwrite
  /\ Enqueue(p)
  /\ Return(c)
  /\ UNCHANGED <<db, file, lost, worker, sweep>>

\* Redis or the broker is down, or the process ends after its commit.
DispatchLost(c) ==
  LET p == call[c].run IN
  /\ call[c].op \in {"dispatch", "redispatch"}
  /\ overwrite' \in {overwrite, IF call[c].op = "dispatch" /\ call[c].overwrite
                                  THEN overwrite \cup {p} ELSE overwrite}
  /\ lost' = lost \cup {p}
  /\ Return(c)
  /\ UNCHANGED <<db, message, file, worker, sweep>>

-----------------------------------------------------------------------------
(* Acknowledging drift *)

\* Nothing about the run is on its way: it has been dequeued and left PENDING.
Resting(p) ==
  /\ message[p] = 0
  /\ \A w \in Worker : worker[w].run # p
  /\ \A c \in Caller : call[c].op \in {"dispatch", "redispatch"} => call[c].run # p

AcknowledgeDrift(c, p) ==
  /\ IsIdle(c)
  /\ publish[p].status # "NO_ROW"
  /\ Drifted(p)
  /\ Patient => Resting(p) /\ ~publish[p].acknowledged
  /\ message[p] < MaxMessages
  /\ publish' = [publish EXCEPT ![p].acknowledged = TRUE]
  /\ call' = [call EXCEPT ![c] = [op |-> "redispatch", run |-> p]]
  /\ UNCHANGED <<staging, job, overwrite, message, file, lost, worker, sweep>>

\* (Broken variant: the decision to enqueue is left to the first message.)
NeverRedispatch(c) ==
  /\ call[c].op = "redispatch"
  /\ Return(c)
  /\ UNCHANGED <<db, overwrite, message, file, lost, worker, sweep>>

\* The row is refreshed after the commit; a run that has progressed needs no
\* further message.
Redispatch(c) ==
  LET p == call[c].run IN
  /\ call[c].op = "redispatch"
  /\ IF publish[p].status = "PENDING" THEN Enqueue(p) ELSE UNCHANGED message
  /\ Return(c)
  /\ UNCHANGED <<db, overwrite, file, lost, worker, sweep>>

-----------------------------------------------------------------------------
(* What others do to the job *)

\* JobsService.cancel of a QUEUED job: job and flag only, the publish run is
\* not among the rows it changes.  run_publish never reads the flag.
Cancel(c, p) ==
  /\ IsIdle(c)
  /\ job[p] = "QUEUED"
  /\ call' = [call EXCEPT ![c] = [op |-> "cancel", run |-> p]]
  /\ UNCHANGED <<db, overwrite, message, file, lost, worker, sweep>>

\* (Broken variant: the publish run is cancelled with its job.)
CommitCancelBoth(c) ==
  /\ call[c].op = "cancel"
  /\ job' = [job EXCEPT ![call[c].run] = "CANCELLED"]
  /\ publish' = [publish EXCEPT ![call[c].run].status = "CANCELLED"]
  /\ Return(c)
  /\ UNCHANGED <<staging, overwrite, message, file, lost, worker, sweep>>

CommitCancel(c) ==
  /\ call[c].op = "cancel"
  /\ job' = [job EXCEPT ![call[c].run] = "CANCELLED"]
  /\ Return(c)
  /\ UNCHANGED <<staging, publish, overwrite, message, file, lost, worker, sweep>>

\* The sweep selects old RUNNING jobs and fails what it has selected with one
\* commit, whatever has become of it by then.  PENDING and PUBLISHING are not
\* the statuses it looks for in the publish run.
SweepSelect ==
  /\ sweep = {}
  /\ \E old \in SUBSET {p \in PublishRun : job[p] = "RUNNING"} :
       /\ old # {}
       /\ sweep' = old
  /\ UNCHANGED <<db, overwrite, message, file, lost, call, worker>>

SweepCommit ==
  /\ sweep # {}
  /\ job' = [p \in PublishRun |-> IF p \in sweep THEN "FAILED" ELSE job[p]]
  /\ sweep' = {}
  /\ UNCHANGED <<staging, publish, overwrite, message, file, lost, call, worker>>

-----------------------------------------------------------------------------
(* run_publish *)

At(w, step) == worker[w].step = step

Proceed(w, step) == worker' = [worker EXCEPT ![w].step = step]

Release(w) == worker' = [worker EXCEPT ![w] = NoTask]

Dequeue(w, p) ==
  /\ At(w, "idle")
  /\ message[p] > 0
  /\ message' = [message EXCEPT ![p] = @ - 1]

\* The idempotency guard.
Resolved(p) == job[p] \in Ended \/ publish[p].status \in {"PUBLISHED", "FAILED"}

DropResolved(w, p) ==
  /\ Dequeue(w, p)
  /\ Resolved(p)
  /\ overwrite' = overwrite \ {p}
  /\ UNCHANGED <<db, file, lost, call, worker, sweep>>

\* The drift gate: the message is gone, nothing else has changed.
LeaveBlocked(w, p) ==
  /\ Dequeue(w, p)
  /\ ~Resolved(p)
  /\ Drifted(p) /\ ~publish[p].acknowledged
  /\ UNCHANGED <<db, overwrite, file, lost, call, worker, sweep>>

\* (Broken variant: the task leaves the drift gate to the service.)
TakeUngated(w, p) ==
  /\ Dequeue(w, p)
  /\ ~Resolved(p)
  /\ worker' = [worker EXCEPT ![w] = [step |-> "markRunning", run |-> p,
                                      jobStatus |-> job[p], status |-> publish[p].status]]
  /\ UNCHANGED <<db, overwrite, file, lost, call, sweep>>

\* Whether another worker has the same run is not looked at.
Take(w, p) ==
  /\ Dequeue(w, p)
  /\ ~Resolved(p)
  /\ Drifted(p) => publish[p].acknowledged
  /\ worker' = [worker EXCEPT ![w] = [step |-> "markRunning", run |-> p,
                                      jobStatus |-> job[p], status |-> publish[p].status]]
  /\ UNCHANGED <<db, overwrite, file, lost, call, sweep>>

WriteJob(w, status) ==
  job' = [job EXCEPT ![worker[w].run] = Flushed(@, worker[w].jobStatus, status)]

WriteStatus(w, status) ==
  publish' = [publish EXCEPT ![worker[w].run].status = Flushed(@, worker[w].status, status)]

MarkRunning(w) ==
  /\ At(w, "markRunning")
  /\ WriteJob(w, "RUNNING")
  /\ worker' = [worker EXCEPT ![w].step = "startPublish", ![w].jobStatus = "RUNNING"]
  /\ UNCHANGED <<staging, publish, overwrite, message, file, lost, call, sweep>>

StartPublish(w) ==
  /\ At(w, "startPublish")
  /\ WriteStatus(w, "PUBLISHING")
  /\ worker' = [worker EXCEPT ![w].step = "checkTarget", ![w].status = "PUBLISHING"]
  /\ UNCHANGED <<staging, job, overwrite, message, file, lost, call, sweep>>

\* check_overwrite_allowed; a path may also be refused for what it is.
CheckTarget(w) ==
  LET p == worker[w].run IN
  /\ At(w, "checkTarget")
  /\ \/ /\ publish[p].target \notin file \/ p \in overwrite
        /\ Proceed(w, "write")
     \/ Proceed(w, "failJob")
  /\ UNCHANGED <<db, overwrite, message, file, lost, call, sweep>>

\* write_row_snapshots truncates what is there.
Write(w) ==
  /\ At(w, "write")
  /\ file' = file \cup {publish[worker[w].run].target}
  /\ Proceed(w, "finish")
  /\ UNCHANGED <<db, overwrite, message, lost, call, sweep>>

\* OSError, before the file is touched or with a part of it written.
WriteFails(w) ==
  /\ At(w, "write")
  /\ file' \in {file, file \cup {publish[worker[w].run].target}}
  /\ Proceed(w, "failJob")
  /\ UNCHANGED <<db, overwrite, message, lost, call, sweep>>

\* One commit for run and job.
Finish(w) ==
  LET p == worker[w].run IN
  /\ At(w, "finish")
  /\ publish' = [publish EXCEPT ![p].status = Flushed(@, worker[w].status, "PUBLISHED"),
                                ![p].written = staging[publish[p].staging].records]
  /\ WriteJob(w, "COMPLETED")
  /\ overwrite' = overwrite \ {p}
  /\ Release(w)
  /\ UNCHANGED <<staging, message, file, lost, call, sweep>>

\* _fail commits the job first.
FailJob(w) ==
  /\ At(w, "failJob")
  /\ WriteJob(w, "FAILED")
  /\ worker' = [worker EXCEPT ![w].step = "failRun", ![w].jobStatus = "FAILED"]
  /\ UNCHANGED <<staging, publish, overwrite, message, file, lost, call, sweep>>

FailRun(w) ==
  /\ At(w, "failRun")
  /\ WriteStatus(w, "FAILED")
  /\ overwrite' = overwrite \ {worker[w].run}
  /\ Release(w)
  /\ UNCHANGED <<staging, job, message, file, lost, call, sweep>>

\* The process ends, or an error that is not expected: nothing catches it.
Abandon(w) ==
  /\ ~At(w, "idle")
  /\ lost' = lost \cup {worker[w].run}
  /\ Release(w)
  /\ UNCHANGED <<db, overwrite, message, file, call, sweep>>

-----------------------------------------------------------------------------

PublishRequest(c) ==
  \/ \E s \in StagingRun, t \in Target, o \in BOOLEAN : TriggerPublish(c, s, t, o)
  \/ \E p \in PublishRun : AcknowledgeDrift(c, p) \/ Cancel(c, p)

ServePublish(c) ==
  \/ CommitPublish(c) \/ OutOfPublishRuns(c) \/ Dispatch(c)
  \/ Redispatch(c) \/ CommitCancel(c)

PublishTask(w) ==
  \/ \E p \in PublishRun : DropResolved(w, p) \/ LeaveBlocked(w, p) \/ Take(w, p)
  \/ MarkRunning(w) \/ StartPublish(w) \/ CheckTarget(w) \/ Write(w) \/ WriteFails(w)
  \/ Finish(w) \/ FailJob(w) \/ FailRun(w)
=============================================================================
