------------------------------ MODULE StaleSweep ------------------------------
(* The watchdog that Celery Beat runs every five minutes (sweep_stale_jobs). *)
EXTENDS JobsDb

\* (Broken variant: the runs are looked through, not the jobs.)
SweepSelectByRun ==
  LET stale == {j \in Job : run[j] = "RUNNING" /\ job[j] = "RUNNING" /\ j \in overdue} IN
  /\ sweep.step = "idle"
  /\ stale # {}
  /\ sweep' = [step |-> "reading", jobs |-> stale, unread |-> stale, runs |-> {}]
  /\ UNCHANGED <<rows, cancelFlag, message, api, worker>>

\* Only the age of updated_at counts.
SweepSelect ==
  LET stale == {j \in Job : job[j] = "RUNNING" /\ j \in overdue} IN
  /\ sweep.step = "idle"
  /\ stale # {}
  /\ sweep' = [step |-> "reading", jobs |-> stale, unread |-> stale, runs |-> {}]
  /\ UNCHANGED <<rows, cancelFlag, message, api, worker>>

\* The linked run is failed too if it is in flight when the sweep reads it.
SweepReadRun(j) ==
  /\ sweep.step = "reading"
  /\ j \in sweep.unread
  /\ sweep' = [sweep EXCEPT !.unread = @ \ {j},
                            !.runs = IF run[j] \in InFlight THEN @ \cup {j} ELSE @]
  /\ UNCHANGED <<rows, cancelFlag, message, api, worker>>

\* One commit for all of them.
SweepCommit ==
  /\ sweep.step = "reading"
  /\ sweep.unread = {}
  /\ job' = [j \in Job |-> IF j \in sweep.jobs THEN "FAILED" ELSE job[j]]
  /\ overdue' = overdue \ sweep.jobs
  /\ run' = [j \in Job |-> IF j \in sweep.runs THEN "FAILED" ELSE run[j]]
  /\ sweep' = NoSweep
  /\ UNCHANGED <<results, counted, cancelFlag, message, api, worker>>

SweepNext == SweepSelect \/ (\E j \in Job : SweepReadRun(j)) \/ SweepCommit
=============================================================================
