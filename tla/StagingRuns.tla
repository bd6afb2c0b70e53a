----------------------------- MODULE StagingRuns -----------------------------
(***************************************************************************)
(* StagingService.trigger.  The attempt is inserted under a lock on its    *)
(* review run; its records are built after that commit, without the lock,  *)
(* one commit per record, by the same request.                             *)
(***************************************************************************)
EXTENDS DeliveryDb

StageCall == [op : {"stage"}, review : Review, approved : SUBSET Record]
BuildCall == [op : {"build"}, staging : StagingRun, todo : SUBSET Record]

Attempts(r) == {s \in StagingRun : staging[s].review = r}

Building(r) == {s \in Attempts(r) : staging[s].status = "BUILDING"}

ReviewLocked(r) == \E c \in Caller : call[c].op = "stage" /\ call[c].review = r

\* The number of an attempt counts all of them, whatever became of them.
LastAttempt(r) ==
  IF Attempts(r) = {} THEN 0
  ELSE CHOOSE n \in {staging[s].attempt : s \in Attempts(r)} :
         \A s \in Attempts(r) : staging[s].attempt <= n

-----------------------------------------------------------------------------

\* (Broken variant: an attempt that is being built is not in the way.)
TriggerWhileBuilding(c, r, approved) ==
  /\ IsIdle(c)
  /\ ~ReviewLocked(r)
  /\ approved # {}
  /\ call' = [call EXCEPT ![c] = [op |-> "stage", review |-> r, approved |-> approved]]
  /\ UNCHANGED <<db, overwrite, message, file, lost, worker, sweep>>

\* What is read while the row lock is held.  approved is what the review
\* services let the run stage at that moment: the records of its latest APPROVED
\* request, none if it is archived, has no such request or has too many of them.
TriggerStaging(c, r, approved) ==
  /\ IsIdle(c)
  /\ ~ReviewLocked(r)
  /\ approved # {}
  /\ Building(r) = {}
  /\ call' = [call EXCEPT ![c] = [op |-> "stage", review |-> r, approved |-> approved]]
  /\ UNCHANGED <<db, overwrite, message, file, lost, worker, sweep>>

\* A publish request that holds the current attempt makes this commit wait.
PublishHolds(s) == \E c \in Caller : call[c].op = "publish" /\ call[c].staging = s

\* The new attempt becomes the current one before it is known to succeed.
CommitAttempt(c) ==
  LET r == call[c].review IN
  /\ call[c].op = "stage"
  /\ \A s \in Attempts(r) : staging[s].current => ~PublishHolds(s)
  /\ \E s \in StagingRun :
       /\ staging[s].status = "NO_ROW"
       /\ staging' = [t \in StagingRun |->
            IF t = s THEN [NoStaging EXCEPT !.status = "BUILDING", !.review = r,
                             !.attempt = LastAttempt(r) + 1, !.current = TRUE,
                             !.approved = call[c].approved]
            ELSE IF t \in Attempts(r) THEN [staging[t] EXCEPT !.current = FALSE]
            ELSE staging[t]]
       /\ call' = [call EXCEPT ![c] = [op |-> "build", staging |-> s, todo |-> call[c].approved]]
  /\ UNCHANGED <<publish, job, overwrite, message, file, lost, worker, sweep>>

\* The bound on attempts, not something the service refuses.
OutOfAttempts(c) ==
  /\ call[c].op = "stage"
  /\ \A s \in StagingRun : staging[s].status # "NO_ROW"
  /\ Return(c)
  /\ UNCHANGED <<db, overwrite, message, file, lost, worker, sweep>>

-----------------------------------------------------------------------------
(* _build_records *)

BuildRecord(c, x) ==
  /\ call[c].op = "build"
  /\ x \in call[c].todo \ Conflicting
  /\ staging' = [staging EXCEPT ![call[c].staging].records = @ \cup {x}]
  /\ call' = [call EXCEPT ![c].todo = @ \ {x}]
  /\ UNCHANGED <<publish, job, overwrite, message, file, lost, worker, sweep>>

\* The source cannot be read, before the first record, or a correction is
\* missing or contradicts another one.  The records built so far stay.
BuildFails(c) ==
  LET s == call[c].staging IN
  /\ call[c].op = "build"
  /\ staging[s].records = {} \/ call[c].todo \cap Conflicting # {}
  /\ staging' = [staging EXCEPT ![s].status = "FAILED"]
  /\ Return(c)
  /\ UNCHANGED <<publish, job, overwrite, message, file, lost, worker, sweep>>

\* The process ends, or an error that is not expected: the attempt stays
\* BUILDING.
BuildAbandoned(c) ==
  /\ call[c].op = "build"
  /\ Return(c)
  /\ UNCHANGED <<db, overwrite, message, file, lost, worker, sweep>>

\* Whether the source has drifted is up to the source.
FinishBuild(c) ==
  LET s == call[c].staging IN
  /\ call[c].op = "build"
  /\ call[c].todo = {}
  /\ \E drift \in BOOLEAN :
       staging' = [staging EXCEPT ![s].status = "READY", ![s].drift = drift]
  /\ Return(c)
  /\ UNCHANGED <<publish, job, overwrite, message, file, lost, worker, sweep>>

StagingNext(c) ==
  \/ \E r \in Review, approved \in SUBSET Record : TriggerStaging(c, r, approved)
  \/ CommitAttempt(c) \/ OutOfAttempts(c)
  \/ \E x \in Record : BuildRecord(c, x)
  \/ BuildFails(c) \/ BuildAbandoned(c) \/ FinishBuild(c)
=============================================================================
