---------------------------- MODULE DeliveryProofs ----------------------------
(***************************************************************************)
(* Proofs about Delivery, for any number of review runs, attempts, publish *)
(* runs, requests and workers.                                             *)
(*                                                                         *)
(* AttemptInv is about staging alone.  RunInv says that a publish run      *)
(* exists before anything is on its way to it, and that its attempt is     *)
(* finished.  GateInv and WakeInv are about the task, whose worker may     *)
(* have loaded an older row.  SoleInv, that nothing is on its way twice,   *)
(* takes clients that do not acknowledge the drift of a PENDING run before *)
(* its task has seen it: the message of the acknowledgement is a second    *)
(* one then.                                                               *)
(***************************************************************************)
EXTENDS Delivery, FiniteSetTheorems, WellFoundedInduction, TLAPS

\* The newest attempt is current, whatever becomes of it, and only that one is
\* still being built.
NewestInv ==
  \A s, t \in StagingRun :
    staging[s].status # "NO_ROW" /\ staging[t].review = staging[s].review /\ t # s =>
      /\ staging[t].attempt # staging[s].attempt
      /\ staging[s].current \/ staging[s].status = "BUILDING" => staging[t].attempt < staging[s].attempt

\* A number follows on that of another attempt.
NumberedInv ==
  \A s \in StagingRun : staging[s].status # "NO_ROW" =>
    \/ staging[s].attempt = 1
    \/ \E t \in StagingRun :
         staging[t].review = staging[s].review /\ staging[s].attempt = staging[t].attempt + 1

\* A finished attempt has all its records.
BuiltInv ==
  \A s \in StagingRun :
    /\ staging[s].status = "NO_ROW" <=> staging[s].review = None
    /\ staging[s].status = "READY" => staging[s].records = staging[s].approved

\* No attempt is being built while a request holds the lock on a review run.
StagerInv ==
  \A c \in Caller : call[c].op = "stage" =>
    /\ \A s \in StagingRun : staging[s].review = call[c].review => staging[s].status # "BUILDING"
    /\ \A d \in Caller : call[d].op = "stage" /\ call[d].review = call[c].review => d = c

\* One request builds an attempt, which lacks the records that it has left.
BuilderInv ==
  \A c \in Caller : call[c].op = "build" =>
    /\ staging[call[c].staging].status = "BUILDING"
    /\ staging[call[c].staging].records \cup call[c].todo = staging[call[c].staging].approved
    /\ \A d \in Caller : call[d].op = "build" /\ call[d].staging = call[c].staging => d = c

AttemptInv == NewestInv /\ NumberedInv /\ BuiltInv /\ StagerInv /\ BuilderInv

\* A request that is about a publish run which exists.
About(c, p) == call[c].op \in {"dispatch", "redispatch", "cancel"} /\ call[c].run = p

\* Nothing happens to a publish run before it exists, and it exists for a
\* finished attempt.
BornInv ==
  \A p \in PublishRun :
    IF publish[p].status = "NO_ROW"
    THEN /\ message[p] = 0
         /\ job[p] = "NO_ROW"
         /\ p \notin sweep
         /\ \A c \in Caller : ~About(c, p)
         /\ \A w \in Worker : worker[w].run # p
    ELSE /\ publish[p].target \in Target
         /\ publish[p].staging \in StagingRun
         /\ staging[publish[p].staging].status = "READY"

\* A request that publishes has found a finished attempt.
PublisherInv ==
  \A c \in Caller : call[c].op = "publish" => staging[call[c].staging].status = "READY"

BusyInv == \A w \in Worker : worker[w].step = "idle" <=> worker[w].run = None

RunInv == PublishedWhole /\ BornInv /\ PublisherInv /\ BusyInv

\* A worker has passed the gate, and whoever acknowledged the drift of its run
\* does not take that back.
GateInv ==
  /\ DriftIsAcknowledged
  /\ \A w \in Worker :
       worker[w].run # None /\ Drifted(worker[w].run) => publish[worker[w].run].acknowledged

\* A worker that has seen or made its run PUBLISHING finds it PENDING no more.
LoadedInv ==
  \A w \in Worker :
    /\ worker[w].run # None => worker[w].status \in {"PENDING", "PUBLISHING"}
    /\ worker[w].step \notin {"idle", "markRunning", "startPublish"} => worker[w].status = "PUBLISHING"
    /\ worker[w].run # None /\ worker[w].status = "PUBLISHING" =>
         publish[worker[w].run].status # "PENDING"

\* A job that is no longer QUEUED, or looked so to the sweep, has had a worker,
\* which has it still unless it has started the run or was lost.
StartedInv ==
  \A p \in PublishRun :
    publish[p].status = "PENDING" /\ (job[p] \in {"RUNNING", "COMPLETED", "FAILED"} \/ p \in sweep) =>
      p \in lost \/ \E w \in Worker : worker[w].run = p

WakeInv == NoLostWakeUp /\ LoadedInv /\ StartedInv

\* A request that will enqueue a publish run.
Wakes(c, p) == call[c].op \in {"dispatch", "redispatch"} /\ call[c].run = p

\* A request that is going to send a message: an acknowledgement finds out
\* whether the run is still PENDING.
Sends(c, p) ==
  \/ call[c].op = "dispatch" /\ call[c].run = p
  \/ call[c].op = "redispatch" /\ call[c].run = p /\ publish[p].status = "PENDING"

\* Of message, worker and sending request, a publish run has one at most.
SoleWayInv ==
  \A p \in PublishRun :
    /\ message[p] <= 1
    /\ message[p] > 0 => \A w \in Worker : worker[w].run # p
    /\ message[p] > 0 => \A c \in Caller : ~Sends(c, p)
    /\ \A w, v \in Worker : worker[w].run = p /\ worker[v].run = p => v = w
    /\ \A c, d \in Caller : Sends(c, p) /\ Sends(d, p) => d = c
    /\ \A c \in Caller, w \in Worker : Sends(c, p) => worker[w].run # p

\* The run of a worker has not ended behind its back.
UnendedInv ==
  \A w \in Worker : worker[w].run # None => publish[worker[w].run].status \in {"PENDING", "PUBLISHING"}

\* A request that publishes holds the lock of an attempt without a live run.
SolePublisherInv ==
  \A c \in Caller : call[c].op = "publish" =>
    /\ \A p \in PublishRun : publish[p].staging = call[c].staging => publish[p].status \notin Live
    /\ \A d \in Caller : call[d].op = "publish" /\ call[d].staging = call[c].staging => d = c

SoleInv == OneLivePublishRun /\ SoleWayInv /\ UnendedInv /\ SolePublisherInv

-----------------------------------------------------------------------------
(* What the parts of a state are *)

\* The fields of a request follow from its op.
LEMMA CallKinds ==
  ASSUME TypeOK, NEW c \in Caller
  PROVE  /\ call[c] \in Calls
         /\ call[c].op = "stage" => call[c] \in StageCall
         /\ call[c].op = "build" => call[c] \in BuildCall
         /\ call[c].op = "publish" => call[c] \in PublishCall
         /\ call[c].op = "dispatch" => call[c] \in DispatchCall
         /\ call[c].op = "redispatch" => call[c] \in RedispatchCall
         /\ call[c].op = "cancel" => call[c] \in CancelCall
  <1>1. call[c] \in Calls
    BY DEF TypeOK
  <1> QED
    BY <1>1 DEF Calls, Idle, StageCall, BuildCall, PublishCall, DispatchCall, RedispatchCall, CancelCall

\* A number assigned to the elements of a finite set is highest somewhere: at
\* an element whose set of higher ones is minimal.
LEMMA HighestExists ==
  ASSUME NEW A, IsFiniteSet(A), A # {}, NEW f \in [A -> Nat]
  PROVE  \E s \in A : \A t \in A : f[t] <= f[s]
  <1> DEFINE Higher(s) == {t \in A : f[t] > f[s]}
             H == {Higher(s) : s \in A}
             R == StrictSubsetOrdering(A)
  <1>1. IsWellFoundedOn(R, FiniteSubsetsOf(A))
    BY FS_StrictSubsetOrderingWellFounded
  <1>2. H \subseteq FiniteSubsetsOf(A)
    <2>1. \A s \in A : Higher(s) \in SUBSET A
      OBVIOUS
    <2> QED
      BY <2>1, FS_FiniteSubsetsOfFinite
  <1>3. H # {}
    <2>1. PICK s \in A : TRUE
      OBVIOUS
    <2>2. Higher(s) \in H
      OBVIOUS
    <2> QED
      BY <2>2
  <1>4. \E X \in H : \A Y \in H : <<Y, X>> \notin R
    <2> HIDE DEF H, R
    <2> QED
      BY <1>1, <1>2, <1>3, WFMin
  <1>5. PICK s \in A : \A u \in A : <<Higher(u), Higher(s)>> \notin R
    BY <1>4
  <1>6. ASSUME NEW t \in A, f[t] > f[s]
        PROVE  FALSE
    <2>1. Higher(t) \subseteq Higher(s)
      BY <1>6
    <2>2. t \in Higher(s) /\ t \notin Higher(t)
      BY <1>6
    <2>3. <<Higher(t), Higher(s)>> \in R
      BY <2>1, <2>2 DEF StrictSubsetOrdering
    <2> QED
      BY <2>3, <1>5
  <1> QED
    BY <1>6

\* LastAttempt is at least the number of every attempt.
LEMMA LastAttemptIsHighest ==
  ASSUME TypeOK, NEW r
  PROVE  /\ LastAttempt(r) \in Nat
         /\ \A s \in Attempts(r) : staging[s].attempt <= LastAttempt(r)
         /\ \/ LastAttempt(r) = 0
            \/ \E s \in Attempts(r) : staging[s].attempt = LastAttempt(r)
  <1> DEFINE A == Attempts(r)
             N == {staging[s].attempt : s \in A}
             f == [s \in A |-> staging[s].attempt]
  <1>1. CASE A = {}
    BY <1>1 DEF LastAttempt
  <1>2. CASE A # {}
    <2>1. IsFiniteSet(A)
      BY DeliveryConstants, FS_Subset DEF Attempts
    <2>2. \A s \in A : staging[s].attempt \in Nat
      BY DEF Attempts, TypeOK, StagingRow
    <2>3. f \in [A -> Nat]
      BY <2>2
    <2>4. \E s \in A : \A t \in A : f[t] <= f[s]
      <3> HIDE DEF A, f
      <3> QED
        BY <1>2, <2>1, <2>3, HighestExists
    <2>5. \E n \in N : \A s \in A : staging[s].attempt <= n
      BY <2>4
    <2>6. LastAttempt(r) = CHOOSE n \in N : \A s \in A : staging[s].attempt <= n
      BY <1>2 DEF LastAttempt
    <2>7. LastAttempt(r) \in N /\ \A s \in A : staging[s].attempt <= LastAttempt(r)
      <3> HIDE DEF A, N
      <3> QED
        BY <2>5, <2>6
    <2> QED
      BY <2>2, <2>7
  <1> QED
    BY <1>1, <1>2
-----------------------------------------------------------------------------
(* Type correctness *)

\* The empty rows, and a row whose columns change, are rows.
LEMMA Rows ==
  /\ NoStaging \in StagingRow
  /\ NoPublish \in PublishRow
  /\ NoTask \in Task
  /\ Idle \in Calls
  BY DEF NoStaging, StagingRow, StagingStatus, NoPublish, PublishRow, PublishStatus, NoTask, Task,
         JobStatus, Calls

\* A request that returns, or becomes another one.
LEMMA CallTyped ==
  ASSUME TypeOK, NEW c \in Caller, NEW k \in Calls, call' = [call EXCEPT ![c] = k]
  PROVE  call' \in [Caller -> Calls]
  BY DEF TypeOK

\* A worker that releases its task, takes one or goes on with it.
LEMMA WorkerTyped ==
  ASSUME TypeOK, NEW w \in Worker, NEW k \in Task, worker' = [worker EXCEPT ![w] = k]
  PROVE  worker' \in [Worker -> Task]
  BY DEF TypeOK

LEMMA TypeStaging ==
  ASSUME TypeOK, NEW c \in Caller, StagingNext(c)
  PROVE  TypeOK'
  <1> USE Rows
  <1>1. ASSUME NEW r \in Review, NEW approved \in SUBSET Record, TriggerStaging(c, r, approved)
        PROVE  TypeOK'
    <2>1. [op |-> "stage", review |-> r, approved |-> approved] \in Calls
      BY DEF Calls, StageCall
    <2> QED
      BY <1>1, <2>1, CallTyped DEF TriggerStaging, TypeOK, db
  <1>2. CASE CommitAttempt(c)
    <2>1. call[c].op = "stage" /\ call[c].review \in Review /\ call[c].approved \in SUBSET Record
      BY <1>2, CallKinds DEF CommitAttempt, StageCall
    <2>2. PICK s \in StagingRun :
            /\ staging' = [t \in StagingRun |->
                 IF t = s THEN [NoStaging EXCEPT !.status = "BUILDING", !.review = call[c].review,
                                  !.attempt = LastAttempt(call[c].review) + 1, !.current = TRUE,
                                  !.approved = call[c].approved]
                 ELSE IF t \in Attempts(call[c].review) THEN [staging[t] EXCEPT !.current = FALSE]
                 ELSE staging[t]]
            /\ call' = [call EXCEPT ![c] = [op |-> "build", staging |-> s, todo |-> call[c].approved]]
      BY <1>2 DEF CommitAttempt
    <2>3. [op |-> "build", staging |-> s, todo |-> call[c].approved] \in Calls
      BY <2>1 DEF Calls, BuildCall
    <2>4. [NoStaging EXCEPT !.status = "BUILDING", !.review = call[c].review,
                            !.attempt = LastAttempt(call[c].review) + 1, !.current = TRUE,
                            !.approved = call[c].approved] \in StagingRow
      <3>1. LastAttempt(call[c].review) + 1 \in Nat
        BY LastAttemptIsHighest
      <3> QED
        BY <2>1, <3>1 DEF StagingRow, NoStaging, StagingStatus
    <2>5. \A t \in StagingRun : [staging[t] EXCEPT !.current = FALSE] \in StagingRow
      BY DEF TypeOK, StagingRow
    <2>6. staging' \in [StagingRun -> StagingRow]
      BY <2>2, <2>4, <2>5 DEF TypeOK
    <2>7. call' \in [Caller -> Calls]
      BY <2>2, <2>3, CallTyped
    <2> QED
      BY <1>2, <2>6, <2>7 DEF CommitAttempt, TypeOK
  <1>3. CASE OutOfAttempts(c)
    BY <1>3, CallTyped DEF OutOfAttempts, Return, TypeOK, db
  <1>4. ASSUME NEW x \in Record, BuildRecord(c, x)
        PROVE  TypeOK'
    <2>1. call[c] \in BuildCall
      BY <1>4, CallKinds DEF BuildRecord
    <2>2. staging' \in [StagingRun -> StagingRow]
      BY <1>4, <2>1 DEF BuildRecord, BuildCall, TypeOK, StagingRow
    <2>3. [call[c] EXCEPT !.todo = @ \ {x}] \in Calls
      BY <2>1 DEF BuildCall, Calls
    <2>4. call' = [call EXCEPT ![c] = [call[c] EXCEPT !.todo = @ \ {x}]]
      BY <1>4 DEF BuildRecord, TypeOK
    <2> QED
      BY <1>4, <2>2, <2>3, <2>4, CallTyped DEF BuildRecord, TypeOK
  <1>5. CASE BuildFails(c)
    <2>1. call[c] \in BuildCall
      BY <1>5, CallKinds DEF BuildFails
    <2>2. staging' \in [StagingRun -> StagingRow]
      BY <1>5, <2>1 DEF BuildFails, BuildCall, TypeOK, StagingRow, StagingStatus
    <2> QED
      BY <1>5, <2>2, CallTyped DEF BuildFails, Return, TypeOK
  <1>6. CASE BuildAbandoned(c)
    BY <1>6, CallTyped DEF BuildAbandoned, Return, TypeOK, db
  <1>7. CASE FinishBuild(c)
    <2>1. call[c] \in BuildCall
      BY <1>7, CallKinds DEF FinishBuild
    <2>2. staging' \in [StagingRun -> StagingRow]
      BY <1>7, <2>1 DEF FinishBuild, BuildCall, TypeOK, StagingRow, StagingStatus
    <2> QED
      BY <1>7, <2>2, CallTyped DEF FinishBuild, Return, TypeOK
  <1> QED
    BY <1>1, <1>2, <1>3, <1>4, <1>5, <1>6, <1>7 DEF StagingNext

LEMMA TypePublish ==
  ASSUME TypeOK, NEW c \in Caller, PublishRequest(c) \/ ServePublish(c) \/ DispatchLost(c)
  PROVE  TypeOK'
  <1> USE Rows
  <1>1. ASSUME NEW s \in StagingRun, NEW t \in Target, NEW o \in BOOLEAN, TriggerPublish(c, s, t, o)
        PROVE  TypeOK'
    <2>1. [op |-> "publish", staging |-> s, target |-> t, overwrite |-> o] \in Calls
      BY DEF Calls, PublishCall
    <2> QED
      BY <1>1, <2>1, CallTyped DEF TriggerPublish, TypeOK, db
  <1>2. ASSUME NEW p \in PublishRun, AcknowledgeDrift(c, p)
        PROVE  TypeOK'
    <2>1. [op |-> "redispatch", run |-> p] \in Calls
      BY DEF Calls, RedispatchCall
    <2>2. publish' \in [PublishRun -> PublishRow]
      BY <1>2 DEF AcknowledgeDrift, TypeOK, PublishRow
    <2> QED
      BY <1>2, <2>1, <2>2, CallTyped DEF AcknowledgeDrift, TypeOK
  <1>3. ASSUME NEW p \in PublishRun, Cancel(c, p)
        PROVE  TypeOK'
    <2>1. [op |-> "cancel", run |-> p] \in Calls
      BY DEF Calls, CancelCall
    <2> QED
      BY <1>3, <2>1, CallTyped DEF Cancel, TypeOK, db
  <1>4. CASE CommitPublish(c)
    <2>1. call[c] \in PublishCall
      BY <1>4, CallKinds DEF CommitPublish
    <2>2. PICK p \in PublishRun :
            /\ publish' = [publish EXCEPT ![p] =
                 [NoPublish EXCEPT !.status = "PENDING", !.staging = call[c].staging,
                                   !.target = call[c].target]]
            /\ job' = [job EXCEPT ![p] = "QUEUED"]
            /\ call' = [call EXCEPT ![c] =
                 [op |-> "dispatch", run |-> p, overwrite |-> call[c].overwrite]]
      BY <1>4 DEF CommitPublish
    <2>3. [op |-> "dispatch", run |-> p, overwrite |-> call[c].overwrite] \in Calls
      BY <2>1 DEF PublishCall, Calls, DispatchCall
    <2>4. publish' \in [PublishRun -> PublishRow]
      BY <2>1, <2>2 DEF PublishCall, TypeOK, PublishRow, NoPublish, PublishStatus
    <2>5. job' \in [PublishRun -> JobStatus]
      BY <2>2 DEF TypeOK, JobStatus
    <2> QED
      BY <1>4, <2>2, <2>3, <2>4, <2>5, CallTyped DEF CommitPublish, TypeOK
  <1>5. CASE OutOfPublishRuns(c)
    BY <1>5, CallTyped DEF OutOfPublishRuns, Return, TypeOK, db
  <1>6. CASE Dispatch(c)
    <2>1. call[c] \in DispatchCall
      BY <1>6, CallKinds DEF Dispatch
    <2>2. message' \in [PublishRun -> Nat]
      BY <1>6, <2>1 DEF Dispatch, Enqueue, DispatchCall, TypeOK
    <2> QED
      BY <1>6, <2>1, <2>2, CallTyped DEF Dispatch, Return, DispatchCall, TypeOK, db
  <1>7. CASE DispatchLost(c)
    <2>1. call[c].run \in PublishRun
      BY <1>7, CallKinds DEF DispatchLost, DispatchCall, RedispatchCall
    <2> QED
      BY <1>7, <2>1, CallTyped DEF DispatchLost, Return, TypeOK, db
  <1>8. CASE Redispatch(c)
    <2>1. call[c] \in RedispatchCall
      BY <1>8, CallKinds DEF Redispatch
    <2>2. message' \in [PublishRun -> Nat]
      BY <1>8, <2>1 DEF Redispatch, Enqueue, RedispatchCall, TypeOK
    <2> QED
      BY <1>8, <2>1, <2>2, CallTyped DEF Redispatch, Return, TypeOK, db
  <1>9. CASE CommitCancel(c)
    <2>1. call[c] \in CancelCall
      BY <1>9, CallKinds DEF CommitCancel
    <2>2. job' \in [PublishRun -> JobStatus]
      BY <1>9, <2>1 DEF CommitCancel, CancelCall, TypeOK, JobStatus
    <2> QED
      BY <1>9, <2>2, CallTyped DEF CommitCancel, Return, TypeOK
  <1> QED
    BY <1>1, <1>2, <1>3, <1>4, <1>5, <1>6, <1>7, <1>8, <1>9 DEF PublishRequest, ServePublish

\* A worker at a step has the run it works on.
LEMMA WorkerKinds ==
  ASSUME TypeOK, RunInv, NEW w \in Worker
  PROVE  /\ worker[w] \in Task
         /\ worker[w].step # "idle" => worker[w].run \in PublishRun
  BY DEF TypeOK, RunInv, BusyInv, Task

LEMMA TypeTask ==
  ASSUME TypeOK, RunInv, NEW w \in Worker, PublishTask(w) \/ Abandon(w)
  PROVE  TypeOK'
  <1> USE Rows
  <1>0. worker[w] \in Task /\ (worker[w].step # "idle" => worker[w].run \in PublishRun)
    BY WorkerKinds
  <1>1. ASSUME NEW p \in PublishRun, DropResolved(w, p) \/ LeaveBlocked(w, p)
        PROVE  TypeOK'
    BY <1>1 DEF DropResolved, LeaveBlocked, Dequeue, TypeOK, db
  <1>2. ASSUME NEW p \in PublishRun, Take(w, p)
        PROVE  TypeOK'
    <2>1. [step |-> "markRunning", run |-> p, jobStatus |-> job[p], status |-> publish[p].status] \in Task
      BY DEF Task, TypeOK, PublishRow
    <2> QED
      BY <1>2, <2>1, WorkerTyped DEF Take, Dequeue, TypeOK, db
  <1>3. \A status \in JobStatus : WriteJob(w, status) => job' \in [PublishRun -> JobStatus]
    BY DEF WriteJob, Flushed, TypeOK
  <1>4. ASSUME NEW status \in PublishStatus, worker[w].step # "idle", WriteStatus(w, status)
        PROVE  publish' \in [PublishRun -> PublishRow]
    <2>1. publish[worker[w].run] \in PublishRow
      BY <1>4, <1>0 DEF TypeOK
    <2>2. Flushed(publish[worker[w].run].status, worker[w].status, status) \in PublishStatus
      BY <2>1 DEF Flushed, PublishRow
    <2> QED
      BY <1>4, <1>0, <2>1, <2>2 DEF WriteStatus, TypeOK, PublishRow
  <1>5. ASSUME NEW step \in {"write", "finish", "failJob"}, Proceed(w, step)
        PROVE  worker' \in [Worker -> Task]
    <2>1. [worker[w] EXCEPT !.step = step] \in Task
      BY <1>0 DEF Task
    <2>2. worker' = [worker EXCEPT ![w] = [worker[w] EXCEPT !.step = step]]
      BY <1>5 DEF Proceed, TypeOK
    <2> QED
      BY <2>1, <2>2, WorkerTyped
  <1>6. Release(w) => worker' \in [Worker -> Task]
    BY WorkerTyped DEF Release
  <1>7. worker[w].step # "idle" => publish[worker[w].run].target \in Target
    BY <1>0 DEF RunInv, BornInv
  <1>8. CASE MarkRunning(w)
    <2>1. worker' \in [Worker -> Task]
      BY <1>8, <1>0 DEF MarkRunning, TypeOK, Task, JobStatus
    <2>2. job' \in [PublishRun -> JobStatus]
      BY <1>8, <1>3 DEF MarkRunning, JobStatus
    <2> QED
      BY <1>8, <2>1, <2>2 DEF MarkRunning, TypeOK
  <1>9. CASE StartPublish(w)
    <2>1. worker' \in [Worker -> Task]
      BY <1>9, <1>0 DEF StartPublish, TypeOK, Task, PublishStatus
    <2>2. publish' \in [PublishRun -> PublishRow]
      BY <1>9, <1>4 DEF StartPublish, At, PublishStatus
    <2> QED
      BY <1>9, <2>1, <2>2 DEF StartPublish, TypeOK
  <1>10. CASE CheckTarget(w)
    BY <1>10, <1>5 DEF CheckTarget, TypeOK, db
  <1>11. CASE Write(w) \/ WriteFails(w)
    <2>1. file' \subseteq Target
      BY <1>11, <1>7 DEF Write, WriteFails, At, TypeOK
    <2> QED
      BY <1>11, <2>1, <1>5 DEF Write, WriteFails, TypeOK, db
  <1>12. CASE Finish(w)
    <2>1. worker[w].run \in PublishRun /\ publish[worker[w].run].staging \in StagingRun
      BY <1>12, <1>0 DEF Finish, At, RunInv, BornInv
    <2>2. staging[publish[worker[w].run].staging].records \in SUBSET Record
      BY <2>1 DEF TypeOK, StagingRow
    <2>3. publish' \in [PublishRun -> PublishRow]
      <3>1. publish[worker[w].run] \in PublishRow
        BY <2>1 DEF TypeOK
      <3>2. Flushed(publish[worker[w].run].status, worker[w].status, "PUBLISHED") \in PublishStatus
        BY <3>1 DEF Flushed, PublishRow, PublishStatus
      <3> QED
        BY <1>12, <2>1, <2>2, <3>1, <3>2 DEF Finish, TypeOK, PublishRow
    <2>4. job' \in [PublishRun -> JobStatus]
      BY <1>12, <1>3 DEF Finish, JobStatus
    <2> QED
      BY <1>12, <2>3, <2>4, <1>6 DEF Finish, TypeOK
  <1>13. CASE FailJob(w)
    <2>1. worker' \in [Worker -> Task]
      BY <1>13, <1>0 DEF FailJob, TypeOK, Task, JobStatus
    <2>2. job' \in [PublishRun -> JobStatus]
      BY <1>13, <1>3 DEF FailJob, JobStatus
    <2> QED
      BY <1>13, <2>1, <2>2 DEF FailJob, TypeOK
  <1>14. CASE FailRun(w)
    <2>1. publish' \in [PublishRun -> PublishRow]
      BY <1>14, <1>4 DEF FailRun, At, PublishStatus
    <2> QED
      BY <1>14, <2>1, <1>6 DEF FailRun, TypeOK
  <1>15. CASE Abandon(w)
    BY <1>15, <1>0, <1>6 DEF Abandon, At, TypeOK, db
  <1> QED
    BY <1>1, <1>2, <1>8, <1>9, <1>10, <1>11, <1>12, <1>13, <1>14, <1>15 DEF PublishTask

LEMMA TypeSweep ==
  ASSUME TypeOK, SweepSelect \/ SweepCommit
  PROVE  TypeOK'
  BY DEF SweepSelect, SweepCommit, TypeOK, JobStatus, db
-----------------------------------------------------------------------------
(* AttemptInv *)

\* Nobody touches the attempts, or the requests that stage and build.
LEMMA AttemptFrame ==
  ASSUME AttemptInv,
         staging' = staging,
         \A c \in Caller : call'[c].op \in {"stage", "build"} => call'[c] = call[c]
  PROVE  AttemptInv'
  BY DEF AttemptInv, NewestInv, NumberedInv, BuiltInv, StagerInv, BuilderInv

LEMMA AttemptPublishing ==
  ASSUME TypeOK, AttemptInv, NEW c \in Caller,
         PublishRequest(c) \/ ServePublish(c) \/ DispatchLost(c)
  PROVE  AttemptInv'
  <1>1. staging' = staging
    BY DEF PublishRequest, ServePublish, TriggerPublish, AcknowledgeDrift, Cancel, CommitPublish,
           OutOfPublishRuns, Dispatch, DispatchLost, Redispatch, CommitCancel, db
  <1>2. /\ \A d \in Caller \ {c} : call'[d] = call[d]
        /\ call'[c].op \notin {"stage", "build"}
    BY DEF PublishRequest, ServePublish, TriggerPublish, AcknowledgeDrift, Cancel, CommitPublish,
           OutOfPublishRuns, Dispatch, DispatchLost, Redispatch, CommitCancel, Return, Idle, TypeOK
  <1> QED
    BY <1>1, <1>2, AttemptFrame

\* The tasks and the sweep change no attempt and no request.
LEMMA OthersKeepAttempts ==
  ASSUME (\E w \in Worker : PublishTask(w) \/ Abandon(w)) \/ SweepSelect \/ SweepCommit \/ UNCHANGED vars
  PROVE  staging' = staging /\ call' = call
  BY DEF PublishTask, DropResolved, LeaveBlocked, Take, MarkRunning, StartPublish, CheckTarget, Write,
         WriteFails, Finish, FailJob, FailRun, Abandon, SweepSelect, SweepCommit, db, vars

\* Two requests do not wait for the lock of one review run with it.
LEMMA AttemptTrigger ==
  ASSUME TypeOK, AttemptInv, NEW c \in Caller, NEW r \in Review, NEW approved \in SUBSET Record,
         TriggerStaging(c, r, approved)
  PROVE  AttemptInv'
  <1>1. staging' = staging
    BY DEF TriggerStaging, db
  <1>2. \A d \in Caller \ {c} : call'[d] = call[d]
    BY DEF TriggerStaging, TypeOK
  <1>3. call'[c] = [op |-> "stage", review |-> r, approved |-> approved]
    BY DEF TriggerStaging, TypeOK
  <1>4. \A d \in Caller : ~(call[d].op = "stage" /\ call[d].review = r)
    BY DEF TriggerStaging, ReviewLocked
  <1>5. Building(r) = {}
    BY DEF TriggerStaging
  <1>6. StagerInv'
    BY <1>1, <1>2, <1>3, <1>4, <1>5 DEF AttemptInv, StagerInv, Building, Attempts
  <1>7. BuilderInv'
    BY <1>1, <1>2, <1>3 DEF AttemptInv, BuilderInv
  <1> QED
    BY <1>1, <1>6, <1>7 DEF AttemptInv, NewestInv, NumberedInv, BuiltInv

\* The new attempt has a higher number than every other one of its review run,
\* and none of those is being built.
LEMMA AttemptCommit ==
  ASSUME TypeOK, AttemptInv, NEW c \in Caller, CommitAttempt(c)
  PROVE  AttemptInv'
  <1> DEFINE r == call[c].review
             n == LastAttempt(r) + 1
  <1>1. call[c] \in StageCall /\ r \in Review /\ r # None
    BY CallKinds, DeliveryConstants DEF CommitAttempt, StageCall
  <1>2. PICK s \in StagingRun :
          /\ staging[s].status = "NO_ROW"
          /\ staging' = [t \in StagingRun |->
               IF t = s THEN [NoStaging EXCEPT !.status = "BUILDING", !.review = r,
                                !.attempt = n, !.current = TRUE, !.approved = call[c].approved]
               ELSE IF t \in Attempts(r) THEN [staging[t] EXCEPT !.current = FALSE]
               ELSE staging[t]]
          /\ call' = [call EXCEPT ![c] = [op |-> "build", staging |-> s, todo |-> call[c].approved]]
    BY DEF CommitAttempt
  <1>3. /\ staging'[s].status = "BUILDING" /\ staging'[s].review = r /\ staging'[s].attempt = n
        /\ staging'[s].approved = call[c].approved /\ staging'[s].records = {}
    BY <1>2 DEF NoStaging
  <1>4. \A t \in StagingRun \ {s} :
          /\ staging'[t].status = staging[t].status /\ staging'[t].review = staging[t].review
          /\ staging'[t].attempt = staging[t].attempt
          /\ staging'[t].approved = staging[t].approved /\ staging'[t].records = staging[t].records
          /\ staging'[t].current => staging[t].current /\ staging[t].review # r
    <2> TAKE t \in StagingRun \ {s}
    <2>1. staging[t] \in StagingRow
      BY DEF TypeOK
    <2>2. staging'[t] = IF staging[t].review = r THEN [staging[t] EXCEPT !.current = FALSE] ELSE staging[t]
      BY <1>2 DEF Attempts
    <2> QED
      BY <2>1, <2>2 DEF StagingRow
  <1>5. \A d \in Caller \ {c} : call'[d] = call[d]
    BY <1>2 DEF TypeOK
  <1>6. call'[c].op = "build" /\ call'[c].staging = s /\ call'[c].todo = call[c].approved
    BY <1>2 DEF TypeOK
  <1>7. \A t \in StagingRun \ {s} : staging[t].review = r =>
          /\ staging[t].attempt < n
          /\ staging[t].status # "BUILDING"
    <2> SUFFICES ASSUME NEW t \in StagingRun, staging[t].review = r
                 PROVE  staging[t].attempt < n /\ staging[t].status # "BUILDING"
      OBVIOUS
    <2>1. staging[t].attempt \in Nat /\ staging[t].attempt <= LastAttempt(r) /\ LastAttempt(r) \in Nat
      BY LastAttemptIsHighest DEF Attempts, TypeOK, StagingRow
    <2>2. staging[t].status # "BUILDING"
      BY DEF AttemptInv, StagerInv, CommitAttempt
    <2> QED
      BY <2>1, <2>2
  <1>8. \A t \in StagingRun : staging[t].attempt \in Nat
    BY DEF TypeOK, StagingRow
  <1>9. NewestInv'
    <2> SUFFICES ASSUME NEW a \in StagingRun, NEW b \in StagingRun,
                        staging'[a].status # "NO_ROW", staging'[b].review = staging'[a].review, b # a
                 PROVE  /\ staging'[b].attempt # staging'[a].attempt
                        /\ staging'[a].current \/ staging'[a].status = "BUILDING" =>
                             staging'[b].attempt < staging'[a].attempt
      BY DEF NewestInv
    <2>1. n \in Nat
      BY LastAttemptIsHighest
    <2> HIDE DEF n, r
    <2>2. CASE a = s
      BY <2>1, <2>2, <1>3, <1>4, <1>7, <1>8
    <2>3. CASE b = s
      BY <2>1, <2>3, <1>3, <1>4, <1>7, <1>8
    <2>4. CASE a # s /\ b # s
      BY <2>4, <1>4 DEF AttemptInv, NewestInv
    <2> QED
      BY <2>2, <2>3, <2>4
  <1>13. NumberedInv'
    <2>1. \/ n = 1
          \/ \E t \in StagingRun \ {s} : staging[t].review = r /\ n = staging[t].attempt + 1
      BY <1>1, <1>2, LastAttemptIsHighest DEF Attempts, AttemptInv, BuiltInv
    <2>2. \A t \in StagingRun \ {s} : staging[t].status # "NO_ROW" =>
            \/ staging[t].attempt = 1
            \/ \E u \in StagingRun \ {s} :
                 staging[u].review = staging[t].review /\ staging[t].attempt = staging[u].attempt + 1
      BY <1>2 DEF AttemptInv, NumberedInv, BuiltInv
    <2> HIDE DEF n, r
    <2> QED
      BY <2>1, <2>2, <1>3, <1>4 DEF NumberedInv
  <1>10. BuiltInv'
    BY <1>1, <1>3, <1>4 DEF AttemptInv, BuiltInv
  <1>11. StagerInv'
    <2>1. \A d \in Caller \ {c} : call[d].op = "stage" => call[d].review # r
      BY DEF AttemptInv, StagerInv, CommitAttempt
    <2> HIDE DEF r, n
    <2> QED
      BY <2>1, <1>3, <1>4, <1>5, <1>6 DEF AttemptInv, StagerInv
  <1>12. BuilderInv'
    <2>1. \A d \in Caller : call[d].op = "build" => call[d].staging \in StagingRun \ {s}
      BY <1>2, CallKinds DEF AttemptInv, BuilderInv, BuildCall
    <2> HIDE DEF r, n
    <2> QED
      BY <2>1, <1>3, <1>4, <1>5, <1>6 DEF AttemptInv, BuilderInv
  <1> QED
    BY <1>9, <1>10, <1>11, <1>12, <1>13 DEF AttemptInv

\* The end of a request leaves the others as they are.
LEMMA AttemptReturn ==
  ASSUME TypeOK, AttemptInv, NEW c \in Caller, OutOfAttempts(c) \/ BuildAbandoned(c)
  PROVE  AttemptInv'
  <1>1. staging' = staging
    BY DEF OutOfAttempts, BuildAbandoned, db
  <1>2. \A d \in Caller : call'[d].op \in {"stage", "build"} => call'[d] = call[d]
    BY DEF OutOfAttempts, BuildAbandoned, Return, Idle, TypeOK
  <1> QED
    BY <1>1, <1>2, AttemptFrame

LEMMA AttemptBuild ==
  ASSUME TypeOK, AttemptInv, NEW c \in Caller, NEW x \in Record, BuildRecord(c, x)
  PROVE  AttemptInv'
  <1> DEFINE s == call[c].staging
  <1>1. call[c].op = "build" /\ s \in StagingRun /\ x \in call[c].todo
    BY CallKinds DEF BuildRecord, BuildCall
  <1>2. /\ staging'[s] = [staging[s] EXCEPT !.records = @ \cup {x}]
        /\ \A t \in StagingRun \ {s} : staging'[t] = staging[t]
    BY <1>1 DEF BuildRecord, TypeOK
  <1>3. \A t \in StagingRun :
          /\ staging'[t].status = staging[t].status /\ staging'[t].review = staging[t].review
          /\ staging'[t].attempt = staging[t].attempt /\ staging'[t].current = staging[t].current
          /\ staging'[t].approved = staging[t].approved
    BY <1>2 DEF TypeOK, StagingRow
  <1>4. staging'[s].records = staging[s].records \cup {x}
    BY <1>1, <1>2 DEF TypeOK, StagingRow
  <1>5. /\ \A d \in Caller \ {c} : call'[d] = call[d]
        /\ call'[c] = [call[c] EXCEPT !.todo = @ \ {x}]
    BY DEF BuildRecord, TypeOK
  <1>6. call'[c].op = "build" /\ call'[c].staging = s /\ call'[c].todo = call[c].todo \ {x}
    BY <1>1, <1>5, CallKinds DEF BuildCall
  <1>7. staging[s].status = "BUILDING" /\ \A d \in Caller \ {c} : call[d].op = "build" => call[d].staging # s
    BY <1>1 DEF AttemptInv, BuilderInv
  <1>8. NewestInv' /\ NumberedInv'
    BY <1>3 DEF AttemptInv, NewestInv, NumberedInv
  <1>9. BuiltInv'
    BY <1>2, <1>3, <1>7 DEF AttemptInv, BuiltInv
  <1>10. StagerInv'
    <2>1. \A d \in Caller : call'[d].op = "stage" => d # c /\ call'[d] = call[d]
      BY <1>5, <1>6
    <2> QED
      BY <2>1, <1>3 DEF AttemptInv, StagerInv
  <1>11. BuilderInv'
    <2> SUFFICES ASSUME NEW d \in Caller, call'[d].op = "build"
                 PROVE  /\ staging'[call'[d].staging].status = "BUILDING"
                        /\ staging'[call'[d].staging].records \cup call'[d].todo
                             = staging'[call'[d].staging].approved
                        /\ \A e \in Caller : call'[e].op = "build" /\ call'[e].staging = call'[d].staging => e = d
      BY DEF BuilderInv
    <2>1. CASE d = c
      BY <2>1, <1>1, <1>3, <1>4, <1>5, <1>6, <1>7 DEF AttemptInv, BuilderInv
    <2>2. CASE d # c
      <3>1. call[d].staging \in StagingRun \ {s}
        BY <2>2, <1>5, <1>7, CallKinds DEF BuildCall
      <3>2. call'[d] = call[d] /\ staging'[call[d].staging] = staging[call[d].staging]
        BY <2>2, <3>1, <1>2, <1>5
      <3>3. \A e \in Caller : call'[e].op = "build" /\ call'[e].staging = call[d].staging =>
              e # c /\ call'[e] = call[e]
        BY <3>1, <1>5, <1>6
      <3> QED
        BY <3>2, <3>3 DEF AttemptInv, BuilderInv
    <2> QED
      BY <2>1, <2>2
  <1> QED
    BY <1>8, <1>9, <1>10, <1>11 DEF AttemptInv

\* A build that has come to its end has nothing left, or ends as FAILED.
LEMMA AttemptEnd ==
  ASSUME TypeOK, AttemptInv, NEW c \in Caller, BuildFails(c) \/ FinishBuild(c)
  PROVE  AttemptInv'
  <1> DEFINE s == call[c].staging
  <1>1. call[c].op = "build" /\ s \in StagingRun
    BY CallKinds DEF BuildFails, FinishBuild, BuildCall
  <1>2. \A t \in StagingRun \ {s} : staging'[t] = staging[t]
    BY <1>1 DEF BuildFails, FinishBuild, TypeOK
  <1>3. \E drift \in BOOLEAN :
          staging'[s] \in {[staging[s] EXCEPT !.status = "FAILED"],
                           [staging[s] EXCEPT !.status = "READY", !.drift = drift]}
    BY <1>1 DEF BuildFails, FinishBuild, TypeOK
  <1>4. /\ staging'[s].status \in {"FAILED", "READY"} /\ staging'[s].review = staging[s].review
        /\ staging'[s].attempt = staging[s].attempt /\ staging'[s].current = staging[s].current
        /\ staging'[s].approved = staging[s].approved /\ staging'[s].records = staging[s].records
    BY <1>1, <1>3 DEF TypeOK, StagingRow
  <1>5. staging'[s].status = "READY" => call[c].todo = {}
    <2>1. CASE BuildFails(c)
      BY <2>1, <1>1 DEF BuildFails, TypeOK, StagingRow
    <2>2. CASE FinishBuild(c)
      BY <2>2 DEF FinishBuild
    <2> QED
      BY <2>1, <2>2
  <1>6. /\ \A d \in Caller \ {c} : call'[d] = call[d]
        /\ call'[c].op = "idle"
    BY DEF BuildFails, FinishBuild, Return, Idle, TypeOK
  <1>7. staging[s].status = "BUILDING" /\ staging[s].records \cup call[c].todo = staging[s].approved
    BY <1>1 DEF AttemptInv, BuilderInv
  <1>8. \A d \in Caller \ {c} : call[d].op = "build" => call[d].staging # s
    BY <1>1 DEF AttemptInv, BuilderInv
  <1> HIDE DEF s
  <1>9. NewestInv' /\ NumberedInv'
    <2>1. \A t \in StagingRun :
            /\ staging'[t].review = staging[t].review /\ staging'[t].attempt = staging[t].attempt
            /\ staging'[t].current = staging[t].current
            /\ staging'[t].status = "NO_ROW" => staging[t].status = "NO_ROW"
            /\ staging'[t].status # "NO_ROW" => staging[t].status # "NO_ROW"
            /\ staging'[t].status = "BUILDING" => staging[t].status = "BUILDING"
      BY <1>2, <1>4, <1>7
    <2> QED
      BY <2>1 DEF AttemptInv, NewestInv, NumberedInv
  <1>10. BuiltInv'
    <2>1. staging[s].review # None
      BY <1>1, <1>7 DEF AttemptInv, BuiltInv, s
    <2>2. staging'[s].status = "READY" => staging'[s].records = staging'[s].approved
      BY <1>4, <1>5, <1>7
    <2> QED
      BY <2>1, <2>2, <1>2, <1>4 DEF AttemptInv, BuiltInv
  <1>11. StagerInv'
    BY <1>2, <1>4, <1>6 DEF AttemptInv, StagerInv
  <1>12. BuilderInv'
    <2>1. \A d \in Caller : call'[d].op = "build" =>
            /\ call'[d] = call[d]
            /\ staging'[call[d].staging] = staging[call[d].staging]
      BY <1>2, <1>6, <1>8, CallKinds DEF BuildCall
    <2> QED
      BY <2>1 DEF AttemptInv, BuilderInv
  <1> QED
    BY <1>9, <1>10, <1>11, <1>12 DEF AttemptInv

LEMMA AttemptStep ==
  ASSUME TypeOK, AttemptInv, [Next]_vars
  PROVE  AttemptInv'
  <1>1. ASSUME NEW c \in Caller, StagingNext(c)
        PROVE  AttemptInv'
    BY <1>1, AttemptTrigger, AttemptCommit, AttemptReturn, AttemptBuild, AttemptEnd DEF StagingNext
  <1>2. ASSUME NEW c \in Caller, PublishRequest(c) \/ ServePublish(c) \/ DispatchLost(c)
        PROVE  AttemptInv'
    BY <1>2, AttemptPublishing
  <1>3. CASE (\E w \in Worker : PublishTask(w) \/ Abandon(w)) \/ SweepSelect \/ SweepCommit \/ UNCHANGED vars
    BY <1>3, OthersKeepAttempts, AttemptFrame
  <1> QED
    BY <1>1, <1>2, <1>3 DEF Next
-----------------------------------------------------------------------------
(* RunInv *)

\* A finished attempt does not change any more, but for being the current one.
LEMMA ReadyStays ==
  ASSUME TypeOK, AttemptInv, [Next]_vars, NEW s \in StagingRun, staging[s].status = "READY"
  PROVE  /\ staging'[s].status = "READY"
         /\ staging'[s].approved = staging[s].approved
         /\ staging'[s].records = staging[s].records
         /\ staging'[s].drift = staging[s].drift
  <1>0. staging[s] \in StagingRow
    BY DEF TypeOK
  <1>1. ASSUME NEW c \in Caller, StagingNext(c)
        PROVE  staging'[s] \in {staging[s], [staging[s] EXCEPT !.current = FALSE]}
    <2>1. CASE CommitAttempt(c)
      BY <2>1 DEF CommitAttempt
    <2>2. CASE (\E x \in Record : BuildRecord(c, x)) \/ BuildFails(c) \/ FinishBuild(c)
      <3>1. call[c].op = "build"
        BY <2>2 DEF BuildRecord, BuildFails, FinishBuild
      <3>2. call[c].staging # s
        BY <3>1 DEF AttemptInv, BuilderInv
      <3> QED
        BY <2>2, <3>2 DEF BuildRecord, BuildFails, FinishBuild, TypeOK
    <2>3. CASE staging' = staging
      BY <2>3
    <2> QED
      BY <1>1, <2>1, <2>2, <2>3 DEF StagingNext, TriggerStaging, OutOfAttempts, BuildAbandoned, db
  <1>2. ASSUME NEW c \in Caller, PublishRequest(c) \/ ServePublish(c) \/ DispatchLost(c)
        PROVE  staging' = staging
    BY <1>2
    DEF PublishRequest, ServePublish, TriggerPublish, AcknowledgeDrift, Cancel, CommitPublish,
        OutOfPublishRuns, Dispatch, DispatchLost, Redispatch, CommitCancel, db
  <1>3. staging'[s] \in {staging[s], [staging[s] EXCEPT !.current = FALSE]}
    BY <1>1, <1>2, OthersKeepAttempts DEF Next
  <1> QED
    BY <1>0, <1>3 DEF StagingRow

\* Staging requests touch nothing of publishing.
LEMMA StagingFrame ==
  ASSUME TypeOK, NEW c \in Caller, StagingNext(c)
  PROVE  /\ UNCHANGED <<publish, job, overwrite, message, file, lost, worker, sweep>>
         /\ \A d \in Caller \ {c} : call'[d] = call[d]
         /\ call[c].op \in {"idle", "stage", "build"}
         /\ call'[c].op \in {"idle", "stage", "build"}
  <1>1. UNCHANGED <<publish, job, overwrite, message, file, lost, worker, sweep>>
    BY DEF StagingNext, TriggerStaging, CommitAttempt, OutOfAttempts, BuildRecord, BuildFails,
           BuildAbandoned, FinishBuild, db
  <1>2. call[c].op \in {"idle", "stage", "build"}
    <2>1. IsIdle(c) => call[c].op = "idle"
      BY DEF IsIdle, Idle
    <2> QED
      BY <2>1 DEF StagingNext, TriggerStaging, CommitAttempt, OutOfAttempts, BuildRecord, BuildFails,
           BuildAbandoned, FinishBuild
  <1>3. \A d \in Caller \ {c} : call'[d] = call[d]
    <2>1. CASE CommitAttempt(c)
      BY <2>1 DEF CommitAttempt, TypeOK
    <2>2. ASSUME NEW x \in Record, BuildRecord(c, x)
          PROVE  \A d \in Caller \ {c} : call'[d] = call[d]
      BY <2>2 DEF BuildRecord, TypeOK
    <2>3. ASSUME NEW r \in Review, NEW approved \in SUBSET Record, TriggerStaging(c, r, approved)
          PROVE  \A d \in Caller \ {c} : call'[d] = call[d]
      BY <2>3 DEF TriggerStaging, TypeOK
    <2>4. CASE Return(c)
      BY <2>4 DEF Return, TypeOK
    <2> QED
      BY <2>1, <2>2, <2>3, <2>4
      DEF StagingNext, OutOfAttempts, BuildFails, BuildAbandoned, FinishBuild
  <1>4. call'[c].op \in {"idle", "stage", "build"}
    <2>1. ASSUME NEW x \in Record, BuildRecord(c, x)
          PROVE  call'[c].op = "build"
      BY <2>1, CallKinds DEF BuildRecord, BuildCall, TypeOK
    <2> QED
      BY <2>1 DEF StagingNext, TriggerStaging, CommitAttempt, OutOfAttempts, BuildFails,
           BuildAbandoned, FinishBuild, Return, Idle, TypeOK
  <1> QED
    BY <1>1, <1>2, <1>3, <1>4

LEMMA RunStaging ==
  ASSUME TypeOK, AttemptInv, RunInv, NEW c \in Caller, StagingNext(c)
  PROVE  RunInv'
  <1>1. \A s \in StagingRun : staging[s].status = "READY" =>
          /\ staging'[s].status = "READY"
          /\ staging'[s].approved = staging[s].approved
    BY ReadyStays DEF Next
  <1>2. publish' = publish /\ job' = job /\ message' = message /\ worker' = worker /\ sweep' = sweep
    BY StagingFrame
  <1>3. \A d \in Caller : call'[d] = call[d] \/ call'[d].op \in {"idle", "stage", "build"}
    BY StagingFrame
  <1>4. PublishedWhole'
    BY <1>1, <1>2 DEF RunInv, PublishedWhole, BornInv
  <1>5. BornInv'
    BY <1>1, <1>2, <1>3 DEF RunInv, BornInv, About
  <1>6. PublisherInv'
    BY <1>1, <1>3, CallKinds DEF RunInv, PublisherInv, PublishCall
  <1>7. BusyInv'
    BY <1>2 DEF RunInv, BusyInv
  <1> QED
    BY <1>4, <1>5, <1>6, <1>7 DEF RunInv

\* A request names publish runs that exist.
LEMMA AboutRuns ==
  ASSUME TypeOK, RunInv, NEW c \in Caller, call[c].op \in {"dispatch", "redispatch", "cancel"}
  PROVE  call[c].run \in PublishRun /\ publish[call[c].run].status # "NO_ROW"
  <1>1. call[c].run \in PublishRun
    BY CallKinds DEF DispatchCall, RedispatchCall, CancelCall
  <1> QED
    BY <1>1 DEF RunInv, BornInv, About

\* What becomes of the requests when one begins, goes on or returns.
LEMMA RunCall ==
  ASSUME TypeOK, RunInv, NEW c \in Caller, NEW k, call' = [call EXCEPT ![c] = k],
         staging' = staging, publish' = publish, job' = job, message' = message, worker' = worker,
         sweep' = sweep,
         k.op = "publish" => staging[k.staging].status = "READY",
         k.op \in {"dispatch", "redispatch", "cancel"} => publish[k.run].status # "NO_ROW"
  PROVE  RunInv'
  <1>1. /\ \A d \in Caller \ {c} : call'[d] = call[d]
        /\ call'[c] = k
    BY DEF TypeOK
  <1>2. PublishedWhole' /\ BusyInv'
    BY DEF RunInv, PublishedWhole, BusyInv
  <1>3. BornInv'
    BY <1>1 DEF RunInv, BornInv, About
  <1>4. PublisherInv'
    BY <1>1 DEF RunInv, PublisherInv
  <1> QED
    BY <1>2, <1>3, <1>4 DEF RunInv

LEMMA RunTrigger ==
  ASSUME TypeOK, RunInv, NEW c \in Caller,
         NEW s \in StagingRun, NEW t \in Target, NEW o \in BOOLEAN, TriggerPublish(c, s, t, o)
  PROVE  RunInv'
  BY RunCall DEF TriggerPublish, db

LEMMA RunCancel ==
  ASSUME TypeOK, RunInv, NEW c \in Caller, NEW p \in PublishRun, Cancel(c, p)
  PROVE  RunInv'
  <1>1. publish[p].status # "NO_ROW"
    BY DEF Cancel, RunInv, BornInv
  <1> QED
    BY <1>1, RunCall DEF Cancel, db

LEMMA RunReturn ==
  ASSUME TypeOK, RunInv, NEW c \in Caller, OutOfPublishRuns(c) \/ DispatchLost(c)
  PROVE  RunInv'
  BY RunCall DEF OutOfPublishRuns, DispatchLost, Return, Idle, db

LEMMA RunAcknowledge ==
  ASSUME TypeOK, RunInv, NEW c \in Caller, NEW p \in PublishRun, AcknowledgeDrift(c, p)
  PROVE  RunInv'
  <1>1. /\ \A d \in Caller \ {c} : call'[d] = call[d]
        /\ call'[c] = [op |-> "redispatch", run |-> p]
    BY DEF AcknowledgeDrift, TypeOK
  <1>2. publish[p].status # "NO_ROW"
    BY DEF AcknowledgeDrift
  <1>3. \A q \in PublishRun :
          /\ publish'[q].status = publish[q].status /\ publish'[q].staging = publish[q].staging
          /\ publish'[q].target = publish[q].target /\ publish'[q].written = publish[q].written
    BY DEF AcknowledgeDrift, TypeOK, PublishRow
  <1>4. staging' = staging /\ job' = job /\ message' = message /\ worker' = worker /\ sweep' = sweep
    BY DEF AcknowledgeDrift
  <1>5. PublishedWhole' /\ BusyInv'
    BY <1>3, <1>4 DEF RunInv, PublishedWhole, BusyInv
  <1>6. BornInv'
    BY <1>1, <1>2, <1>3, <1>4 DEF RunInv, BornInv, About
  <1>7. PublisherInv'
    BY <1>1, <1>4 DEF RunInv, PublisherInv
  <1> QED
    BY <1>5, <1>6, <1>7 DEF RunInv

\* The new run is made for the attempt that was found finished.
LEMMA RunCommit ==
  ASSUME TypeOK, RunInv, NEW c \in Caller, CommitPublish(c)
  PROVE  RunInv'
  <1>1. call[c] \in PublishCall /\ staging[call[c].staging].status = "READY"
    BY CallKinds DEF CommitPublish, RunInv, PublisherInv
  <1>2. PICK p \in PublishRun :
          /\ publish[p].status = "NO_ROW"
          /\ publish' = [publish EXCEPT ![p] =
               [NoPublish EXCEPT !.status = "PENDING", !.staging = call[c].staging,
                                 !.target = call[c].target]]
          /\ job' = [job EXCEPT ![p] = "QUEUED"]
          /\ call' = [call EXCEPT ![c] = [op |-> "dispatch", run |-> p, overwrite |-> call[c].overwrite]]
    BY DEF CommitPublish
  <1>3. /\ publish'[p].status = "PENDING" /\ publish'[p].staging = call[c].staging
        /\ publish'[p].target = call[c].target
        /\ \A q \in PublishRun \ {p} : publish'[q] = publish[q] /\ job'[q] = job[q]
    BY <1>2 DEF NoPublish, TypeOK
  <1>4. /\ \A d \in Caller \ {c} : call'[d] = call[d]
        /\ call'[c].op = "dispatch" /\ call'[c].run = p
    BY <1>2 DEF TypeOK
  <1>5. staging' = staging /\ message' = message /\ worker' = worker /\ sweep' = sweep
    BY DEF CommitPublish
  <1>6. PublishedWhole'
    BY <1>3, <1>5 DEF RunInv, PublishedWhole
  <1>7. BornInv'
    <2>1. publish'[p].target \in Target /\ publish'[p].staging \in StagingRun
      BY <1>1, <1>3 DEF PublishCall
    <2> QED
      BY <2>1, <1>1, <1>3, <1>4, <1>5 DEF RunInv, BornInv, About
  <1>8. PublisherInv'
    BY <1>4, <1>5 DEF RunInv, PublisherInv
  <1>9. BusyInv'
    BY <1>5 DEF RunInv, BusyInv
  <1> QED
    BY <1>6, <1>7, <1>8, <1>9 DEF RunInv

\* A message is put into the broker for a run that exists.
LEMMA RunEnqueue ==
  ASSUME TypeOK, RunInv, NEW c \in Caller, Dispatch(c) \/ Redispatch(c)
  PROVE  RunInv'
  <1>1. call[c].run \in PublishRun /\ publish[call[c].run].status # "NO_ROW"
    BY AboutRuns DEF Dispatch, Redispatch
  <1>2. /\ \A d \in Caller \ {c} : call'[d] = call[d]
        /\ call'[c].op = "idle"
    BY DEF Dispatch, Redispatch, Return, Idle, TypeOK
  <1>3. \A q \in PublishRun \ {call[c].run} : message'[q] = message[q]
    BY DEF Dispatch, Redispatch, Enqueue, TypeOK
  <1>4. staging' = staging /\ publish' = publish /\ job' = job /\ worker' = worker /\ sweep' = sweep
    BY DEF Dispatch, Redispatch, db
  <1>5. BornInv'
    BY <1>1, <1>2, <1>3, <1>4 DEF RunInv, BornInv, About
  <1>6. PublisherInv'
    BY <1>2, <1>4 DEF RunInv, PublisherInv
  <1> QED
    BY <1>4, <1>5, <1>6 DEF RunInv, PublishedWhole, BusyInv

LEMMA RunCommitCancel ==
  ASSUME TypeOK, RunInv, NEW c \in Caller, CommitCancel(c)
  PROVE  RunInv'
  <1>1. call[c].run \in PublishRun /\ publish[call[c].run].status # "NO_ROW"
    BY AboutRuns DEF CommitCancel
  <1>2. /\ \A d \in Caller \ {c} : call'[d] = call[d]
        /\ call'[c].op = "idle"
    BY DEF CommitCancel, Return, Idle, TypeOK
  <1>3. \A q \in PublishRun \ {call[c].run} : job'[q] = job[q]
    BY DEF CommitCancel, TypeOK
  <1>4. staging' = staging /\ publish' = publish /\ message' = message /\ worker' = worker /\ sweep' = sweep
    BY DEF CommitCancel
  <1>5. BornInv'
    BY <1>1, <1>2, <1>3, <1>4 DEF RunInv, BornInv, About
  <1>6. PublisherInv'
    BY <1>2, <1>4 DEF RunInv, PublisherInv
  <1> QED
    BY <1>4, <1>5, <1>6 DEF RunInv, PublishedWhole, BusyInv

\* A step of a task past its beginning: it is about a run that exists.
LEMMA AtWork ==
  ASSUME TypeOK, RunInv, NEW w \in Worker, worker[w].step # "idle"
  PROVE  /\ worker[w] \in Task
         /\ worker[w].run \in PublishRun
         /\ publish[worker[w].run] \in PublishRow
         /\ publish[worker[w].run].status # "NO_ROW"
         /\ publish[worker[w].run].staging \in StagingRun
  <1>1. worker[w] \in Task /\ worker[w].run \in PublishRun
    BY WorkerKinds
  <1> QED
    BY <1>1 DEF TypeOK, RunInv, BornInv

\* What a step of a worker leaves alone: the other workers, and every publish
\* run but its own.
TaskKeeps(w) ==
  /\ staging' = staging /\ call' = call /\ sweep' = sweep
  /\ \A v \in Worker \ {w} : worker'[v] = worker[v]
  /\ \A p \in PublishRun :
       /\ message'[p] \in Nat /\ message'[p] <= message[p]
       /\ publish'[p].target = publish[p].target /\ publish'[p].staging = publish[p].staging
       /\ publish'[p].acknowledged = publish[p].acknowledged
       /\ p # worker[w].run => publish'[p] = publish[p] /\ job'[p] = job[p]

LEMMA TaskFrameDequeue ==
  ASSUME TypeOK, NEW w \in Worker, NEW p \in PublishRun,
         DropResolved(w, p) \/ LeaveBlocked(w, p) \/ Take(w, p)
  PROVE  TaskKeeps(w)
  <1>1. \A q \in PublishRun : message'[q] \in Nat /\ message'[q] <= message[q]
    BY DEF DropResolved, LeaveBlocked, Take, Dequeue, TypeOK
  <1>2. \A v \in Worker \ {w} : worker'[v] = worker[v]
    BY DEF DropResolved, LeaveBlocked, Take, TypeOK
  <1> QED
    BY <1>1, <1>2 DEF DropResolved, LeaveBlocked, Take, TaskKeeps, db

LEMMA TaskFrameStep ==
  ASSUME TypeOK, RunInv, NEW w \in Worker,
         \/ MarkRunning(w) \/ StartPublish(w) \/ CheckTarget(w) \/ Write(w) \/ WriteFails(w)
         \/ Finish(w) \/ FailJob(w) \/ FailRun(w) \/ Abandon(w)
  PROVE  TaskKeeps(w) /\ worker[w].step # "idle"
  <1>1. worker[w].step # "idle"
    BY DEF MarkRunning, StartPublish, CheckTarget, Write, WriteFails, Finish, FailJob, FailRun, Abandon, At
  <1>2. staging' = staging /\ call' = call /\ sweep' = sweep /\ message' = message
    BY DEF MarkRunning, StartPublish, CheckTarget, Write, WriteFails, Finish, FailJob, FailRun,
           Abandon, db
  <1>3. \A v \in Worker \ {w} : worker'[v] = worker[v]
    BY DEF MarkRunning, StartPublish, CheckTarget, Write, WriteFails, Finish, FailJob, FailRun,
           Abandon, Proceed, Release, TypeOK
  <1>4. \A p \in PublishRun \ {worker[w].run} : publish'[p] = publish[p] /\ job'[p] = job[p]
    BY DEF MarkRunning, StartPublish, CheckTarget, Write, WriteFails, Finish, FailJob, FailRun,
           Abandon, WriteJob, WriteStatus, TypeOK, db
  <1>5. LET p == worker[w].run IN
          /\ publish'[p].target = publish[p].target /\ publish'[p].staging = publish[p].staging
          /\ publish'[p].acknowledged = publish[p].acknowledged
    <2>1. worker[w].run \in PublishRun /\ publish[worker[w].run] \in PublishRow
      BY <1>1, AtWork
    <2>2. CASE StartPublish(w) \/ FailRun(w)
      BY <2>1, <2>2 DEF StartPublish, FailRun, WriteStatus, TypeOK, PublishRow
    <2>3. CASE Finish(w)
      BY <2>1, <2>3 DEF Finish, TypeOK, PublishRow
    <2>4. CASE publish' = publish
      BY <2>4
    <2> QED
      BY <2>2, <2>3, <2>4 DEF MarkRunning, CheckTarget, Write, WriteFails, FailJob, Abandon, db
  <1>6. \A p \in PublishRun : message'[p] \in Nat /\ message'[p] <= message[p]
    BY <1>2 DEF TypeOK
  <1> QED
    BY <1>1, <1>2, <1>3, <1>4, <1>5, <1>6 DEF TaskKeeps

LEMMA RunDequeue ==
  ASSUME TypeOK, RunInv, NEW w \in Worker, NEW p \in PublishRun,
         DropResolved(w, p) \/ LeaveBlocked(w, p) \/ Take(w, p)
  PROVE  RunInv'
  <1>1. TaskKeeps(w)
    BY TaskFrameDequeue
  <1>2. publish' = publish /\ job' = job
    BY DEF DropResolved, LeaveBlocked, Take, db
  <1>3. publish[p].status # "NO_ROW"
    <2>1. message[p] > 0
      BY DEF DropResolved, LeaveBlocked, Take, Dequeue
    <2> QED
      BY <2>1 DEF RunInv, BornInv
  <1>4. worker'[w] = worker[w] \/ (worker'[w].run = p /\ worker'[w].step = "markRunning")
    <2>1. CASE Take(w, p)
      BY <2>1 DEF Take, TypeOK
    <2>2. CASE worker' = worker
      BY <2>2
    <2> QED
      BY <2>1, <2>2 DEF DropResolved, LeaveBlocked
  <1>5. BornInv'
    <2>1. \A q \in PublishRun : message[q] = 0 => message'[q] = 0
      BY <1>1 DEF TaskKeeps
    <2> QED
      BY <1>1, <1>2, <1>3, <1>4, <2>1 DEF TaskKeeps, RunInv, BornInv, About
  <1>6. BusyInv'
    BY <1>1, <1>4, DeliveryConstants DEF TaskKeeps, RunInv, BusyInv
  <1> QED
    BY <1>1, <1>2, <1>5, <1>6 DEF TaskKeeps, RunInv, PublishedWhole, PublisherInv

\* A step of a task makes its run PUBLISHED with all its records, or not at all.
LEMMA RunStep ==
  ASSUME TypeOK, AttemptInv, RunInv, NEW w \in Worker,
         \/ MarkRunning(w) \/ StartPublish(w) \/ CheckTarget(w) \/ Write(w) \/ WriteFails(w)
         \/ Finish(w) \/ FailJob(w) \/ FailRun(w) \/ Abandon(w)
  PROVE  RunInv'
  <1> DEFINE p == worker[w].run
  <1>1. TaskKeeps(w) /\ worker[w].step # "idle"
    BY TaskFrameStep
  <1>2. /\ worker[w] \in Task /\ p \in PublishRun /\ publish[p] \in PublishRow
        /\ publish[p].status # "NO_ROW" /\ publish[p].staging \in StagingRun
        /\ staging[publish[p].staging].status = "READY"
    BY <1>1, AtWork DEF RunInv, BornInv
  <1>3. publish'[p].status # "NO_ROW"
    BY <1>2 DEF MarkRunning, StartPublish, CheckTarget, Write, WriteFails, Finish, FailJob, FailRun,
                Abandon, WriteStatus, Flushed, TypeOK, PublishRow, db
  <1>4. publish'[p].status = "PUBLISHED" =>
          publish'[p].written = staging[publish[p].staging].approved
    <2>1. CASE Finish(w)
      <3>1. publish'[p].written = staging[publish[p].staging].records
        BY <1>2, <2>1 DEF Finish, TypeOK, PublishRow
      <3> QED
        BY <3>1, <1>2 DEF AttemptInv, BuiltInv
    <2>2. CASE StartPublish(w) \/ FailRun(w)
      <3>1. publish'[p].status \in {publish[p].status, "PUBLISHING", "FAILED"}
        BY <1>2, <2>2 DEF StartPublish, FailRun, WriteStatus, Flushed, TypeOK, PublishRow
      <3>2. publish'[p].written = publish[p].written
        BY <1>2, <2>2 DEF StartPublish, FailRun, WriteStatus, TypeOK, PublishRow
      <3> QED
        BY <3>1, <3>2, <1>2 DEF RunInv, PublishedWhole
    <2>3. CASE publish' = publish
      BY <2>3, <1>2 DEF RunInv, PublishedWhole
    <2> QED
      BY <2>1, <2>2, <2>3 DEF MarkRunning, CheckTarget, Write, WriteFails, FailJob, Abandon, db
  <1>5. /\ worker'[w].run \in {p, None}
        /\ worker'[w].step = "idle" <=> worker'[w].run = None
    <2>1. CASE Release(w)
      BY <2>1 DEF Release, NoTask, TypeOK
    <2>2. ASSUME NEW step \in {"write", "finish", "failJob"}, Proceed(w, step)
          PROVE  worker'[w].run = p /\ worker'[w].step # "idle"
      BY <2>2, <1>2 DEF Proceed, TypeOK, Task
    <2>3. CASE MarkRunning(w) \/ StartPublish(w) \/ FailJob(w)
      <3>1. worker'[w].run = p /\ worker'[w].step # "idle"
        BY <2>3, <1>2 DEF MarkRunning, StartPublish, FailJob, TypeOK, Task
      <3> QED
        BY <3>1, <1>2, DeliveryConstants
    <2> QED
      BY <1>2, <2>1, <2>2, <2>3, DeliveryConstants
      DEF CheckTarget, Write, WriteFails, Finish, FailRun, Abandon
  <1> HIDE DEF p
  <1>6. PublishedWhole'
    BY <1>1, <1>4 DEF TaskKeeps, RunInv, PublishedWhole, p
  <1>7. BornInv'
    <2>1. \A q \in PublishRun : message[q] = 0 => message'[q] = 0
      BY <1>1 DEF TaskKeeps
    <2>2. \A q \in PublishRun : q # p => publish'[q] = publish[q] /\ job'[q] = job[q]
      BY <1>1 DEF TaskKeeps, p
    <2>3. \A q \in PublishRun, v \in Worker : worker'[v].run = q => worker[v].run = q
      <3>1. None \notin PublishRun
        BY DeliveryConstants
      <3> QED
        BY <3>1, <1>1, <1>5 DEF TaskKeeps, p
    <2> SUFFICES ASSUME NEW q \in PublishRun
                 PROVE  IF publish'[q].status = "NO_ROW"
                        THEN /\ message'[q] = 0
                             /\ job'[q] = "NO_ROW"
                             /\ q \notin sweep'
                             /\ \A c \in Caller : ~About(c, q)'
                             /\ \A v \in Worker : worker'[v].run # q
                        ELSE /\ publish'[q].target \in Target
                             /\ publish'[q].staging \in StagingRun
                             /\ staging'[publish'[q].staging].status = "READY"
      BY DEF BornInv
    <2>4. call' = call /\ sweep' = sweep /\ staging' = staging
          /\ publish'[q].target = publish[q].target /\ publish'[q].staging = publish[q].staging
      BY <1>1 DEF TaskKeeps
    <2>5. CASE q = p
      BY <2>4, <2>5, <1>2, <1>3 DEF RunInv, BornInv
    <2>6. CASE q # p
      BY <2>1, <2>2, <2>3, <2>4, <2>6 DEF RunInv, BornInv, About
    <2> QED
      BY <2>5, <2>6
  <1>8. PublisherInv'
    BY <1>1 DEF TaskKeeps, RunInv, PublisherInv
  <1>9. BusyInv'
    BY <1>1, <1>5 DEF TaskKeeps, RunInv, BusyInv
  <1> QED
    BY <1>6, <1>7, <1>8, <1>9 DEF RunInv

LEMMA RunSweep ==
  ASSUME TypeOK, RunInv, SweepSelect \/ SweepCommit
  PROVE  RunInv'
  <1>1. staging' = staging /\ publish' = publish /\ call' = call /\ worker' = worker /\ message' = message
    BY DEF SweepSelect, SweepCommit, db
  <1>2. \A p \in PublishRun : job[p] = "NO_ROW" /\ p \notin sweep => job'[p] = "NO_ROW" /\ p \notin sweep'
    BY DEF SweepSelect, SweepCommit, db
  <1> QED
    BY <1>1, <1>2 DEF RunInv, PublishedWhole, BornInv, About, PublisherInv, BusyInv

LEMMA RunStutter ==
  ASSUME RunInv, UNCHANGED vars
  PROVE  RunInv'
  BY DEF vars, db, RunInv, PublishedWhole, BornInv, About, PublisherInv, BusyInv

LEMMA RunInvStep ==
  ASSUME TypeOK, AttemptInv, RunInv, [Next]_vars
  PROVE  RunInv'
  <1>1. ASSUME NEW c \in Caller, StagingNext(c)
        PROVE  RunInv'
    BY <1>1, RunStaging
  <1>2. ASSUME NEW c \in Caller, PublishRequest(c)
        PROVE  RunInv'
    BY <1>2, RunTrigger, RunAcknowledge, RunCancel DEF PublishRequest
  <1>3. ASSUME NEW c \in Caller, ServePublish(c) \/ DispatchLost(c)
        PROVE  RunInv'
    BY <1>3, RunCommit, RunReturn, RunEnqueue, RunCommitCancel DEF ServePublish
  <1>4. ASSUME NEW w \in Worker, PublishTask(w) \/ Abandon(w)
        PROVE  RunInv'
    BY <1>4, RunDequeue, RunStep DEF PublishTask
  <1>5. CASE SweepSelect \/ SweepCommit
    BY <1>5, RunSweep
  <1>6. CASE UNCHANGED vars
    BY <1>6, RunStutter
  <1> QED
    BY <1>1, <1>2, <1>3, <1>4, <1>5, <1>6 DEF Next

LEMMA TypeStep ==
  ASSUME TypeOK, RunInv, [Next]_vars
  PROVE  TypeOK'
  <1>1. CASE UNCHANGED vars
    BY <1>1 DEF vars, db, TypeOK
  <1> QED
    BY <1>1, TypeStaging, TypePublish, TypeTask, TypeSweep DEF Next

-----------------------------------------------------------------------------
(* What holds whatever the clients do *)

SafeInv == TypeOK /\ AttemptInv /\ RunInv

LEMMA SafeInit == Init => SafeInv
  <1> SUFFICES ASSUME Init PROVE SafeInv
    OBVIOUS
  <1> USE DEF Init
  <1>1. TypeOK
    BY Rows DEF TypeOK, JobStatus
  <1>2. AttemptInv
    BY DEF AttemptInv, NewestInv, NumberedInv, BuiltInv, StagerInv, BuilderInv, NoStaging, Idle
  <1>3. RunInv
    <2>1. \A p \in PublishRun : publish[p].status = "NO_ROW" /\ p # None
      BY DeliveryConstants DEF NoPublish
    <2>2. \A c \in Caller : call[c].op = "idle"
      BY DEF Idle
    <2>3. \A w \in Worker : worker[w].step = "idle" /\ worker[w].run = None
      BY DEF NoTask
    <2>4. PublishedWhole
      BY <2>1 DEF PublishedWhole
    <2>5. BornInv
      BY <2>1, <2>2, <2>3 DEF BornInv, About
    <2> QED
      BY <2>2, <2>3, <2>4, <2>5 DEF RunInv, PublisherInv, BusyInv
  <1> QED
    BY <1>1, <1>2, <1>3 DEF SafeInv

LEMMA SafeStep == SafeInv /\ [Next]_vars => SafeInv'
  BY TypeStep, AttemptStep, RunInvStep DEF SafeInv

LEMMA Safety == Spec => []SafeInv
  BY SafeInit, SafeStep, PTL DEF Spec

\* Every row, request and task keeps the shape the code gives it.
THEOREM TypeCorrect == Spec => []TypeOK
  <1>1. SafeInv => TypeOK
    BY DEF SafeInv
  <1> QED
    BY <1>1, Safety, PTL

\* Attempts are numbered one after another, one is current and one is built at
\* a time, and what was READY later is what is current, although they are built
\* after the lock on their review run is released.
THEOREM AttemptsFollow == Spec => []AttemptsAreSequential
  <1>1. SafeInv => AttemptsAreSequential
    <2> SUFFICES ASSUME SafeInv PROVE AttemptsAreSequential
      OBVIOUS
    <2>1. \A t \in StagingRun : staging[t].attempt \in Nat
      BY DEF SafeInv, TypeOK, StagingRow
    <2>2. ASSUME NEW s \in StagingRun, NEW t \in Attempts(staging[s].review) \ {s},
                 staging[s].status # "NO_ROW"
          PROVE  /\ staging[t].attempt # staging[s].attempt
                 /\ staging[s].current \/ staging[s].status = "BUILDING" =>
                      staging[t].attempt < staging[s].attempt
                 /\ staging[t].current => staging[s].attempt < staging[t].attempt
      <3>1. staging[t].status # "NO_ROW"
        BY <2>2 DEF SafeInv, AttemptInv, BuiltInv, Attempts
      <3> QED
        BY <2>2, <3>1 DEF SafeInv, AttemptInv, NewestInv, Attempts
    <2>3. ASSUME NEW s \in StagingRun, NEW t \in Attempts(staging[s].review) \ {s},
                 staging[s].status # "NO_ROW", staging[s].current
          PROVE  ~staging[t].current
      BY <2>1, <2>2, <2>3 DEF Attempts
    <2> QED
      BY <2>2, <2>3 DEF SafeInv, AttemptInv, NumberedInv, AttemptsAreSequential, Attempts
  <1> QED
    BY <1>1, Safety, PTL

\* What is published is everything its attempt was made for.
THEOREM PublicationIsWhole == Spec => []PublishedWhole
  <1>1. SafeInv => PublishedWhole
    BY DEF SafeInv, RunInv
  <1> QED
    BY <1>1, Safety, PTL
-----------------------------------------------------------------------------
(* GateInv *)

\* A publish run stays with its attempt and its acknowledgement, and does not
\* become PENDING again.
LEMMA RunKeeps ==
  ASSUME SafeInv, [Next]_vars, NEW p \in PublishRun, publish[p].status # "NO_ROW"
  PROVE  /\ publish'[p].staging = publish[p].staging
         /\ publish[p].acknowledged => publish'[p].acknowledged
         /\ publish[p].status # "PENDING" => publish'[p].status # "PENDING"
         /\ publish'[p].status # "NO_ROW"
         /\ Drifted(p)' = Drifted(p)
  <1> USE DEF SafeInv
  <1>0. publish[p] \in PublishRow
    BY DEF TypeOK
  <1>1. ASSUME NEW c \in Caller, CommitPublish(c) \/ \E q \in PublishRun : AcknowledgeDrift(c, q)
        PROVE  publish'[p] \in {publish[p], [publish[p] EXCEPT !.acknowledged = TRUE]}
    BY <1>1 DEF CommitPublish, AcknowledgeDrift, TypeOK
  <1>2. ASSUME NEW w \in Worker, StartPublish(w) \/ FailRun(w)
        PROVE  \E status \in {publish[p].status, "PUBLISHING", "FAILED"} :
                 publish'[p] = [publish[p] EXCEPT !.status = status]
    BY <1>0, <1>2 DEF StartPublish, FailRun, WriteStatus, Flushed, TypeOK, PublishRow
  <1>3. ASSUME NEW w \in Worker, Finish(w)
        PROVE  /\ publish'[p].staging = publish[p].staging
               /\ publish'[p].acknowledged = publish[p].acknowledged
               /\ publish'[p].status \in {publish[p].status, "PUBLISHED"}
    BY <1>0, <1>3 DEF Finish, Flushed, TypeOK, PublishRow
  <1>4. /\ publish'[p].staging = publish[p].staging
        /\ publish[p].acknowledged => publish'[p].acknowledged
        /\ publish[p].status # "PENDING" => publish'[p].status # "PENDING"
        /\ publish'[p].status # "NO_ROW"
    <2>1. CASE \E c \in Caller : CommitPublish(c) \/ \E q \in PublishRun : AcknowledgeDrift(c, q)
      BY <2>1, <1>0, <1>1 DEF PublishRow
    <2>2. CASE \E w \in Worker : StartPublish(w) \/ FailRun(w)
      BY <2>2, <1>0, <1>2 DEF PublishRow
    <2>3. CASE \E w \in Worker : Finish(w)
      BY <2>3, <1>0, <1>3 DEF PublishRow
    <2>4. \/ publish' = publish
          \/ \E c \in Caller : CommitPublish(c) \/ \E q \in PublishRun : AcknowledgeDrift(c, q)
          \/ \E w \in Worker : StartPublish(w) \/ FailRun(w) \/ Finish(w)
      <3>1. ASSUME NEW c \in Caller, StagingNext(c)
            PROVE  publish' = publish
        BY <3>1, StagingFrame
      <3>2. ASSUME NEW c \in Caller, PublishRequest(c) \/ ServePublish(c) \/ DispatchLost(c)
            PROVE  publish' = publish \/ CommitPublish(c) \/ \E q \in PublishRun : AcknowledgeDrift(c, q)
        BY <3>2 DEF PublishRequest, TriggerPublish, Cancel, ServePublish, OutOfPublishRuns, Dispatch,
                    Redispatch, CommitCancel, DispatchLost, db
      <3>3. ASSUME NEW w \in Worker, PublishTask(w) \/ Abandon(w)
            PROVE  publish' = publish \/ StartPublish(w) \/ FailRun(w) \/ Finish(w)
        BY <3>3 DEF PublishTask, DropResolved, LeaveBlocked, Take, MarkRunning, CheckTarget, Write,
                    WriteFails, FailJob, Abandon, db
      <3>4. CASE SweepSelect \/ SweepCommit \/ UNCHANGED vars
        BY <3>4 DEF SweepSelect, SweepCommit, vars, db
      <3> QED
        BY <3>1, <3>2, <3>3, <3>4 DEF Next
    <2> QED
      BY <2>1, <2>2, <2>3, <2>4
  <1>5. Drifted(p)' = Drifted(p)
    <2>1. publish[p].staging \in StagingRun /\ staging[publish[p].staging].status = "READY"
      BY DEF RunInv, BornInv
    <2> QED
      BY <2>1, <1>4, ReadyStays DEF Drifted
  <1> QED
    BY <1>4, <1>5

\* A publish run gets past PENDING by the hand of its worker.
LEMMA StatusChanges ==
  ASSUME SafeInv, [Next]_vars, NEW p \in PublishRun, publish'[p].status # publish[p].status
  PROVE  \/ publish[p].status = "NO_ROW" /\ publish'[p].status = "PENDING"
         \/ \E w \in Worker : worker[w].run = p
  <1> USE DEF SafeInv
  <1>1. ASSUME NEW c \in Caller, StagingNext(c)
        PROVE  publish' = publish
    BY <1>1, StagingFrame
  <1>2. ASSUME NEW c \in Caller, PublishRequest(c) \/ ServePublish(c) \/ DispatchLost(c)
        PROVE  publish[p].status = "NO_ROW" /\ publish'[p].status = "PENDING"
    <2>1. CASE CommitPublish(c)
      BY <2>1 DEF CommitPublish, NoPublish, TypeOK
    <2>2. ASSUME NEW q \in PublishRun, AcknowledgeDrift(c, q)
          PROVE  publish'[p].status = publish[p].status
      BY <2>2 DEF AcknowledgeDrift, TypeOK, PublishRow
    <2>3. CASE publish' = publish
      BY <2>3
    <2> QED
      BY <1>2, <2>1, <2>2, <2>3
      DEF PublishRequest, TriggerPublish, Cancel, ServePublish, OutOfPublishRuns, Dispatch, Redispatch,
          CommitCancel, DispatchLost, db
  <1>3. ASSUME NEW w \in Worker, PublishTask(w) \/ Abandon(w)
        PROVE  worker[w].run = p
    BY <1>3, TaskFrameDequeue, TaskFrameStep DEF PublishTask, TaskKeeps
  <1>4. CASE SweepSelect \/ SweepCommit \/ UNCHANGED vars
    BY <1>4 DEF SweepSelect, SweepCommit, vars, db
  <1> QED
    BY <1>1, <1>2, <1>3, <1>4 DEF Next

\* A worker's run is the one it had, or one whose message it has just taken.
LEMMA WorkerChanges ==
  ASSUME SafeInv, [Next]_vars, NEW w \in Worker, worker'[w].run # None
  PROVE  \/ worker'[w].run = worker[w].run
         \/ Take(w, worker'[w].run) /\ worker'[w].run \in PublishRun
  <1> USE DEF SafeInv
  <1>1. ASSUME NEW v \in Worker \ {w}, PublishTask(v) \/ Abandon(v)
        PROVE  worker'[w] = worker[w]
    BY <1>1, TaskFrameDequeue, TaskFrameStep DEF PublishTask, TaskKeeps
  <1>2. ASSUME NEW p \in PublishRun, Take(w, p)
        PROVE  worker'[w].run = p
    BY <1>2 DEF Take, TypeOK
  <1>3. CASE Release(w)
    BY <1>3 DEF Release, NoTask, TypeOK
  <1>4. CASE \/ MarkRunning(w) \/ StartPublish(w) \/ CheckTarget(w) \/ Write(w) \/ WriteFails(w)
             \/ FailJob(w)
    <2>1. worker[w] \in Task
      BY DEF TypeOK
    <2>2. CASE MarkRunning(w) \/ StartPublish(w) \/ FailJob(w)
      BY <2>1, <2>2 DEF MarkRunning, StartPublish, FailJob, TypeOK, Task
    <2>3. ASSUME NEW step, Proceed(w, step)
          PROVE  worker'[w].run = worker[w].run
      BY <2>1, <2>3 DEF Proceed, TypeOK, Task
    <2> QED
      BY <1>4, <2>2, <2>3 DEF CheckTarget, Write, WriteFails
  <1>5. CASE PublishTask(w) \/ Abandon(w)
    BY <1>2, <1>3, <1>4, <1>5 DEF PublishTask, DropResolved, LeaveBlocked, Finish, FailRun, Abandon
  <1>6. ASSUME NEW c \in Caller, StagingNext(c) \/ PublishRequest(c) \/ ServePublish(c) \/ DispatchLost(c)
        PROVE  worker' = worker
    BY <1>6, StagingFrame
    DEF PublishRequest, TriggerPublish, AcknowledgeDrift, Cancel, ServePublish, CommitPublish,
        OutOfPublishRuns, Dispatch, Redispatch, CommitCancel, DispatchLost
  <1>7. CASE SweepSelect \/ SweepCommit \/ UNCHANGED vars
    BY <1>7 DEF SweepSelect, SweepCommit, vars
  <1> QED
    BY <1>1, <1>5, <1>6, <1>7 DEF Next

LEMMA GateStep ==
  ASSUME SafeInv, GateInv, [Next]_vars
  PROVE  GateInv'
  <1>1. \A w \in Worker : worker[w].run # None =>
          worker[w].run \in PublishRun /\ publish[worker[w].run].status # "NO_ROW"
    BY AtWork DEF SafeInv, RunInv, BusyInv
  <1>2. ASSUME NEW p \in PublishRun, publish'[p].status \notin {"NO_ROW", "PENDING"}, Drifted(p)'
        PROVE  publish'[p].acknowledged
    <2>1. publish[p].status # "NO_ROW"
      <3>1. publish[p].status = "NO_ROW" => \A w \in Worker : worker[w].run # p
        BY DEF SafeInv, RunInv, BornInv
      <3> QED
        BY <1>2, <3>1, StatusChanges
    <2>2. Drifted(p)
      BY <1>2, <2>1, RunKeeps
    <2>3. CASE publish[p].status # "PENDING"
      BY <2>1, <2>2, <2>3, RunKeeps DEF GateInv, DriftIsAcknowledged
    <2>4. CASE publish[p].status = "PENDING"
      <3>1. PICK w \in Worker : worker[w].run = p
        BY <1>2, <2>1, <2>4, StatusChanges
      <3>2. p # None
        BY DeliveryConstants
      <3> QED
        BY <2>1, <2>2, <3>1, <3>2, RunKeeps DEF GateInv
    <2> QED
      BY <2>3, <2>4
  <1>3. ASSUME NEW w \in Worker, worker'[w].run # None, staging'[publish'[worker'[w].run].staging].drift
        PROVE  publish'[worker'[w].run].acknowledged
    <2>1. CASE worker'[w].run = worker[w].run
      <3>1. PICK p \in PublishRun : p = worker[w].run /\ publish[p].status # "NO_ROW"
        BY <1>1, <1>3, <2>1
      <3>2. Drifted(p) /\ (publish[p].acknowledged => publish'[p].acknowledged)
        BY <1>3, <2>1, <3>1, RunKeeps DEF Drifted
      <3> QED
        BY <1>3, <2>1, <3>1, <3>2 DEF GateInv
    <2>2. CASE worker'[w].run # worker[w].run
      <3>1. PICK p \in PublishRun : p = worker'[w].run /\ Take(w, p)
        BY <1>3, <2>2, WorkerChanges
      <3>2. publish[p].status # "NO_ROW"
        BY <3>1 DEF Take, Dequeue, SafeInv, RunInv, BornInv
      <3>3. Drifted(p) /\ (publish[p].acknowledged => publish'[p].acknowledged)
        BY <1>3, <3>1, <3>2, RunKeeps DEF Drifted
      <3> QED
        BY <3>1, <3>3 DEF Take
    <2> QED
      BY <2>1, <2>2
  <1> QED
    BY <1>2, <1>3 DEF GateInv, DriftIsAcknowledged, Drifted

\* Nothing gets past PENDING over drift that nobody has acknowledged, whichever
\* message the task was started by and whatever its worker had loaded.
THEOREM GateHolds == Spec => []DriftIsAcknowledged
  <1>1. Init => GateInv
    <2> SUFFICES ASSUME Init PROVE GateInv
      OBVIOUS
    <2>1. \A p \in PublishRun : publish[p].status = "NO_ROW"
      BY DEF Init, NoPublish
    <2>2. \A w \in Worker : worker[w].run = None
      BY DEF Init, NoTask
    <2> QED
      BY <2>1, <2>2 DEF GateInv, DriftIsAcknowledged
  <1>2. SafeInv /\ GateInv /\ [Next]_vars => GateInv'
    BY GateStep
  <1>3. GateInv => DriftIsAcknowledged
    BY DEF GateInv
  <1> QED
    BY <1>1, <1>2, <1>3, Safety, PTL DEF Spec
-----------------------------------------------------------------------------
(* WakeInv *)

\* A worker's own steps, and nobody else's, change what it has loaded.
LEMMA WorkerOwn ==
  ASSUME SafeInv, [Next]_vars, NEW w \in Worker
  PROVE  worker'[w] = worker[w] \/ PublishTask(w) \/ Abandon(w)
  <1> USE DEF SafeInv
  <1>1. ASSUME NEW v \in Worker \ {w}, PublishTask(v) \/ Abandon(v)
        PROVE  worker'[w] = worker[w]
    BY <1>1, TaskFrameDequeue, TaskFrameStep DEF PublishTask, TaskKeeps
  <1>2. ASSUME NEW c \in Caller, StagingNext(c) \/ PublishRequest(c) \/ ServePublish(c) \/ DispatchLost(c)
        PROVE  worker' = worker
    BY <1>2, StagingFrame
    DEF PublishRequest, TriggerPublish, AcknowledgeDrift, Cancel, ServePublish, CommitPublish,
        OutOfPublishRuns, Dispatch, Redispatch, CommitCancel, DispatchLost
  <1>3. CASE SweepSelect \/ SweepCommit \/ UNCHANGED vars
    BY <1>3 DEF SweepSelect, SweepCommit, vars
  <1> QED
    BY <1>1, <1>2, <1>3 DEF Next

\* What a worker may hold: LoadedInv for one worker.
Loaded(w) ==
  /\ worker[w].run # None => worker[w].status \in {"PENDING", "PUBLISHING"}
  /\ worker[w].step \notin {"idle", "markRunning", "startPublish"} => worker[w].status = "PUBLISHING"
  /\ worker[w].run # None /\ worker[w].status = "PUBLISHING" =>
       publish[worker[w].run].status # "PENDING"

LEMMA LoadedOwn ==
  ASSUME SafeInv, LoadedInv, [Next]_vars, NEW w \in Worker, PublishTask(w) \/ Abandon(w)
  PROVE  Loaded(w)'
  <1> USE DEF SafeInv
  <1>0. worker[w] \in Task /\ Loaded(w)
    BY DEF TypeOK, LoadedInv, Loaded
  <1>1. worker[w].step # "idle" =>
          /\ worker[w].run \in PublishRun /\ worker[w].run # None
          /\ publish[worker[w].run].status # "PENDING" => publish'[worker[w].run].status # "PENDING"
    BY AtWork, RunKeeps, DeliveryConstants
  <1>2. ASSUME NEW p \in PublishRun, DropResolved(w, p) \/ LeaveBlocked(w, p)
        PROVE  Loaded(w)'
    <2>1. worker'[w].run = None /\ worker'[w].step = "idle"
      BY <1>2 DEF DropResolved, LeaveBlocked, Dequeue, At, RunInv, BusyInv
    <2> QED
      BY <2>1 DEF Loaded
  <1>3. ASSUME NEW p \in PublishRun, Take(w, p)
        PROVE  Loaded(w)'
    <2>1. worker'[w].run = p /\ worker'[w].step = "markRunning" /\ worker'[w].status = publish[p].status
      BY <1>3 DEF Take, TypeOK
    <2>2. publish[p].status \in {"PENDING", "PUBLISHING"} /\ publish'[p].status = publish[p].status
      <3>1. publish[p] \in PublishRow /\ publish[p].status # "NO_ROW"
        BY <1>3 DEF Take, Dequeue, TypeOK, RunInv, BornInv
      <3> QED
        BY <1>3, <3>1 DEF Take, Resolved, PublishRow, PublishStatus, db
    <2> QED
      BY <2>1, <2>2 DEF Loaded
  <1>4. CASE MarkRunning(w)
    <2>1. worker'[w].run = worker[w].run /\ worker'[w].step = "startPublish" /\ worker'[w].status = worker[w].status
      BY <1>0, <1>4 DEF MarkRunning, TypeOK, Task
    <2> QED
      BY <2>1, <1>0, <1>1, <1>4 DEF MarkRunning, At, Loaded
  <1>5. CASE StartPublish(w)
    <2>1. worker'[w].run = worker[w].run /\ worker'[w].status = "PUBLISHING"
      BY <1>0, <1>5 DEF StartPublish, TypeOK, Task
    <2>2. worker[w].run \in PublishRun /\ worker[w].run # None
      BY <1>1, <1>5 DEF StartPublish, At
    <2>3. publish'[worker[w].run].status =
            Flushed(publish[worker[w].run].status, worker[w].status, "PUBLISHING")
      BY <1>5, <2>2 DEF StartPublish, WriteStatus, TypeOK, PublishRow
    <2>4. publish'[worker[w].run].status # "PENDING"
      BY <1>0, <2>2, <2>3 DEF Flushed, Loaded
    <2> QED
      BY <2>1, <2>2, <2>4 DEF Loaded
  <1>6. ASSUME NEW step \in {"write", "finish", "failJob"}, Proceed(w, step),
               worker[w].step \in {"checkTarget", "write"}
        PROVE  Loaded(w)'
    <2>1. worker'[w].run = worker[w].run /\ worker'[w].status = worker[w].status
      BY <1>0, <1>6 DEF Proceed, TypeOK, Task
    <2> QED
      BY <2>1, <1>0, <1>1, <1>6 DEF Loaded
  <1>7. CASE FailJob(w)
    <2>1. worker'[w].run = worker[w].run /\ worker'[w].status = worker[w].status
      BY <1>0, <1>7 DEF FailJob, TypeOK, Task
    <2> QED
      BY <2>1, <1>0, <1>1, <1>7 DEF FailJob, At, Loaded
  <1>8. CASE Release(w)
    <2>1. worker'[w].run = None /\ worker'[w].step = "idle"
      BY <1>8 DEF Release, NoTask, TypeOK
    <2> QED
      BY <2>1 DEF Loaded
  <1> QED
    BY <1>2, <1>3, <1>4, <1>5, <1>6, <1>7, <1>8
    DEF PublishTask, CheckTarget, Write, WriteFails, Finish, FailRun, Abandon, At

LEMMA LoadedStep ==
  ASSUME SafeInv, LoadedInv, [Next]_vars
  PROVE  LoadedInv'
  <1> SUFFICES ASSUME NEW w \in Worker
               PROVE  Loaded(w)'
    BY DEF LoadedInv, Loaded
  <1>1. CASE worker'[w] = worker[w]
    <2>1. Loaded(w)
      BY DEF LoadedInv, Loaded
    <2>2. worker[w].run # None =>
            (publish[worker[w].run].status # "PENDING" => publish'[worker[w].run].status # "PENDING")
      BY AtWork, RunKeeps DEF SafeInv, RunInv, BusyInv
    <2> QED
      BY <1>1, <2>1, <2>2 DEF Loaded
  <1> QED
    BY <1>1, WorkerOwn, LoadedOwn

\* A worker has the run, or was lost with it.
Held(p) == p \in lost \/ \E w \in Worker : worker[w].run = p

LEMMA LostStays ==
  ASSUME SafeInv, [Next]_vars
  PROVE  lost \subseteq lost'
  <1>1. ASSUME NEW c \in Caller, StagingNext(c)
        PROVE  lost' = lost
    BY <1>1, StagingFrame DEF SafeInv
  <1>2. ASSUME NEW c \in Caller, PublishRequest(c) \/ ServePublish(c) \/ DispatchLost(c)
        PROVE  lost \subseteq lost'
    BY <1>2
    DEF PublishRequest, TriggerPublish, AcknowledgeDrift, Cancel, ServePublish, CommitPublish,
        OutOfPublishRuns, Dispatch, Redispatch, CommitCancel, DispatchLost
  <1>3. ASSUME NEW w \in Worker, PublishTask(w) \/ Abandon(w)
        PROVE  lost \subseteq lost'
    BY <1>3
    DEF PublishTask, DropResolved, LeaveBlocked, Take, MarkRunning, StartPublish, CheckTarget, Write,
        WriteFails, Finish, FailJob, FailRun, Abandon
  <1>4. CASE SweepSelect \/ SweepCommit \/ UNCHANGED vars
    BY <1>4 DEF SweepSelect, SweepCommit, vars
  <1> QED
    BY <1>1, <1>2, <1>3, <1>4 DEF Next

\* A worker gives up a PENDING run only by being lost.
LEMMA HeldStays ==
  ASSUME SafeInv, LoadedInv, [Next]_vars, NEW p \in PublishRun,
         publish[p].status = "PENDING", Held(p)
  PROVE  Held(p)'
  <1> USE DEF SafeInv
  <1>1. CASE p \in lost
    BY <1>1, LostStays DEF Held
  <1>2. ASSUME NEW w \in Worker, worker[w].run = p
        PROVE  Held(p)'
    <2>1. p # None /\ worker[w].step # "idle" /\ worker[w] \in Task
      BY <1>2, DeliveryConstants DEF RunInv, BusyInv, TypeOK
    <2>2. worker[w].step \in {"markRunning", "startPublish"}
      BY <1>2, <2>1 DEF LoadedInv
    <2>3. CASE worker'[w] = worker[w]
      BY <1>2, <2>3 DEF Held
    <2>4. CASE MarkRunning(w) \/ StartPublish(w)
      <3>1. worker'[w].run = p
        BY <1>2, <2>1, <2>4 DEF MarkRunning, StartPublish, TypeOK, Task
      <3> QED
        BY <3>1 DEF Held
    <2>5. CASE Abandon(w)
      BY <1>2, <2>5 DEF Abandon, Held
    <2> QED
      BY <2>1, <2>2, <2>3, <2>4, <2>5, WorkerOwn
      DEF PublishTask, DropResolved, LeaveBlocked, Take, Dequeue, CheckTarget, Write, WriteFails,
          Finish, FailJob, FailRun, At
  <1> QED
    BY <1>1, <1>2 DEF Held

\* The job of a run that exists is changed by its worker, by a sweep that has
\* selected it, or by being cancelled.
LEMMA JobChanges ==
  ASSUME SafeInv, [Next]_vars, NEW p \in PublishRun, job'[p] # job[p]
  PROVE  \/ publish[p].status = "NO_ROW" /\ job'[p] = "QUEUED" /\ sweep' = sweep
         \/ \E w \in Worker : worker[w].run = p
         \/ p \in sweep
         \/ job'[p] = "CANCELLED"
  <1> USE DEF SafeInv
  <1>1. ASSUME NEW c \in Caller, StagingNext(c)
        PROVE  job' = job
    BY <1>1, StagingFrame
  <1>2. ASSUME NEW c \in Caller, CommitPublish(c)
        PROVE  publish[p].status = "NO_ROW" /\ job'[p] = "QUEUED" /\ sweep' = sweep
    BY <1>2 DEF CommitPublish, TypeOK
  <1>3. ASSUME NEW c \in Caller, CommitCancel(c)
        PROVE  job'[p] = "CANCELLED"
    BY <1>3 DEF CommitCancel, TypeOK
  <1>4. ASSUME NEW c \in Caller, PublishRequest(c) \/ ServePublish(c) \/ DispatchLost(c)
        PROVE  job' = job \/ CommitPublish(c) \/ CommitCancel(c)
    BY <1>4
    DEF PublishRequest, TriggerPublish, AcknowledgeDrift, Cancel, ServePublish,
        OutOfPublishRuns, Dispatch, Redispatch, DispatchLost, db
  <1>5. ASSUME NEW w \in Worker, PublishTask(w) \/ Abandon(w)
        PROVE  worker[w].run = p
    BY <1>5, TaskFrameDequeue, TaskFrameStep DEF PublishTask, TaskKeeps
  <1>6. CASE SweepCommit
    BY <1>6 DEF SweepCommit
  <1>7. CASE SweepSelect \/ UNCHANGED vars
    BY <1>7 DEF SweepSelect, vars, db
  <1> QED
    BY <1>1, <1>2, <1>3, <1>4, <1>5, <1>6, <1>7 DEF Next

\* The sweep selects jobs that are RUNNING.
LEMMA SweepChanges ==
  ASSUME SafeInv, [Next]_vars, NEW p \in PublishRun, p \in sweep', p \notin sweep
  PROVE  job[p] = "RUNNING"
  <1>1. ASSUME NEW c \in Caller, StagingNext(c) \/ PublishRequest(c) \/ ServePublish(c) \/ DispatchLost(c)
        PROVE  sweep' = sweep
    BY <1>1, StagingFrame
    DEF SafeInv, PublishRequest, TriggerPublish, AcknowledgeDrift, Cancel, ServePublish, CommitPublish,
        OutOfPublishRuns, Dispatch, Redispatch, CommitCancel, DispatchLost
  <1>2. ASSUME NEW w \in Worker, PublishTask(w) \/ Abandon(w)
        PROVE  sweep' = sweep
    BY <1>2, TaskFrameDequeue, TaskFrameStep DEF SafeInv, PublishTask, TaskKeeps
  <1>3. CASE SweepSelect
    BY <1>3 DEF SweepSelect
  <1>4. CASE SweepCommit \/ UNCHANGED vars
    BY <1>4 DEF SweepCommit, vars
  <1> QED
    BY <1>1, <1>2, <1>3, <1>4 DEF Next

LEMMA StartedStep ==
  ASSUME SafeInv, LoadedInv, StartedInv, [Next]_vars
  PROVE  StartedInv'
  <1> SUFFICES ASSUME NEW p \in PublishRun, publish'[p].status = "PENDING",
                      job'[p] \in {"RUNNING", "COMPLETED", "FAILED"} \/ p \in sweep'
               PROVE  Held(p)'
    BY DEF StartedInv, Held
  <1>1. CASE publish[p].status = "NO_ROW"
    <2>1. job[p] = "NO_ROW" /\ p \notin sweep /\ \A w \in Worker : worker[w].run # p
      BY <1>1 DEF SafeInv, RunInv, BornInv
    <2> QED
      BY <1>1, <2>1, JobChanges, SweepChanges
  <1>2. CASE publish[p].status # "NO_ROW"
    <2>1. publish[p].status = "PENDING"
      BY <1>2, RunKeeps
    <2>2. Held(p)
      BY <1>2, <2>1, JobChanges, SweepChanges DEF StartedInv, Held
    <2> QED
      BY <2>1, <2>2, HeldStays
  <1> QED
    BY <1>1, <1>2

\* A request that will enqueue a run keeps at it, does so, or is lost.
LEMMA WakerServes ==
  ASSUME SafeInv, [Next]_vars, NEW p \in PublishRun, publish[p].status = "PENDING",
         NEW c \in Caller, Wakes(c, p)
  PROVE  Wakes(c, p)' \/ message'[p] > 0 \/ p \in lost'
  <1> USE DEF SafeInv
  <1>0. message[p] \in Nat
    BY DEF TypeOK
  <1>1. CASE call'[c] = call[c]
    BY <1>1 DEF Wakes
  <1>2. ASSUME NEW d \in Caller \ {c},
               StagingNext(d) \/ PublishRequest(d) \/ ServePublish(d) \/ DispatchLost(d)
        PROVE  call'[c] = call[c]
    BY <1>2, StagingFrame
    DEF PublishRequest, TriggerPublish, AcknowledgeDrift, Cancel, ServePublish, CommitPublish,
        OutOfPublishRuns, Dispatch, Redispatch, CommitCancel, DispatchLost, Return, TypeOK
  <1>3. CASE StagingNext(c)
    BY <1>3, StagingFrame DEF Wakes
  <1>4. CASE PublishRequest(c)
    <2>1. call[c].op = "idle"
      BY <1>4 DEF PublishRequest, TriggerPublish, AcknowledgeDrift, Cancel, IsIdle, Idle
    <2> QED
      BY <2>1 DEF Wakes
  <1>5. CASE Dispatch(c) \/ Redispatch(c)
    <2>1. message'[p] = message[p] + 1
      BY <1>5 DEF Dispatch, Redispatch, Enqueue, Wakes, TypeOK
    <2> QED
      BY <1>0, <2>1
  <1>6. CASE DispatchLost(c)
    BY <1>6 DEF DispatchLost, Wakes
  <1>7. CASE CommitPublish(c) \/ OutOfPublishRuns(c) \/ CommitCancel(c)
    BY <1>7 DEF CommitPublish, OutOfPublishRuns, CommitCancel, Wakes
  <1>8. CASE (\E w \in Worker : PublishTask(w) \/ Abandon(w)) \/ SweepSelect \/ SweepCommit \/ UNCHANGED vars
    BY <1>1, <1>8, OthersKeepAttempts
  <1> QED
    BY <1>1, <1>2, <1>3, <1>4, <1>5, <1>6, <1>7, <1>8 DEF Next, ServePublish

\* The last message of a run that drift does not block is taken by a worker,
\* unless the job says that the run is resolved.
LEMMA MessageServes ==
  ASSUME SafeInv, WakeInv, [Next]_vars, NEW p \in PublishRun, publish[p].status = "PENDING",
         Drifted(p) => publish[p].acknowledged, message[p] > 0
  PROVE  message'[p] > 0 \/ Held(p)' \/ job'[p] = "CANCELLED"
  <1> USE DEF SafeInv
  <1>0. \A q \in PublishRun : message[q] \in Nat
    BY DEF TypeOK
  <1>1. ASSUME NEW w \in Worker, NEW q \in PublishRun, DropResolved(w, q) \/ LeaveBlocked(w, q) \/ Take(w, q)
        PROVE  message'[p] > 0 \/ Held(p)' \/ job'[p] = "CANCELLED"
    <2>1. CASE q # p
      BY <1>1, <2>1 DEF DropResolved, LeaveBlocked, Take, Dequeue, TypeOK
    <2>2. CASE q = p /\ DropResolved(w, q)
      <3>1. job[p] \in Ended /\ job'[p] = job[p]
        BY <2>2 DEF DropResolved, Resolved, db
      <3>2. CASE job[p] = "CANCELLED"
        BY <3>1, <3>2
      <3>3. CASE job[p] # "CANCELLED"
        <4>1. Held(p)
          BY <3>1, <3>3 DEF Ended, WakeInv, StartedInv, Held
        <4> QED
          BY <4>1, HeldStays DEF WakeInv
      <3> QED
        BY <3>2, <3>3
    <2>3. CASE q = p /\ LeaveBlocked(w, q)
      BY <2>3 DEF LeaveBlocked
    <2>4. CASE q = p /\ Take(w, q)
      <3>1. worker'[w].run = p
        BY <2>4 DEF Take, TypeOK
      <3> QED
        BY <3>1 DEF Held
    <2> QED
      BY <1>1, <2>1, <2>2, <2>3, <2>4
  <1>2. ASSUME NEW w \in Worker,
               \/ MarkRunning(w) \/ StartPublish(w) \/ CheckTarget(w) \/ Write(w) \/ WriteFails(w)
               \/ Finish(w) \/ FailJob(w) \/ FailRun(w) \/ Abandon(w)
        PROVE  message' = message
    BY <1>2
    DEF MarkRunning, StartPublish, CheckTarget, Write, WriteFails, Finish, FailJob, FailRun, Abandon
  <1>3. ASSUME NEW c \in Caller, StagingNext(c)
        PROVE  message' = message
    BY <1>3, StagingFrame
  <1>4. ASSUME NEW c \in Caller, Dispatch(c) \/ Redispatch(c)
        PROVE  message'[p] > 0
    <2>1. message'[p] = message[p] \/ message'[p] = message[p] + 1
      BY <1>4 DEF Dispatch, Redispatch, Enqueue, TypeOK
    <2> QED
      BY <1>0, <2>1
  <1>5. ASSUME NEW c \in Caller, PublishRequest(c) \/ ServePublish(c) \/ DispatchLost(c)
        PROVE  message' = message \/ Dispatch(c) \/ Redispatch(c)
    BY <1>5
    DEF PublishRequest, TriggerPublish, AcknowledgeDrift, Cancel, ServePublish, CommitPublish,
        OutOfPublishRuns, CommitCancel, DispatchLost
  <1>6. CASE SweepSelect \/ SweepCommit \/ UNCHANGED vars
    BY <1>6 DEF SweepSelect, SweepCommit, vars
  <1> QED
    BY <1>1, <1>2, <1>3, <1>4, <1>5, <1>6 DEF Next, PublishTask

\* A run that was not PENDING, or was blocked, and is not now: whoever committed
\* or acknowledged it enqueues it next.
LEMMA WakeBegins ==
  ASSUME SafeInv, [Next]_vars, NEW p \in PublishRun, publish'[p].status = "PENDING",
         publish[p].status # "PENDING" \/ publish'[p].acknowledged # publish[p].acknowledged
  PROVE  \E c \in Caller : Wakes(c, p)'
  <1> USE DEF SafeInv
  <1>0. publish' # publish
    OBVIOUS
  <1>1. ASSUME NEW c \in Caller, CommitPublish(c)
        PROVE  Wakes(c, p)'
    <2>1. PICK q \in PublishRun :
            /\ publish' = [publish EXCEPT ![q] =
                 [NoPublish EXCEPT !.status = "PENDING", !.staging = call[c].staging,
                                   !.target = call[c].target]]
            /\ call' = [call EXCEPT ![c] = [op |-> "dispatch", run |-> q, overwrite |-> call[c].overwrite]]
      BY <1>1 DEF CommitPublish
    <2>2. q = p
      BY <2>1 DEF TypeOK
    <2>3. call'[c].op = "dispatch" /\ call'[c].run = p
      BY <2>1, <2>2 DEF TypeOK
    <2> QED
      BY <2>3 DEF Wakes
  <1>2. ASSUME NEW c \in Caller, NEW q \in PublishRun, AcknowledgeDrift(c, q)
        PROVE  Wakes(c, p)'
    <2>1. publish[p] \in PublishRow
      BY DEF TypeOK
    <2>2. q = p
      BY <1>2, <2>1 DEF AcknowledgeDrift, TypeOK, PublishRow
    <2>3. call'[c].op = "redispatch" /\ call'[c].run = p
      BY <1>2, <2>2 DEF AcknowledgeDrift, TypeOK
    <2> QED
      BY <2>3 DEF Wakes
  <1>3. ASSUME NEW c \in Caller, StagingNext(c)
        PROVE  FALSE
    BY <1>0, <1>3, StagingFrame
  <1>4. ASSUME NEW c \in Caller, PublishRequest(c) \/ ServePublish(c) \/ DispatchLost(c)
        PROVE  CommitPublish(c) \/ \E q \in PublishRun : AcknowledgeDrift(c, q)
    BY <1>0, <1>4
    DEF PublishRequest, TriggerPublish, Cancel, ServePublish, OutOfPublishRuns, Dispatch, Redispatch,
        CommitCancel, DispatchLost, db
  <1>5. ASSUME NEW w \in Worker, PublishTask(w) \/ Abandon(w)
        PROVE  FALSE
    <2>1. TaskKeeps(w)
      BY <1>5, TaskFrameDequeue, TaskFrameStep DEF PublishTask
    <2>2. publish'[p].acknowledged = publish[p].acknowledged /\ publish[p].status # "PENDING"
      BY <2>1 DEF TaskKeeps
    <2>3. publish[p].status = "NO_ROW" /\ publish'[p] # publish[p]
      BY <2>2, RunKeeps
    <2>4. worker[w].run = p
      BY <2>1, <2>3 DEF TaskKeeps
    <2> QED
      BY <2>3, <2>4 DEF RunInv, BornInv
  <1>6. CASE SweepSelect \/ SweepCommit \/ UNCHANGED vars
    BY <1>0, <1>6 DEF SweepSelect, SweepCommit, vars, db
  <1> QED
    BY <1>1, <1>2, <1>3, <1>4, <1>5, <1>6 DEF Next

LEMMA NoLostWakeUpStep ==
  ASSUME SafeInv, WakeInv, [Next]_vars
  PROVE  NoLostWakeUp'
  <1> SUFFICES ASSUME NEW p \in PublishRun, publish'[p].status = "PENDING",
                      Drifted(p)' => publish'[p].acknowledged
               PROVE  OnItsWay(p)' \/ p \in lost' \/ job'[p] = "CANCELLED"
    BY DEF NoLostWakeUp
  <1>1. Held(p)' => OnItsWay(p)' \/ p \in lost'
    BY DEF Held, OnItsWay
  <1>2. (\E c \in Caller : Wakes(c, p)') => OnItsWay(p)'
    BY DEF Wakes, OnItsWay
  <1>3. message'[p] > 0 => OnItsWay(p)'
    BY DEF OnItsWay
  <1>4. CASE publish[p].status # "PENDING" \/ publish'[p].acknowledged # publish[p].acknowledged
    BY <1>2, <1>4, WakeBegins
  <1>5. CASE publish[p].status = "PENDING" /\ publish'[p].acknowledged = publish[p].acknowledged
    <2>1. Drifted(p) => publish[p].acknowledged
      BY <1>5, RunKeeps
    <2>2. OnItsWay(p) \/ p \in lost \/ job[p] = "CANCELLED"
      BY <1>5, <2>1 DEF WakeInv, NoLostWakeUp
    <2>3. CASE message[p] > 0
      BY <1>1, <1>3, <1>5, <2>1, <2>3, MessageServes
    <2>4. CASE Held(p)
      BY <1>1, <1>5, <2>4, HeldStays DEF WakeInv
    <2>5. ASSUME NEW c \in Caller, Wakes(c, p)
          PROVE  OnItsWay(p)' \/ p \in lost'
      BY <1>2, <1>3, <1>5, <2>5, WakerServes
    <2>6. CASE job[p] = "CANCELLED"
      <3>1. CASE job'[p] = "CANCELLED"
        BY <3>1
      <3>2. CASE job'[p] # "CANCELLED"
        <4>1. Held(p)
          BY <1>5, <2>6, <3>2, JobChanges DEF WakeInv, StartedInv, Held
        <4> QED
          BY <4>1, <2>4
      <3> QED
        BY <3>1, <3>2
    <2> QED
      BY <2>2, <2>3, <2>4, <2>5, <2>6 DEF OnItsWay, Wakes, Held
  <1> QED
    BY <1>4, <1>5

LEMMA Waking == Spec => []WakeInv
  <1>1. Init => WakeInv
    <2> SUFFICES ASSUME Init PROVE WakeInv
      OBVIOUS
    <2>1. \A p \in PublishRun : publish[p].status = "NO_ROW"
      BY DEF Init, NoPublish
    <2>2. \A w \in Worker : worker[w].run = None /\ worker[w].step = "idle"
      BY DEF Init, NoTask
    <2> QED
      BY <2>1, <2>2 DEF WakeInv, NoLostWakeUp, LoadedInv, StartedInv
  <1>2. SafeInv /\ WakeInv /\ [Next]_vars => WakeInv'
    BY NoLostWakeUpStep, LoadedStep, StartedStep DEF WakeInv
  <1> QED
    BY <1>1, <1>2, Safety, PTL DEF Spec

\* A PENDING run that drift does not block is on its way, was lost with the
\* broker or a worker, or has a cancelled job: acknowledging and dequeuing may
\* overlap as they like.
THEOREM WakeUpIsNotLost == Spec => []NoLostWakeUp
  <1>1. WakeInv => NoLostWakeUp
    BY DEF WakeInv
  <1> QED
    BY <1>1, Waking, PTL

-----------------------------------------------------------------------------
(* SoleInv: with clients that acknowledge drift when it blocks the run         *)

\* The drift of a run that is still PENDING is acknowledged when nothing about
\* the run is on its way: its task has been there, and has left it PENDING.
AcknowledgedAtRest ==
  \A c \in Caller, p \in PublishRun :
    AcknowledgeDrift(c, p) /\ publish[p].status = "PENDING" => Resting(p)

\* Patient clients are a special case: they also acknowledge once.
LEMMA PatientIsAtRest == Patient => AcknowledgedAtRest
  BY DEF AcknowledgedAtRest, AcknowledgeDrift

\* A request begins to send only by a step of its own.
LEMMA SendsKeeps ==
  ASSUME SafeInv, [Next]_vars, NEW c \in Caller, NEW p \in PublishRun, call'[c] = call[c], Sends(c, p)'
  PROVE  Sends(c, p)
  <1>1. call[c].op \in {"dispatch", "redispatch"} /\ call[c].run = p
    BY DEF Sends
  <1>2. publish[p].status # "NO_ROW"
    BY <1>1 DEF SafeInv, RunInv, BornInv, About
  <1>3. publish'[p].status = "PENDING" => publish[p].status = "PENDING"
    BY <1>2, RunKeeps
  <1> QED
    BY <1>3 DEF Sends

\* What a step of a request does to the ways on which a run is: a message
\* comes with the end of the request that sends it.
LEMMA SoleWayCaller ==
  ASSUME SafeInv, SoleInv, AcknowledgedAtRest, [Next]_vars, NEW c \in Caller,
         PublishRequest(c) \/ ServePublish(c) \/ DispatchLost(c)
  PROVE  SoleWayInv'
  <1> USE DEF SafeInv
  <1>1. /\ worker' = worker
        /\ \A d \in Caller \ {c} : call'[d] = call[d]
    BY DEF PublishRequest, TriggerPublish, AcknowledgeDrift, Cancel, ServePublish, CommitPublish,
           OutOfPublishRuns, Dispatch, Redispatch, CommitCancel, DispatchLost, Return, TypeOK
  <1>2. \A d \in Caller \ {c}, p \in PublishRun : Sends(d, p)' => Sends(d, p)
    BY <1>1, SendsKeeps
  <1>3. ASSUME message' = message, \A p \in PublishRun : ~Sends(c, p)'
        PROVE  SoleWayInv'
    BY <1>1, <1>2, <1>3 DEF SoleInv, SoleWayInv
  <1>4. ASSUME NEW p \in PublishRun, message' = message, Resting(p),
               call'[c].op \in {"dispatch", "redispatch"}, call'[c].run = p
        PROVE  SoleWayInv'
    <2>1. \A q \in PublishRun : Sends(c, q)' => q = p
      BY <1>4 DEF Sends
    <2>2. /\ message[p] = 0 /\ \A w \in Worker : worker[w].run # p
          /\ \A d \in Caller : ~Sends(d, p)
      BY <1>4 DEF Resting, Sends
    <2> QED
      BY <1>1, <1>2, <1>4, <2>1, <2>2 DEF SoleInv, SoleWayInv
  <1>5. ASSUME NEW p \in PublishRun, CommitPublish(c), publish[p].status = "NO_ROW",
               call' = [call EXCEPT ![c] = [op |-> "dispatch", run |-> p, overwrite |-> call[c].overwrite]]
        PROVE  SoleWayInv'
    <2>1. call'[c].op = "dispatch" /\ call'[c].run = p
      BY <1>5 DEF TypeOK
    <2>2. Resting(p)
      BY <1>5 DEF RunInv, BornInv, About, Resting
    <2>3. message' = message
      BY <1>5 DEF CommitPublish
    <2> QED
      BY <2>1, <2>2, <2>3, <1>4
  <1>6. ASSUME NEW p \in PublishRun, AcknowledgeDrift(c, p)
        PROVE  SoleWayInv'
    <2>1. call'[c].op = "redispatch" /\ call'[c].run = p /\ message' = message
      BY <1>6 DEF AcknowledgeDrift, TypeOK
    <2>2. CASE publish[p].status = "PENDING"
      BY <2>1, <2>2, <1>4, <1>6 DEF AcknowledgedAtRest
    <2>3. CASE publish[p].status # "PENDING"
      <3>1. publish'[p].status # "PENDING"
        BY <1>6, <2>3, RunKeeps DEF AcknowledgeDrift
      <3> QED
        BY <1>3, <2>1, <3>1 DEF Sends
    <2> QED
      BY <2>2, <2>3
  <1>7. CASE Dispatch(c) \/ Redispatch(c)
    <2> DEFINE p == call[c].run
    <2>1. p \in PublishRun
      BY <1>7, AboutRuns DEF Dispatch, Redispatch
    <2>2. \A q \in PublishRun : ~Sends(c, q)'
      BY <1>7 DEF Dispatch, Redispatch, Return, Idle, Sends, TypeOK
    <2>3. CASE message' = message
      BY <1>3, <2>2, <2>3
    <2>4. CASE message' # message
      <3>1. Sends(c, p) /\ Enqueue(p)
        BY <1>7, <2>4 DEF Dispatch, Redispatch, Sends
      <3>2. /\ message[p] = 0 /\ \A w \in Worker : worker[w].run # p
            /\ \A d \in Caller \ {c} : ~Sends(d, p)
        <4>1. message[p] \in Nat
          BY <2>1 DEF TypeOK
        <4> HIDE DEF p
        <4> QED
          BY <2>1, <3>1, <4>1 DEF SoleInv, SoleWayInv
      <3>3. /\ \A q \in PublishRun \ {p} : message'[q] = message[q]
            /\ message'[p] = 1
        <4> HIDE DEF p
        <4> QED
          BY <2>1, <3>1, <3>2 DEF Enqueue, TypeOK
      <3> HIDE DEF p
      <3> QED
        BY <1>1, <1>2, <2>1, <2>2, <3>2, <3>3 DEF SoleInv, SoleWayInv
    <2> QED
      BY <2>3, <2>4
  <1>8. ASSUME message' = message, call'[c].op \notin {"dispatch", "redispatch"}
        PROVE  SoleWayInv'
    BY <1>3, <1>8 DEF Sends
  <1>9. ASSUME NEW s \in StagingRun, NEW t \in Target, NEW o \in BOOLEAN, TriggerPublish(c, s, t, o)
        PROVE  SoleWayInv'
    BY <1>8, <1>9 DEF TriggerPublish, TypeOK
  <1>10. ASSUME NEW p \in PublishRun, Cancel(c, p)
         PROVE  SoleWayInv'
    BY <1>8, <1>10 DEF Cancel, TypeOK
  <1>11. CASE OutOfPublishRuns(c) \/ CommitCancel(c) \/ DispatchLost(c)
    BY <1>8, <1>11 DEF OutOfPublishRuns, CommitCancel, DispatchLost, Return, Idle, TypeOK
  <1>12. CASE CommitPublish(c)
    BY <1>5, <1>12 DEF CommitPublish
  <1> QED
    BY <1>6, <1>7, <1>9, <1>10, <1>11, <1>12 DEF PublishRequest, ServePublish

LEMMA SoleWayWorker ==
  ASSUME SafeInv, SoleInv, [Next]_vars, NEW w \in Worker, PublishTask(w) \/ Abandon(w)
  PROVE  SoleWayInv'
  <1> USE DEF SafeInv
  <1>1. TaskKeeps(w)
    BY TaskFrameDequeue, TaskFrameStep DEF PublishTask
  <1>2. \A p \in PublishRun : message[p] \in Nat /\ message'[p] \in Nat /\ message'[p] <= message[p]
    BY <1>1 DEF TaskKeeps, TypeOK
  <1>3. \A c \in Caller, p \in PublishRun : Sends(c, p)' => Sends(c, p)
    BY <1>1, SendsKeeps DEF TaskKeeps
  <1>4. \A v \in Worker \ {w} : worker'[v] = worker[v]
    BY <1>1 DEF TaskKeeps
  <1>5. ASSUME NEW p \in PublishRun, Take(w, p)
        PROVE  SoleWayInv'
    <2>1. worker'[w].run = p
      BY <1>5 DEF Take, TypeOK
    <2>2. message[p] > 0 /\ message'[p] = message[p] - 1
      BY <1>5 DEF Take, Dequeue, TypeOK
    <2>3. /\ message'[p] = 0
          /\ \A v \in Worker : worker[v].run # p
          /\ \A c \in Caller : ~Sends(c, p)
      BY <1>2, <2>2 DEF SoleInv, SoleWayInv
    <2> QED
      BY <1>2, <1>3, <1>4, <2>1, <2>3 DEF SoleInv, SoleWayInv
  <1>6. ASSUME worker'[w].run \in {worker[w].run, None}
        PROVE  SoleWayInv'
    <2>1. None \notin PublishRun
      BY DeliveryConstants
    <2>2. \A p \in PublishRun, v \in Worker : worker'[v].run = p => worker[v].run = p
      BY <1>4, <1>6, <2>1
    <2> QED
      BY <1>2, <1>3, <2>2 DEF SoleInv, SoleWayInv
  <1>7. CASE \A p \in PublishRun : ~Take(w, p)
    BY <1>6, <1>7, WorkerChanges DEF Next
  <1> QED
    BY <1>5, <1>7

\* Neither staging, nor the sweep, has anything to do with it.
LEMMA SoleWayOthers ==
  ASSUME SafeInv, SoleInv, [Next]_vars,
         (\E c \in Caller : StagingNext(c)) \/ SweepSelect \/ SweepCommit \/ UNCHANGED vars
  PROVE  SoleWayInv'
  <1>1. message' = message /\ worker' = worker
    BY StagingFrame DEF SafeInv, SweepSelect, SweepCommit, vars
  <1>2. \A c \in Caller, p \in PublishRun : Sends(c, p)' => Sends(c, p)
    <2>1. \A c \in Caller : call'[c] = call[c] \/ call'[c].op \in {"idle", "stage", "build"}
      BY StagingFrame DEF SafeInv, SweepSelect, SweepCommit, vars
    <2> QED
      BY <2>1, SendsKeeps DEF Sends
  <1> QED
    BY <1>1, <1>2 DEF SoleInv, SoleWayInv

LEMMA UnendedStep ==
  ASSUME SafeInv, LoadedInv, SoleInv, [Next]_vars
  PROVE  UnendedInv'
  <1> USE DEF SafeInv
  <1> SUFFICES ASSUME NEW w \in Worker, worker'[w].run # None
               PROVE  publish'[worker'[w].run].status \in {"PENDING", "PUBLISHING"}
    BY DEF UnendedInv
  <1>1. ASSUME NEW p \in PublishRun, Take(w, p), worker'[w].run = p
        PROVE  publish'[p].status \in {"PENDING", "PUBLISHING"}
    <2>1. publish[p] \in PublishRow /\ publish[p].status # "NO_ROW"
      BY <1>1 DEF Take, Dequeue, TypeOK, RunInv, BornInv
    <2> QED
      BY <1>1, <2>1 DEF Take, Resolved, PublishRow, PublishStatus, db
  <1>2. CASE worker'[w].run = worker[w].run
    <2> DEFINE p == worker[w].run
    <2>1. p \in PublishRun /\ worker[w] \in Task /\ publish[p] \in PublishRow
      BY <1>2, AtWork DEF RunInv, BusyInv
    <2>2. publish[p].status \in {"PENDING", "PUBLISHING"}
      BY <1>2 DEF SoleInv, UnendedInv
    <2>3. CASE publish'[p].status = publish[p].status
      BY <1>2, <2>2, <2>3
    <2>4. CASE publish'[p].status # publish[p].status
      <3>1. \E v \in Worker : PublishTask(v) \/ Abandon(v)
        <4>1. ASSUME NEW c \in Caller, StagingNext(c)
              PROVE  publish' = publish
          BY <4>1, StagingFrame
        <4>2. ASSUME NEW c \in Caller, PublishRequest(c) \/ ServePublish(c) \/ DispatchLost(c)
              PROVE  publish'[p].status = publish[p].status
          <5>1. CASE CommitPublish(c)
            BY <2>1, <2>2, <5>1 DEF CommitPublish, TypeOK
          <5>2. ASSUME NEW q \in PublishRun, AcknowledgeDrift(c, q)
                PROVE  publish'[p].status = publish[p].status
            BY <2>1, <5>2 DEF AcknowledgeDrift, TypeOK, PublishRow
          <5>3. CASE publish' = publish
            BY <5>3
          <5> QED
            BY <4>2, <5>1, <5>2, <5>3
            DEF PublishRequest, TriggerPublish, Cancel, ServePublish, OutOfPublishRuns, Dispatch,
                Redispatch, CommitCancel, DispatchLost, db
        <4>3. SweepSelect \/ SweepCommit \/ UNCHANGED vars => publish' = publish
          BY DEF SweepSelect, SweepCommit, vars, db
        <4> QED
          BY <2>4, <4>1, <4>2, <4>3 DEF Next
      <3>2. PICK v \in Worker : PublishTask(v) \/ Abandon(v)
        BY <3>1
      <3>3. worker[v].run = p
        <4>1. TaskKeeps(v)
          BY <3>2, TaskFrameDequeue, TaskFrameStep DEF PublishTask
        <4> QED
          BY <2>1, <2>4, <4>1 DEF TaskKeeps
      <3>4. v = w
        BY <2>1, <3>3 DEF SoleInv, SoleWayInv
      <3>5. ASSUME Release(w)
            PROVE  FALSE
        BY <1>2, <3>5 DEF Release, NoTask, TypeOK
      <3>6. CASE StartPublish(w)
        BY <1>2, <2>1, <2>4, <3>6 DEF StartPublish, WriteStatus, Flushed, TypeOK, PublishRow
      <3> QED
        BY <2>4, <3>2, <3>4, <3>5, <3>6
        DEF PublishTask, DropResolved, LeaveBlocked, Take, MarkRunning, CheckTarget, Write, WriteFails,
            Finish, FailJob, FailRun, Abandon, db
    <2> QED
      BY <2>3, <2>4
  <1>3. CASE worker'[w].run # worker[w].run
    BY <1>1, <1>3, WorkerChanges
  <1> QED
    BY <1>2, <1>3

\* A run is live only if it was, or if it has just been made.
LEMMA LiveBegins ==
  ASSUME SafeInv, SoleInv, [Next]_vars, NEW p \in PublishRun,
         publish'[p].status \in Live, publish[p].status \notin Live
  PROVE  \E c \in Caller :
           /\ call[c].op = "publish" /\ call'[c].op # "publish"
           /\ publish'[p].staging = call[c].staging
           /\ \A d \in Caller \ {c} : call'[d] = call[d]
           /\ \A q \in PublishRun \ {p} : publish'[q] = publish[q]
  <1> USE DEF SafeInv
  <1>1. publish[p].status = "NO_ROW" /\ publish'[p].status = "PENDING"
    <2>1. \A w \in Worker : worker[w].run = p => publish[p].status \in Live
      BY DeliveryConstants DEF SoleInv, UnendedInv, Live
    <2> QED
      BY <2>1, StatusChanges
  <1>2. ASSUME NEW c \in Caller, CommitPublish(c)
        PROVE  /\ call[c].op = "publish" /\ call'[c].op # "publish"
               /\ publish'[p].staging = call[c].staging
               /\ \A d \in Caller \ {c} : call'[d] = call[d]
               /\ \A q \in PublishRun \ {p} : publish'[q] = publish[q]
    <2>1. PICK q \in PublishRun :
            /\ publish' = [publish EXCEPT ![q] =
                 [NoPublish EXCEPT !.status = "PENDING", !.staging = call[c].staging,
                                   !.target = call[c].target]]
            /\ call' = [call EXCEPT ![c] = [op |-> "dispatch", run |-> q, overwrite |-> call[c].overwrite]]
      BY <1>2 DEF CommitPublish
    <2>2. q = p
      BY <1>1, <2>1 DEF TypeOK
    <2>3. publish'[p].staging = call[c].staging
      BY <2>1, <2>2 DEF TypeOK, NoPublish
    <2>4. call'[c].op = "dispatch" /\ \A d \in Caller \ {c} : call'[d] = call[d]
      BY <2>1 DEF TypeOK
    <2>5. \A r \in PublishRun \ {p} : publish'[r] = publish[r]
      BY <2>1, <2>2 DEF TypeOK
    <2> QED
      BY <1>2, <2>3, <2>4, <2>5 DEF CommitPublish
  <1>3. ASSUME NEW c \in Caller, NEW q \in PublishRun, AcknowledgeDrift(c, q)
        PROVE  FALSE
    <2>1. publish'[p].status = publish[p].status
      BY <1>3 DEF AcknowledgeDrift, TypeOK, PublishRow
    <2> QED
      BY <1>1, <2>1
  <1>4. \A w \in Worker : worker[w].run # p
    BY <1>1 DEF RunInv, BornInv
  <1>5. ASSUME NEW w \in Worker, PublishTask(w) \/ Abandon(w)
        PROVE  FALSE
    <2>1. TaskKeeps(w)
      BY <1>5, TaskFrameDequeue, TaskFrameStep DEF PublishTask
    <2> QED
      BY <1>1, <1>4, <2>1 DEF TaskKeeps
  <1>6. publish' # publish
    BY <1>1
  <1>7. \E c \in Caller : CommitPublish(c)
    <2>1. ASSUME NEW c \in Caller, StagingNext(c)
          PROVE  FALSE
      BY <1>6, <2>1, StagingFrame
    <2>2. ASSUME NEW c \in Caller, PublishRequest(c) \/ ServePublish(c) \/ DispatchLost(c)
          PROVE  CommitPublish(c)
      BY <1>3, <1>6, <2>2
      DEF PublishRequest, TriggerPublish, Cancel, ServePublish, OutOfPublishRuns, Dispatch, Redispatch,
          CommitCancel, DispatchLost, db
    <2>3. CASE SweepSelect \/ SweepCommit \/ UNCHANGED vars
      BY <1>6, <2>3 DEF SweepSelect, SweepCommit, vars, db
    <2> QED
      BY <1>5, <2>1, <2>2, <2>3 DEF Next
  <1> QED
    BY <1>2, <1>7

LEMMA OneLiveStep ==
  ASSUME SafeInv, SoleInv, [Next]_vars
  PROVE  OneLivePublishRun'
  <1> SUFFICES ASSUME NEW p \in PublishRun, NEW q \in PublishRun, p # q,
                      publish'[p].status \in Live, publish'[q].status \in Live,
                      publish'[p].staging = publish'[q].staging
               PROVE  FALSE
    BY DEF OneLivePublishRun
  <1>1. ASSUME NEW r \in PublishRun, publish[r].status \in Live
        PROVE  publish'[r].staging = publish[r].staging
    BY <1>1, RunKeeps DEF Live
  <1>2. ASSUME NEW r \in PublishRun, NEW t \in PublishRun, r # t, publish'[r].status \in Live,
               publish[r].status \notin Live, publish'[t].status \in Live,
               publish'[r].staging = publish'[t].staging
        PROVE  FALSE
    <2>1. PICK c \in Caller :
            /\ call[c].op = "publish" /\ publish'[r].staging = call[c].staging
            /\ publish'[t] = publish[t]
      BY <1>2, LiveBegins
    <2> QED
      BY <1>2, <2>1 DEF SoleInv, SolePublisherInv
  <1>3. CASE publish[p].status \in Live /\ publish[q].status \in Live
    BY <1>1, <1>3 DEF SoleInv, OneLivePublishRun
  <1> QED
    BY <1>2, <1>3

LEMMA SolePublisherStep ==
  ASSUME SafeInv, SoleInv, [Next]_vars
  PROVE  SolePublisherInv'
  <1> USE DEF SafeInv
  <1>1. ASSUME NEW c \in Caller, NEW s \in StagingRun, NEW t \in Target, NEW o \in BOOLEAN,
               TriggerPublish(c, s, t, o)
        PROVE  SolePublisherInv'
    <2>1. publish' = publish
      BY <1>1 DEF TriggerPublish, db
    <2>2. /\ call'[c].op = "publish" /\ call'[c].staging = s
          /\ \A d \in Caller \ {c} : call'[d] = call[d]
      BY <1>1 DEF TriggerPublish, TypeOK
    <2>3. \A d \in Caller : call[d].op = "publish" => call[d].staging # s
      BY <1>1 DEF TriggerPublish, Locked
    <2>4. \A p \in PublishRun : publish[p].staging = s => publish[p].status \notin Live
      BY <1>1 DEF TriggerPublish, RunsOf
    <2> QED
      BY <2>1, <2>2, <2>3, <2>4 DEF SoleInv, SolePublisherInv
  <1>2. ASSUME \A c \in Caller : call'[c].op = "publish" => call'[c] = call[c]
        PROVE  SolePublisherInv'
    <2> SUFFICES ASSUME NEW c \in Caller, call'[c].op = "publish"
                 PROVE  /\ \A p \in PublishRun :
                             publish'[p].staging = call'[c].staging => publish'[p].status \notin Live
                        /\ \A d \in Caller : call'[d].op = "publish" /\ call'[d].staging = call'[c].staging => d = c
      BY DEF SolePublisherInv
    <2>1. call[c].op = "publish" /\ call'[c] = call[c]
      BY <1>2
    <2>2. ASSUME NEW p \in PublishRun, publish'[p].staging = call[c].staging, publish'[p].status \in Live
          PROVE  FALSE
      <3>1. CASE publish[p].status \in Live
        BY <2>1, <2>2, <3>1, RunKeeps DEF SoleInv, SolePublisherInv, Live
      <3>2. CASE publish[p].status \notin Live
        <4>1. PICK d \in Caller : /\ call[d].op = "publish" /\ call'[d].op # "publish"
                                  /\ publish'[p].staging = call[d].staging
          BY <2>2, <3>2, LiveBegins
        <4>2. d = c
          BY <2>1, <2>2, <4>1 DEF SoleInv, SolePublisherInv
        <4> QED
          BY <4>1, <4>2
      <3> QED
        BY <3>1, <3>2
    <2> QED
      BY <1>2, <2>1, <2>2 DEF SoleInv, SolePublisherInv
  <1>3. ASSUME NEW c \in Caller, StagingNext(c)
        PROVE  SolePublisherInv'
    <2>1. \A d \in Caller : call'[d].op = "publish" => call'[d] = call[d]
      BY <1>3, StagingFrame
    <2> QED
      BY <1>2, <2>1
  <1>4. ASSUME NEW c \in Caller, PublishRequest(c) \/ ServePublish(c) \/ DispatchLost(c)
        PROVE  SolePublisherInv'
    <2>1. CASE \E s \in StagingRun, t \in Target, o \in BOOLEAN : TriggerPublish(c, s, t, o)
      BY <1>1, <2>1
    <2>2. CASE ~\E s \in StagingRun, t \in Target, o \in BOOLEAN : TriggerPublish(c, s, t, o)
      <3>1. call'[c].op # "publish" /\ \A d \in Caller \ {c} : call'[d] = call[d]
        BY <1>4, <2>2
        DEF PublishRequest, AcknowledgeDrift, Cancel, ServePublish, CommitPublish, OutOfPublishRuns,
            Dispatch, Redispatch, CommitCancel, DispatchLost, Return, Idle, TypeOK
      <3> QED
        BY <1>2, <3>1
    <2> QED
      BY <2>1, <2>2
  <1>5. CASE (\E w \in Worker : PublishTask(w) \/ Abandon(w)) \/ SweepSelect \/ SweepCommit \/ UNCHANGED vars
    BY <1>2, <1>5, OthersKeepAttempts
  <1> QED
    BY <1>3, <1>4, <1>5 DEF Next

LEMMA SoleStep ==
  ASSUME SafeInv, WakeInv, SoleInv, AcknowledgedAtRest, [Next]_vars
  PROVE  SoleInv'
  <1>1. SoleWayInv'
    BY SoleWayCaller, SoleWayWorker, SoleWayOthers DEF Next
  <1>2. UnendedInv'
    BY UnendedStep DEF WakeInv
  <1> QED
    BY <1>1, <1>2, OneLiveStep, SolePublisherStep DEF SoleInv

LEMMA Sole == Spec /\ [][AcknowledgedAtRest]_vars => []SoleInv
  <1>1. Init => SoleInv
    <2> SUFFICES ASSUME Init PROVE SoleInv
      OBVIOUS
    <2>1. \A p \in PublishRun : publish[p].status = "NO_ROW" /\ message[p] = 0 /\ p # None
      BY DeliveryConstants DEF Init, NoPublish
    <2>2. \A w \in Worker : worker[w].run = None
      BY DEF Init, NoTask
    <2>3. \A c \in Caller : call[c].op = "idle"
      BY DEF Init, Idle
    <2> QED
      BY <2>1, <2>2, <2>3
      DEF SoleInv, OneLivePublishRun, SoleWayInv, UnendedInv, SolePublisherInv, Sends, Live
  <1>2. SafeInv /\ WakeInv /\ SoleInv /\ [Next]_vars /\ [AcknowledgedAtRest]_vars => SoleInv'
    <2> SUFFICES ASSUME SafeInv, WakeInv, SoleInv, [Next]_vars, [AcknowledgedAtRest]_vars
                 PROVE  SoleInv'
      OBVIOUS
    <2>1. CASE UNCHANGED vars
      <3>1. publish' = publish /\ message' = message /\ call' = call /\ worker' = worker
        BY <2>1 DEF vars, db
      <3> QED
        BY <3>1 DEF SoleInv, OneLivePublishRun, SoleWayInv, UnendedInv, SolePublisherInv, Sends
    <2>2. CASE AcknowledgedAtRest
      BY <2>2, SoleStep
    <2> QED
      BY <2>1, <2>2
  <1> QED
    BY <1>1, <1>2, Waking, Safety, PTL DEF Spec

\* An attempt has one publish run that has not failed, if the drift of a run
\* that is still PENDING is acknowledged when nothing about it is on its way;
\* otherwise a second message can make a failed run PUBLISHING beside its
\* successor.
THEOREM OneRunIsLive == Spec /\ [][AcknowledgedAtRest]_vars => []OneLivePublishRun
  <1>1. SoleInv => OneLivePublishRun
    BY DEF SoleInv
  <1> QED
    BY <1>1, Sole, PTL

-----------------------------------------------------------------------------
(* The life of a publish run                                                   *)

\* Made PENDING; its drift acknowledged at any time; PUBLISHING once, and then
\* either FAILED or PUBLISHED, the latter with all the records of its attempt.
Advances(p) ==
  LET old == publish[p]
      new == publish'[p]
  IN  \/ new = old
      \/ old.status = "NO_ROW" /\ new.status = "PENDING"
      \/ old.status # "NO_ROW" /\ Drifted(p) /\ new = [old EXCEPT !.acknowledged = TRUE]
      \/ old.status = "PENDING" /\ new = [old EXCEPT !.status = "PUBLISHING"]
      \/ old.status = "PUBLISHING" /\ new = [old EXCEPT !.status = "FAILED"]
      \/ /\ old.status = "PUBLISHING"
         /\ new = [old EXCEPT !.status = "PUBLISHED", !.written = staging[old.staging].approved]

\* What a request does to the row of a publish run.
LEMMA RequestAdvances ==
  ASSUME SafeInv, NEW c \in Caller, PublishRequest(c) \/ ServePublish(c) \/ DispatchLost(c),
         NEW p \in PublishRun
  PROVE  Advances(p)
  <1> USE DEF SafeInv
  <1>1. CASE CommitPublish(c)
    <2>1. PICK q \in PublishRun :
            /\ publish[q].status = "NO_ROW"
            /\ publish' = [publish EXCEPT ![q] =
                 [NoPublish EXCEPT !.status = "PENDING", !.staging = call[c].staging,
                                   !.target = call[c].target]]
      BY <1>1 DEF CommitPublish
    <2>2. CASE p = q
      BY <2>1, <2>2 DEF Advances, NoPublish, TypeOK
    <2>3. CASE p # q
      BY <2>1, <2>3 DEF Advances, TypeOK
    <2> QED
      BY <2>2, <2>3
  <1>2. ASSUME NEW q \in PublishRun, AcknowledgeDrift(c, q)
        PROVE  Advances(p)
    <2>1. CASE p = q
      BY <1>2, <2>1 DEF AcknowledgeDrift, Advances, TypeOK
    <2>2. CASE p # q
      BY <1>2, <2>2 DEF AcknowledgeDrift, Advances, TypeOK
    <2> QED
      BY <2>1, <2>2
  <1>3. CASE publish' = publish
    BY <1>3 DEF Advances
  <1> QED
    BY <1>1, <1>2, <1>3
    DEF PublishRequest, TriggerPublish, Cancel, ServePublish, OutOfPublishRuns, Dispatch, Redispatch,
        CommitCancel, DispatchLost, db

\* What its worker does: the row is PENDING or PUBLISHING, and what the worker
\* has loaded says what it is.
LEMMA WorkerAdvances ==
  ASSUME SafeInv, LoadedInv, UnendedInv, NEW w \in Worker, PublishTask(w) \/ Abandon(w),
         NEW p \in PublishRun
  PROVE  Advances(p)
  <1> USE DEF SafeInv
  <1>1. CASE publish'[p] = publish[p]
    BY <1>1 DEF Advances
  <1>2. CASE publish'[p] # publish[p]
    <2>1. StartPublish(w) \/ Finish(w) \/ FailRun(w)
      BY <1>2
      DEF PublishTask, DropResolved, LeaveBlocked, Take, MarkRunning, CheckTarget, Write, WriteFails,
          FailJob, Abandon, db
    <2>2. worker[w].run = p
      BY <1>2, <2>1, TaskFrameStep DEF TaskKeeps
    <2>3. worker[w].step # "idle" /\ worker[w].run # None
      BY <2>1 DEF StartPublish, Finish, FailRun, At, RunInv, BusyInv
    <2>4. /\ publish[p] \in PublishRow
          /\ publish[p].status \in {"PENDING", "PUBLISHING"}
          /\ worker[w].status \in {"PENDING", "PUBLISHING"}
          /\ publish[p].staging \in StagingRun
          /\ staging[publish[p].staging].records = staging[publish[p].staging].approved
      <3>1. publish[p].status \in {"PENDING", "PUBLISHING"} /\ worker[w].status \in {"PENDING", "PUBLISHING"}
        BY <2>2, <2>3 DEF UnendedInv, LoadedInv
      <3>2. publish[p].staging \in StagingRun /\ staging[publish[p].staging].status = "READY"
        BY <3>1 DEF RunInv, BornInv
      <3> QED
        BY <3>1, <3>2 DEF TypeOK, AttemptInv, BuiltInv
    <2>5. CASE StartPublish(w)
      <3>1. publish'[p] = [publish[p] EXCEPT !.status = Flushed(publish[p].status, worker[w].status, "PUBLISHING")]
        BY <2>2, <2>5 DEF StartPublish, WriteStatus, TypeOK
      <3>2. publish'[p].status = Flushed(publish[p].status, worker[w].status, "PUBLISHING")
        BY <2>4, <3>1 DEF PublishRow
      <3>3. CASE publish[p].status = "PENDING"
        <4>1. worker[w].status = "PENDING"
          BY <2>2, <2>3, <2>4, <3>3 DEF LoadedInv
        <4> QED
          BY <3>1, <3>3, <4>1 DEF Flushed, Advances
      <3>4. CASE publish[p].status = "PUBLISHING"
        BY <1>2, <2>4, <3>1, <3>4 DEF Flushed, PublishRow
      <3> QED
        BY <2>4, <3>3, <3>4
    <2>6. CASE Finish(w) \/ FailRun(w)
      <3>1. worker[w].status = "PUBLISHING" /\ publish[p].status = "PUBLISHING"
        BY <2>2, <2>3, <2>4, <2>6 DEF Finish, FailRun, At, LoadedInv
      <3>2. CASE Finish(w)
        <4>1. publish'[p] = [publish[p] EXCEPT !.status = "PUBLISHED",
                                               !.written = staging[publish[p].staging].records]
          BY <2>2, <3>1, <3>2 DEF Finish, Flushed, TypeOK
        <4> QED
          BY <2>4, <3>1, <4>1 DEF Advances
      <3>3. CASE FailRun(w)
        <4>1. publish'[p] = [publish[p] EXCEPT !.status = "FAILED"]
          BY <2>2, <3>1, <3>3 DEF FailRun, WriteStatus, Flushed, TypeOK
        <4> QED
          BY <3>1, <4>1 DEF Advances
      <3> QED
        BY <2>6, <3>2, <3>3
    <2> QED
      BY <2>1, <2>5, <2>6
  <1> QED
    BY <1>1, <1>2

LEMMA Advance ==
  ASSUME SafeInv, LoadedInv, UnendedInv, [Next]_vars, NEW p \in PublishRun
  PROVE  Advances(p)
  <1>1. ASSUME NEW c \in Caller, StagingNext(c)
        PROVE  Advances(p)
    <2>1. publish' = publish
      BY <1>1, StagingFrame DEF SafeInv
    <2> QED
      BY <2>1 DEF Advances
  <1>2. CASE SweepSelect \/ SweepCommit \/ UNCHANGED vars
    BY <1>2 DEF SweepSelect, SweepCommit, vars, db, Advances
  <1> QED
    BY <1>1, <1>2, RequestAdvances, WorkerAdvances DEF Next

\* A publish run is executed once: it is made PENDING, becomes PUBLISHING and
\* ends PUBLISHED with the records of its attempt, or FAILED, and no step goes
\* back or changes anything else in its row, whatever workers, messages and
\* the process do.
THEOREM RunIsExecutedOnce ==
  Spec /\ [][AcknowledgedAtRest]_vars => [][\A p \in PublishRun : Advances(p)]_vars
  <1>1. SafeInv /\ WakeInv /\ SoleInv /\ [Next]_vars => [\A p \in PublishRun : Advances(p)]_vars
    BY Advance DEF WakeInv, SoleInv
  <1> QED
    BY <1>1, Sole, Waking, Safety, PTL DEF Spec

\* PUBLISHED is the end of a publish run under the same condition: without it
\* TLC finds the run executed again.
THEOREM PublishedStays == Spec /\ [][AcknowledgedAtRest]_vars => PublishedIsFinal
  <1>1. [\A p \in PublishRun : Advances(p)]_vars /\ TypeOK =>
          [\A p \in PublishRun : publish[p].status = "PUBLISHED" => publish'[p].status = "PUBLISHED"]_vars
    <2> SUFFICES ASSUME TypeOK, \A p \in PublishRun : Advances(p), NEW p \in PublishRun,
                        publish[p].status = "PUBLISHED"
                 PROVE  publish'[p].status = "PUBLISHED"
      OBVIOUS
    <2>1. publish[p] \in PublishRow
      BY DEF TypeOK
    <2> QED
      BY <2>1 DEF Advances, PublishRow
  <1> QED
    BY <1>1, RunIsExecutedOnce, TypeCorrect, PTL DEF PublishedIsFinal
=============================================================================
