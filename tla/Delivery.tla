------------------------------- MODULE Delivery -------------------------------
(***************************************************************************)
(* From an approved review run to the exported file: staging, publishing   *)
(* and what happens to their jobs, on the same rows.                       *)
(***************************************************************************)
EXTENDS StagingRuns, PublishRuns

Init ==
  /\ staging   = [s \in StagingRun |-> NoStaging]
  /\ publish   = [p \in PublishRun |-> NoPublish]
  /\ job       = [p \in PublishRun |-> "NO_ROW"]
  /\ overwrite = {}
  /\ message   = [p \in PublishRun |-> 0]
  /\ file      = {}
  /\ lost      = {}
  /\ call      = [c \in Caller |-> Idle]
  /\ worker    = [w \in Worker |-> NoTask]
  /\ sweep     = {}

Next ==
  \/ \E c \in Caller : StagingNext(c) \/ PublishRequest(c) \/ ServePublish(c) \/ DispatchLost(c)
  \/ \E w \in Worker : PublishTask(w) \/ Abandon(w)
  \/ SweepSelect \/ SweepCommit

Spec == Init /\ [][Next]_vars

-----------------------------------------------------------------------------
(* Safety *)

Calls ==
  {Idle} \cup StageCall \cup BuildCall \cup PublishCall \cup DispatchCall \cup RedispatchCall
    \cup CancelCall

\* Every row, request and task has the shape the code gives it.
TypeOK ==
  /\ staging \in [StagingRun -> StagingRow]
  /\ publish \in [PublishRun -> PublishRow]
  /\ job \in [PublishRun -> JobStatus]
  /\ overwrite \subseteq PublishRun
  /\ message \in [PublishRun -> Nat]
  /\ file \subseteq Target
  /\ lost \subseteq PublishRun
  /\ call \in [Caller -> Calls]
  /\ worker \in [Worker -> Task]
  /\ sweep \subseteq PublishRun

\* The attempts of a review run are numbered without a gap, one is current at
\* most, the one that is being built is the newest, and a READY one that is
\* current is newer than any other READY one, although attempts are built, fail
\* or are abandoned after the lock is released (staging/service.py, "Locked
\* decision 3").  Which attempt is current while the newest one is not READY is
\* left open.
AttemptsAreSequential ==
  \A s \in StagingRun : staging[s].status # "NO_ROW" =>
    /\ \/ staging[s].attempt = 1
       \/ \E t \in Attempts(staging[s].review) : staging[s].attempt = staging[t].attempt + 1
    /\ \A t \in Attempts(staging[s].review) \ {s} :
         /\ staging[t].attempt # staging[s].attempt
         /\ staging[s].current => ~staging[t].current
         /\ staging[s].status = "BUILDING" => staging[t].attempt < staging[s].attempt
         /\ staging[s].status = "READY" /\ staging[s].current /\ staging[t].status = "READY" =>
              staging[t].attempt < staging[s].attempt

\* A staging run has one publish run that has not failed, although runs end
\* without the lock under which they are counted (publishing/service.py,
\* "Locked decision 4").  It takes clients that do not acknowledge a run that
\* is already under way.
OneLivePublishRun ==
  \A p, q \in PublishRun :
    /\ publish[p].status \in Live /\ publish[q].status \in Live
    /\ publish[p].staging = publish[q].staging
    => p = q

\* What has been published is everything the attempt was made for, not what a
\* failed or unfinished build had left behind.
PublishedWhole ==
  \A p \in PublishRun :
    publish[p].status = "PUBLISHED" => publish[p].written = staging[publish[p].staging].approved

\* A publish run does not get past PENDING over drift that nobody has
\* acknowledged, whichever message its task was started by.
DriftIsAcknowledged ==
  \A p \in PublishRun :
    publish[p].status \notin {"NO_ROW", "PENDING"} /\ Drifted(p) => publish[p].acknowledged

\* A message, a worker or a request is on its way to a publish run.
OnItsWay(p) ==
  \/ message[p] > 0
  \/ \E w \in Worker : worker[w].run = p
  \/ \E c \in Caller : call[c].op \in {"dispatch", "redispatch"} /\ call[c].run = p

\* A PENDING run that drift does not block is going to be executed, unless a
\* message of it was lost or its job is cancelled: acknowledging and dequeuing
\* overlap, and no wake-up is lost between them (publishing/tasks.py,
\* "re-enqueues this SAME task").
NoLostWakeUp ==
  \A p \in PublishRun :
    publish[p].status = "PENDING" /\ (Drifted(p) => publish[p].acknowledged) =>
      OnItsWay(p) \/ p \in lost \/ job[p] = "CANCELLED"

-----------------------------------------------------------------------------
(* What the design says and the code does not do *)

\* PUBLISHED is the end of a publish run.  Two messages for a run that is not
\* resolved yet are both executed, and the second finds the file of the first.
PublishedIsFinal ==
  [][\A p \in PublishRun :
       publish[p].status = "PUBLISHED" => publish'[p].status = "PUBLISHED"]_vars
=============================================================================
