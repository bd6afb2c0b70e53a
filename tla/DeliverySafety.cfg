\* Two attempts and two publish runs of one review run, two requests and two
\* workers at a time and the sweep; the records of x2 cannot be built; clients
\* acknowledge drift once and only when they see it block the run.
SPECIFICATION Spec
CONSTANTS
  None = None
  Review = {r1}
  StagingRun = {s1, s2}
  PublishRun = {p1, p2}
  Record = {x1, x2}
  Conflicting = {x2}
  Target = {t1}
  Caller = {c1, c2}
  Worker = {w1, w2}
  Patient = TRUE
  MaxMessages = 1
INVARIANTS
  TypeOK
  AttemptsAreSequential
  OneLivePublishRun
  PublishedWhole
  DriftIsAcknowledged
  NoLostWakeUp
SYMMETRY Symmetry
CHECK_DEADLOCK FALSE
