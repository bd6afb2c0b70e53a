\* Drift is acknowledged while the first message is still in the broker.
SPECIFICATION Spec
CONSTANTS
  None = None
  Review = {r1}
  StagingRun = {s1}
  PublishRun = {p1}
  Record = {x1}
  Conflicting = {}
  Target = {t1}
  Caller = {c1}
  Worker = {w1, w2}
  Patient = FALSE
  MaxMessages = 2
PROPERTIES
  PublishedIsFinal
CHECK_DEADLOCK FALSE
