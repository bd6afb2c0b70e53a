\* Two pieces per run; workers crash and messages are lost.
SPECIFICATION FairCrashSpec
CONSTANTS
  j1 = j1
  j2 = j2
  d1 = d1
  Dataset = {d1}
  None = None
  DatasetOf <- MCOneDataset
  KindOf <- MCBothKinds
  Job = {j1, j2}
  Caller = {c1}
  Worker = {w1}
  Endpoint = {"start", "cancel"}
  Pieces = 2
PROPERTIES
  ValidationResultsAppearAtOnce
  CancelledInQueueLeavesNothing
  RunningJobsEnd
  CancelledJobsEnd
CHECK_DEADLOCK FALSE
