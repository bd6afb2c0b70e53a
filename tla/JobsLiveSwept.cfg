\* A run whose pieces take longer than the threshold.
SPECIFICATION Spec
CONSTANTS
  j1 = j1
  j2 = j2
  d1 = d1
  Dataset = {d1}
  None = None
  DatasetOf <- MCOneDataset
  KindOf <- MCBothKinds
  Job = {j1}
  Caller = {c1}
  Worker = {w1}
  Endpoint = {"start", "cancel"}
  Pieces = 1
PROPERTIES
  LiveRunsAreNotSwept
CHECK_DEADLOCK FALSE
