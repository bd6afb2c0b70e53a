\* Two jobs of both kinds, two requests and two workers at a time, and the sweep.
SPECIFICATION Spec
CONSTANTS
  j1 = j1
  j2 = j2
  d1 = d1
  Dataset = {d1}
  None = None
  DatasetOf <- MCOneDataset
  KindOf <- MCBothKinds
  Job = {j1, j2}
  Caller = {c1, c2}
  Worker = {w1, w2}
  Endpoint = {"start", "cancel"}
  Pieces = 1
INVARIANTS
  TypeOK
  NoOrphanRun
  OneWorkerPerJob
SYMMETRY Symmetry
CHECK_DEADLOCK FALSE
