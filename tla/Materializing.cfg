\* Up to three rows in pages of two, two of them with a correction, of four
\* datasets that differ in their keys; the source changes twice while it is
\* copied, the task is enqueued twice, a worker dies.
SPECIFICATION Spec
CONSTANTS
  NoTable = NoTable
  MaxRow = 3
  BatchSize = 2
  Datasets <- SomeDatasets
  Worker = {w1}
  MaxChanges = 2
  MaxSent = 2
  MaxCrashes = 1
INVARIANTS
  TypeOK
  ReadyTableIsTheSource
  CorrectionsOnTheirRows
PROPERTIES
  KeepsItsPromise
  ExecutedRunsResolve
CHECK_DEADLOCK FALSE
