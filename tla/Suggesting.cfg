CONSTANTS
  Null = Null
  NoNumber = NoNumber
  NoEvidence = NoEvidence
  NoIssue = NoIssue
  NoRow = NoRow
  NoRows = NoRows
  NoLog = NoLog
  Wrong = Wrong
  Undecidable = Undecidable
  PromotionSample = 7
  MaxSlots = 1000
  SampleSize = 9
  Confidences = {200, 1000}
  MaxEdits = 1
  Batches = {1, 2}
  Tables <- MCTables
SPECIFICATION Spec
INVARIANTS
  ConfidentIsDerived
  FaultIsRepaired
  OwnValueIsNotEvidence
  AttemptsAreAccounted
