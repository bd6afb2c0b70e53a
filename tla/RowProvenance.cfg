\* Up to three rows with two columns that may be a key and one under six rules;
\* the source changes once, and the key is configured or confirmed once.
SPECIFICATION Spec
CONSTANTS
  Null = Null
  NoStats = NoStats
  NoColumn = NoColumn
  NoKey = NoKey
  Eligible = {"a", "b"}
  Row = {1, 2, 3}
  Sources <- MCSources
  Value = {1, 2}
  Estimates = {Null, 2, 40}
  RuleSets <- MCRuleSets
  Keys <- MCKeys
  SampleSize = 2
  FullScanSize = 9
  MaxApproved = 2
  MaxEdits = 1
  MaxKeys = 1
INVARIANTS
  RecordsAreOfTheirRows
  NothingIsOverruled
  ConfirmedKeyFindsRows
CHECK_DEADLOCK FALSE
