\* Two requests in flight, every kind of operation.
SPECIFICATION Spec
CONSTANTS
  r1 = r1
  r2 = r2
  i1 = i1
  i2 = i2
  s1 = s1
  s2 = s2
  Run = {r1}
  Issue = {i1, i2}
  Suggestion = {s1}
  ApprovalRequest = {a1}
  Caller = {c1, c2}
  Value = {v1}
  Blank = Blank
  None = None
  RunOf <- MCRunOf
  IssueOf <- MCIssueOf
  SourceOf <- MCModel
  SuggestedValue <- MCSuggestedValue
  KeyOf <- MCKeyOf
  Endpoint = {"accept", "skip", "correct", "submit", "decide", "decide_closed", "archive", "restore", "ai_generate"}
INVARIANTS
  NoIssueDecidedTwice
  StatusSummarisesDecisions
SYMMETRY CallerSymmetry
