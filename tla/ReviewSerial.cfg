\* Requests one after the other; approvers decide open requests only.
SPECIFICATION FairSpec
CONSTANTS
  r1 = r1
  r2 = r2
  i1 = i1
  i2 = i2
  s1 = s1
  s2 = s2
  Run = {r1}
  Issue = {i1, i2}
  Suggestion = {s1, s2}
  ApprovalRequest = {a1, a2}
  Caller = {c1}
  Value = {v1}
  Blank = Blank
  None = None
  RunOf <- MCRunOf
  IssueOf <- MCIssueOf
  SourceOf <- MCGenerators
  SuggestedValue <- MCSuggestedValue
  KeyOf <- MCKeyOf
  Endpoint = {"accept", "edit", "reject", "skip", "correct", "bulk", "submit", "decide", "archive", "restore", "generate", "ai_generate"}
INVARIANTS
  TypeOK
  SelectionFollowsCorrection
  OpenRequestFreezesRun
  ClosedRequestDecidedAll
PROPERTIES
  OpenRequestsGetClosed
  ScopeStableWhileReady
  TerminalDecisionsAreFinal
