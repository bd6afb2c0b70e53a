\* One request at a time, two runs: the bulk operation names the other run.
SPECIFICATION Spec
CONSTANTS
  r1 = r1
  r2 = r2
  i1 = i1
  i2 = i2
  s1 = s1
  s2 = s2
  Run = {r1, r2}
  Issue = {i1}
  Suggestion = {s1}
  ApprovalRequest = {a1}
  Caller = {c1}
  Value = {v1}
  Blank = Blank
  None = None
  RunOf <- MCRunOf
  IssueOf <- MCIssueOf
  SourceOf <- MCGenerators
  SuggestedValue <- MCSuggestedValue
  KeyOf <- MCKeyOf
  Endpoint = {"generate", "correct", "bulk", "submit"}
PROPERTIES
  ScopeStableWhileReady
