\* One connection with two schemas of one dataset and two columns, a walk and a
\* request for keys at a time; two requests in each of the other parts.
SPECIFICATION Spec
CONSTANTS
  Client = {r1, r2}
  MaxStored = 3
  NoCredential = NoCredential
  s1 = s1
  s2 = s2
  d1 = d1
  d2 = d2
  Schema = {s1, s2}
  Dataset = {d1, d2}
  Column = {"a", "b"}
  SchemaOf <- OneSchemaEach
  KeyChoice <- TwoKeys
  Walk = {j1}
  Admin = {k1}
  NoWork = NoWork
  MaxChanges = 1
  MaxConfigs = 2
  Caller = {r1, r2}
  MaxTokens = 3
  Manager = {r1, r2}
  RuleOrigin = {"CUSTOM", "AI_RECOMMENDED"}
  Scope = {"SINGLE_COLUMN", "DATASET_LEVEL"}
  MaxVersions = 2
  NoRule = NoRule
SYMMETRY Alike
INVARIANTS
  TypeOK
  CredentialsResolve
  KeysAreOneConfiguration
  CompletedWalkMirrorsSource
  PromotionIsWhole
  OneLiveTokenPerSession
CHECK_DEADLOCK FALSE
