SPECIFICATION Spec
CONSTANTS
  Apps = {a1}
  Workers = {w1}
  Guids = {g1}
  None = None
  StepLists <- RoleList
  Envelopes <- GoodOnly
  AwsOutcomes = {"ok"}
  SourcesOutcomes = {"ok"}
  Disabled = {}
  Mishaps = {}
INVARIANTS
  TenantIdentified
CHECK_DEADLOCK FALSE
