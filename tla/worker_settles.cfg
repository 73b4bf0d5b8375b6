SPECIFICATION FairSpec
CONSTANTS
  Apps = {a1, a2}
  Workers = {w1}
  Guids = {g1, g2}
  None = None
  StepLists <- RoleList
  Envelopes <- GoodOnly
  AwsOutcomes = {"ok", "refused"}
  SourcesOutcomes = {"ok"}
  Disabled = {"destroy_application"}
  Mishaps = {"credentials"}
PROPERTIES
  EveryApplicationSettles
CHECK_DEADLOCK FALSE
