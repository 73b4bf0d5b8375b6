SPECIFICATION FairSpec
CONSTANTS
  Apps = {a1, a2}
  Workers = {w1, w2}
  Guids = {g1, g2}
  None = None
  StepLists <- RoleList
  Envelopes <- GoodOnly
  AwsOutcomes = {"ok"}
  SourcesOutcomes = {"ok"}
  Disabled = {}
  Mishaps = {}
PROPERTIES
  EventuallyClean
CHECK_DEADLOCK FALSE
