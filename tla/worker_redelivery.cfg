SPECIFICATION Spec
CONSTANTS
  Apps = {a1}
  Workers = {w1, w2}
  Guids = {g1, g2}
  None = None
  StepLists <- RoleList
  Envelopes <- GoodOnly
  AwsOutcomes = {"ok", "refused"}
  SourcesOutcomes = {"ok", "error", "lost"}
  Disabled = {}
  Mishaps = {"rebalance", "credentials"}
SYMMETRY Symmetry
INVARIANTS
  CreatedMeansUsable
  UnboundBeforeDelete
  DestroysWhatWasForged
PROPERTIES
  ImplementsForgedResources
CHECK_DEADLOCK FALSE
