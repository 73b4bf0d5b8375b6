SPECIFICATION Spec
CONSTANTS
  Apps = {a1}
  Workers = {w1, w2}
  Guids = {g1, g2}
  None = None
  StepLists <- AllLists
  Envelopes <- AnyEnvelope
  AwsOutcomes = {"ok", "refused", "lost"}
  SourcesOutcomes = {"ok", "error", "lost"}
  Disabled = {}
  Mishaps = {"credentials"}
SYMMETRY Symmetry
INVARIANTS
  CleanTearDown
  ClientsReady
CHECK_DEADLOCK FALSE
