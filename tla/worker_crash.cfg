SPECIFICATION Spec
CONSTANTS
  Apps = {a1}
  Workers = {w1, w2}
  Guids = {g1, g2}
  None = None
  StepLists <- ShortLists
  Envelopes <- GoodOnly
  AwsOutcomes = {"ok", "refused", "lost"}
  SourcesOutcomes = {"ok", "lost"}
  Disabled = {}
  Mishaps = {"crash", "credentials"}
SYMMETRY Symmetry
INVARIANTS
  TypeOK
  IndInv
  LeaksAreReported
CHECK_DEADLOCK FALSE
