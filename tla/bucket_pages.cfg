\* One handler, AWS failing nothing, nobody writing, three objects in pages
\* of two.
SPECIFICATION Spec
CONSTANTS
  AwsOutcomes = {"ok"}
  Handlers = {h1}
  Objects = {o1, o2, o3}
  Reports = {}
  PageSize = 2
INVARIANTS
  EmptyBeforeDelete
CHECK_DEADLOCK FALSE
