\* Two handlers, a bucket that fits in one page, and a report that may still
\* be written.
SPECIFICATION FairSpec
CONSTANTS
  AwsOutcomes = {"ok", "refused", "lost"}
  Handlers = {h1, h2}
  Objects = {o1, o2, o3}
  Reports = {o3}
  PageSize = 3
INVARIANTS
  TypeOK
  EmptyBeforeDelete
  DestroyedUnlessFailed
PROPERTIES
  ImplementsCall
CHECK_DEADLOCK FALSE
