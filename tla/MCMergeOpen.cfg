CONSTANTS
  MaxLits = 4
  foo = foo
  bar = bar
  Empty = Empty
  Marker = Marker
  NumBuckets = 4
  ShardSize = 2
  MaxRetry = 2
  Grain = 2
  Inputs <- MCOpen
SPECIFICATION Spec
INVARIANTS
  OwnerIsDetermined
  AlignmentKept
