CONSTANTS
  MaxLits = 4
  foo = foo
  bar = bar
  Empty = Empty
  Marker = Marker
  NumBuckets = 4
  ShardSize = 2
  MaxRetry = 2
  Grain = 2
  Inputs <- MCInputs
SPECIFICATION Spec
INVARIANTS
  TableIsSound
  LiteralsAreMerged
PROPERTIES
  Terminates
