CONSTANTS
  s1 = s1
  s2 = s2
  s3 = s3
  x1 = x1
  x2 = x2
  x3 = x3
  f1 = f1
  f2 = f2
  None = None
  Subsec = {s1, s2, s3}
  Symbol = {x1, x2, x3}
  File = {f1, f2}
  Worker = {w1, w2}
  Programs <- MCPrograms
SPECIFICATION FairSpec
INVARIANTS
  MarkedSetIsClosed
  OnlyNeededIsMarked
PROPERTIES
  KeepsPromise
  Terminates
