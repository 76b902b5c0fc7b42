CONSTANTS
  a = a
  m = m
  n = n
  d = d
  e = e
  foo = foo
  bar = bar
  None = None
  Obj = {a}
  Member = {m, n}
  Dylib = {d, e}
  Sym = {foo, bar}
  RankSpan = 16
  Inputs <- MCInputs
SPECIFICATION Spec
INVARIANTS
  OwnedByBest
  ExtractionIsRight
PROPERTIES
  Terminates
