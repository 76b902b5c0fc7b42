CONSTANTS
  a = a
  m = m
  n = n
  d = d
  e = e
  foo = foo
  bar = bar
  None = None
  Obj = {a}
  Member = {m, n}
  Dylib = {d, e}
  Sym = {foo, bar}
  RankSpan = 16
  Inputs <- MCOpen
SPECIFICATION Spec
INVARIANTS
  OwnedByBest
  GlobalIfAnyIsGlobal
  NothingLeftBehind
