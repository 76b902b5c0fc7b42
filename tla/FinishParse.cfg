\* Five members: one with common symbols, one with only local symbols to defer,
\* one parsed eagerly, and two ordinary ones.
CONSTANTS
  Member = {"a", "b", "c", "d", "e"}
  Common = {"c"}
  Simple = {"d"}
  Eager = {"e"}
SPECIFICATION Spec
INVARIANTS
  ParsedBeforeUse
  DoneOnce
  RelocsSeeLocals
  NoParseWhileConverting
PROPERTIES
  Terminates
