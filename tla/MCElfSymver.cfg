SPECIFICATION Spec
CONSTANTS
  Links <- SymverLinks
  LinkOf <- LinkOfName
INVARIANTS
  ImportsAreMarked
