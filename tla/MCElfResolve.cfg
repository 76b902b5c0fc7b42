SPECIFICATION Spec
CONSTANTS
  Links <- AllLinks
  LinkOf <- LinkOfName
INVARIANTS
  BestDefinitionOwns
  OneCopyPerGroup
  ExtractionIsExact
  KeptIsClosed
  ReferencesAreClaimed
