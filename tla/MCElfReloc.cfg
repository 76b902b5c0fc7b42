SPECIFICATION Spec
CONSTANTS
  Links <- MCLinks
  LinkOf <- MCLinkOf
  RelrBits = 2
INVARIANTS
  SlotsExist
  DynrelsMatch
  ReferencesReach
