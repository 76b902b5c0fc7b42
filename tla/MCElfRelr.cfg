SPECIFICATION Spec
CONSTANTS
  Links <- MCRelrLinks
  LinkOf <- MCLinkOf
  RelrBits = 2
INVARIANT
  AllRelativesPacked
