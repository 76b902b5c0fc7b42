CONSTANTS
  Links <- LazyLinks
  LinkOf <- MCLinkOf
  PageSize <- MCPageSize
  OtherNames <- MCOtherNames
  Mod32 = 65536
  Word = 8
  MaxGroup = 3
  GroupSpan = 128
  MaxTarget = 1048576
  High8 = 16777216
  WordMod = 1073741824
  MaxInlineAddend = 63
  AdrPage = 128
SPECIFICATION Spec
INVARIANT LazyCallsArrive
