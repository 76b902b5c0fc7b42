CONSTANTS
  Outputs <- MCOutputs
  OutputOf <- MCOutputOf
  NameOrder <- MCNameOrder
  LOAD_FACTOR = 2
  WordBits = 4
  BLOOM_SHIFT = 2
  BloomBits = 3
  PageSize = 16
  GroupSize = 2
  SHN_LORESERVE = 18
SPECIFICATION Spec
INVARIANTS ImageIsRight RoomForContents LoaderFinds SymtabIsWhole
PROPERTY Converges
