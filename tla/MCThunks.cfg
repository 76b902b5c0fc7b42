CONSTANTS
  first = first
  last = last
  other = other
  other2 = other2
  MaxDistance = 25
  BatchSize = 4
  MaxThunkSize = 4
  Reach = 32
  EntrySize = 1
  Alignment = 2
  U32 = 256
  Sym = {first, last, other, other2}
  Inputs <- MCInputs
SPECIFICATION Spec
INVARIANTS
  BranchesArrive
  PassIsClean
PROPERTIES
  Terminates
