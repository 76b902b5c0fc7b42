CONSTANTS
  LookupMin = 8
  Bucket = 3
  Inputs <- MCInputs
SPECIFICATION Spec
INVARIANTS
  SectionsAreSplit
  RelocsLand
