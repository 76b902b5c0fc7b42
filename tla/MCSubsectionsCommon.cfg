CONSTANTS
  LookupMin = 8
  Bucket = 3
  Inputs <- MCCommon
SPECIFICATION Spec
INVARIANTS
  TargetsCoverAddress
