CONSTANTS
  o1 = o1
  o2 = o2
  o3 = o3
  libU = libU
  libV = libV
  libB = libB
  libS = libS
  libH = libH
  nameU = nameU
  nameV = nameV
  nameB = nameB
  nameS = nameS
  Obj = {o1, o2, o3}
  Lib = {libU, libV, libB, libS, libH}
  Name = {nameU, nameV, nameB, nameS}
  Inputs <- MCInputs
SPECIFICATION Spec
INVARIANTS
  FrontierIsComplete
  LibrariesAreMerged
PROPERTIES
  Terminates
