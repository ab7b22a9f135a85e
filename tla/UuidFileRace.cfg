\* cnode.c:265, two instances
SPECIFICATION Spec
CONSTANTS
  p1 = p1
  p2 = p2
  u1 = u1
  u2 = u2
  u3 = u3
  u4 = u4
  None = None
  Procs <- TwoProcs
  Uuids <- FourUuids
  Faults = FALSE
  FullDisk = FALSE
PROPERTIES
  NeverOverwritten
