\* One instance at a time, killed and restarted; a write may fail.
SPECIFICATION Spec
CONSTANTS
  p1 = p1
  p2 = p2
  u1 = u1
  u2 = u2
  u3 = u3
  u4 = u4
  None = None
  Procs <- OneProc
  Uuids <- FourUuids
  Faults = FALSE
  FullDisk = TRUE
INVARIANTS
  TypeOK
  AnnouncedIsStored
PROPERTIES
  NeverOverwritten
