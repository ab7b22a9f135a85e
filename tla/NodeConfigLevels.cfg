\* config.c:293 and logging.h:9-13
SPECIFICATION Spec
CONSTANTS
  Strings <- MCStrings
  StrLen <- MCStrLen
  Numbers <- MCNumbers
  ULongSize <- MCULongSize
  Files <- MCFiles
  Faults = FALSE
INVARIANTS
  LevelsAreSettable
