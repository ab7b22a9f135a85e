\* config.h:67
SPECIFICATION Spec
CONSTANTS
  Strings <- MCStrings
  StrLen <- MCStrLen
  Numbers <- MCNumbers
  ULongSize <- MCULongSize
  Files <- MCFiles
  Faults = FALSE
INVARIANTS
  AllEntriesRead
