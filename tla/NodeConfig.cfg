\* Calls and unchecked writes may fail; killed at every step.
SPECIFICATION FairSpec
CONSTANTS
  Strings <- MCStrings
  StrLen <- MCStrLen
  Numbers <- MCNumbers
  ULongSize <- MCULongSize
  Files <- MCFiles
  Faults = TRUE
INVARIANTS
  TypeOK
  ReadIsFaithful
  PointersOK
  ForcedLevelWins
  ConfigSettled
  FirstLaunchDefaults
  FailureReported
  LongestCovers
PROPERTIES
  StartupEnds
  ValidConfigKept
  DebugBackup
