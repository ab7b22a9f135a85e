\* Every early return may be taken, the repository and the user may be silent.
SPECIFICATION FairSpec
CONSTANTS
  ArgLists <- MCArgLists
  Timeouts <- MCTimeouts
  NetMax = 1
  IfLists <- MCIfLists
  NET_IFNET_NMAX = 3
  IfFaults = TRUE
CHECK_DEADLOCK FALSE
INVARIANTS
  TypeOK
  ReleasedOnce
  NothingKept
  TerminalGivenBack
  ExitExplained
  OnlyHelpWithoutRoot
  AskedToExit
  InterfacesSound
PROPERTIES
  StartEnds
