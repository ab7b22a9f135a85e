\* All walks through the menus; each of the calls in Calls may fail.
SPECIFICATION FairSpec
CONSTANTS
  NetCounts <- MCNetCounts
  Failing <- AllCalls
CHECK_DEADLOCK FALSE
INVARIANTS
  TypeOK
  ItemInMenu
  MenusGuarded
  TerminalRestored
  ColorsRestored
PROPERTIES
  ThroughMain
  MenuComesUp
  ExitLeaves
