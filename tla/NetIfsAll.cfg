\* ifs.c:39
SPECIFICATION Spec
CONSTANTS
  IfLists <- MCIfLists
  NET_IFNET_NMAX = 4
  IfFaults = FALSE
CHECK_DEADLOCK FALSE
INVARIANTS
  AllListed
