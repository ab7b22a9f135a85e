\* menu.c:480
SPECIFICATION Spec
CONSTANTS
  NetCounts <- MCNetCounts
  Failing <- OnlyNewMenu
CHECK_DEADLOCK FALSE
PROPERTIES
  SetupFailureIsError
