\* Every allocation may fail, servers and the user may be silent.
SPECIFICATION FairSpec
CONSTANTS
  Replies <- MCReplies
  Releases <- MCReleases
  Timeouts <- MCTimeouts
  NETWORK_NAME_MAX = 11
  Faults = TRUE
CHECK_DEADLOCK FALSE
INVARIANTS
  TypeOK
  NamesAreLines
  LongestNetCovers
  MenuMatchesList
  UpdateTruthful
PROPERTIES
  RepoImplemented
  FetchEnds
