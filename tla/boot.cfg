SPECIFICATION FairBootSpec
CONSTANTS
  Files <- MCFiles
  LineMax = 3
  InitCapacity = 2
  MaxLosses = 1
INVARIANTS PlaylistAsListed BitFollowsLink
PROPERTY RadioStarts
CHECK_DEADLOCK FALSE
