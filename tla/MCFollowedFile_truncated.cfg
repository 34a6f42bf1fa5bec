SPECIFICATION FollowedFairSpec
CONSTANTS
  n1 = n1
  n2 = n2
  n3 = n3
  none = none
  Inodes = {n1, n2, n3}
  First = n1
  NoFile = none
  MaxLine = 3
PROPERTY TruncationRestarts
CHECK_DEADLOCK FALSE
