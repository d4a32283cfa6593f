\* All three agents are needed, and the network delivers.
SPECIFICATION FairSpec
CONSTANTS
  Agents = {1, 2, 3}
  K = 3
  Known <- FullMesh
  NoAgent = none
  Duplicating = FALSE
  Expiring = {}
  Restarting = {}
INVARIANTS KAnonymity MeetAtRest
PROPERTY AllMeet
CHECK_DEADLOCK FALSE
