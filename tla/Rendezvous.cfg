\* Two of three agents make a cluster; everything may go wrong.
SPECIFICATION Spec
CONSTANTS
  Agents = {1, 2, 3}
  K = 2
  Known <- FullMesh
  NoAgent = none
  Duplicating = TRUE
  Expiring = {2}
  Restarting = {2}
INVARIANTS TypeOK KAnonymity SoundClusters AgreementAtK MeetAtRest
PROPERTY ImplementsMeeting
CHECK_DEADLOCK FALSE
