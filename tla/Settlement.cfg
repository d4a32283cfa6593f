\* Four agents: two of three make a cluster, the fourth wants something else.
SPECIFICATION FairSettlementSpec
CONSTANTS
  Agents = {1, 2, 3, 4}
  K = 2
  Known <- Spokes
  NoAgent = none
  Duplicating = FALSE
  Expiring = {}
  Restarting = {}
  Skus <- Spellings
  CanonicalSku <- LowerCase
  Intent <- Varied
  Followed <- Wanted
  TierCard <- Tight
  DropOuts = {2}
  Broke = {}
  Failing = {}
  Lapsing = FALSE
  MaxPools = 2
INVARIANTS PaysOnce SoundPools WithinBucket MeetAtRest
PROPERTY EnoughMeet
CHECK_DEADLOCK FALSE
