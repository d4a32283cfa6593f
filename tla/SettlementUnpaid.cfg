\* Two agents, one of which cannot pay.
SPECIFICATION SettlementSpec
CONSTANTS
  Agents = {1, 2}
  K = 2
  Known <- FullMesh
  NoAgent = none
  Duplicating = FALSE
  Expiring = {}
  Restarting = {}
  Skus <- Spellings
  CanonicalSku <- LowerCase
  Intent <- Alike
  Followed <- Wanted
  TierCard <- Card
  DropOuts = {}
  Broke = {2}
  Failing = {}
  Lapsing = FALSE
  MaxPools = 2
INVARIANT SettledMeansPaid
CHECK_DEADLOCK FALSE
