\* Two agents; one restarts, the RPC fails the other, offers run out.
SPECIFICATION KeptSettlementSpec
CONSTANTS
  Agents = {1, 2}
  K = 2
  Known <- FullMesh
  NoAgent = none
  Duplicating = TRUE
  Expiring = {1}
  Restarting = {2}
  Skus <- Spellings
  CanonicalSku <- LowerCase
  Intent <- Alike
  Followed <- Wanted
  TierCard <- Scaled
  DropOuts = {}
  Broke = {}
  Failing = {1}
  Lapsing = TRUE
  MaxPools = 2
INVARIANTS SettlementTypeOK OneDeal
PROPERTIES MoneyReturns PoolsAreAtomic
CHECK_DEADLOCK FALSE
