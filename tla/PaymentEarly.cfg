\* Two agents; the page says it is paid before the second has paid.
SPECIFICATION PaymentSpec
CONSTANTS
  Agents = {1, 2}
  K = 2
  Known <- FullMesh
  NoAgent = none
  Duplicating = FALSE
  Expiring = {}
  Restarting = {}
  Skus <- Spellings
  CanonicalSku <- LowerCase
  Intent <- Alike
  Followed <- Wanted
  TierCard <- Scaled
  DropOuts = {}
  Broke = {}
  Failing = {}
  Lapsing = FALSE
  MaxPools = 2
  Buyer1 = 1
  FetchFails = FALSE
  MaxRuns = 1
  MaxAsks = 2
INVARIANT PaidMeansCommitted
CHECK_DEADLOCK FALSE
