\* Two agents, a network that delivers, and a page that watches the first.
SPECIFICATION FairPaymentSpec
CONSTANTS
  Agents = {1, 2}
  K = 2
  Known <- FullMesh
  NoAgent = none
  Duplicating = FALSE
  Expiring = {}
  Restarting = {}
  Skus <- Spellings
  CanonicalSku <- LowerCase
  Intent <- Alike
  Followed <- Wanted
  TierCard <- Scaled
  DropOuts = {}
  Broke = {}
  Failing = {}
  Lapsing = FALSE
  MaxPools = 2
  Buyer1 = 1
  FetchFails = TRUE
  MaxRuns = 1
  MaxAsks = 2
INVARIANTS PaymentTypeOK SettledAtRest QuietForAReason
PROPERTIES Settles ShowsTheEnd
CHECK_DEADLOCK FALSE
