\* The keeper alone may refund: what it read is stale when it acts.
SPECIFICATION KeeperSpec
CONSTANTS
  b1 = b1
  b2 = b2
  s1 = s1
  k1 = k1
  Escrow = escrow
  Accounts <- MCAccounts
  Seller = s1
  Keeper = k1
  Deals <- PairDeals
  Endowment <- MCEndowment
  TransferSizes = {}
  Refusable = {}
  MaxTime = 4
  MaxBuyers = 2
  StopOnTerminal = TRUE
  RpcMayFail = FALSE
  ToolCommits = FALSE
  Rescuers = {}
  Skews = {0}
INVARIANT FullSetNeverRefunded
CHECK_DEADLOCK FALSE
