\* The keeper with everyone else about.
SPECIFICATION FairKeeperSpec
CONSTANTS
  b1 = b1
  b2 = b2
  s1 = s1
  k1 = k1
  Escrow = escrow
  Accounts <- MCAccounts
  Seller = s1
  Keeper = k1
  Deals <- MCDeals
  Endowment <- MCEndowment
  TransferSizes = {}
  Refusable = {}
  MaxTime = 4
  MaxBuyers = 2
  StopOnTerminal = TRUE
  RpcMayFail = TRUE
  ToolCommits = TRUE
  Rescuers = {b1}
  Skews <- LateClocks
INVARIANTS KeeperTypeOK NeverAbandons
PROPERTIES NoEarlyRefund EndsEveryPool
CHECK_DEADLOCK FALSE
