\* Two agents and an operator pay into one pool, and its keeper ends it.
SPECIFICATION FairFundingSpec
CONSTANTS
  b1 = b1
  b2 = b2
  s1 = s1
  k1 = k1
  agent1 = agent1
  agent2 = agent2
  script1 = script1
  Escrow = escrow
  Accounts <- MCAccounts
  Seller = s1
  Keeper = k1
  Deals <- FundingDeals
  Endowment <- FundingEndowment
  TransferSizes = {}
  Refusable = {}
  MaxTime = 3
  MaxBuyers = 2
  StopOnTerminal = TRUE
  RpcMayFail = TRUE
  ToolCommits = TRUE
  Rescuers = {b1}
  Skews <- LateClocks
  Clients <- MCClients
  Owner <- MCOwner
  Scripts = {script1}
  Unreliable = {agent1, script1}
INVARIANTS FundingTypeOK AtomicOutcome NoMissedPayment
PROPERTY MadeWhole
CHECK_DEADLOCK FALSE
