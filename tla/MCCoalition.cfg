\* The escrow on its own, every slice worth something.
SPECIFICATION Spec
CONSTANTS
  b1 = b1
  b2 = b2
  s1 = s1
  k1 = k1
  Escrow = escrow
  Accounts <- MCAccounts
  Seller = s1
  Keeper = k1
  Deals <- MCDeals
  Endowment <- MCEndowment
  TransferSizes = {2}
  Refusable = {b1}
  MaxTime = 2
  MaxBuyers = 4
INVARIANTS TypeOK FullQuorum AtomicOutcome NeverStuck
PROPERTY ImplementsSettlement
