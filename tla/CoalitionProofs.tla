--------------------------- MODULE CoalitionProofs ---------------------------
(***************************************************************************)
(* Theorems about Coalition for every set of accounts, every set of deals, *)
(* and every value of the bounds.                                          *)
(***************************************************************************)
EXTENDS Coalition, FiniteSetTheorems, SequenceTheorems, TLAPS

LEMMA AmountType == ASSUME deal \in Deals PROVE Amount \in Nat
  BY DealsAssumption DEF Deal, Amount

(* A movement the token accepts leaves every balance a natural number.     *)
LEMMA MovedType ==
  ASSUME balance \in [Holders -> Nat], NEW from \in Holders, NEW to \in Holders,
         NEW n \in Nat, balance[from] >= n
  PROVE  Moved(from, to, n) \in [Holders -> Nat]
  BY DEF Moved

LEMMA RepaidType ==
  ASSUME TypeOK
  PROVE  /\ Repaid \subseteq Accounts
         /\ IsFiniteSet(Repaid)
         /\ Cardinality(Repaid) \in Nat
<1>1. Repaid \subseteq Accounts
  BY DEF TypeOK, Repaid, Range
<1> QED
  BY <1>1, FS_Subset, FS_CardinalityType, PartiesAssumption

(* fund(), commit() and refundAll() keep every amount of the escrow and of *)
(* the token a natural number: no subtraction underflows.                  *)
LEMMA TypeStep == TypeOK /\ [Next]_vars => TypeOK'
<1> SUFFICES ASSUME TypeOK, [Next]_vars PROVE TypeOK'
  OBVIOUS
<1>a. Amount \in Nat
  BY AmountType DEF TypeOK
<1>h. Escrow \in Holders /\ Accounts \subseteq Holders /\ Seller \in Accounts
  BY PartiesAssumption DEF Holders
<1>1. ASSUME NEW s \in Accounts, Fund(s) PROVE TypeOK'
  <2>1. balance' \in [Holders -> Nat]
    BY <1>1, <1>a, <1>h, MovedType DEF Fund, FundOK, Moves, TypeOK
  <2>2. buyers' \in Seq(Accounts)
    BY <1>1 DEF Fund, TypeOK
  <2> QED
    BY <1>1, <1>a, <2>1, <2>2 DEF Fund, FundOK, Fills, TypeOK
<1>2. ASSUME NEW s \in Accounts, Commit(s) PROVE TypeOK'
  <2>1. balance' \in [Holders -> Nat]
    BY <1>2, <1>h, MovedType DEF Commit, CommitOK, Moves, TypeOK
  <2>2. net' \in [Accounts -> Int]
    BY <1>2, <1>h DEF Commit, TypeOK
  <2> QED
    BY <1>2, <2>1, <2>2 DEF Commit, TypeOK
<1>3. ASSUME NEW s \in Accounts, RefundAll(s) PROVE TypeOK'
  <2>1. /\ Amount * Cardinality(Repaid) \in Nat
        /\ balance[Escrow] \in Nat
    BY <1>a, <1>h, RepaidType DEF TypeOK
  <2>2. balance[Escrow] >= Amount * Cardinality(Repaid)
    <3>1. CASE Repaid = {}
      <4>1. Amount * Cardinality(Repaid) = 0
        BY <3>1, <1>a, FS_EmptySet
      <4> QED BY <4>1, <2>1
    <3>2. CASE Repaid # {}
      BY <1>3, <3>2 DEF RefundAll, RefundOK, Moves
    <3> QED BY <3>1, <3>2
  <2>3. balance' \in [Holders -> Nat]
    <3> SUFFICES ASSUME NEW h \in Holders
                 PROVE  (IF h = Escrow THEN balance[h] - Amount * Cardinality(Repaid)
                         ELSE IF h \in Repaid THEN balance[h] + funded[h]
                         ELSE balance[h]) \in Nat
      BY <1>3 DEF RefundAll
    <3>1. CASE h = Escrow
      BY <3>1, <2>1, <2>2
    <3>2. CASE h # Escrow
      <4>1. h \in Accounts
        BY <3>2 DEF Holders
      <4> QED BY <4>1, <3>2 DEF TypeOK
    <3> QED BY <3>1, <3>2
  <2>4. funded' \in [Accounts -> Nat] /\ net' \in [Accounts -> Int]
    BY <1>3 DEF RefundAll, TypeOK
  <2> QED
    BY <1>3, <2>3, <2>4 DEF RefundAll, TypeOK
<1>4. ASSUME NEW s \in Accounts, TokenStep(s) PROVE TypeOK'
  <2>1. CASE Approve(s)
    BY <2>1, <1>a DEF Approve, TypeOK, escrow
  <2>2. ASSUME NEW to \in Holders, NEW n \in TransferSizes, Transfer(s, to, n)
        PROVE  TypeOK'
    <3>1. balance' \in [Holders -> Nat]
      BY <2>2, <1>h, MovedType, MoneyAssumption DEF Transfer, Moves, TypeOK
    <3> QED
      BY <2>2, <3>1 DEF Transfer, TypeOK, escrow
  <2> QED
    BY <1>4, <2>1, <2>2 DEF TokenStep
<1>5. CASE Refusals
  BY <1>5, MoneyAssumption DEF Refusals, Refuse, Readmit, TypeOK, escrow
<1>6. CASE Tick
  BY <1>6 DEF Tick, TypeOK, escrow, token
<1>7. CASE UNCHANGED vars
  BY <1>7 DEF TypeOK, vars, escrow, token
<1> QED
  BY <1>1, <1>2, <1>3, <1>4, <1>5, <1>6, <1>7 DEF Next, Calls, Environment

LEMMA TypeInit == Init => TypeOK
  BY MoneyAssumption, PartiesAssumption DEF Init, TypeOK, Holders

(* In every behaviour of the escrow, with any token traffic around it, no  *)
(* balance, allowance, slice or total ever becomes negative.               *)
THEOREM TypeCorrect == Spec => []TypeOK
  BY TypeInit, TypeStep, PTL DEF Spec
-----------------------------------------------------------------------------
(***************************************************************************)
(* The inductive invariant.  FullQuorum and AtomicOutcome do not follow    *)
(* from themselves: that the last fund() closes the pool at the right size *)
(* needs buyers to have no repetition (RosterInv), that refundAll() makes  *)
(* everyone whole needs every slice to be Amount (SliceInv) and every      *)
(* funder to be in buyers (RosterInv), and that commit() pays the full     *)
(* price needs totalFunded to count the slices (TotalInv).                 *)
(***************************************************************************)
SliceInv == \A a \in Accounts : funded[a] \in {0, Amount}

RosterInv == state # "Refunded" => /\ Contributors = Range(buyers)
                                   /\ Cardinality(Contributors) = Len(buyers)

TotalInv == totalFunded = Amount * Len(buyers)

QuorumInv == /\ state \in {"Funded", "Committed"} => /\ Len(buyers) = deal.requiredBuyers
                                                     /\ Len(buyers) > 0
             /\ state = "Forming" => buyers = <<>> \/ Len(buyers) # deal.requiredBuyers

SolvencyInv == Open => balance[Escrow] >= totalFunded

IInv == /\ TypeOK
        /\ SliceInv /\ RosterInv /\ TotalInv /\ QuorumInv /\ SolvencyInv
        /\ AtomicOutcome

(* Every deal has a price and a quantity.                                  *)
PricedDeals == \A d \in Deals : d.tierUnitPrice > 0 /\ d.unitQty > 0

LEMMA PricedAmount == ASSUME PricedDeals, deal \in Deals
                      PROVE  Amount \in Nat /\ Amount > 0
<1>1. deal.tierUnitPrice \in Nat /\ deal.unitQty \in Nat
  BY DealsAssumption DEF Deal
<1>2. deal.tierUnitPrice > 0 /\ deal.unitQty > 0
  BY DEF PricedDeals
<1>3. \A p, q \in Nat : p > 0 /\ q > 0 => p * q \in Nat /\ p * q > 0
  OBVIOUS
<1> QED
  BY <1>1, <1>2, <1>3 DEF Amount

LEMMA RangeAppend ==
  ASSUME NEW S, NEW seq \in Seq(S), NEW e \in S
  PROVE  Range(Append(seq, e)) = Range(seq) \cup {e}
<1>1. /\ DOMAIN seq = 1 .. Len(seq)
      /\ DOMAIN Append(seq, e) = 1 .. (Len(seq) + 1)
      /\ Len(seq) \in Nat
  OBVIOUS
<1>2. /\ \A i \in 1 .. Len(seq) : Append(seq, e)[i] = seq[i]
      /\ Append(seq, e)[Len(seq) + 1] = e
  OBVIOUS
<1>3. 1 .. (Len(seq) + 1) = (1 .. Len(seq)) \cup {Len(seq) + 1}
  BY <1>1
<1> QED
  BY <1>1, <1>2, <1>3 DEF Range

(* What the counters and the roster say of an account.                     *)
LEMMA RosterFacts ==
  ASSUME IInv, PricedDeals, state # "Refunded"
  PROVE  /\ Repaid = Contributors
         /\ \A a \in Accounts : funded[a] = IF a \in Range(buyers) THEN Amount ELSE 0
         /\ totalFunded = Amount * Cardinality(Repaid)
<1>1. Amount \in Nat /\ Amount > 0
  BY PricedAmount DEF IInv, TypeOK
<1>2. Contributors = Range(buyers) /\ Cardinality(Contributors) = Len(buyers)
  BY DEF IInv, RosterInv
<1>3. Repaid = Contributors
  BY <1>2 DEF Repaid, Contributors
<1>4. \A a \in Accounts : funded[a] = IF a \in Range(buyers) THEN Amount ELSE 0
  BY <1>1, <1>2 DEF IInv, SliceInv, Contributors
<1> QED
  BY <1>2, <1>3, <1>4 DEF IInv, TotalInv

LEMMA InvInit == PricedDeals /\ Init => IInv
<1> SUFFICES ASSUME PricedDeals, Init PROVE IInv
  OBVIOUS
<1>1. TypeOK
  BY TypeInit
<1>2. Amount \in Nat
  BY AmountType DEF Init
<1>3. Contributors = {} /\ Range(buyers) = {} /\ Len(buyers) = 0
  BY DEF Init, Contributors, Range
<1>4. Cardinality(Contributors) = 0
  BY <1>3, FS_EmptySet
<1>5. AtomicOutcome
  <2>1. \A a \in Accounts : net[a] = 0 /\ funded[a] = 0
    BY DEF Init
  <2>2. \A a \in Accounts : net[a] = - funded[a]
    BY <2>1
  <2> QED
    BY <2>2 DEF Init, AtomicOutcome
<1>6. totalFunded = Amount * Len(buyers) /\ totalFunded = 0
  BY <1>2, <1>3 DEF Init
<1>7. balance[Escrow] = 0
  BY DEF Init, Holders
<1>8. SliceInv /\ QuorumInv
  BY DEF Init, SliceInv, QuorumInv
<1>9. RosterInv /\ TotalInv /\ SolvencyInv
  BY <1>3, <1>4, <1>6, <1>7 DEF RosterInv, TotalInv, SolvencyInv
<1> QED
  BY <1>1, <1>5, <1>8, <1>9 DEF IInv
(* fund() keeps the invariant.                                             *)
LEMMA InvFund ==
  ASSUME IInv, PricedDeals, TypeOK', NEW s \in Accounts, Fund(s)
  PROVE  IInv'
<1> DEFINE amt == Amount
<1>a. amt \in Nat /\ amt > 0 /\ Amount' = amt
  BY PricedAmount DEF IInv, TypeOK, Fund, Amount
<1>t. TypeOK
  BY DEF IInv
<1>n. Len(buyers) \in Nat /\ Len(buyers') = Len(buyers) + 1
  BY <1>t DEF Fund, TypeOK
<1>f. /\ state = "Forming" /\ state' \in {"Forming", "Funded"}
      /\ s \notin Contributors
      /\ funded' = [funded EXCEPT ![s] = amt]
  BY <1>t, <1>a DEF Fund, FundOK, Fills, Contributors, TypeOK
<1>1. SliceInv'
  BY <1>t, <1>a, <1>f DEF IInv, SliceInv, TypeOK
<1>2. RosterInv'
  <2>1. Contributors' = Contributors \cup {s}
    BY <1>t, <1>a, <1>f DEF Contributors, TypeOK
  <2>2. Range(buyers') = Range(buyers) \cup {s}
    BY <1>t, RangeAppend DEF Fund, TypeOK
  <2>3. Contributors = Range(buyers) /\ Cardinality(Contributors) = Len(buyers)
    BY <1>f DEF IInv, RosterInv
  <2>4. IsFiniteSet(Contributors)
    BY PartiesAssumption, FS_Subset DEF Contributors
  <2>5. Cardinality(Contributors \cup {s}) = Cardinality(Contributors) + 1
    BY <2>4, <1>f, FS_AddElement
  <2> QED
    BY <2>1, <2>2, <2>3, <2>5, <1>n DEF RosterInv
<1>3. TotalInv'
  <2>1. totalFunded = amt * Len(buyers)
    BY DEF IInv, TotalInv
  <2>2. totalFunded' = totalFunded + amt
    BY DEF Fund
  <2>3. \A x, y \in Nat : x * y + x = x * (y + 1)
    OBVIOUS
  <2>4. amt * Len(buyers) + amt = amt * (Len(buyers) + 1)
    BY <2>3, <1>a, <1>n
  <2>5. totalFunded' = amt * Len(buyers')
    BY <2>1, <2>2, <2>4, <1>n
  <2> QED
    BY <2>5, <1>a DEF TotalInv
<1>4. QuorumInv'
  BY <1>f, <1>n DEF Fund, Fills, QuorumInv
<1>5. SolvencyInv'
  <2>1. balance[Escrow] >= totalFunded
    BY <1>f DEF IInv, SolvencyInv, Open
  <2>2. balance'[Escrow] = balance[Escrow] + amt
    BY <1>t, <1>a, PartiesAssumption DEF Fund, Moved, TypeOK, Holders
  <2>3. totalFunded' = totalFunded + amt
    BY DEF Fund
  <2>4. balance[Escrow] \in Nat /\ totalFunded \in Nat
    BY <1>t DEF TypeOK, Holders
  <2> QED
    BY <2>1, <2>2, <2>3, <2>4, <1>a DEF SolvencyInv
<1>6. AtomicOutcome'
  <2>1. \A a \in Accounts : net[a] = - funded[a]
    BY <1>f DEF IInv, AtomicOutcome, Open
  <2>2. funded[s] = 0
    BY DEF Fund, FundOK
  <2>3. \A a \in Accounts : net'[a] = - funded'[a]
    BY <1>t, <1>a, <1>f, <2>1, <2>2 DEF Fund, TypeOK
  <2> QED
    BY <2>3, <1>f DEF AtomicOutcome
<1> QED
  BY <1>1, <1>2, <1>3, <1>4, <1>5, <1>6 DEF IInv

(* commit() keeps the invariant.                                           *)
LEMMA InvCommit ==
  ASSUME IInv, PricedDeals, TypeOK', NEW s \in Accounts, Commit(s)
  PROVE  IInv'
<1>t. TypeOK /\ Amount \in Nat
  BY AmountType DEF IInv, TypeOK
<1>u. /\ state = "Funded" /\ state' = "Committed"
      /\ UNCHANGED <<Amount, Contributors, deal, buyers, funded, totalFunded>>
  BY DEF Commit, CommitOK, Amount, Contributors
<1>1. SliceInv' /\ RosterInv' /\ TotalInv' /\ QuorumInv'
  BY <1>u DEF IInv, SliceInv, RosterInv, TotalInv, QuorumInv
<1>2. SolvencyInv'
  BY <1>u DEF SolvencyInv, Open
<1>3. AtomicOutcome'
  <2>1. \A a \in Accounts : net[a] = - funded[a]
    BY <1>u DEF IInv, AtomicOutcome, Open
  <2>2. \A a \in Accounts : funded[a] = IF a \in Range(buyers) THEN Amount ELSE 0
    BY <1>u, RosterFacts
  <2>3. totalFunded = Amount * deal.requiredBuyers
    BY <1>u DEF IInv, TotalInv, QuorumInv
  <2>4. \A a \in Accounts : net'[a] = (IF a = Seller THEN totalFunded ELSE 0) - funded[a]
    BY <1>t, <2>1 DEF Commit, TypeOK
  <2>5. \A a \in Accounts :
          net'[a] = (IF a = Seller THEN Amount * deal.requiredBuyers ELSE 0)
                    - (IF a \in Range(buyers) THEN Amount ELSE 0)
    BY <2>2, <2>3, <2>4
  <2> QED
    BY <2>5, <1>u DEF AtomicOutcome, Open
<1> QED
  BY <1>1, <1>2, <1>3 DEF IInv

(* refundAll() keeps the invariant.                                        *)
LEMMA InvRefundAll ==
  ASSUME IInv, PricedDeals, TypeOK', NEW s \in Accounts, RefundAll(s)
  PROVE  IInv'
<1>t. TypeOK /\ Amount \in Nat
  BY AmountType DEF IInv, TypeOK
<1>u. /\ Open /\ state # "Refunded" /\ state' = "Refunded"
      /\ UNCHANGED <<Amount, deal, buyers, totalFunded>>
  BY DEF RefundAll, RefundOK, Open, Amount
<1>1. SliceInv'
  BY <1>t, <1>u DEF IInv, SliceInv, RefundAll, TypeOK
<1>2. RosterInv' /\ QuorumInv'
  BY <1>u DEF RosterInv, QuorumInv
<1>3. TotalInv'
  BY <1>u DEF IInv, TotalInv
<1>4. SolvencyInv'
  BY <1>u DEF SolvencyInv, Open
<1>5. AtomicOutcome'
  <2>1. \A a \in Accounts : net[a] = - funded[a]
    BY <1>u DEF IInv, AtomicOutcome
  <2>2. Repaid = Contributors
    BY <1>u, RosterFacts
  <2>3. \A a \in Accounts : a \notin Repaid => funded[a] = 0
    BY <2>2, <1>t DEF Contributors, TypeOK
  <2>4. \A a \in Accounts : net'[a] = 0
    BY <1>t, <2>1, <2>3 DEF RefundAll, TypeOK
  <2> QED
    BY <2>4, <1>u DEF AtomicOutcome, Open
<1> QED
  BY <1>1, <1>2, <1>3, <1>4, <1>5 DEF IInv

(* No token traffic and no passing of time disturbs the escrow: outside    *)
(* steps can only add to its balance.                                      *)
LEMMA InvEnvironment ==
  ASSUME IInv, PricedDeals, TypeOK', Environment \/ UNCHANGED vars
  PROVE  IInv'
<1>t. TypeOK
  BY DEF IInv
<1>u. UNCHANGED <<deal, state, buyers, funded, totalFunded, net>>
  BY DEF Environment, TokenStep, Refusals, Approve, Transfer, Refuse, Readmit, Tick,
         vars, escrow
<1>b. balance'[Escrow] >= balance[Escrow]
  <2>1. ASSUME NEW s \in Accounts, NEW to \in Holders, NEW n \in TransferSizes,
               Transfer(s, to, n)
        PROVE  balance'[Escrow] >= balance[Escrow]
    <3>1. n \in Nat /\ s # Escrow /\ s \in Holders /\ Escrow \in Holders
      BY MoneyAssumption, PartiesAssumption DEF Holders
    <3>2. balance' = Moved(s, to, n) /\ balance[Escrow] \in Nat
      BY <2>1, <1>t, <3>1 DEF Transfer, TypeOK
    <3>3. balance'[Escrow] = IF to = Escrow THEN balance[Escrow] + n ELSE balance[Escrow]
      BY <3>1, <3>2, <1>t DEF Moved, TypeOK
    <3> QED
      BY <3>1, <3>2, <3>3
  <2>2. UNCHANGED balance => balance'[Escrow] >= balance[Escrow]
    BY <1>t, PartiesAssumption DEF TypeOK, Holders
  <2>3. \/ UNCHANGED balance
        \/ \E s \in Accounts, to \in Holders, n \in TransferSizes : Transfer(s, to, n)
    BY DEF Environment, TokenStep, Refusals, Approve, Refuse, Readmit, Tick, vars, token
  <2> QED
    BY <2>1, <2>2, <2>3
<1>1. SliceInv' /\ RosterInv' /\ TotalInv' /\ QuorumInv' /\ AtomicOutcome'
  BY <1>u DEF IInv, SliceInv, RosterInv, TotalInv, QuorumInv, AtomicOutcome, Open,
              Amount, Contributors
<1>2. SolvencyInv'
  BY <1>u, <1>b, <1>t, PartiesAssumption DEF IInv, SolvencyInv, Open, TypeOK, Holders
<1> QED
  BY <1>1, <1>2 DEF IInv

THEOREM InductiveInvariant == ASSUME PricedDeals PROVE Spec => []IInv
<1>1. IInv /\ [Next]_vars => IInv'
  <2> SUFFICES ASSUME IInv, [Next]_vars PROVE IInv'
    OBVIOUS
  <2>1. TypeOK'
    BY TypeStep DEF IInv
  <2>2. ASSUME NEW s \in Accounts, Calls(s) PROVE IInv'
    BY <2>1, <2>2, InvFund, InvCommit, InvRefundAll DEF Calls
  <2>3. CASE Environment \/ UNCHANGED vars
    BY <2>1, <2>3, InvEnvironment
  <2> QED
    BY <2>2, <2>3 DEF Next
<1> QED
  BY <1>1, InvInit, PTL DEF Spec
-----------------------------------------------------------------------------
(* A closed pool is full, and an open one is not, for every deal that has  *)
(* a price.                                                                *)
THEOREM FullQuorumHolds == ASSUME PricedDeals PROVE Spec => []FullQuorum
<1>1. IInv => FullQuorum
  <2> SUFFICES ASSUME IInv PROVE FullQuorum
    OBVIOUS
  <2>1. \A a \in Contributors : funded[a] = Amount
    BY DEF IInv, SliceInv, Contributors
  <2> QED
    BY <2>1 DEF IInv, RosterInv, QuorumInv, FullQuorum
<1> QED
  BY <1>1, InductiveInvariant, PTL

(* No partial state: every account is whole after a refund, and after a    *)
(* commit every buyer has paid one slice and the seller has the full price.*)
THEOREM AtomicOutcomeHolds == ASSUME PricedDeals PROVE Spec => []AtomicOutcome
<1>1. IInv => AtomicOutcome
  BY DEF IInv
<1> QED
  BY <1>1, InductiveInvariant, PTL

(* Neither commit() nor the fallback refund can run out of tokens.         *)
THEOREM NeverStuckHolds == ASSUME PricedDeals PROVE Spec => []NeverStuck
<1>1. IInv => NeverStuck
  <2> SUFFICES ASSUME IInv PROVE NeverStuck
    OBVIOUS
  <2>1. Escrow \notin refused /\ Keeper \in Accounts
    BY PartiesAssumption DEF IInv, TypeOK
  <2>2. Open => /\ balance[Escrow] >= totalFunded
                /\ totalFunded = Amount * Cardinality(Repaid)
    BY RosterFacts DEF IInv, SolvencyInv, Open
  <2>3. state = "Funded" /\ Seller \notin refused => CommitOK(Keeper)
    BY <2>1, <2>2 DEF CommitOK, Moves, Open
  <2>4. ASSUME Open, Expired, refused \cap Repaid = {}, NEW a \in Accounts
        PROVE  RefundOK(a)
    BY <2>1, <2>2, <2>4 DEF RefundOK, Moves
  <2> QED
    BY <2>3, <2>4 DEF NeverStuck
<1> QED
  BY <1>1, InductiveInvariant, PTL

LEMMA OutcomeValues ==
  /\ Open => Outcome = "open"
  /\ state = "Committed" => Outcome = "settled"
  /\ state = "Refunded" => Outcome = "cancelled"
  BY DEF Outcome, Open

LEMMA SameCardinality == \A S : Settlement!Cardinality(S) = Cardinality(S)
  BY DEF Settlement!Cardinality, Cardinality

(* The escrow implements the all-or-nothing settlement: fund() is a Pay,   *)
(* commit() the one Settle, refundAll() the one Cancel, and everything     *)
(* else leaves the settlement alone.                                       *)
THEOREM SettlementRefined == ASSUME PricedDeals PROVE Spec => ImplementsSettlement
<1>1. Init => Settlement!Init
  <2> SUFFICES ASSUME Init PROVE Settlement!Init
    OBVIOUS
  <2>1. Amount \in Nat /\ Amount > 0 /\ deal.requiredBuyers \in Nat
    BY PricedAmount, DealsAssumption DEF Init, Deal
  <2>2. Open /\ Contributors = {}
    BY DEF Init, Open, Contributors
  <2> QED
    BY <2>1, <2>2, OutcomeValues DEF Init, Settlement!Init
<1>2. IInv /\ IInv' /\ [Next]_vars => [Settlement!Next]_(Settlement!vars)
  <2> SUFFICES ASSUME IInv, IInv', [Next]_vars
               PROVE  [Settlement!Next]_(Settlement!vars)
    OBVIOUS
  <2>a. /\ TypeOK /\ TypeOK'
        /\ Amount \in Nat /\ Amount > 0
        /\ UNCHANGED <<Amount, deal>>
    <3>1. UNCHANGED deal
      BY DEF Next, Calls, Environment, TokenStep, Refusals, Fund, Commit, RefundAll,
             Approve, Transfer, Refuse, Readmit, Tick, vars
    <3> QED
      BY <3>1, PricedAmount DEF IInv, TypeOK, Amount
  <2>1. ASSUME NEW s \in Accounts, Fund(s) PROVE Settlement!Pay(s)
    <3>1. Open /\ Open' /\ state = "Forming"
      BY <2>1 DEF Fund, FundOK, Fills, Open
    <3>o. Outcome = "open" /\ Outcome' = "open"
      BY <3>1 DEF Outcome, Open
    <3>2. s \notin Contributors /\ Contributors' = Contributors \cup {s}
      BY <2>1, <2>a DEF Fund, FundOK, Fills, Contributors, TypeOK
    <3>3. Cardinality(Contributors) # deal.requiredBuyers \/ deal.requiredBuyers = 0
      <4>1. CASE buyers = <<>>
        BY <4>1, <3>1 DEF IInv, RosterInv
      <4>2. CASE Len(buyers) # deal.requiredBuyers
        BY <4>2, <3>1 DEF IInv, RosterInv
      <4> QED
        BY <3>1, <4>1, <4>2 DEF IInv, QuorumInv
    <3>4. net' = [net EXCEPT ![s] = @ - Amount]
      BY <2>1 DEF Fund
    <3> QED
      BY <2>a, <3>o, <3>2, <3>3, <3>4, SameCardinality DEF Settlement!Pay
  <2>2. ASSUME NEW s \in Accounts, Commit(s) PROVE Settlement!Settle
    <3>1. /\ Open /\ ~ Open' /\ state = "Funded" /\ state' = "Committed"
          /\ UNCHANGED Contributors
      BY <2>2 DEF Commit, CommitOK, Open, Contributors
    <3>o. Outcome = "open" /\ Outcome' = "settled"
      BY <3>1 DEF Outcome, Open
    <3>2. Cardinality(Contributors) = deal.requiredBuyers
      BY <3>1 DEF IInv, RosterInv, QuorumInv
    <3>3. net' = [net EXCEPT ![Seller] = @ + Amount * deal.requiredBuyers]
      BY <2>2, <3>1 DEF Commit, IInv, TotalInv, QuorumInv
    <3>4. Contributors # {}
      <4>1. Cardinality(Contributors) > 0
        BY <3>1 DEF IInv, QuorumInv, RosterInv
      <4>2. Cardinality({}) = 0
        BY FS_EmptySet
      <4> QED
        BY <4>1, <4>2
    <3> QED
      BY <2>a, <3>o, <3>1, <3>2, <3>3, <3>4, SameCardinality DEF Settlement!Settle
  <2>3. ASSUME NEW s \in Accounts, RefundAll(s) PROVE Settlement!Cancel
    <3>1. Open /\ ~ Open' /\ state' = "Refunded" /\ state # "Refunded"
      BY <2>3 DEF RefundAll, RefundOK, Open
    <3>o. Outcome = "open" /\ Outcome' = "cancelled"
      BY <3>1 DEF Outcome, Open
    <3>2. Repaid = Contributors
      BY <3>1, RosterFacts
    <3>3. Contributors' = {}
      BY <2>3, <2>a, <3>2 DEF RefundAll, Contributors, TypeOK
    <3>4. net' = [a \in Accounts |-> 0]
      BY <2>3, <2>a, <3>1 DEF RefundAll, IInv, AtomicOutcome, TypeOK
    <3> QED
      BY <2>a, <3>o, <3>3, <3>4 DEF Settlement!Cancel
  <2>4. CASE Environment \/ UNCHANGED vars
    <3>1. UNCHANGED <<state, funded, net>>
      BY <2>4 DEF Environment, TokenStep, Refusals, Approve, Transfer, Refuse, Readmit,
                  Tick, vars, escrow
    <3> QED
      BY <2>a, <3>1 DEF Settlement!vars, Outcome, Open, Contributors
  <2> QED
    BY <2>1, <2>2, <2>3, <2>4 DEF Next, Calls, Settlement!Next
<1> QED
  BY <1>1, <1>2, InductiveInvariant, PTL
     DEF Spec, ImplementsSettlement, Settlement!Spec
=============================================================================
