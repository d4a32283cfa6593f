---------------------------- MODULE FundingProofs ----------------------------
(***************************************************************************)
(* Theorems about the clients that pay into a coalition, for any number of *)
(* agents and script runs, any sharing of keys, and any failures.          *)
(***************************************************************************)
EXTENDS Funding, KeeperProofs

(* What a client does to the escrow a buyer may do; the keeper never sees  *)
(* more than that.                                                         *)
LEMMA FundingActsOnKeeper == [FundingNext]_fvars => [KeeperNext]_kvars
<1> SUFFICES ASSUME FundingNext, ~ UNCHANGED kvars PROVE KeeperNext
  BY DEF fvars
<1>1. ASSUME NEW c \in Clients, ClientStep(c) PROVE KeeperNext
  <2> Owner[c] \in Accounts
    BY ClientsAssumption
  <2>1. CASE Approves(c)
    BY <2>1 DEF Approves, KeeperNext, Others, TokenStep
  <2>2. CASE Funds(c)
    BY <2>2 DEF Funds, KeeperNext, Others, kvars
  <2> QED
    BY <1>1, <2>1, <2>2 DEF ClientStep, ReadsState, ReadsClock, ReadsPaid, ReadsBalance,
                            ReadsSlice, ReadsAllowance, Confirms, Reads
<1>2. ASSUME NEW c \in Clients, Throws(c) \/ Retries(c) PROVE KeeperNext
  BY <1>2 DEF Throws, Retries, Reads
<1>3. CASE KeeperStep \/ RpcFails \/ (Bystanders /\ UNCHANGED keeper)
  BY <1>3 DEF KeeperNext, Others
<1> QED
  BY <1>1, <1>2, <1>3 DEF FundingNext

(* So what is proved of the keeper and of the escrow holds whichever of    *)
(* the two programs pays.                                                  *)
THEOREM FundingUsesKeeper == FundingSpec => KeeperSpec
<1>1. FundingInit => KeeperInit
  BY DEF FundingInit
<1> QED
  BY <1>1, FundingActsOnKeeper, PTL DEF FundingSpec, KeeperSpec

(* "No partial state" (Coalition.sol:9) with the real payers around it.    *)
THEOREM FundingIsAtomic == ASSUME PricedDeals PROVE FundingSpec => []AtomicOutcome
  BY FundingUsesKeeper, KeeperUsesEscrow, AtomicOutcomeHolds, PTL

(* And as a refinement: agents and scripts that pay await by await, with   *)
(* shared keys and failures, make up an all-or-nothing settlement.         *)
THEOREM FundingSettles == ASSUME PricedDeals PROVE FundingSpec => ImplementsSettlement
  BY FundingUsesKeeper, KeeperSettles, PTL
-----------------------------------------------------------------------------
LEMMA FundingTypeInit == FundingInit => FundingTypeOK
  BY KeeperTypeInit DEF FundingInit, FundingTypeOK, Start, Awaits, Ends

LEMMA FundingTypeStep == FundingTypeOK /\ [FundingNext]_fvars => FundingTypeOK'
<1> SUFFICES ASSUME FundingTypeOK, [FundingNext]_fvars PROVE FundingTypeOK'
  OBVIOUS
<1>1. KeeperTypeOK'
  BY FundingActsOnKeeper, KeeperTypeStep DEF FundingTypeOK
<1> USE DEF FundingTypeOK, Awaits, Ends
<1>2. ASSUME NEW c \in Clients, ClientStep(c) PROVE at' \in [Clients -> Awaits \cup Ends]
  BY <1>2 DEF ClientStep, ReadsState, ReadsClock, ReadsPaid, ReadsBalance, ReadsSlice,
              ReadsAllowance, Approves, Funds, Confirms, Reads, Goes
<1>3. ASSUME NEW c \in Clients, Throws(c) \/ Retries(c)
      PROVE  at' \in [Clients -> Awaits \cup Ends]
  BY <1>3 DEF Throws, Retries, Reads, Goes, Start
<1> QED
  BY <1>1, <1>2, <1>3 DEF FundingNext, fvars

(* A client is always at one of its awaits or ends, and no payment, by     *)
(* however many clients of one key, drives an allowance or a balance below *)
(* zero.                                                                   *)
THEOREM FundingTypeCorrect == FundingSpec => []FundingTypeOK
  BY FundingTypeInit, FundingTypeStep, PTL DEF FundingSpec
-----------------------------------------------------------------------------
(***************************************************************************)
(* NoMissedPayment.  What a client once knew of its account stays true as  *)
(* long as it matters: an account whose payment is over stays so, and one  *)
(* with an allowance keeps it until it pays.  That needs the account's     *)
(* money to be either in its wallet or in the pool while the pool is       *)
(* Forming, so that a fund() that reverts had nothing left to pay with.    *)
(***************************************************************************)

(* No payment by account a is missing any more, or ever will be.           *)
Over(a) == \/ funded[a] = Amount
           \/ state # "Forming" \/ TooLate
           \/ Endowment[a] < Amount

CanPay(a) == allowance[a] >= Amount \/ Over(a)

WalletInv == \A a \in Accounts :
  /\ funded[a] \in {0, Amount}
  /\ state = "Forming" => balance[a] + funded[a] = Endowment[a]

ClientInv == \A c \in Clients :
  /\ at[c] = "fund" => CanPay(Owner[c])
  /\ at[c] \in {"receipt", "confirmed", "nothing"} => Over(Owner[c])

FundingInv == FundingTypeOK /\ Serving /\ WalletInv /\ ClientInv

(* The escrow's steps in this composition: no token moves but the slices.  *)
Quiet == (\E s \in Accounts : Calls(s) \/ Approve(s)) \/ Refusals \/ Tick

LEMMA FundingIsQuiet == [FundingNext]_fvars => [Quiet]_vars
<1> SUFFICES ASSUME FundingNext, ~ UNCHANGED vars PROVE Quiet
  BY DEF fvars, kvars
<1> Keeper \in Accounts /\ Rescuers \subseteq Accounts /\ \A c \in Clients : Owner[c] \in Accounts
  BY PartiesAssumption, KeeperAssumption, ClientsAssumption
<1>1. ASSUME NEW c \in Clients, ClientStep(c) \/ Throws(c) \/ Retries(c) PROVE Quiet
  BY <1>1 DEF ClientStep, ReadsState, ReadsClock, ReadsPaid, ReadsBalance, ReadsSlice,
              ReadsAllowance, Approves, Funds, Confirms, Reads, Throws, Retries, kvars,
              Quiet, Calls
<1>2. CASE KeeperStep \/ RpcFails
  BY <1>2 DEF KeeperStep, ReadState, ReadClock, Decide, SendCommit, SendRefund, Reverts,
              RpcFails, Quiet, Calls
<1>3. CASE Bystanders
  BY <1>3 DEF Bystanders, Quiet, Calls
<1> QED
  BY <1>1, <1>2, <1>3 DEF FundingNext

LEMMA QuietIsNext == [Quiet]_vars => [Next]_vars
  BY DEF Quiet, Next, Environment, TokenStep

LEMMA TooLateStays ==
  ASSUME TypeOK, [Next]_vars, TooLate
  PROVE  TooLate'
<1>1. deal' = deal /\ now \in Nat /\ now' \in Nat /\ now <= now'
  BY PoolMovesOn DEF TypeOK
<1>2. PICK d \in Skews \cup {0} : deal.validUntil <= now + d
  BY DEF TooLate
<1>3. d \in Int /\ deal.validUntil \in Nat
  BY KeeperAssumption, DealsAssumption DEF TypeOK, Deal
<1>4. deal'.validUntil <= now' + d
  BY <1>1, <1>2, <1>3
<1> QED
  BY <1>4 DEF TooLate

LEMMA OverStays ==
  ASSUME TypeOK, Quiet \/ UNCHANGED vars, NEW a \in Accounts
  PROVE  /\ Over(a) => Over(a)'
         /\ CanPay(a) => CanPay(a)'
<1> DEFINE amt == Amount
<1>1. /\ [Next]_vars /\ deal' = deal /\ amt \in Nat /\ Amount' = amt
      /\ state # "Forming" => state' # "Forming"
  BY QuietIsNext, PoolMovesOn, AmountType DEF TypeOK, Amount
<1>2. TooLate => TooLate'
  BY <1>1, TooLateStays
<1> HIDE DEF amt
<1>3. /\ state' = "Forming" /\ funded[a] = amt => funded'[a] = amt
      /\ allowance[a] >= amt => allowance'[a] >= amt \/ funded'[a] = amt
  <2>1. ASSUME NEW s \in Accounts, Fund(s) PROVE <1>3!:
    BY <1>1, <2>1 DEF Fund, amt, TypeOK
  <2>2. ASSUME NEW s \in Accounts, Commit(s) \/ RefundAll(s) PROVE <1>3!:
    BY <1>1, <2>2 DEF Commit, RefundAll, TypeOK
  <2>3. ASSUME NEW s \in Accounts, Approve(s) PROVE <1>3!:
    BY <1>1, <2>3 DEF Approve, escrow, amt, TypeOK
  <2>4. CASE Refusals \/ Tick \/ UNCHANGED vars
    BY <2>4 DEF Refusals, Refuse, Readmit, Tick, vars, escrow, token
  <2> QED
    BY <2>1, <2>2, <2>3, <2>4 DEF Quiet, Calls
<1> QED
  BY <1>1, <1>2, <1>3 DEF Over, CanPay, amt

LEMMA WalletStep ==
  ASSUME TypeOK, WalletInv, Quiet \/ UNCHANGED vars
  PROVE  WalletInv'
<1> DEFINE amt == Amount
<1>1. /\ amt \in Nat /\ Amount' = amt
  BY QuietIsNext, PoolMovesOn, AmountType DEF TypeOK, Amount
<1>2. /\ Escrow \notin Accounts /\ Endowment \in [Accounts -> Nat] /\ Accounts \subseteq Holders
  BY PartiesAssumption, MoneyAssumption DEF Holders
<1> HIDE DEF amt
<1>3. ASSUME NEW s \in Accounts, Fund(s) PROVE WalletInv'
  <2> SUFFICES ASSUME NEW a \in Accounts
               PROVE  /\ funded'[a] \in {0, amt}
                      /\ balance'[a] + funded'[a] = Endowment[a]
    BY <1>1 DEF WalletInv
  <2>0. /\ state = "Forming" /\ balance[a] + funded[a] = Endowment[a]
        /\ funded[a] \in {0, amt}
        /\ balance[a] \in Nat /\ funded[s] = 0
    BY <1>2, <1>3 DEF WalletInv, Fund, FundOK, TypeOK, amt
  <2>1. /\ funded'[a] = IF a = s THEN amt ELSE funded[a]
        /\ balance'[a] = IF a = s THEN balance[a] - amt ELSE balance[a]
    BY <1>2, <1>3 DEF Fund, Moved, TypeOK, amt
  <2> QED
    BY <2>0, <2>1, <1>1
<1>4. ASSUME NEW s \in Accounts, Commit(s) PROVE WalletInv'
  BY <1>1, <1>4 DEF Commit, WalletInv, amt
<1>5. ASSUME NEW s \in Accounts, RefundAll(s) PROVE WalletInv'
  BY <1>1, <1>5 DEF RefundAll, WalletInv, amt
<1>6. CASE (\E s \in Accounts : Approve(s)) \/ Refusals \/ Tick \/ UNCHANGED vars
  BY <1>1, <1>6 DEF Approve, Refusals, Refuse, Readmit, Tick, vars, escrow, token, WalletInv, amt
<1> QED
  BY <1>3, <1>4, <1>5, <1>6 DEF Quiet, Calls

(* What a client reads before it gives up, and what a fund() that reverts  *)
(* means.                                                                  *)
LEMMA NothingToPay ==
  ASSUME TypeOK, WalletInv, Serving, NEW a \in Accounts
  PROVE  /\ state # "Forming" \/ TooLate => Over(a)
         /\ funded[a] > 0 => Over(a)
         /\ balance[a] < Amount => Over(a)
         /\ CanPay(a) /\ ~ FundOK(a) => Over(a)
<1> DEFINE amt == Amount
<1>1. /\ amt \in Nat /\ a \in Holders /\ balance[a] \in Nat /\ Endowment[a] \in Nat
      /\ deal.validUntil \in Nat /\ now \in Nat
  BY AmountType, MoneyAssumption, DealsAssumption DEF TypeOK, Holders, Deal
<1>2. /\ funded[a] \in {0, amt}
      /\ state = "Forming" => balance[a] + funded[a] = Endowment[a]
  BY DEF WalletInv
<1>3. ~ now <= deal.validUntil => TooLate
  BY <1>1 DEF TooLate
<1>4. a \notin refused /\ Escrow \notin refused
  BY DEF Serving
<1> HIDE DEF amt
<1>5. /\ funded[a] > 0 => funded[a] = amt
      /\ balance[a] < amt /\ state = "Forming" => funded[a] = amt \/ Endowment[a] < amt
      /\ ~ allowance[a] >= amt /\ CanPay(a) => Over(a)
  BY <1>1, <1>2 DEF CanPay, amt
<1>6. ~ FundOK(a) => \/ state # "Forming" \/ TooLate
                     \/ funded[a] # 0 \/ ~ allowance[a] >= amt \/ balance[a] < amt
  BY <1>1, <1>3, <1>4 DEF FundOK, Moves, amt
<1> QED
  BY <1>1, <1>2, <1>5, <1>6 DEF Over, amt
-----------------------------------------------------------------------------
(* One step of one client keeps what is known of every client.             *)
LEMMA ClientInvStep ==
  ASSUME FundingInv, FundingTypeOK', [FundingNext]_fvars
  PROVE  ClientInv'
<1> SUFFICES ASSUME NEW k \in Clients
             PROVE  /\ at'[k] = "fund" => CanPay(Owner[k])'
                    /\ at'[k] \in {"receipt", "confirmed", "nothing"} => Over(Owner[k])'
  BY DEF ClientInv
<1> DEFINE a == Owner[k]
<1>1. /\ a \in Accounts /\ TypeOK /\ WalletInv /\ Serving /\ ClientInv
      /\ at \in [Clients -> Awaits \cup Ends]
  BY ClientsAssumption DEF FundingInv, FundingTypeOK, KeeperTypeOK
<1>2. /\ Over(a) => Over(a)'
      /\ CanPay(a) => CanPay(a)'
  BY <1>1, FundingIsQuiet, OverStays
<1>3. /\ state # "Forming" \/ TooLate => Over(a)
      /\ funded[a] > 0 => Over(a)
      /\ balance[a] < Amount => Over(a)
      /\ CanPay(a) /\ ~ FundOK(a) => Over(a)
  BY <1>1, NothingToPay
<1>4. /\ at[k] = "fund" => CanPay(a)
      /\ at[k] \in {"receipt", "confirmed", "nothing"} => Over(a)
  BY <1>1 DEF ClientInv
<1> DEFINE Goal == /\ at'[k] = "fund" => CanPay(a)'
                   /\ at'[k] \in {"receipt", "confirmed", "nothing"} => Over(a)'
<1>5. ASSUME at'[k] = at[k] PROVE Goal
  BY <1>2, <1>4, <1>5
<1>6. ASSUME NEW c \in Clients, Throws(c) \/ Retries(c) PROVE Goal
  <2>1. CASE c = k
    BY <1>1, <1>6, <2>1 DEF Throws, Retries, Reads, Goes, Start
  <2> QED
    BY <1>1, <1>5, <1>6, <2>1 DEF Throws, Retries, Reads, Goes
<1>7. ASSUME NEW c \in Clients, ClientStep(c) PROVE Goal
  <2>1. CASE c # k
    <3>1. at'[k] = at[k]
      BY <1>1, <1>7, <2>1 DEF ClientStep, ReadsState, ReadsClock, ReadsPaid, ReadsBalance,
           ReadsSlice, ReadsAllowance, Approves, Funds, Confirms, Reads, Goes
    <3> QED
      BY <3>1, <1>5
  <2>2. CASE c = k
    <3>1. CASE ReadsState(k)
      BY <1>1, <1>2, <1>3, <3>1 DEF ReadsState, Reads, Goes
    <3>2. CASE ReadsClock(k)
      <4>1. at'[k] = "nothing" => TooLate
        BY <1>1, <3>2 DEF ReadsClock, Reads, Goes, TooLate
      <4> QED
        BY <1>1, <1>2, <1>3, <3>2, <4>1 DEF ReadsClock, Reads, Goes
    <3>3. CASE ReadsPaid(k) \/ ReadsBalance(k)
      BY <1>1, <1>2, <1>3, <3>3 DEF ReadsPaid, ReadsBalance, Reads, Goes
    <3>4. CASE ReadsSlice(k) \/ Confirms(k)
      BY <1>1, <1>2, <1>4, <3>4 DEF ReadsSlice, Confirms, Reads, Goes
    <3>5. CASE ReadsAllowance(k)
      <4>1. allowance[a] \in Nat /\ Amount \in Nat
        BY <1>1, AmountType DEF TypeOK
      <4>2. at'[k] = "fund" => CanPay(a)
        BY <1>1, <3>5, <4>1 DEF ReadsAllowance, Reads, Goes, CanPay
      <4> QED
        BY <1>1, <1>2, <3>5, <4>2 DEF ReadsAllowance, Reads, Goes
    <3>6. CASE Approves(k)
      <4>1. allowance'[a] = Amount /\ Amount \in Nat /\ Amount' = Amount
        BY <1>1, <3>6, AmountType DEF Approves, Approve, TypeOK, Amount
      <4>2. CanPay(a)'
        BY <4>1 DEF CanPay
      <4> QED
        BY <1>1, <3>6, <4>2 DEF Approves, Goes
    <3>7. CASE Funds(k)
      <4>1. CASE Fund(a)
        <5>1. funded'[a] = Amount /\ Amount' = Amount
          BY <1>1, <4>1 DEF Fund, TypeOK, Amount
        <5> QED
          BY <1>1, <3>7, <5>1 DEF Funds, Goes, Over
      <4>2. CASE ~ FundOK(a)
        BY <1>1, <1>2, <1>3, <1>4, <3>7, <4>2 DEF Funds, Goes
      <4> QED
        BY <3>7, <4>1, <4>2 DEF Funds
    <3> QED
      BY <1>7, <2>2, <3>1, <3>2, <3>3, <3>4, <3>5, <3>6, <3>7 DEF ClientStep
  <2> QED
    BY <2>1, <2>2
<1>8. CASE (KeeperStep \/ RpcFails \/ (Bystanders /\ UNCHANGED keeper)) /\ UNCHANGED at
  BY <1>5, <1>8
<1>9. CASE UNCHANGED fvars
  BY <1>5, <1>9 DEF fvars
<1> QED
  BY <1>6, <1>7, <1>8, <1>9 DEF FundingNext

LEMMA FundingInvStep ==
  ASSUME Refusable = {}, FundingInv, [FundingNext]_fvars
  PROVE  FundingInv'
<1>1. FundingTypeOK'
  BY FundingTypeStep DEF FundingInv
<1>2. Serving'
  BY FundingIsQuiet, QuietIsNext, ServingStep DEF FundingInv
<1>3. WalletInv'
  BY FundingIsQuiet, WalletStep DEF FundingInv, FundingTypeOK, KeeperTypeOK
<1>4. ClientInv'
  BY <1>1, ClientInvStep
<1> QED
  BY <1>1, <1>2, <1>3, <1>4 DEF FundingInv

LEMMA FundingInvInit == FundingInit => FundingInv
<1> SUFFICES ASSUME FundingInit PROVE FundingInv
  OBVIOUS
<1>1. FundingTypeOK
  BY FundingTypeInit
<1>2. WalletInv
  BY PartiesAssumption, MoneyAssumption
     DEF FundingInit, KeeperInit, Init, WalletInv, Holders
<1>3. ClientInv
  BY DEF FundingInit, ClientInv, Start
<1> QED
  BY <1>1, <1>2, <1>3 DEF FundingInv, FundingInit, KeeperInit, Init, Serving

(* With a token that serves everyone, no client gives up or believes it    *)
(* has paid while a payment it could make is missing: for any number of    *)
(* clients, keys shared in any way, any clocks and any failures.           *)
THEOREM NoMissedPaymentHolds ==
  ASSUME Refusable = {}
  PROVE  FundingSpec => []NoMissedPayment
<1>1. FundingInv /\ [FundingNext]_fvars => FundingInv'
  BY FundingInvStep
<1>2. FundingInv => NoMissedPayment
  BY DEF FundingInv, ClientInv, Over, NoMissedPayment
<1> QED
  BY <1>1, <1>2, FundingInvInit, PTL DEF FundingSpec
=============================================================================
