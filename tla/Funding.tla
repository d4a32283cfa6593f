------------------------------- MODULE Funding -------------------------------
(***************************************************************************)
(* The two programs that pay a slice into a coalition: an agent's          *)
(* fundCoalitionForBuyer() (agent/src/chain.ts) and the operator's one-shot*)
(* contracts/scripts/fund-buyer.ts, as clients of the escrow beside its    *)
(* keeper.  Each reads, approves and funds over many awaits, and nothing   *)
(* it read is still known to be true when it acts: other buyers fund, the  *)
(* keeper ends the pool, time passes, and two clients may hold one key, as *)
(* when an operator pays for a buyer whose agent is running after all.     *)
(***************************************************************************)
EXTENDS KeeperLoop

CONSTANTS
  Clients,      \* the agents' calls and the runs of the script
  Owner,        \* whose key each of them holds
  Scripts,      \* the clients that are runs of the script
  Unreliable    \* clients whose RPC may throw

ASSUME ClientsAssumption == /\ Owner \in [Clients -> Accounts]
                            /\ Scripts \subseteq Clients /\ Unreliable \subseteq Clients

VARIABLE at     \* the await each client is at, or how it ended

fvars == <<kvars, at>>

(* "slice" is where an agent starts, "state" where the script does.        *)
Awaits == {"slice", "state", "clock", "paid", "balance", "allowance", "approve", "fund", "receipt"}
Ends == {"nothing", "confirmed", "failed"}
Start(c) == IF c \in Scripts THEN "state" ELSE "slice"

(* One await of c ends, and what it read decides what c does next.         *)
Goes(c, here, next) == at[c] = here /\ at' = [at EXCEPT ![c] = next]
Reads(c, here, next) == Goes(c, here, next) /\ UNCHANGED kvars

FundingInit == KeeperInit /\ at = [c \in Clients |-> Start(c)]
-----------------------------------------------------------------------------
(* fund-buyer.ts reads the state, then its own clock.                      *)
ReadsState(c) == Reads(c, "state", IF state = "Forming" THEN "clock" ELSE "nothing")

ReadsClock(c) == \E d \in Skews :
  Reads(c, "clock", IF deal.validUntil <= now + d THEN "nothing" ELSE "paid")

ReadsPaid(c) == Reads(c, "paid", IF funded[Owner[c]] > 0 THEN "nothing" ELSE "balance")

ReadsBalance(c) ==
  Reads(c, "balance", IF balance[Owner[c]] < Amount THEN "nothing" ELSE "allowance")

(* chain.ts only asks for a slice; it refuses to pay nothing.              *)
ReadsSlice(c) == Reads(c, "slice", IF Amount = 0 THEN "failed" ELSE "allowance")

ReadsAllowance(c) ==
  Reads(c, "allowance", IF allowance[Owner[c]] < Amount THEN "approve" ELSE "fund")

(* approve(coalition, slice), mined.                                       *)
Approves(c) == /\ Goes(c, "approve", "fund")
               /\ Approve(Owner[c])
               /\ UNCHANGED keeper

(* fund(), sent with a gas limit of its own: mined even when it reverts.   *)
Funds(c) == /\ Goes(c, "fund", "receipt")
            /\ \/ Fund(Owner[c])
               \/ ~ FundOK(Owner[c]) /\ UNCHANGED vars
            /\ UNCHANGED keeper

(* The receipt comes, and its status is not looked at: "fund: success",    *)
(* "fund() confirmed!".                                                    *)
Confirms(c) == Reads(c, "receipt", "confirmed")

(* Variant: a client that fails takes its approval back.                   *)
ThrowsRevoking(c) == /\ c \in Unreliable
                     /\ at[c] \in Awaits
                     /\ Goes(c, at[c], "failed")
                     /\ allowance' = [allowance EXCEPT ![Owner[c]] = 0]
                     /\ UNCHANGED <<deal, escrow, balance, refused, now, net, keeper>>

(* An RPC error, at any await: a transaction may or may not have been sent.*)
Throws(c) == /\ c \in Unreliable
             /\ at[c] \in Awaits
             /\ Reads(c, at[c], "failed")

(* The script is run again; an agent starts over when the announcement of  *)
(* the coalition comes again, for only a payment it confirmed is remembered*)
Retries(c) == /\ at[c] \in (IF c \in Scripts THEN Ends ELSE {"failed"})
              /\ Reads(c, at[c], Start(c))

ClientStep(c) == \/ ReadsState(c) \/ ReadsClock(c) \/ ReadsPaid(c) \/ ReadsBalance(c)
                 \/ ReadsSlice(c) \/ ReadsAllowance(c)
                 \/ Approves(c) \/ Funds(c) \/ Confirms(c)

(* Beside the clients: the keeper's process, whoever else may end the pool,*)
(* and time.                                                               *)
FundingNext == \/ \E c \in Clients : ClientStep(c) \/ Throws(c) \/ Retries(c)
               \/ (KeeperStep \/ RpcFails \/ (Bystanders /\ UNCHANGED keeper)) /\ UNCHANGED at

FundingSpec == FundingInit /\ [][FundingNext]_fvars

(* The keeper's loop goes on and blocks come; no client has to.            *)
FairFundingSpec == /\ FundingSpec
                   /\ WF_fvars(KeeperStep /\ UNCHANGED at)
                   /\ WF_fvars(Tick /\ UNCHANGED keeper /\ UNCHANGED at)
-----------------------------------------------------------------------------
FundingTypeOK == KeeperTypeOK /\ at \in [Clients -> Awaits \cup Ends]

(* A client's clock says that the deadline has come.                       *)
TooLate == \E d \in Skews \cup {0} : deal.validUntil <= now + d

(* A client gives up, or believes it has paid, only when there is nothing  *)
(* left to do: its account has a slice in the pool, or the pool is no      *)
(* longer Forming, or its time is over, or the account never had a slice.  *)
(* So an allowance that one client finds is not gone when it funds, unless *)
(* the account has paid, however two clients of one key interleave, fail   *)
(* and are run again (chain.ts:230-266, fund-buyer.ts:49-107).             *)
NoMissedPayment == \A c \in Clients : at[c] \in {"nothing", "confirmed"} =>
  \/ funded[Owner[c]] = Amount
  \/ state # "Forming" \/ TooLate
  \/ Endowment[Owner[c]] < Amount

(* Whoever dropped out, whatever failed and was run again: in the end the  *)
(* deal is committed or nobody is out of pocket, unless the keeper died    *)
(* (keeper.ts:38-62, demo-dropout-replay.ps1:4-6).                         *)
MadeWhole == <>[](state = "Committed" \/ pc = "crashed" \/ \A a \in Accounts : net[a] = 0)
=============================================================================
