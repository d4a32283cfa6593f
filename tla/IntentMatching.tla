--------------------------- MODULE IntentMatching ---------------------------
(***************************************************************************)
(* When two intents are the same to the agents (agent/src/intent.ts): the  *)
(* commitment an agent broadcasts is a hash of the canonical SKU, a bucket *)
(* of the maximum price and a bucket of the deadline.  SHA-256 is taken to *)
(* be injective, so a commitment is the triple that is hashed.  Prices are *)
(* in cents.                                                               *)
(***************************************************************************)
EXTENDS Integers

CONSTANTS
  Skus,         \* the ways buyers spell SKUs
  CanonicalSku  \* canonicalSku(): a spelling trimmed and in lower case

ASSUME SkuAssumption == /\ CanonicalSku \in [Skus -> Skus]
                        /\ \A s \in Skus : CanonicalSku[CanonicalSku[s]] = CanonicalSku[s]

TIER_STEP == 50
DEADLINE_BUCKET_MS == 6 * 60 * 60 * 1000

IntentType == [sku : Skus, max : Nat, deadline : Nat, qty : Nat \ {0}]

(* Variant: the bucket rounded down.                                       *)
TierBucketDown(max) == max \div TIER_STEP

(* Rounded up: 1.85 is in the bucket that ends at 2.00, as 2.00 is.        *)
TierBucket(max) == (max + TIER_STEP - 1) \div TIER_STEP

(* A maximum rounded up to a multiple of the step: what its owner has to   *)
(* reckon with, whichever way the buckets are worked out.                  *)
Ceiling(max) == max + ((- max) % TIER_STEP)

DeadlineBucket(ms) == ms \div DEADLINE_BUCKET_MS

Commitment(i) == <<CanonicalSku[i.sku], TierBucket(i.max), DeadlineBucket(i.deadline)>>
=============================================================================
