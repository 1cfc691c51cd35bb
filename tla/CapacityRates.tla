---------------------------- MODULE CapacityRates ----------------------------
(***************************************************************************)
(* How big an account's talk-capacity bucket is and how fast it fills, from*)
(* the weight (locked lovelace) the observer credits it with.              *)
(*                                                                         *)
(* The code's u128 saturates. At the runtime's values (weights below the   *)
(* whole ADA supply, CapRatio 3000, u32 block numbers) no product comes    *)
(* near 2^128, so the naturals here are exact.                             *)
(***************************************************************************)
EXTENDS Integers, StorageMap

CONSTANTS
    Accounts,
    Weights,       \* stake weights the observer can apply, 0 among them
    CapRatio,      \* bucket units per unit of weight
    RegenPerBlock, \* refill per block, as a share 1 / CapRatio of the bucket
    Ceiling        \* the bucket no weight exceeds

ASSUME WeightsAreNat == Weights \subseteq Nat /\ 0 \in Weights
ASSUME RatesAreNat == CapRatio \in Nat /\ RegenPerBlock \in Nat /\ Ceiling \in Nat

Lesser(x, y) == IF x <= y THEN x ELSE y

\* capacity_ceiling: capped-linear in the weight.
CapacityCeiling(weight) == Lesser(weight * CapRatio, Ceiling)

\* Mutant: the rate is linear in the weight, clamped nowhere.
BugRegenPerBlock(weight) == weight * RegenPerBlock

\* regen_per_block: derived from the bucket, so both axes share one knee.
RegenPerBlockAt(weight) ==
    IF CapRatio = 0 THEN 0 ELSE (CapacityCeiling(weight) * RegenPerBlock) \div CapRatio

===============================================================================
