---------------------------- MODULE ChargingBucket ----------------------------
(***************************************************************************)
(* What talk capacity promises, without the lazy arithmetic: every open    *)
(* bucket is charged once per block at the weight its account holds in     *)
(* that block, never above what that weight backs, and a call is included  *)
(* only if its cost is in the bucket.                                      *)
(***************************************************************************)
EXTENDS CapacityRates

VARIABLES
    now,           \* block number
    AllowedStake,  \* weight per account
    bucket         \* charge per open bucket; no row is a bucket not yet opened

bucketVars == <<now, AllowedStake, bucket>>

\* What the account may spend now.
Level(a) == IF a \in DOMAIN bucket
            THEN Lesser(CapacityCeiling(AllowedStake[a]), bucket[a])
            ELSE 0

\* A bucket is opened empty and only once.
Opened(a) == IF a \in DOMAIN bucket THEN bucket ELSE MapInsert(bucket, a, 0)

Block ==
    /\ now' = now + 1
    /\ bucket' = [a \in DOMAIN bucket |->
                     Lesser(CapacityCeiling(AllowedStake[a]),
                            bucket[a] + RegenPerBlockAt(AllowedStake[a]))]
    /\ UNCHANGED AllowedStake

Weigh(a, weight) ==
    /\ AllowedStake' = [AllowedStake EXCEPT ![a] = weight]
    /\ bucket' = Opened(a)
    /\ UNCHANGED now

Open(a) == bucket' = Opened(a) /\ UNCHANGED <<now, AllowedStake>>

Forfeit(a) ==
    /\ a \in DOMAIN bucket
    /\ bucket' = MapInsert(bucket, a, 0)
    /\ UNCHANGED <<now, AllowedStake>>

Prime(a, amount) ==
    /\ bucket' = MapInsert(bucket, a, Lesser(amount, CapacityCeiling(AllowedStake[a])))
    /\ UNCHANGED <<now, AllowedStake>>

Spend(a, cost) ==
    /\ cost <= Level(a)
    /\ bucket' = MapInsert(bucket, a, Level(a) - cost)
    /\ UNCHANGED <<now, AllowedStake>>

Init == now = 0 /\ AllowedStake \in [Accounts -> Weights] /\ bucket = EmptyMap

Next ==
    \/ Block
    \/ \E a \in Accounts :
           \/ \E weight \in Weights : Weigh(a, weight)
           \/ Open(a)
           \/ Forfeit(a)
           \/ \E amount \in 0..Ceiling : Prime(a, amount)
           \/ \E cost \in 0..Ceiling : Spend(a, cost)

Spec == Init /\ [][Next]_bucketVars

===============================================================================
