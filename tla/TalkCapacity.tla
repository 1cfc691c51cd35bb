----------------------------- MODULE TalkCapacity -----------------------------
(***************************************************************************)
(* The talk-capacity meter: pallet-microblog's lazily regenerating bucket, *)
(* the weight pallet-talk-stake holds for it, the CheckCapacity extension  *)
(* that prices every feeless call (pallet-profile's too), and the bind and *)
(* revoke hooks that open a bucket, forfeit it, and hold the provider      *)
(* reference a feeless account lives on.                                   *)
(*                                                                         *)
(* A block runs the observer's inherent first and its extrinsics after.    *)
(***************************************************************************)
EXTENDS CapacityRates

CONSTANTS
    Calls,        \* extrinsics: [kind, len (of the text), size (encoded)]
    BaseCost, PerByteCost, VoteCost, FollowCost, ProfileCost,
    MaxLength,    \* longest text of a post, a quote, a poll question, a profile field
    MaxMeteredCallLen, \* MAX_METERED_CALL_LEN
    Primes,       \* amounts the committee may force
    MaxProviders, \* bound on an account's leaked provider references
    MaxBlock      \* bound on the block number

ASSUME CostsAreNat ==
    {BaseCost, PerByteCost, VoteCost, FollowCost, ProfileCost, MaxLength,
     MaxMeteredCallLen, MaxProviders, MaxBlock} \subseteq Nat
ASSUME PrimesAreNat == Primes \subseteq Nat
ASSUME CallsAreCalls ==
    Calls \subseteq
        [kind : {"text", "vote", "follow", "set_profile", "clear_profile", "pin_post",
                 "unpin_post", "unmetered"},
         len : Nat, size : Nat]

VARIABLES
    now,           \* block number
    phase,         \* "inherent": the observer applies weights; "body": extrinsics
    AllowedStake,  \* talk-stake's weight per account
    Capacity,      \* rows [cap_last, last_block]
    bound,         \* accounts with a live identity bind (cogno-gate's PkhOf)
    providers,     \* frame-system provider references per account
    Profiles, PinnedPost  \* accounts holding a profile row, a pinned post

rowVars == <<Profiles, PinnedPost>>
vars == <<now, phase, AllowedStake, Capacity, bound, providers, rowVars>>

Row(cap, block) == [cap_last |-> cap, last_block |-> block]

-------------------------------------------------------------------------------
(* The bucket.                                                               *)

\* What a row read at `now` holds under a weight.
Regenerated(row, weight) ==
    Lesser(CapacityCeiling(weight),
           row.cap_last + RegenPerBlockAt(weight) * (now - row.last_block))

\* current_capacity: lazy regeneration on read; no row reads 0.
CurrentCapacity(who) ==
    IF who \in DOMAIN Capacity THEN Regenerated(Capacity[who], AllowedStake[who]) ELSE 0

\* on_first_bind: an empty, dated row, unless there is one.
OnFirstBind(rows, who) ==
    IF who \in DOMAIN rows THEN rows ELSE MapInsert(rows, who, Row(0, now))

\* Mutant: the idle window is left open across a weight change.
BugSettleCapacityAt(who, oldWeight) == Capacity

\* settle_capacity_at: bank what the old weight earned and date the row.
SettleCapacityAt(who, oldWeight) ==
    IF who \in DOMAIN Capacity /\ Capacity[who].last_block # now
    THEN MapInsert(Capacity, who, Row(Regenerated(Capacity[who], oldWeight), now))
    ELSE Capacity

\* consume: the rows after spending a cost; saturating_sub floors at 0.
Consume(who, cost) ==
    LET current == CurrentCapacity(who)
    IN  MapInsert(Capacity, who, Row(IF cost <= current THEN current - cost ELSE 0, now))

-------------------------------------------------------------------------------
(* CheckCapacity.                                                            *)

\* What metered_cost and ProfileCapacityCost price.
Metered(call) == call.kind # "unmetered"

\* UNPAYABLE: a tidy-up with nothing to tidy.
Payable(who, call) ==
    /\ call.kind = "clear_profile" => who \in Profiles
    /\ call.kind = "unpin_post" => who \in PinnedPost

\* metered_cost for this pallet's calls, ProfileCapacityCost for profile's.
Cost(call) ==
    CASE call.kind = "text" -> BaseCost + PerByteCost * call.len
      [] call.kind = "vote" -> VoteCost
      [] call.kind = "follow" -> FollowCost
      [] call.kind \in {"set_profile", "pin_post"} -> ProfileCost
      [] OTHER -> 0

\* CheckCapacity::validate, run at the pool and again at inclusion.
Validate(who, call) ==
    /\ call.kind = "text" => call.len <= MaxLength
    /\ Metered(call) =>
           /\ call.size <= MaxMeteredCallLen
           /\ Payable(who, call)
           /\ CurrentCapacity(who) >= Cost(call)

\* frame-system's CheckNonce refuses an account nothing provides for.
CheckNonceAdmits(who) == providers[who] > 0

\* What the call leaves in pallet-profile; posts and votes are in SocialIndex.
\* set_profile and pin_post fail NotAllowed for an unbound signer, and
\* set_profile fails on a field that is too long (the runtime bounds each one).
Dispatch(who, call) ==
    /\ Profiles' = CASE call.kind = "set_profile" /\ who \in bound /\ call.len <= MaxLength ->
                            Profiles \cup {who}
                     [] call.kind = "clear_profile" -> Profiles \ {who}
                     [] OTHER -> Profiles
    /\ PinnedPost' = CASE call.kind = "pin_post" /\ who \in bound -> PinnedPost \cup {who}
                       [] call.kind = "unpin_post" -> PinnedPost \ {who}
                       [] OTHER -> PinnedPost

-------------------------------------------------------------------------------
(* Steps.                                                                    *)

\* A new block; its inherent comes first.
NewBlock ==
    /\ phase = "body"
    /\ now < MaxBlock
    /\ now' = now + 1
    /\ phase' = "inherent"
    /\ UNCHANGED <<AllowedStake, Capacity, bound, providers, rowVars>>

\* apply_observed_weight: settle at the previous weight, then overwrite it,
\* and open the row either way. A clear and a credit of one account may both
\* be in one inherent.
ApplyObservedWeight(who, weight) ==
    /\ phase = "inherent"
    /\ IF AllowedStake[who] # weight
       THEN /\ Capacity' = OnFirstBind(SettleCapacityAt(who, AllowedStake[who]), who)
            /\ AllowedStake' = [AllowedStake EXCEPT ![who] = weight]
       ELSE /\ Capacity' = OnFirstBind(Capacity, who)
            /\ UNCHANGED AllowedStake
    /\ UNCHANGED <<now, phase, bound, providers, rowVars>>

\* The inherent is done; extrinsics follow.
EndInherent ==
    /\ phase = "inherent"
    /\ phase' = "body"
    /\ UNCHANGED <<now, AllowedStake, Capacity, bound, providers, rowVars>>

\* Mutant: no provider reference is taken.
BugOnBind(who) ==
    /\ phase = "body"
    /\ who \notin bound
    /\ bound' = bound \cup {who}
    /\ Capacity' = OnFirstBind(Capacity, who)
    /\ UNCHANGED <<now, phase, AllowedStake, providers, rowVars>>

\* The gate's bind, with its on_bind hook.
OnBind(who) ==
    /\ phase = "body"
    /\ who \notin bound
    /\ providers[who] < MaxProviders
    /\ bound' = bound \cup {who}
    /\ Capacity' = OnFirstBind(Capacity, who)
    /\ providers' = [providers EXCEPT ![who] = @ + 1]
    /\ UNCHANGED <<now, phase, AllowedStake, rowVars>>

\* The gate's revoke, with its on_revoke hook: dec_providers fails, and the
\* reference leaks, if something on the chain still consumes the account.
OnRevoke(who) ==
    /\ phase = "body"
    /\ who \in bound
    /\ bound' = bound \ {who}
    /\ providers' \in {providers, [providers EXCEPT ![who] = @ - 1]}
    /\ Capacity' = IF who \in DOMAIN Capacity
                   THEN MapInsert(Capacity, who, Row(0, now))
                   ELSE Capacity
    /\ UNCHANGED <<now, phase, AllowedStake, rowVars>>

\* Mutant: the forced amount is not clamped to what the weight backs.
BugForceSetCapacity(who, amount) ==
    /\ phase = "body"
    /\ Capacity' = MapInsert(Capacity, who, Row(amount, now))
    /\ UNCHANGED <<now, phase, AllowedStake, bound, providers, rowVars>>

\* force_set_capacity.
ForceSetCapacity(who, amount) ==
    /\ phase = "body"
    /\ Capacity' = MapInsert(OnFirstBind(Capacity, who), who,
                             Row(Lesser(amount, CapacityCeiling(AllowedStake[who])), now))
    /\ UNCHANGED <<now, phase, AllowedStake, bound, providers, rowVars>>

\* A signed extrinsic in a block: validate, dispatch, and post_dispatch_details,
\* which consumes whether or not the dispatch succeeded.
Include(who, call) ==
    /\ phase = "body"
    /\ CheckNonceAdmits(who)
    /\ Validate(who, call)
    /\ Dispatch(who, call)
    /\ Capacity' = IF Metered(call) THEN Consume(who, Cost(call)) ELSE Capacity
    /\ UNCHANGED <<now, phase, AllowedStake, bound, providers>>

\* Genesis: a seeded weight per account (talk-stake's GenesisConfig), no row.
Init ==
    /\ now = 0
    /\ phase = "body"
    /\ AllowedStake \in [Accounts -> Weights]
    /\ Capacity = EmptyMap
    /\ bound = {}
    /\ providers = [a \in Accounts |-> 0]
    /\ Profiles = {}
    /\ PinnedPost = {}

Next ==
    \/ NewBlock
    \/ EndInherent
    \/ \E who \in Accounts :
           \/ \E weight \in Weights : ApplyObservedWeight(who, weight)
           \/ OnBind(who)
           \/ OnRevoke(who)
           \/ \E amount \in Primes : ForceSetCapacity(who, amount)
           \/ \E call \in Calls : Include(who, call)

Spec == Init /\ [][Next]_vars

-------------------------------------------------------------------------------
(* Properties.                                                               *)

\* Types of the storage; no row is dated in the future, and none banks more
\* than the ceiling.
TypeOK ==
    /\ now \in 0..MaxBlock
    /\ phase \in {"inherent", "body"}
    /\ AllowedStake \in [Accounts -> Weights]
    /\ Capacity \in MapOf(Accounts, [cap_last : 0..Ceiling, last_block : 0..MaxBlock])
    /\ \A a \in DOMAIN Capacity : Capacity[a].last_block <= now
    /\ bound \subseteq Accounts
    /\ providers \in [Accounts -> 0..MaxProviders]
    /\ Profiles \subseteq Accounts
    /\ PinnedPost \subseteq Accounts

\* A bound account is never refused by CheckNonce for want of a provider, over
\* any sequence of binds, revokes and leaked references (on_bind's stated
\* purpose), and it always has the bucket the meter reads.
BoundCanTransact == \A a \in bound : providers[a] > 0 /\ a \in DOMAIN Capacity

\* "Stake sets how BIG your bucket is, never how FAST it fills": at any weight,
\* whatever was spent or observed before, a bucket left alone is full again after
\* CapRatio / RegenPerBlock blocks and an emptied one not a block earlier.
RefillWindowFixed ==
    \A a \in DOMAIN Capacity :
        LET idle == now - Capacity[a].last_block
            full == CurrentCapacity(a) = CapacityCeiling(AllowedStake[a])
        IN  /\ idle >= CapRatio \div RegenPerBlock => full
            /\ full /\ Capacity[a].cap_last = 0 /\ AllowedStake[a] > 0
                   => idle >= CapRatio \div RegenPerBlock

\* The charge an eagerly charged bucket would hold: the row itself while it is
\* dated in this block, else what it has regenerated.
EagerBucket ==
    [a \in DOMAIN Capacity |->
        IF Capacity[a].last_block = now THEN Capacity[a].cap_last ELSE CurrentCapacity(a)]

Eager == INSTANCE ChargingBucket WITH bucket <- EagerBucket

\* The lazy bucket is an eager one: over any interleaving of weight changes,
\* binds, revokes, forced primes and charged calls, capacity accrues per block
\* at the weight held in that block (no change of weight re-prices an idle
\* window), and no call is included that the earned charge does not cover.
ImplementsBucket == Eager!Spec

\* ProfileCapacityCost's intent: an account may always clear its own profile
\* and pin, a revoked one too.
MayAlwaysTidyUp ==
    \A a \in Accounts :
        \A call \in Calls :
            \/ call.kind = "clear_profile" /\ a \in Profiles
            \/ call.kind = "unpin_post" /\ a \in PinnedPost
            => CheckNonceAdmits(a) /\ Validate(a, call)

===============================================================================
