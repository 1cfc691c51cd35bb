-------------------------- MODULE TalkCapacityProofs --------------------------
(***************************************************************************)
(* The lazy talk-capacity bucket implements the eager one, for any number  *)
(* of accounts, any weights, rates, costs and calls.                       *)
(***************************************************************************)
EXTENDS TalkCapacity, StorageMapProofs

\* The inductive invariant: types, and a provider and a row per bound account.
CapacityInv == TypeOK /\ BoundCanTransact

\* The bucket's size and rate are natural numbers, the size within the ceiling.
LEMMA RateTypes ==
    ASSUME NEW weight \in Weights
    PROVE  CapacityCeiling(weight) \in 0..Ceiling /\ RegenPerBlockAt(weight) \in Nat
<1>1. \A x, y \in Nat : x * y \in Nat
  OBVIOUS
<1>2. weight * CapRatio \in Nat
  BY <1>1, WeightsAreNat, RatesAreNat
<1>3. CapacityCeiling(weight) \in 0..Ceiling
  <2> DEFINE product == weight * CapRatio
  <2> HIDE DEF product
  <2>1. product \in Nat => Lesser(product, Ceiling) \in 0..Ceiling
    BY RatesAreNat DEF Lesser
  <2> QED BY <1>2, <2>1 DEF CapacityCeiling, product
<1>4. CapacityCeiling(weight) * RegenPerBlock \in Nat
  BY <1>1, <1>3, RatesAreNat
<1>5. \A x, y \in Nat : y # 0 => x \div y \in Nat
  OBVIOUS
<1> QED BY <1>3, <1>4, <1>5, RatesAreNat DEF RegenPerBlockAt

\* One more block on a bucket of size c at rate r.
LEMMA OneMoreBlock ==
    ASSUME NEW c \in Nat, NEW r \in Nat, NEW x \in Nat, NEW d \in Nat
    PROVE  Lesser(c, x + r * (d + 1)) = Lesser(c, Lesser(c, x + r * d) + r)
<1>1. r * (d + 1) = r * d + r
  OBVIOUS
<1>2. r * d \in Nat
  OBVIOUS
<1> DEFINE p == r * d
<1>3. p \in Nat
  BY <1>2
<1> HIDE DEF p
<1>4. Lesser(c, x + (p + r)) = Lesser(c, Lesser(c, x + p) + r)
  BY <1>3 DEF Lesser
<1> QED BY <1>1, <1>4 DEF p

\* What a typed row reads.
LEMMA RegeneratedType ==
    ASSUME TypeOK, NEW a \in DOMAIN Capacity, NEW weight \in Weights
    PROVE  Regenerated(Capacity[a], weight) \in 0..Ceiling
<1>1. Capacity[a] \in [cap_last : 0..Ceiling, last_block : 0..MaxBlock] /\ Capacity[a].last_block <= now
  <2> DEFINE Rows == [cap_last : 0..Ceiling, last_block : 0..MaxBlock]
  <2>1. Capacity \in MapOf(Accounts, Rows) /\ Capacity[a].last_block <= now
    BY DEF TypeOK
  <2> HIDE DEF Rows
  <2>2. Capacity[a] \in Rows
    BY <2>1, MapOfDef
  <2> QED BY <2>1, <2>2 DEF Rows
<1>2. now - Capacity[a].last_block \in Nat
  BY <1>1, CostsAreNat DEF TypeOK
<1>3. CapacityCeiling(weight) \in 0..Ceiling /\ RegenPerBlockAt(weight) \in Nat
  BY RateTypes
<1>4. RegenPerBlockAt(weight) * (now - Capacity[a].last_block) \in Nat
  <2>1. \A x, y \in Nat : x * y \in Nat
    OBVIOUS
  <2> QED BY <1>2, <1>3, <2>1
<1> DEFINE p == RegenPerBlockAt(weight) * (now - Capacity[a].last_block)
<1> HIDE DEF p
<1>5. p \in Nat => Lesser(CapacityCeiling(weight), Capacity[a].cap_last + p) \in 0..Ceiling
  BY <1>1, <1>3, RatesAreNat DEF Lesser
<1> QED BY <1>4, <1>5 DEF Regenerated, p

\* What an account may spend is within the ceiling.
LEMMA CurrentType ==
    ASSUME TypeOK, NEW a \in Accounts
    PROVE  CurrentCapacity(a) \in 0..Ceiling
<1>1. AllowedStake[a] \in Weights
  BY DEF TypeOK
<1>2. CASE a \in DOMAIN Capacity
  BY <1>1, <1>2, RegeneratedType DEF CurrentCapacity
<1>3. CASE a \notin DOMAIN Capacity
  BY <1>3, RatesAreNat DEF CurrentCapacity
<1> QED BY <1>2, <1>3

\* The costs of calls are natural numbers.
LEMMA CostType ==
    ASSUME NEW call \in Calls
    PROVE  Cost(call) \in Nat
<1>1. call.len \in Nat
  BY CallsAreCalls
<1>2. PerByteCost * call.len \in Nat
  <2>1. \A x, y \in Nat : x * y \in Nat
    OBVIOUS
  <2> QED BY <1>1, <2>1, CostsAreNat
<1> DEFINE p == PerByteCost * call.len
<1> HIDE DEF p
<1>3. p \in Nat => BaseCost + p \in Nat
  BY CostsAreNat
<1>4. BaseCost + PerByteCost * call.len \in Nat
  BY <1>2, <1>3 DEF p
<1> QED BY <1>4, CostsAreNat DEF Cost

-------------------------------------------------------------------------------
(* The invariant.                                                            *)

\* Writing a row dated now keeps the rows typed.
LEMMA RowsTyped ==
    ASSUME TypeOK, NEW a \in Accounts, NEW x \in 0..Ceiling,
           Capacity' = MapInsert(Capacity, a, Row(x, now)), now' = now
    PROVE  /\ Capacity' \in MapOf(Accounts, [cap_last : 0..Ceiling, last_block : 0..MaxBlock])
           /\ \A b \in DOMAIN Capacity' : Capacity'[b].last_block <= now'
           /\ DOMAIN Capacity' = DOMAIN Capacity \cup {a}
<1>1. Row(x, now) \in [cap_last : 0..Ceiling, last_block : 0..MaxBlock]
  BY DEF Row, TypeOK
<1>2. Row(x, now).last_block <= now
  BY CostsAreNat DEF Row, TypeOK
<1>3. Capacity' \in MapOf(Accounts, [cap_last : 0..Ceiling, last_block : 0..MaxBlock])
  BY <1>1, InsertType DEF TypeOK
<1>4. DOMAIN Capacity' = DOMAIN Capacity \cup {a}
  BY InsertFact
<1>5. \A b \in DOMAIN Capacity' : Capacity'[b] = IF b = a THEN Row(x, now) ELSE Capacity[b]
  BY DEF MapInsert
<1> QED BY <1>2, <1>3, <1>4, <1>5 DEF TypeOK

\* Dating what settle_capacity_at banks, then opening the row if there is none.
LEMMA SettledAndOpened ==
    ASSUME TypeOK, NEW a \in Accounts,
           Capacity' = OnFirstBind(SettleCapacityAt(a, AllowedStake[a]), a)
    PROVE  \/ a \in DOMAIN Capacity /\ Capacity[a].last_block = now /\ Capacity' = Capacity
           \/ /\ a \in DOMAIN Capacity /\ Capacity[a].last_block # now
              /\ Capacity' = MapInsert(Capacity, a, Row(CurrentCapacity(a), now))
           \/ a \notin DOMAIN Capacity /\ Capacity' = MapInsert(Capacity, a, Row(0, now))
<1>1. CASE a \in DOMAIN Capacity /\ Capacity[a].last_block # now
  <2>1. SettleCapacityAt(a, AllowedStake[a]) = MapInsert(Capacity, a, Row(CurrentCapacity(a), now))
    BY <1>1 DEF SettleCapacityAt, CurrentCapacity
  <2>2. a \in DOMAIN MapInsert(Capacity, a, Row(CurrentCapacity(a), now))
    BY DEF MapInsert
  <2> QED BY <1>1, <2>1, <2>2 DEF OnFirstBind
<1>2. CASE a \in DOMAIN Capacity /\ Capacity[a].last_block = now
  BY <1>2 DEF OnFirstBind, SettleCapacityAt
<1>3. CASE a \notin DOMAIN Capacity
  BY <1>3 DEF OnFirstBind, SettleCapacityAt
<1> QED BY <1>1, <1>2, <1>3

\* Every step is, for the rows: nothing, or one row dated now.
LEMMA RowStep ==
    ASSUME CapacityInv, [Next]_vars, now' = now
    PROVE  \/ Capacity' = Capacity
           \/ \E a \in Accounts : \E x \in 0..Ceiling :
                  Capacity' = MapInsert(Capacity, a, Row(x, now))
<1> USE DEF CapacityInv
<1>0. 0 \in 0..Ceiling
  BY RatesAreNat
<1>1. ASSUME NEW who \in Accounts, NEW weight \in Weights, ApplyObservedWeight(who, weight)
      PROVE  \/ Capacity' = Capacity
             \/ \E x \in 0..Ceiling : Capacity' = MapInsert(Capacity, who, Row(x, now))
  <2>1. CASE AllowedStake[who] # weight
    <3>1. Capacity' = OnFirstBind(SettleCapacityAt(who, AllowedStake[who]), who)
      BY <1>1, <2>1 DEF ApplyObservedWeight
    <3> QED BY <1>0, <3>1, SettledAndOpened, CurrentType
  <2>2. CASE AllowedStake[who] = weight
    BY <1>0, <1>1, <2>2 DEF ApplyObservedWeight, OnFirstBind
  <2> QED BY <2>1, <2>2
<1>2. ASSUME NEW who \in Accounts, OnBind(who) \/ OnRevoke(who)
      PROVE  \/ Capacity' = Capacity
             \/ \E x \in 0..Ceiling : Capacity' = MapInsert(Capacity, who, Row(x, now))
  BY <1>0, <1>2 DEF OnBind, OnRevoke, OnFirstBind
<1>3. ASSUME NEW who \in Accounts, NEW amount \in Primes, ForceSetCapacity(who, amount)
      PROVE  \E x \in 0..Ceiling : Capacity' = MapInsert(Capacity, who, Row(x, now))
  <2> DEFINE x == Lesser(amount, CapacityCeiling(AllowedStake[who]))
  <2>1. CapacityCeiling(AllowedStake[who]) \in 0..Ceiling
    BY RateTypes DEF TypeOK
  <2>2. x \in 0..Ceiling
    BY <2>1, PrimesAreNat, RatesAreNat DEF Lesser
  <2>3. MapInsert(OnFirstBind(Capacity, who), who, Row(x, now)) = MapInsert(Capacity, who, Row(x, now))
    BY DEF OnFirstBind, MapInsert
  <2> QED BY <1>3, <2>2, <2>3 DEF ForceSetCapacity
<1>4. ASSUME NEW who \in Accounts, NEW call \in Calls, Include(who, call)
      PROVE  \/ Capacity' = Capacity
             \/ \E x \in 0..Ceiling : Capacity' = MapInsert(Capacity, who, Row(x, now))
  <2> DEFINE x == IF Cost(call) <= CurrentCapacity(who) THEN CurrentCapacity(who) - Cost(call) ELSE 0
  <2>1. CurrentCapacity(who) \in 0..Ceiling /\ Cost(call) \in Nat
    BY CurrentType, CostType
  <2>2. x \in 0..Ceiling
    BY <2>1, RatesAreNat
  <2> QED BY <1>4, <2>2 DEF Include, Consume
<1>5. NewBlock => FALSE
  BY CostsAreNat DEF NewBlock, TypeOK
<1>6. EndInherent \/ UNCHANGED vars => Capacity' = Capacity
  BY DEF EndInherent, vars
<1> QED BY <1>1, <1>2, <1>3, <1>4, <1>5, <1>6 DEF Next

\* The rows stay typed, and none is ever dropped.
LEMMA RowsKept ==
    ASSUME CapacityInv, [Next]_vars
    PROVE  /\ Capacity' \in MapOf(Accounts, [cap_last : 0..Ceiling, last_block : 0..MaxBlock])
           /\ \A b \in DOMAIN Capacity' : Capacity'[b].last_block <= now'
           /\ DOMAIN Capacity \subseteq DOMAIN Capacity'
<1> USE DEF CapacityInv
<1>1. CASE now' = now
  <2>1. CASE Capacity' = Capacity
    BY <1>1, <2>1 DEF TypeOK
  <2>2. ASSUME NEW a \in Accounts, NEW x \in 0..Ceiling,
               Capacity' = MapInsert(Capacity, a, Row(x, now))
        PROVE  /\ Capacity' \in MapOf(Accounts, [cap_last : 0..Ceiling, last_block : 0..MaxBlock])
               /\ \A b \in DOMAIN Capacity' : Capacity'[b].last_block <= now'
               /\ DOMAIN Capacity \subseteq DOMAIN Capacity'
    BY <1>1, <2>2, RowsTyped
  <2> QED BY <1>1, <2>1, <2>2, RowStep
<1>2. CASE now' # now
  <2>1. NewBlock
    BY <1>2 DEF Next, EndInherent, ApplyObservedWeight, OnBind, OnRevoke, ForceSetCapacity,
                Include, vars
  <2>2. Capacity' = Capacity /\ now' = now + 1 /\ now \in Nat
    BY <2>1, CostsAreNat DEF NewBlock, TypeOK
  <2>3. \A b \in DOMAIN Capacity : Capacity[b].last_block \in Nat
    <3> DEFINE Rows == [cap_last : 0..Ceiling, last_block : 0..MaxBlock]
    <3>1. Capacity \in MapOf(Accounts, Rows)
      BY DEF TypeOK
    <3> HIDE DEF Rows
    <3>2. \A b \in DOMAIN Capacity : Capacity[b] \in Rows
      BY <3>1, MapOfDef
    <3> QED BY <3>2, CostsAreNat DEF Rows
  <2> QED BY <2>2, <2>3 DEF TypeOK
<1> QED BY <1>1, <1>2

\* Every step keeps the invariant.
LEMMA CapacityStep ==
    ASSUME CapacityInv, [Next]_vars
    PROVE  CapacityInv'
<1> USE DEF CapacityInv
<1>1. /\ Capacity' \in MapOf(Accounts, [cap_last : 0..Ceiling, last_block : 0..MaxBlock])
      /\ \A b \in DOMAIN Capacity' : Capacity'[b].last_block <= now'
      /\ DOMAIN Capacity \subseteq DOMAIN Capacity'
  BY RowsKept
<1> DEFINE Rest == /\ now' \in 0..MaxBlock
                   /\ phase' \in {"inherent", "body"}
                   /\ AllowedStake' \in [Accounts -> Weights]
                   /\ bound' \subseteq Accounts
                   /\ providers' \in [Accounts -> 0..MaxProviders]
                   /\ Profiles' \subseteq Accounts
                   /\ PinnedPost' \subseteq Accounts
           Backed == \A a \in bound' : providers'[a] > 0 /\ a \in DOMAIN Capacity'
<1>2. CASE NewBlock \/ EndInherent
  <2>1. Rest
    BY <1>2, CostsAreNat DEF NewBlock, EndInherent, TypeOK, rowVars
  <2>2. Backed
    BY <1>2, <1>1 DEF NewBlock, EndInherent, BoundCanTransact
  <2> QED BY <1>1, <2>1, <2>2 DEF TypeOK, BoundCanTransact
<1>3. ASSUME NEW who \in Accounts, NEW weight \in Weights, ApplyObservedWeight(who, weight)
      PROVE  CapacityInv'
  <2>1. Rest
    BY <1>3 DEF ApplyObservedWeight, TypeOK, rowVars
  <2>2. Backed
    BY <1>3, <1>1 DEF ApplyObservedWeight, BoundCanTransact
  <2> QED BY <1>1, <2>1, <2>2 DEF TypeOK, BoundCanTransact
<1>4. ASSUME NEW who \in Accounts, OnBind(who)
      PROVE  CapacityInv'
  <2>1. providers[who] \in 0..MaxProviders /\ providers[who] < MaxProviders
    BY <1>4 DEF OnBind, TypeOK
  <2>2. providers[who] + 1 \in 0..MaxProviders /\ providers[who] + 1 > 0
    BY <2>1, CostsAreNat
  <2>3. Rest
    BY <1>4, <2>2 DEF OnBind, TypeOK, rowVars
  <2>4. who \in DOMAIN Capacity'
    BY <1>4 DEF OnBind, OnFirstBind, MapInsert
  <2>5. Backed
    BY <1>1, <1>4, <2>2, <2>4 DEF OnBind, BoundCanTransact, TypeOK
  <2> QED BY <1>1, <2>3, <2>5 DEF TypeOK, BoundCanTransact
<1>5. ASSUME NEW who \in Accounts, OnRevoke(who)
      PROVE  CapacityInv'
  <2>1. providers[who] \in 0..MaxProviders /\ providers[who] > 0
    BY <1>5 DEF OnRevoke, TypeOK, BoundCanTransact
  <2>2. providers[who] - 1 \in 0..MaxProviders
    BY <2>1, CostsAreNat
  <2>3. Rest
    BY <1>5, <2>2 DEF OnRevoke, TypeOK, rowVars
  <2>4. Backed
    BY <1>1, <1>5 DEF OnRevoke, BoundCanTransact, TypeOK
  <2> QED BY <1>1, <2>3, <2>4 DEF TypeOK, BoundCanTransact
<1>6. ASSUME NEW who \in Accounts, NEW amount \in Primes, ForceSetCapacity(who, amount)
      PROVE  CapacityInv'
  <2>1. Rest
    BY <1>6 DEF ForceSetCapacity, TypeOK, rowVars
  <2>2. Backed
    BY <1>6, <1>1 DEF ForceSetCapacity, BoundCanTransact
  <2> QED BY <1>1, <2>1, <2>2 DEF TypeOK, BoundCanTransact
<1>7. ASSUME NEW who \in Accounts, NEW call \in Calls, Include(who, call)
      PROVE  CapacityInv'
  <2>1. Profiles' \subseteq Accounts /\ PinnedPost' \subseteq Accounts
    BY <1>7 DEF Include, Dispatch, TypeOK
  <2>2. Rest
    BY <1>7, <2>1 DEF Include, TypeOK
  <2>3. Backed
    BY <1>7, <1>1 DEF Include, BoundCanTransact
  <2> QED BY <1>1, <2>2, <2>3 DEF TypeOK, BoundCanTransact
<1>8. CASE UNCHANGED vars
  BY <1>8 DEF vars, rowVars, TypeOK, BoundCanTransact
<1> QED BY <1>2, <1>3, <1>4, <1>5, <1>6, <1>7, <1>8 DEF Next

\* Genesis satisfies the invariant.
LEMMA CapacityInit == Init => CapacityInv
<1> SUFFICES ASSUME Init PROVE CapacityInv
  OBVIOUS
<1>1. Capacity = EmptyMap /\ DOMAIN Capacity = {}
  BY EmptyType DEF Init
<1>2. Capacity \in MapOf(Accounts, [cap_last : 0..Ceiling, last_block : 0..MaxBlock])
  BY <1>1, EmptyType
<1> QED BY <1>1, <1>2, CostsAreNat DEF Init, CapacityInv, TypeOK, BoundCanTransact

\* The meter's invariant holds in every state of every behaviour.
THEOREM CapacityInvariant == Spec => []CapacityInv
<1>1. CapacityInv /\ [Next]_vars => CapacityInv'
  BY CapacityStep
<1> QED BY <1>1, CapacityInit, PTL DEF Spec

\* A bound account always has a provider reference and a bucket, over any
\* sequence of binds, revokes and leaked references.
THEOREM BoundAccountsTransact == Spec => []BoundCanTransact
<1>1. CapacityInv => BoundCanTransact
  BY DEF CapacityInv
<1> QED BY <1>1, CapacityInvariant, PTL

-------------------------------------------------------------------------------
(* The refinement.                                                           *)

\* The abstract module's operators are the concrete module's.
LEMMA SameOperators ==
    /\ \A x, y : Eager!Lesser(x, y) = Lesser(x, y)
    /\ \A w : Eager!CapacityCeiling(w) = CapacityCeiling(w)
    /\ \A w : Eager!RegenPerBlockAt(w) = RegenPerBlockAt(w)
    /\ \A m, k, v : Eager!MapInsert(m, k, v) = MapInsert(m, k, v)
    /\ Eager!EmptyMap = EmptyMap
BY DEF Eager!Lesser, Lesser, Eager!CapacityCeiling, CapacityCeiling, Eager!RegenPerBlockAt,
       RegenPerBlockAt, Eager!MapInsert, MapInsert, Eager!EmptyMap, EmptyMap

\* The eager bucket has the rows of the lazy one.
LEMMA EagerDomain == DOMAIN EagerBucket = DOMAIN Capacity
BY DEF EagerBucket

\* What may be spent is the eager bucket's level.
LEMMA LevelIsCurrent ==
    ASSUME TypeOK, NEW a \in Accounts
    PROVE  Eager!Level(a) = CurrentCapacity(a)
<1>1. CASE a \notin DOMAIN Capacity
  BY <1>1, EagerDomain DEF Eager!Level, CurrentCapacity
<1>2. CASE a \in DOMAIN Capacity
  <2> DEFINE c == CapacityCeiling(AllowedStake[a])
             r == RegenPerBlockAt(AllowedStake[a])
             row == Capacity[a]
  <2>1. AllowedStake[a] \in Weights
    BY DEF TypeOK
  <2>2. c \in Nat /\ r \in Nat
    BY <2>1, RateTypes
  <2>3. row.cap_last \in Nat /\ row.last_block \in Nat /\ now \in Nat
    <3> DEFINE Rows == [cap_last : 0..Ceiling, last_block : 0..MaxBlock]
    <3>1. Capacity \in MapOf(Accounts, Rows)
      BY DEF TypeOK
    <3> HIDE DEF Rows
    <3>2. row \in Rows
      BY <1>2, <3>1, MapOfDef
    <3> QED BY <3>2, CostsAreNat DEF Rows, TypeOK
  <2>4. Eager!Level(a) = Lesser(c, EagerBucket[a])
    BY <1>2, EagerDomain, SameOperators DEF Eager!Level
  <2>5. CASE row.last_block = now
    <3>1. EagerBucket[a] = row.cap_last
      BY <1>2, <2>5 DEF EagerBucket
    <3>2. r * (now - row.last_block) = 0
      BY <2>2, <2>3, <2>5
    <3>3. CurrentCapacity(a) = Lesser(c, row.cap_last + 0)
      BY <1>2, <3>2 DEF CurrentCapacity, Regenerated
    <3>4. row.cap_last + 0 = row.cap_last
      BY <2>3
    <3> QED BY <2>4, <3>1, <3>3, <3>4
  <2>6. CASE row.last_block # now
    <3>1. EagerBucket[a] = CurrentCapacity(a)
      BY <1>2, <2>6 DEF EagerBucket
    <3>2. CurrentCapacity(a) \in Nat
      BY CurrentType, RatesAreNat
    <3>3. CurrentCapacity(a) = Lesser(c, row.cap_last + r * (now - row.last_block))
      BY <1>2 DEF CurrentCapacity, Regenerated
    <3>4. \A y : Lesser(c, Lesser(c, y)) = Lesser(c, y)
      BY <2>2 DEF Lesser
    <3> QED BY <2>4, <3>1, <3>3, <3>4
  <2> QED BY <2>5, <2>6
<1> QED BY <1>1, <1>2

\* A row written in this block is written to the eager bucket.
LEMMA EagerInsert ==
    ASSUME NEW a, NEW x, Capacity' = MapInsert(Capacity, a, Row(x, now)), now' = now,
           \A b \in DOMAIN Capacity \ {a} : AllowedStake'[b] = AllowedStake[b]
    PROVE  EagerBucket' = MapInsert(EagerBucket, a, x)
<1>1. DOMAIN Capacity' = DOMAIN Capacity \cup {a}
  BY DEF MapInsert
<1>2. \A b \in DOMAIN Capacity' : Capacity'[b] = IF b = a THEN Row(x, now) ELSE Capacity[b]
  BY DEF MapInsert
<1>3. EagerBucket' = [b \in DOMAIN Capacity' |->
          IF Capacity'[b].last_block = now' THEN Capacity'[b].cap_last ELSE CurrentCapacity(b)']
  BY DEF EagerBucket
<1>4. \A b \in DOMAIN Capacity \ {a} : CurrentCapacity(b)' = CurrentCapacity(b)
  BY <1>1, <1>2 DEF CurrentCapacity, Regenerated
<1>5. DOMAIN EagerBucket = DOMAIN Capacity
  BY DEF EagerBucket
<1>6. \A b \in DOMAIN Capacity \ {a} : EagerBucket'[b] = EagerBucket[b]
  BY <1>1, <1>2, <1>3, <1>4 DEF EagerBucket
<1>7. EagerBucket'[a] = x
  BY <1>1, <1>2, <1>3 DEF Row
<1> QED BY <1>1, <1>3, <1>5, <1>6, <1>7 DEF MapInsert

\* Rows that stay put hold the same charge within the block, whatever happens
\* to the weight of a row dated in this block.
LEMMA EagerSame ==
    ASSUME Capacity' = Capacity, now' = now,
           \A b \in DOMAIN Capacity :
               Capacity[b].last_block # now => AllowedStake'[b] = AllowedStake[b]
    PROVE  EagerBucket' = EagerBucket
<1>1. \A b \in DOMAIN Capacity :
          Capacity[b].last_block # now => CurrentCapacity(b)' = CurrentCapacity(b)
  BY DEF CurrentCapacity, Regenerated
<1> QED BY <1>1 DEF EagerBucket

\* A new block charges every open bucket once, at the weight held.
LEMMA NewBlockRefines ==
    ASSUME TypeOK, NewBlock
    PROVE  Eager!Block
<1>1. now' = now + 1 /\ Capacity' = Capacity /\ AllowedStake' = AllowedStake /\ now \in Nat
  BY CostsAreNat DEF NewBlock, TypeOK
<1>2. ASSUME NEW a \in DOMAIN Capacity
      PROVE  EagerBucket'[a] = Lesser(CapacityCeiling(AllowedStake[a]),
                                      EagerBucket[a] + RegenPerBlockAt(AllowedStake[a]))
  <2> DEFINE c == CapacityCeiling(AllowedStake[a])
             r == RegenPerBlockAt(AllowedStake[a])
             row == Capacity[a]
             Rows == [cap_last : 0..Ceiling, last_block : 0..MaxBlock]
  <2>1. Capacity \in MapOf(Accounts, Rows) /\ row.last_block <= now
    BY DEF TypeOK
  <2> HIDE DEF Rows
  <2>2. a \in Accounts /\ row \in Rows
    BY <2>1, MapOfDef
  <2>3. row.cap_last \in Nat /\ row.last_block \in Nat
    BY <2>2, RatesAreNat, CostsAreNat DEF Rows
  <2>4. c \in Nat /\ r \in Nat
    BY <2>2, RateTypes DEF TypeOK
  <2>5. EagerBucket'[a] = Lesser(c, row.cap_last + r * ((now + 1) - row.last_block))
    <3>1. row.last_block # now + 1
      BY <1>1, <2>1, <2>3
    <3>2. EagerBucket'[a] = CurrentCapacity(a)'
      BY <1>1, <3>1 DEF EagerBucket
    <3> QED BY <1>1, <3>2 DEF CurrentCapacity, Regenerated
  <2> DEFINE d == now - row.last_block
  <2>6. d \in Nat /\ (now + 1) - row.last_block = d + 1
    BY <1>1, <2>1, <2>3
  <2>7. EagerBucket[a] = IF row.last_block = now THEN row.cap_last ELSE Lesser(c, row.cap_last + r * d)
    BY DEF EagerBucket, CurrentCapacity, Regenerated
  <2> HIDE DEF c, r, d
  <2>8. CASE row.last_block = now
    <3>1. d = 0
      BY <1>1, <2>3, <2>8 DEF d
    <3>2. r * (d + 1) = r
      <4>1. d + 1 = 1
        BY <3>1
      <4>2. r * 1 = r
        BY <2>4
      <4> QED BY <4>1, <4>2
    <3>3. r * ((now + 1) - row.last_block) = r
      BY <2>6, <3>2
    <3>4. EagerBucket'[a] = Lesser(c, row.cap_last + r)
      BY <2>5, <3>3
    <3>5. EagerBucket[a] = row.cap_last
      BY <2>7, <2>8
    <3> QED BY <3>4, <3>5 DEF c, r
  <2>9. CASE row.last_block # now
    <3>1. Lesser(c, row.cap_last + r * (d + 1)) = Lesser(c, Lesser(c, row.cap_last + r * d) + r)
      <4>1. \A x \in Nat : Lesser(c, x + r * (d + 1)) = Lesser(c, Lesser(c, x + r * d) + r)
        BY <2>4, <2>6, OneMoreBlock
      <4> QED BY <2>3, <4>1
    <3>2. r * ((now + 1) - row.last_block) = r * (d + 1)
      BY <2>6
    <3>3. EagerBucket'[a] = Lesser(c, row.cap_last + r * (d + 1))
      BY <2>5, <3>2
    <3>4. EagerBucket[a] = Lesser(c, row.cap_last + r * d)
      BY <2>7, <2>9
    <3> QED BY <3>1, <3>3, <3>4 DEF c, r
  <2> QED BY <2>8, <2>9
<1>3. EagerBucket' = [a \in DOMAIN EagerBucket' |-> EagerBucket'[a]] /\ DOMAIN EagerBucket' = DOMAIN Capacity
  BY <1>1 DEF EagerBucket
<1>4. EagerBucket' = [a \in DOMAIN EagerBucket |->
                         Lesser(CapacityCeiling(AllowedStake[a]),
                                EagerBucket[a] + RegenPerBlockAt(AllowedStake[a]))]
  BY <1>2, <1>3, EagerDomain
<1> QED BY <1>1, <1>4, SameOperators DEF Eager!Block

\* An observed weight is a change of weight that leaves the charge alone.
LEMMA WeightRefines ==
    ASSUME TypeOK, NEW who \in Accounts, NEW weight \in Weights, ApplyObservedWeight(who, weight)
    PROVE  Eager!Weigh(who, weight)
<1>1. now' = now /\ AllowedStake \in [Accounts -> Weights]
  BY DEF ApplyObservedWeight, TypeOK
<1>2. AllowedStake' = [AllowedStake EXCEPT ![who] = weight]
  BY <1>1 DEF ApplyObservedWeight
<1>3. \A b : b # who => AllowedStake'[b] = AllowedStake[b]
  BY <1>1, <1>2
<1>4. EagerBucket' = IF who \in DOMAIN EagerBucket THEN EagerBucket ELSE MapInsert(EagerBucket, who, 0)
  <2>1. CASE AllowedStake[who] = weight
    <3>1. AllowedStake' = AllowedStake /\ Capacity' = OnFirstBind(Capacity, who)
      BY <2>1 DEF ApplyObservedWeight
    <3>2. CASE who \in DOMAIN Capacity
      BY <1>1, <3>1, <3>2, EagerSame, EagerDomain DEF OnFirstBind
    <3>3. CASE who \notin DOMAIN Capacity
      BY <1>1, <3>1, <3>3, EagerInsert, EagerDomain DEF OnFirstBind
    <3> QED BY <3>2, <3>3
  <2>2. CASE AllowedStake[who] # weight
    <3>1. Capacity' = OnFirstBind(SettleCapacityAt(who, AllowedStake[who]), who)
      BY <2>2 DEF ApplyObservedWeight
    <3>2. CASE who \in DOMAIN Capacity /\ Capacity[who].last_block = now /\ Capacity' = Capacity
      BY <1>1, <1>3, <3>2, EagerSame, EagerDomain
    <3>3. CASE /\ who \in DOMAIN Capacity /\ Capacity[who].last_block # now
               /\ Capacity' = MapInsert(Capacity, who, Row(CurrentCapacity(who), now))
      <4>1. EagerBucket' = MapInsert(EagerBucket, who, CurrentCapacity(who))
        BY <1>1, <1>3, <3>3, EagerInsert
      <4>2. EagerBucket[who] = CurrentCapacity(who)
        BY <3>3 DEF EagerBucket
      <4>3. EagerBucket = [b \in DOMAIN EagerBucket |-> EagerBucket[b]]
        BY DEF EagerBucket
      <4>4. who \in DOMAIN EagerBucket
        BY <3>3, EagerDomain
      <4>5. DOMAIN EagerBucket \cup {who} = DOMAIN EagerBucket
        BY <4>4
      <4>6. MapInsert(EagerBucket, who, EagerBucket[who]) = EagerBucket
        BY <4>3, <4>5 DEF MapInsert
      <4> QED BY <4>1, <4>2, <4>4, <4>6
    <3>4. CASE who \notin DOMAIN Capacity /\ Capacity' = MapInsert(Capacity, who, Row(0, now))
      BY <1>1, <1>3, <3>4, EagerInsert, EagerDomain
    <3> QED BY <3>1, <3>2, <3>3, <3>4, SettledAndOpened
  <2> QED BY <2>1, <2>2
<1> QED BY <1>1, <1>2, <1>4, SameOperators DEF Eager!Weigh, Eager!Opened

\* Bind, revoke, force and charged calls are steps of the eager bucket.
LEMMA BodyRefines ==
    ASSUME TypeOK, NEW who \in Accounts
    PROVE  /\ OnBind(who) => Eager!Open(who)
           /\ OnRevoke(who) => Eager!Forfeit(who) \/ UNCHANGED Eager!bucketVars
           /\ \A amount \in Primes : ForceSetCapacity(who, amount) =>
                  \E part \in 0..Ceiling : Eager!Prime(who, part)
           /\ \A call \in Calls : Include(who, call) =>
                  \/ \E cost \in 0..Ceiling : Eager!Spend(who, cost)
                  \/ UNCHANGED Eager!bucketVars
<1>1. ASSUME OnBind(who)
      PROVE  Eager!Open(who)
  <2>1. now' = now /\ AllowedStake' = AllowedStake /\ Capacity' = OnFirstBind(Capacity, who)
    BY <1>1 DEF OnBind
  <2>2. CASE who \in DOMAIN Capacity
    <3>1. EagerBucket' = EagerBucket
      BY <2>1, <2>2, EagerSame DEF OnFirstBind
    <3> QED BY <2>1, <2>2, <3>1, EagerDomain DEF Eager!Open, Eager!Opened
  <2>3. CASE who \notin DOMAIN Capacity
    <3>1. EagerBucket' = MapInsert(EagerBucket, who, 0)
      BY <2>1, <2>3, EagerInsert DEF OnFirstBind
    <3> QED BY <2>1, <2>3, <3>1, EagerDomain, SameOperators DEF Eager!Open, Eager!Opened
  <2> QED BY <2>2, <2>3
<1>2. ASSUME OnRevoke(who)
      PROVE  Eager!Forfeit(who) \/ UNCHANGED Eager!bucketVars
  <2>1. now' = now /\ AllowedStake' = AllowedStake
    BY <1>2 DEF OnRevoke
  <2>2. CASE who \in DOMAIN Capacity
    <3>1. EagerBucket' = MapInsert(EagerBucket, who, 0)
      BY <1>2, <2>1, <2>2, EagerInsert DEF OnRevoke
    <3> QED BY <2>1, <2>2, <3>1, EagerDomain, SameOperators DEF Eager!Forfeit
  <2>3. CASE who \notin DOMAIN Capacity
    <3>1. EagerBucket' = EagerBucket
      BY <1>2, <2>1, <2>3, EagerSame DEF OnRevoke
    <3> QED BY <2>1, <3>1 DEF Eager!bucketVars
  <2> QED BY <2>2, <2>3
<1>3. ASSUME NEW amount \in Primes, ForceSetCapacity(who, amount)
      PROVE  \E part \in 0..Ceiling : Eager!Prime(who, part)
  <2> DEFINE c == CapacityCeiling(AllowedStake[who])
             part == Lesser(amount, c)
  <2>1. c \in 0..Ceiling
    BY RateTypes DEF TypeOK
  <2>2. part \in 0..Ceiling /\ Lesser(part, c) = part
    BY <2>1, PrimesAreNat, RatesAreNat DEF Lesser
  <2>3. now' = now /\ AllowedStake' = AllowedStake
    BY <1>3 DEF ForceSetCapacity
  <2>4. Capacity' = MapInsert(Capacity, who, Row(part, now))
    BY <1>3 DEF ForceSetCapacity, OnFirstBind, MapInsert
  <2>5. EagerBucket' = MapInsert(EagerBucket, who, part)
    BY <2>3, <2>4, EagerInsert
  <2>6. Eager!Prime(who, part)
    BY <2>2, <2>3, <2>5, SameOperators DEF Eager!Prime
  <2> QED BY <2>2, <2>6
<1>4. ASSUME NEW call \in Calls, Include(who, call)
      PROVE  \/ \E cost \in 0..Ceiling : Eager!Spend(who, cost)
             \/ UNCHANGED Eager!bucketVars
  <2>1. now' = now /\ AllowedStake' = AllowedStake
    BY <1>4 DEF Include
  <2>2. CASE Metered(call)
    <3> DEFINE current == CurrentCapacity(who)
    <3>1. current \in 0..Ceiling /\ Cost(call) \in Nat /\ current >= Cost(call)
      BY <1>4, <2>2, CurrentType, CostType DEF Include, Validate
    <3>2. Cost(call) \in 0..Ceiling /\ Cost(call) <= current
      BY <3>1, RatesAreNat
    <3>3. Capacity' = MapInsert(Capacity, who, Row(current - Cost(call), now))
      BY <1>4, <2>2, <3>2 DEF Include, Consume
    <3>4. EagerBucket' = MapInsert(EagerBucket, who, current - Cost(call))
      BY <2>1, <3>3, EagerInsert
    <3>5. Eager!Level(who) = current
      BY LevelIsCurrent
    <3>6. Eager!Spend(who, Cost(call))
      BY <2>1, <3>2, <3>4, <3>5, SameOperators DEF Eager!Spend
    <3> QED BY <3>2, <3>6
  <2>3. CASE ~ Metered(call)
    <3>1. EagerBucket' = EagerBucket
      BY <1>4, <2>1, <2>3, EagerSame DEF Include
    <3> QED BY <2>1, <3>1 DEF Eager!bucketVars
  <2> QED BY <2>2, <2>3
<1> QED BY <1>1, <1>2, <1>3, <1>4

\* Every step of the lazy meter is a step of the eager bucket, or none.
LEMMA StepRefines ==
    ASSUME CapacityInv, [Next]_vars
    PROVE  [Eager!Next]_(Eager!bucketVars)
<1> USE DEF CapacityInv
<1>1. CASE NewBlock
  BY <1>1, NewBlockRefines DEF Eager!Next
<1>2. CASE EndInherent \/ UNCHANGED vars
  <2>1. now' = now /\ AllowedStake' = AllowedStake /\ Capacity' = Capacity
    BY <1>2 DEF EndInherent, vars
  <2> QED BY <2>1, EagerSame DEF Eager!bucketVars
<1>3. ASSUME NEW who \in Accounts, NEW weight \in Weights, ApplyObservedWeight(who, weight)
      PROVE  Eager!Next
  BY <1>3, WeightRefines DEF Eager!Next
<1>4. ASSUME NEW who \in Accounts,
             \/ OnBind(who) \/ OnRevoke(who)
             \/ \E amount \in Primes : ForceSetCapacity(who, amount)
             \/ \E call \in Calls : Include(who, call)
      PROVE  [Eager!Next]_(Eager!bucketVars)
  BY <1>4, BodyRefines DEF Eager!Next
<1> QED BY <1>1, <1>2, <1>3, <1>4 DEF Next

\* Talk capacity accrues block by block at the weight held in each block, and
\* nothing is charged that was not earned: the lazily read bucket of
\* current_capacity, settle_capacity_at, consume and force_set_capacity
\* implements the eager bucket.
THEOREM CapacityImplementsBucket == Spec => ImplementsBucket
<1>1. Init => Eager!Init
  <2> SUFFICES ASSUME Init PROVE Eager!Init
    OBVIOUS
  <2>1. DOMAIN EmptyMap = {} /\ EmptyMap = [k \in {} |-> k]
    BY DEF EmptyMap
  <2>2. EagerBucket = EmptyMap
    BY <2>1 DEF Init, EagerBucket
  <2> QED BY <2>2, SameOperators DEF Init, Eager!Init
<1>2. CapacityInv /\ [Next]_vars => [Eager!Next]_(Eager!bucketVars)
  BY StepRefines
<1> QED BY <1>1, <1>2, CapacityInvariant, PTL DEF Spec, ImplementsBucket, Eager!Spec

===============================================================================
