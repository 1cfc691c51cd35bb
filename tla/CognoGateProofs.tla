---------------------------- MODULE CognoGateProofs ----------------------------
(***************************************************************************)
(* Proofs about pallet-cogno-gate for every number of accounts, identities *)
(* and credentials, every hash order and every bound.                      *)
(***************************************************************************)
EXTENDS CognoGate, StorageMapProofs, FiniteSetTheorems, SequenceTheorems

\* The rotation's shape on its own, without the binding maps.
Shape ==
    /\ ScanSlotCount \in Nat
    /\ DOMAIN AccountAtScanSlot = 0..(ScanSlotCount - 1)
    /\ \A s \in DOMAIN AccountAtScanSlot : AccountAtScanSlot[s] \in Accounts
    /\ DOMAIN ScanSlotOf \subseteq Accounts
    /\ \A a \in DOMAIN ScanSlotOf : ScanSlotOf[a] \in Nat
    /\ MutuallyInverse(AccountAtScanSlot, ScanSlotOf)

\* The inductive invariant of the gate.
GateInv == TypeOK /\ OneToOne /\ BannedStaysUnbound /\ RotationDense /\ NobodySkipped

\* join_rotation keeps the shape and enrols the account.
LEMMA JoinKeepsShape ==
    ASSUME Shape, NEW account \in Accounts, JoinRotation(account)
    PROVE  Shape' /\ DOMAIN ScanSlotOf' = DOMAIN ScanSlotOf \cup {account}
<1>1. CASE account \in DOMAIN ScanSlotOf
  BY <1>1 DEF JoinRotation, Shape, rotationVars, MutuallyInverse
<1>2. CASE account \notin DOMAIN ScanSlotOf
  BY <1>2 DEF JoinRotation, Shape, MapInsert, MutuallyInverse
<1> QED BY <1>1, <1>2

\* leave_rotation keeps the shape, with the last account in the hole.
LEMMA LeaveKeepsShape ==
    ASSUME Shape, NEW account \in Accounts, LeaveRotation(account)
    PROVE  Shape' /\ DOMAIN ScanSlotOf' = DOMAIN ScanSlotOf \ {account}
<1>1. CASE account \notin DOMAIN ScanSlotOf
  BY <1>1 DEF LeaveRotation, Shape, rotationVars, MutuallyInverse
<1>2. CASE account \in DOMAIN ScanSlotOf
  <2> DEFINE slot == ScanSlotOf[account]
             last == ScanSlotCount - 1
  <2>1. slot \in 0..last /\ last \in Nat /\ last \in DOMAIN AccountAtScanSlot
    BY <1>2 DEF Shape, MutuallyInverse
  <2>2. AccountAtScanSlot[slot] = account
    BY <1>2 DEF Shape, MutuallyInverse
  <2>3. CASE slot < last
    <3> DEFINE moved == AccountAtScanSlot[last]
    <3>1. /\ ScanSlotCount' = last
          /\ AccountAtScanSlot' = MapRemove(MapInsert(AccountAtScanSlot, slot, moved), last)
          /\ ScanSlotOf' = MapInsert(MapRemove(ScanSlotOf, account), moved, slot)
      BY <1>2, <2>1, <2>3 DEF LeaveRotation
    <3>2. moved \in DOMAIN ScanSlotOf /\ ScanSlotOf[moved] = last /\ moved # account
      BY <2>1, <2>3 DEF Shape, MutuallyInverse
    <3>3. DOMAIN ScanSlotOf' = DOMAIN ScanSlotOf \ {account}
      BY <3>1, <3>2 DEF MapInsert, MapRemove
    <3>4. DOMAIN AccountAtScanSlot' = 0..(ScanSlotCount' - 1)
      BY <3>1, <2>1, <2>3 DEF MapInsert, MapRemove, Shape
    <3>5. \A s \in DOMAIN AccountAtScanSlot' :
              AccountAtScanSlot'[s] = IF s = slot THEN moved ELSE AccountAtScanSlot[s]
      BY <3>1, <3>4 DEF MapInsert, MapRemove
    <3>6. \A a \in DOMAIN ScanSlotOf' :
              ScanSlotOf'[a] = IF a = moved THEN slot ELSE ScanSlotOf[a]
      BY <3>1, <3>3 DEF MapInsert, MapRemove
    <3>7. MutuallyInverse(AccountAtScanSlot, ScanSlotOf)'
      BY <2>1, <2>2, <2>3, <3>1, <3>2, <3>3, <3>4, <3>5, <3>6 DEF Shape, MutuallyInverse
    <3> QED BY <2>1, <2>3, <3>1, <3>2, <3>3, <3>4, <3>5, <3>6, <3>7 DEF Shape
  <2>4. CASE ~ (slot < last)
    <3>1. slot = last
      BY <2>1, <2>4
    <3>2. /\ ScanSlotCount' = last
          /\ AccountAtScanSlot' = MapRemove(MapRemove(AccountAtScanSlot, slot), last)
          /\ ScanSlotOf' = MapRemove(ScanSlotOf, account)
      BY <1>2, <2>4 DEF LeaveRotation
    <3>3. /\ DOMAIN AccountAtScanSlot' = 0..(ScanSlotCount' - 1)
          /\ \A s \in DOMAIN AccountAtScanSlot' : AccountAtScanSlot'[s] = AccountAtScanSlot[s]
      BY <2>1, <3>1, <3>2 DEF MapRemove, Shape
    <3>4. /\ DOMAIN ScanSlotOf' = DOMAIN ScanSlotOf \ {account}
          /\ \A a \in DOMAIN ScanSlotOf' : ScanSlotOf'[a] = ScanSlotOf[a]
      BY <3>2 DEF MapRemove
    <3>5. MutuallyInverse(AccountAtScanSlot, ScanSlotOf)'
      BY <2>1, <2>2, <3>1, <3>2, <3>3, <3>4 DEF Shape, MutuallyInverse
    <3> QED BY <2>1, <3>2, <3>3, <3>4, <3>5 DEF Shape
  <2> QED BY <2>3, <2>4
<1> QED BY <1>1, <1>2

\* A batch of the backfill keeps the shape and enrols every account it walked.
LEMMA EnrolKeepsShape ==
    ASSUME Shape, NEW B \in SUBSET Accounts, EnrolWalked(B)
    PROVE  Shape' /\ DOMAIN ScanSlotOf' = DOMAIN ScanSlotOf \cup B
<1> DEFINE fresh == B \ DOMAIN ScanSlotOf
           n == Cardinality(fresh)
           base == ScanSlotCount
<1>1. n \in Nat
  BY AccountsFinite, FS_Subset, FS_CardinalityType
<1>2. PICK order \in [0..(n - 1) -> fresh] :
            /\ \A i, j \in 0..(n - 1) : i < j => HashRank[order[i]] < HashRank[order[j]]
            /\ \A a \in fresh : \E i \in 0..(n - 1) : order[i] = a
            /\ ScanSlotCount' = ScanSlotCount + n
            /\ AccountAtScanSlot' =
                    [s \in DOMAIN AccountAtScanSlot \cup ScanSlotCount..(ScanSlotCount + n - 1) |->
                        IF s >= ScanSlotCount THEN order[s - ScanSlotCount]
                                              ELSE AccountAtScanSlot[s]]
            /\ ScanSlotOf' =
                    [a \in DOMAIN ScanSlotOf \cup fresh |->
                        IF a \in fresh
                        THEN ScanSlotCount + (CHOOSE i \in 0..(n - 1) : order[i] = a)
                        ELSE ScanSlotOf[a]]
  BY DEF EnrolWalked
<1> DEFINE pos(a) == CHOOSE i \in 0..(n - 1) : order[i] = a
<1>3. \A a \in fresh : pos(a) \in 0..(n - 1) /\ order[pos(a)] = a
  BY <1>2
<1>4. \A i \in 0..(n - 1) : order[i] \in fresh /\ pos(order[i]) = i
  <2> TAKE i \in 0..(n - 1)
  <2>1. order[i] \in fresh
    BY <1>2
  <2>2. pos(order[i]) \in 0..(n - 1) /\ order[pos(order[i])] = order[i]
    BY <1>3, <2>1
  <2>3. \A j \in 0..(n - 1) : HashRank[order[j]] \in Nat
    BY <1>2, HashRankInjective
  <2>4. \A j \in 0..(n - 1) : order[j] = order[i] => ~ (i < j) /\ ~ (j < i)
    <3> TAKE j \in 0..(n - 1)
    <3> HAVE order[j] = order[i]
    <3>0. \A x \in Nat : ~ (x < x)
      OBVIOUS
    <3>1. ~ (HashRank[order[i]] < HashRank[order[j]]) /\ ~ (HashRank[order[j]] < HashRank[order[i]])
      BY <2>3, <3>0, Zenon
    <3> QED BY <1>2, <3>1
  <2>5. ~ (i < pos(order[i])) /\ ~ (pos(order[i]) < i)
    BY <2>2, <2>4
  <2>6. \A j \in 0..(n - 1) : ~ (i < j) /\ ~ (j < i) => j = i
    BY <1>1
  <2> QED BY <2>1, <2>2, <2>5, <2>6
<1> HIDE DEF pos, n
<1>5. /\ DOMAIN AccountAtScanSlot' = 0..(ScanSlotCount' - 1)
      /\ \A s \in 0..(base - 1) : AccountAtScanSlot'[s] = AccountAtScanSlot[s]
      /\ \A i \in 0..(n - 1) : AccountAtScanSlot'[base + i] = order[i]
  <2>1. ScanSlotCount \in Nat /\ DOMAIN AccountAtScanSlot = 0..(ScanSlotCount - 1)
    BY DEF Shape
  <2>2. 0..(base - 1) \cup base..(base + n - 1) = 0..(base + n - 1)
    BY <1>1, <2>1
  <2>3. DOMAIN AccountAtScanSlot' = 0..(base + n - 1)
    BY <1>2, <2>1, <2>2
  <2>4. \A s \in 0..(base + n - 1) :
            AccountAtScanSlot'[s] = IF s >= base THEN order[s - base] ELSE AccountAtScanSlot[s]
    BY <1>2, <2>1, <2>2
  <2>5. \A i \in 0..(n - 1) : base + i \in 0..(base + n - 1) /\ base + i >= base /\ (base + i) - base = i
    BY <1>1, <2>1
  <2>6. \A s \in 0..(base - 1) : s \in 0..(base + n - 1) /\ ~ (s >= base)
    BY <1>1, <2>1
  <2>7. ScanSlotCount' - 1 = base + n - 1
    BY <1>1, <1>2, <2>1
  <2> QED BY <2>3, <2>4, <2>5, <2>6, <2>7
<1>6. /\ DOMAIN ScanSlotOf' = DOMAIN ScanSlotOf \cup fresh
      /\ \A a \in fresh : ScanSlotOf'[a] = base + pos(a)
      /\ \A a \in DOMAIN ScanSlotOf : ScanSlotOf'[a] = ScanSlotOf[a]
  BY <1>2 DEF pos
<1>7. \A s \in DOMAIN AccountAtScanSlot' :
          \/ s \in 0..(base - 1)
          \/ s - base \in 0..(n - 1) /\ s = base + (s - base)
  <2>1. base \in Nat /\ ScanSlotCount' = base + n
    BY <1>2 DEF Shape
  <2>2. \A s \in 0..(base + n - 1) :
            \/ s \in 0..(base - 1)
            \/ s - base \in 0..(n - 1) /\ s = base + (s - base)
    BY <1>1, <2>1
  <2>3. DOMAIN AccountAtScanSlot' = 0..(base + n - 1)
    BY <1>1, <1>5, <2>1
  <2> QED BY <2>2, <2>3
<1>8. ASSUME NEW s \in DOMAIN AccountAtScanSlot'
      PROVE  /\ AccountAtScanSlot'[s] \in Accounts
             /\ AccountAtScanSlot'[s] \in DOMAIN ScanSlotOf'
             /\ ScanSlotOf'[AccountAtScanSlot'[s]] = s
  <2>1. CASE s \in 0..(base - 1)
    BY <2>1, <1>5, <1>6 DEF Shape, MutuallyInverse
  <2>2. CASE s - base \in 0..(n - 1) /\ s = base + (s - base)
    <3>1. AccountAtScanSlot'[s] = order[s - base]
      BY <2>2, <1>5
    <3>2. order[s - base] \in fresh /\ pos(order[s - base]) = s - base
      BY <2>2, <1>4
    <3> QED BY <2>2, <3>1, <3>2, <1>6
  <2> QED BY <1>7, <2>1, <2>2
<1>9. ASSUME NEW a \in DOMAIN ScanSlotOf'
      PROVE  /\ a \in Accounts
             /\ ScanSlotOf'[a] \in Nat
             /\ ScanSlotOf'[a] \in DOMAIN AccountAtScanSlot'
             /\ AccountAtScanSlot'[ScanSlotOf'[a]] = a
  <2>1. CASE a \in DOMAIN ScanSlotOf
    <3>1. ScanSlotOf[a] \in 0..(base - 1) /\ AccountAtScanSlot[ScanSlotOf[a]] = a
      BY <2>1 DEF Shape, MutuallyInverse
    <3> QED BY <2>1, <3>1, <1>1, <1>2, <1>5, <1>6 DEF Shape
  <2>2. CASE a \in fresh
    <3>1. ScanSlotOf'[a] = base + pos(a) /\ pos(a) \in 0..(n - 1) /\ order[pos(a)] = a
      BY <2>2, <1>3, <1>6 DEF pos
    <3> QED BY <2>2, <3>1, <1>1, <1>2, <1>5 DEF Shape
  <2> QED BY <1>6, <2>1, <2>2
<1>10. ScanSlotCount' \in Nat
  BY <1>1, <1>2 DEF Shape
<1>11. MutuallyInverse(AccountAtScanSlot, ScanSlotOf)'
  BY <1>8, <1>9 DEF MutuallyInverse
<1>12. Shape'
  BY <1>5, <1>8, <1>9, <1>10, <1>11 DEF Shape
<1>13. DOMAIN ScanSlotOf' = DOMAIN ScanSlotOf \cup B
  BY <1>6
<1> QED BY <1>12, <1>13

-------------------------------------------------------------------------------
(* The binding maps.                                                         *)

\* Adding a pair to two maps that are each other's inverse, neither side taken.
LEMMA BindPair ==
    ASSUME NEW f, NEW g, NEW x, NEW y, MutuallyInverse(f, g), x \notin DOMAIN f, y \notin DOMAIN g
    PROVE  MutuallyInverse(MapInsert(f, x, y), MapInsert(g, y, x))
BY DEF MutuallyInverse, MapInsert

\* Dropping a pair from them.
LEMMA UnbindPair ==
    ASSUME NEW f, NEW g, NEW x, MutuallyInverse(f, g), x \in DOMAIN f
    PROVE  MutuallyInverse(MapRemove(f, x), MapRemove(g, f[x]))
BY DEF MutuallyInverse, MapRemove

\* The invariant's view of the rotation and back.
LEMMA ShapeOfInv == TypeOK /\ RotationDense => Shape
BY DEF TypeOK, RotationDense, Shape

\* Types that the steps on the rotation preserve.
LEMMA RotationOfShape ==
    Shape' /\ DOMAIN ScanSlotOf' \subseteq DOMAIN PkhOf' => RotationDense'
BY DEF RotationDense, Shape

\* The rotation's part of the type invariant.
LEMMA TypesOfShape ==
    Shape' => /\ ScanSlotCount' \in Nat
              /\ DOMAIN AccountAtScanSlot' \subseteq Nat
              /\ \A s \in DOMAIN AccountAtScanSlot' : AccountAtScanSlot'[s] \in Accounts
              /\ DOMAIN ScanSlotOf' \subseteq Accounts
              /\ \A a \in DOMAIN ScanSlotOf' : ScanSlotOf'[a] \in Nat
<1> HAVE Shape'
<1>1. /\ ScanSlotCount' \in Nat
      /\ DOMAIN AccountAtScanSlot' = 0..(ScanSlotCount' - 1)
  BY DEF Shape
<1>2. DOMAIN AccountAtScanSlot' \subseteq Nat
  <2>1. \A n \in Nat : \A s \in 0..(n - 1) : s \in Nat
    OBVIOUS
  <2> QED BY <1>1, <2>1
<1>3. /\ \A s \in DOMAIN AccountAtScanSlot' : AccountAtScanSlot'[s] \in Accounts
      /\ DOMAIN ScanSlotOf' \subseteq Accounts
      /\ \A a \in DOMAIN ScanSlotOf' : ScanSlotOf'[a] \in Nat
  BY Zenon DEF Shape
<1> QED BY <1>1, <1>2, <1>3

\* A one-to-one map and its reverse index are each other's inverse.
LEMMA ReverseIndexInverts ==
    ASSUME NEW accounts, NEW keys, NEW f \in Binds(accounts, keys)
    PROVE  /\ f \in MapOf(accounts, keys)
           /\ ReverseIndex(f) \in MapOf(keys, accounts)
           /\ MutuallyInverse(f, ReverseIndex(f))
<1> DEFINE g == ReverseIndex(f)
<1>1. f \in MapOf(accounts, keys) /\ \A a, b \in DOMAIN f : f[a] = f[b] => a = b
  BY DEF Binds
<1>2. /\ DOMAIN f \subseteq accounts
      /\ \A a \in DOMAIN f : f[a] \in keys
  BY <1>1, MapOfDef
<1>3. /\ DOMAIN g = {f[a] : a \in DOMAIN f}
      /\ g = [k \in DOMAIN g |-> g[k]]
      /\ \A k \in DOMAIN g : g[k] \in DOMAIN f /\ f[g[k]] = k
  BY DEF ReverseIndex
<1>4. \A a \in DOMAIN f : f[a] \in DOMAIN g /\ g[f[a]] = a
  BY <1>1, <1>3
<1> HIDE DEF g
<1>5. g \in MapOf(keys, accounts)
  <2>1. DOMAIN g \subseteq keys
    BY <1>2, <1>3
  <2>2. \A k \in DOMAIN g : g[k] \in accounts
    BY <1>2, <1>3
  <2> QED BY <1>3, <2>1, <2>2, MapOfDef
<1>6. MutuallyInverse(f, g)
  BY <1>3, <1>4 DEF MutuallyInverse
<1> QED BY <1>1, <1>5, <1>6 DEF g

\* Initially, on a chain at storage version 1.
LEMMA GateInit == Init => GateInv
<1> SUFFICES ASSUME Init PROVE GateInv
  OBVIOUS
<1>1. /\ PkhOf \in Binds(Accounts, Identities) /\ AccountOf = ReverseIndex(PkhOf)
      /\ StakeCredOf \in Binds(DOMAIN PkhOf, StakeCreds)
      /\ AccountOfStakeCred = ReverseIndex(StakeCredOf)
      /\ SpentStakeNonce = EmptyMap
      /\ AccountAtScanSlot = EmptyMap /\ ScanSlotOf = EmptyMap /\ ScanSlotCount = 0
      /\ Tombstoned = {} /\ TombstonedStakeCred = {} /\ RotationBackfillCursor = NoCursor
      /\ version = 1 /\ batch = <<>>
  BY DEF Init
<1>2. /\ PkhOf \in MapOf(Accounts, Identities)
      /\ AccountOf \in MapOf(Identities, Accounts)
      /\ MutuallyInverse(PkhOf, AccountOf)
  BY <1>1, ReverseIndexInverts
<1>3. /\ StakeCredOf \in MapOf(DOMAIN PkhOf, StakeCreds)
      /\ AccountOfStakeCred \in MapOf(StakeCreds, DOMAIN PkhOf)
      /\ MutuallyInverse(StakeCredOf, AccountOfStakeCred)
  BY <1>1, ReverseIndexInverts
<1>4. /\ DOMAIN PkhOf \subseteq Accounts
      /\ DOMAIN StakeCredOf \subseteq DOMAIN PkhOf
  BY <1>2, <1>3, MapOfDef
<1>5. /\ StakeCredOf \in MapOf(Accounts, StakeCreds)
      /\ AccountOfStakeCred \in MapOf(StakeCreds, Accounts)
  BY <1>3, <1>4, MapOfDef
<1>7. DOMAIN EmptyMap = {}
  BY EmptyType
<1>9. OneToOne
  BY <1>2, <1>3, <1>4 DEF OneToOne
<1>10. RotationDense
  BY <1>1, <1>7 DEF RotationDense, MutuallyInverse
<1>11. TypeOK
  <2>1. SpentStakeNonce \in MapOf(Accounts, Nonces)
    BY <1>1, EmptyType
  <2>2. batch \in Seq(Accounts)
    BY <1>1
  <2> QED BY <1>1, <1>2, <1>5, <1>7, <2>1, <2>2 DEF TypeOK
<1> QED BY <1>1, <1>9, <1>10, <1>11 DEF GateInv, BannedStaysUnbound, NobodySkipped

\* link_identity_signed keeps the invariant.
LEMMA LinkIdentityStep ==
    ASSUME GateInv, NEW account \in Accounts, NEW identity \in Identities,
           LinkIdentitySigned(account, identity)
    PROVE  GateInv'
<1> USE DEF GateInv
<1>1. /\ identity \notin Tombstoned
      /\ account \notin DOMAIN PkhOf
      /\ identity \notin DOMAIN AccountOf
      /\ PkhOf' = MapInsert(PkhOf, account, identity)
      /\ AccountOf' = MapInsert(AccountOf, identity, account)
      /\ JoinRotation(account)
      /\ UNCHANGED <<Tombstoned, stakeVars, RotationBackfillCursor, version, batch>>
  BY DEF LinkIdentitySigned, CanBind
<1>2. /\ DOMAIN PkhOf' = DOMAIN PkhOf \cup {account}
      /\ DOMAIN AccountOf' = DOMAIN AccountOf \cup {identity}
  BY <1>1, InsertFact
<1>3. Shape' /\ DOMAIN ScanSlotOf' = DOMAIN ScanSlotOf \cup {account}
  BY <1>1, ShapeOfInv, JoinKeepsShape
<1>4. OneToOne'
  <2>1. MutuallyInverse(PkhOf, AccountOf)'
    BY <1>1, BindPair DEF OneToOne
  <2> QED BY <1>1, <1>2, <2>1 DEF OneToOne, stakeVars
<1>5. TypeOK'
  <2>1. PkhOf' \in MapOf(Accounts, Identities) /\ AccountOf' \in MapOf(Identities, Accounts)
    BY <1>1, InsertType DEF TypeOK
  <2> QED BY <1>1, <1>3, <2>1, TypesOfShape DEF TypeOK, stakeVars
<1>6. RotationDense'
  BY <1>2, <1>3, RotationOfShape DEF RotationDense
<1>7. BannedStaysUnbound'
  BY <1>1, <1>2 DEF BannedStaysUnbound
<1>8. NobodySkipped'
  BY <1>1, <1>2, <1>3 DEF NobodySkipped
<1> QED BY <1>4, <1>5, <1>6, <1>7, <1>8

\* link_stake_signed keeps the invariant.
LEMMA LinkStakeStep ==
    ASSUME GateInv, NEW account \in Accounts, NEW cred \in StakeCreds, NEW nonce \in Nonces,
           LinkStakeSigned(account, cred, nonce)
    PROVE  GateInv'
<1> USE DEF GateInv
<1>1. /\ account \in DOMAIN PkhOf
      /\ account \notin DOMAIN StakeCredOf
      /\ cred \notin DOMAIN AccountOfStakeCred
      /\ SpentStakeNonce' = MapInsert(SpentStakeNonce, account, nonce)
      /\ StakeCredOf' = MapInsert(StakeCredOf, account, cred)
      /\ AccountOfStakeCred' = MapInsert(AccountOfStakeCred, cred, account)
      /\ UNCHANGED <<identityVars, TombstonedStakeCred, rotationVars,
                     RotationBackfillCursor, version, batch>>
  BY DEF LinkStakeSigned, CanBindStake
<1>2. OneToOne'
  <2>1. MutuallyInverse(StakeCredOf, AccountOfStakeCred)'
    BY <1>1, BindPair DEF OneToOne
  <2>2. DOMAIN StakeCredOf' = DOMAIN StakeCredOf \cup {account}
    BY <1>1, InsertFact
  <2> QED BY <1>1, <2>1, <2>2 DEF OneToOne, identityVars
<1>3. TypeOK'
  <2>1. /\ StakeCredOf' \in MapOf(Accounts, StakeCreds)
        /\ AccountOfStakeCred' \in MapOf(StakeCreds, Accounts)
        /\ SpentStakeNonce' \in MapOf(Accounts, Nonces)
    BY <1>1, InsertType DEF TypeOK
  <2> QED BY <1>1, <2>1 DEF TypeOK, identityVars, rotationVars
<1>4. RotationDense' /\ BannedStaysUnbound' /\ NobodySkipped'
  BY <1>1 DEF RotationDense, MutuallyInverse, BannedStaysUnbound, NobodySkipped,
              identityVars, rotationVars
<1> QED BY <1>2, <1>3, <1>4

\* do_revoke keeps the invariant, whatever happens to the batch.
LEMMA DoRevokeStep ==
    ASSUME GateInv, NEW account \in Accounts, DoRevoke(account), batch' \in Seq(Accounts)
    PROVE  GateInv'
<1> USE DEF GateInv
<1>1. /\ account \in DOMAIN PkhOf
      /\ PkhOf' = MapRemove(PkhOf, account)
      /\ AccountOf' = MapRemove(AccountOf, PkhOf[account])
      /\ Tombstoned' = Tombstoned \cup {PkhOf[account]}
      /\ LeaveRotation(account)
      /\ UNCHANGED <<SpentStakeNonce, RotationBackfillCursor, version>>
  BY DEF DoRevoke
<1>2. /\ DOMAIN PkhOf' = DOMAIN PkhOf \ {account}
      /\ DOMAIN AccountOf' = DOMAIN AccountOf \ {PkhOf[account]}
  BY <1>1, RemoveFact
<1>3. PkhOf[account] \in Identities
  BY <1>1, MapOfDef DEF TypeOK
<1>4. Shape' /\ DOMAIN ScanSlotOf' = DOMAIN ScanSlotOf \ {account}
  BY <1>1, ShapeOfInv, LeaveKeepsShape
<1>5. /\ MutuallyInverse(StakeCredOf, AccountOfStakeCred)'
      /\ DOMAIN StakeCredOf' = DOMAIN StakeCredOf \ {account}
      /\ StakeCredOf' \in MapOf(Accounts, StakeCreds)
      /\ AccountOfStakeCred' \in MapOf(StakeCreds, Accounts)
      /\ TombstonedStakeCred' \subseteq StakeCreds
  <2>1. CASE account \in DOMAIN StakeCredOf
    <3>1. /\ StakeCredOf' = MapRemove(StakeCredOf, account)
          /\ AccountOfStakeCred' = MapRemove(AccountOfStakeCred, StakeCredOf[account])
          /\ TombstonedStakeCred' = TombstonedStakeCred \cup {StakeCredOf[account]}
      BY <2>1 DEF DoRevoke
    <3>2. MutuallyInverse(StakeCredOf, AccountOfStakeCred)'
      BY <2>1, <3>1, UnbindPair DEF OneToOne
    <3>3. DOMAIN StakeCredOf' = DOMAIN StakeCredOf \ {account}
      BY <3>1, RemoveFact
    <3>4. /\ StakeCredOf' \in MapOf(Accounts, StakeCreds)
          /\ AccountOfStakeCred' \in MapOf(StakeCreds, Accounts)
      BY <3>1, RemoveType DEF TypeOK
    <3>5. StakeCredOf[account] \in StakeCreds
      BY <2>1, MapOfDef DEF TypeOK
    <3> QED BY <3>1, <3>2, <3>3, <3>4, <3>5 DEF TypeOK
  <2>2. CASE account \notin DOMAIN StakeCredOf
    BY <2>2 DEF DoRevoke, OneToOne, TypeOK, MutuallyInverse
  <2> QED BY <2>1, <2>2
<1>6. OneToOne'
  <2>1. MutuallyInverse(PkhOf, AccountOf)'
    BY <1>1, UnbindPair DEF OneToOne
  <2> QED BY <1>2, <1>5, <2>1 DEF OneToOne
<1>7. TypeOK'
  <2>1. PkhOf' \in MapOf(Accounts, Identities) /\ AccountOf' \in MapOf(Identities, Accounts)
    BY <1>1, RemoveType DEF TypeOK
  <2> QED BY <1>1, <1>3, <1>4, <1>5, <2>1, TypesOfShape DEF TypeOK
<1>8. RotationDense'
  BY <1>2, <1>4, RotationOfShape DEF RotationDense
<1>9. BannedStaysUnbound'
  BY <1>1, <1>2 DEF BannedStaysUnbound
<1>10. NobodySkipped'
  BY <1>1, <1>2, <1>4 DEF NobodySkipped
<1> QED BY <1>6, <1>7, <1>8, <1>9, <1>10

\* A revocation of the batch is one do_revoke, or a skip of an unbound target.
LEMMA RevokeNextStep ==
    ASSUME GateInv, RevokeNext
    PROVE  GateInv'
<1>1. batch \in Seq(Accounts) /\ batch # <<>>
  BY DEF GateInv, TypeOK, RevokeNext
<1>2. Head(batch) \in Accounts /\ Tail(batch) \in Seq(Accounts)
  BY <1>1, HeadTailProperties
<1>3. batch' \in Seq(Accounts)
  BY <1>2 DEF RevokeNext
<1>4. CASE DoRevoke(Head(batch))
  BY <1>2, <1>3, <1>4, DoRevokeStep
<1>5. CASE UNCHANGED <<identityVars, stakeVars, rotationVars, RotationBackfillCursor, version>>
  BY <1>3, <1>5 DEF GateInv, TypeOK, OneToOne, MutuallyInverse, BannedStaysUnbound, RotationDense,
                    NobodySkipped, identityVars, stakeVars, rotationVars
<1> QED BY <1>4, <1>5 DEF RevokeNext

\* Taking a target list keeps the invariant.
LEMMA RevokeManyStep ==
    ASSUME GateInv, NEW targets \in TargetLists, RevokeMany(targets)
    PROVE  GateInv'
<1>1. targets \in Seq(Accounts)
  BY GateBounds DEF TargetLists
<1> QED BY <1>1 DEF RevokeMany, GateInv, TypeOK, OneToOne, MutuallyInverse, BannedStaysUnbound,
                    RotationDense, NobodySkipped, identityVars, stakeVars, rotationVars

\* unlink_stake keeps the invariant.
LEMMA UnlinkStakeStep ==
    ASSUME GateInv, NEW account \in Accounts, UnlinkStake(account)
    PROVE  GateInv'
<1> USE DEF GateInv
<1>1. /\ account \in DOMAIN StakeCredOf
      /\ StakeCredOf' = MapRemove(StakeCredOf, account)
      /\ AccountOfStakeCred' = MapRemove(AccountOfStakeCred, StakeCredOf[account])
      /\ UNCHANGED <<identityVars, TombstonedStakeCred, SpentStakeNonce, rotationVars,
                     RotationBackfillCursor, version, batch>>
  BY DEF UnlinkStake
<1>2. OneToOne'
  <2>1. MutuallyInverse(StakeCredOf, AccountOfStakeCred)'
    BY <1>1, UnbindPair DEF OneToOne
  <2>2. DOMAIN StakeCredOf' \subseteq DOMAIN StakeCredOf
    BY <1>1, RemoveFact
  <2> QED BY <1>1, <2>1, <2>2 DEF OneToOne, identityVars
<1>3. TypeOK'
  <2>1. /\ StakeCredOf' \in MapOf(Accounts, StakeCreds)
        /\ AccountOfStakeCred' \in MapOf(StakeCreds, Accounts)
    BY <1>1, RemoveType DEF TypeOK
  <2> QED BY <1>1, <2>1 DEF TypeOK, identityVars, rotationVars
<1>4. RotationDense' /\ BannedStaysUnbound' /\ NobodySkipped'
  BY <1>1 DEF RotationDense, MutuallyInverse, BannedStaysUnbound, NobodySkipped,
              identityVars, rotationVars
<1> QED BY <1>2, <1>3, <1>4

\* tombstone_stake_cred keeps the invariant.
LEMMA TombstoneStakeCredStep ==
    ASSUME GateInv, NEW cred \in StakeCreds, TombstoneStakeCred(cred)
    PROVE  GateInv'
BY DEF TombstoneStakeCred, GateInv, TypeOK, OneToOne, MutuallyInverse, BannedStaysUnbound,
       RotationDense, NobodySkipped, identityVars, rotationVars

\* A walk that enrols its rows and moves the cursor to its last row, or drops
\* it at the end, leaves nobody behind: the rows it left out rank above it.
LEMMA WalkStep ==
    ASSUME GateInv, NEW rows \in SUBSET DOMAIN PkhOf, NEW B \in SUBSET rows, NEW budget,
           IsWalk(B, rows, budget), EnrolWalked(B),
           RotationBackfillCursor' = NoCursor \/ ResumeKey(B, RotationBackfillCursor'),
           B # rows => ResumeKey(B, RotationBackfillCursor'),
           DOMAIN PkhOf \ DOMAIN ScanSlotOf \subseteq rows,
           version' = 2, UNCHANGED <<identityVars, stakeVars, batch>>
    PROVE  GateInv'
<1> USE DEF GateInv
<1>1. DOMAIN PkhOf \subseteq Accounts
  BY MapOfDef DEF TypeOK
<1>2. Shape' /\ DOMAIN ScanSlotOf' = DOMAIN ScanSlotOf \cup B
  BY <1>1, ShapeOfInv, EnrolKeepsShape
<1>3. RotationDense'
  BY <1>2, RotationOfShape DEF RotationDense, identityVars
<1>4. RotationBackfillCursor' \in Nat \cup {NoCursor}
  BY <1>1, HashRankInjective DEF ResumeKey
<1>5. TypeOK'
  BY <1>2, <1>4, TypesOfShape DEF TypeOK, identityVars, stakeVars
<1>6. OneToOne' /\ BannedStaysUnbound'
  BY DEF OneToOne, MutuallyInverse, BannedStaysUnbound, identityVars, stakeVars
<1>7. NobodySkipped'
  <2> SUFFICES ASSUME NEW a \in DOMAIN PkhOf \ DOMAIN ScanSlotOf'
               PROVE  RotationBackfillCursor' # NoCursor /\ HashRank[a] > RotationBackfillCursor'
    BY DEF NobodySkipped, identityVars
  <2>1. a \in rows \ B
    BY <1>2
  <2>2. PICK b \in B : RotationBackfillCursor' = HashRank[b]
    BY <2>1 DEF ResumeKey
  <2>3. HashRank[b] < HashRank[a]
    BY <2>1 DEF IsWalk
  <2>4. HashRank[b] \in Nat /\ HashRank[a] \in Nat
    BY <1>1, HashRankInjective
  <2> QED BY <2>2, <2>3, <2>4 DEF NoCursor
<1> QED BY <1>3, <1>5, <1>6, <1>7

\* The on_idle drain keeps the invariant.
LEMMA OnIdleStep ==
    ASSUME GateInv, NEW budget \in 1..BackfillBatch, OnIdle(budget)
    PROVE  GateInv'
<1> DEFINE rows == KeysAfter(RotationBackfillCursor)
<1>1. PICK B \in SUBSET rows :
          /\ IsWalk(B, rows, budget)
          /\ EnrolWalked(B)
          /\ IF B = rows
             THEN RotationBackfillCursor' = NoCursor
             ELSE ResumeKey(B, RotationBackfillCursor')
  BY DEF OnIdle
<1>2. rows \in SUBSET DOMAIN PkhOf
  BY DEF KeysAfter
<1>3. version' = 2 /\ version = 2 /\ UNCHANGED <<identityVars, stakeVars, batch>>
  BY DEF OnIdle, Ready
<1>4. DOMAIN PkhOf \ DOMAIN ScanSlotOf \subseteq rows
  BY <1>3 DEF GateInv, NobodySkipped, KeysAfter
<1> HIDE DEF rows
<1> QED BY <1>1, <1>2, <1>3, <1>4, WalkStep

\* The v1 -> v2 migration keeps the invariant.
LEMMA MigrateStep ==
    ASSUME GateInv, MigrateV1ToV2, RotationBackfillCursor = NoCursor
    PROVE  GateInv'
<1>1. PICK B \in SUBSET DOMAIN PkhOf :
          /\ IsWalk(B, DOMAIN PkhOf, MigrationCap)
          /\ EnrolWalked(B)
          /\ IF B = DOMAIN PkhOf
             THEN UNCHANGED RotationBackfillCursor
             ELSE ResumeKey(B, RotationBackfillCursor')
  BY DEF MigrateV1ToV2
<1>2. version' = 2 /\ UNCHANGED <<identityVars, stakeVars, batch>>
  BY DEF MigrateV1ToV2
<1> QED BY <1>1, <1>2, WalkStep

-------------------------------------------------------------------------------
(* The theorems.                                                             *)

\* Only the migration starts a backfill.
NoDrainBeforeUpgrade == version = 1 => RotationBackfillCursor = NoCursor

\* Every step of the gate keeps the inductive invariant.
LEMMA GateStep ==
    ASSUME GateInv, NoDrainBeforeUpgrade, [Next]_gateVars
    PROVE  GateInv' /\ NoDrainBeforeUpgrade'
<1>1. ASSUME NEW account \in Accounts, NEW identity \in Identities,
             LinkIdentitySigned(account, identity)
      PROVE  GateInv' /\ NoDrainBeforeUpgrade'
  BY <1>1, LinkIdentityStep DEF LinkIdentitySigned, NoDrainBeforeUpgrade
<1>2. ASSUME NEW account \in Accounts, NEW cred \in StakeCreds, NEW nonce \in Nonces,
             LinkStakeSigned(account, cred, nonce)
      PROVE  GateInv' /\ NoDrainBeforeUpgrade'
  BY <1>2, LinkStakeStep DEF LinkStakeSigned, NoDrainBeforeUpgrade
<1>3. ASSUME NEW account \in Accounts, Revoke(account)
      PROVE  GateInv' /\ NoDrainBeforeUpgrade'
  <2>1. batch' \in Seq(Accounts)
    BY <1>3 DEF Revoke, GateInv, TypeOK
  <2> QED BY <1>3, <2>1, DoRevokeStep DEF Revoke, DoRevoke, NoDrainBeforeUpgrade
<1>4. ASSUME NEW targets \in TargetLists, RevokeMany(targets)
      PROVE  GateInv' /\ NoDrainBeforeUpgrade'
  BY <1>4, RevokeManyStep DEF RevokeMany, NoDrainBeforeUpgrade
<1>5. CASE RevokeNext
  BY <1>5, RevokeNextStep DEF RevokeNext, DoRevoke, NoDrainBeforeUpgrade
<1>6. ASSUME NEW account \in Accounts, UnlinkStake(account)
      PROVE  GateInv' /\ NoDrainBeforeUpgrade'
  BY <1>6, UnlinkStakeStep DEF UnlinkStake, NoDrainBeforeUpgrade
<1>7. ASSUME NEW cred \in StakeCreds, TombstoneStakeCred(cred)
      PROVE  GateInv' /\ NoDrainBeforeUpgrade'
  BY <1>7, TombstoneStakeCredStep DEF TombstoneStakeCred, NoDrainBeforeUpgrade
<1>8. ASSUME NEW budget \in 1..BackfillBatch, OnIdle(budget)
      PROVE  GateInv' /\ NoDrainBeforeUpgrade'
  BY <1>8, OnIdleStep DEF OnIdle, Ready, NoDrainBeforeUpgrade
<1>9. CASE MigrateV1ToV2
  BY <1>9, MigrateStep DEF MigrateV1ToV2, NoDrainBeforeUpgrade
<1>10. CASE UNCHANGED gateVars
  BY <1>10 DEF GateInv, TypeOK, OneToOne, MutuallyInverse, BannedStaysUnbound, RotationDense,
               NobodySkipped, NoDrainBeforeUpgrade, gateVars, identityVars, stakeVars, rotationVars
<1> QED BY <1>1, <1>2, <1>3, <1>4, <1>5, <1>6, <1>7, <1>8, <1>9, <1>10 DEF Next

\* The inductive invariant holds in every state of every behaviour.
THEOREM GateInvariant == Spec => []GateInv
<1>1. Init => GateInv /\ NoDrainBeforeUpgrade
  BY GateInit DEF Init, NoDrainBeforeUpgrade
<1>2. (GateInv /\ NoDrainBeforeUpgrade) /\ [Next]_gateVars => (GateInv /\ NoDrainBeforeUpgrade)'
  BY GateStep
<1> QED BY <1>1, <1>2, PTL DEF Spec

\* Every storage item of the gate keeps its type (lib.rs 195-331).
THEOREM GateTypes == Spec => []TypeOK
<1>1. GateInv => TypeOK
  BY DEF GateInv
<1> QED BY <1>1, GateInvariant, PTL

\* The binding maps stay each other's inverse through binds, revokes, batch
\* revokes and unlinks: one identity per account and one account per identity.
THEOREM BindingIsOneToOne == Spec => []OneToOne
<1>1. GateInv => OneToOne
  BY DEF GateInv
<1> QED BY <1>1, GateInvariant, PTL

\* A revoked identity is never bound again.
THEOREM BanHolds == Spec => []BannedStaysUnbound
<1>1. GateInv => BannedStaysUnbound
  BY DEF GateInv
<1> QED BY <1>1, GateInvariant, PTL

\* The scan rotation stays dense and holds bound accounts only.
THEOREM RotationStaysDense == Spec => []RotationDense
<1>1. GateInv => RotationDense
  BY DEF GateInv
<1> QED BY <1>1, GateInvariant, PTL

\* The migration and the on_idle drain skip no bound account.
THEOREM BackfillSkipsNobody == Spec => []NobodySkipped
<1>1. GateInv => NobodySkipped
  BY DEF GateInv
<1> QED BY <1>1, GateInvariant, PTL

\* The window's two readings agree for every cursor and budget: what the node
\* queries is what the runtime holds itself entitled to clear.
LEMMA WindowAgreesWithCoverage ==
    ASSUME Shape, NEW cursor \in Nat, NEW budget \in Nat
    PROVE  ScanWindow(cursor, budget) =
               {a \in DOMAIN ScanSlotOf : SlotInWindow(ScanSlotOf[a], cursor, budget)}
<1> DEFINE count == ScanSlotCount
           take == IF budget < count THEN budget ELSE count
           start == cursor % count
           SlotAt(i) == IF start + i >= count THEN start + i - count ELSE start + i
           Distance(slot) == IF slot >= start THEN slot - start ELSE count - start + slot
<1>1. count \in Nat /\ take \in Nat /\ take <= count
  BY DEF Shape
<1>2. CASE count = 0 \/ budget = 0
  BY <1>2 DEF ScanWindow, SlotInWindow
<1>3. CASE count # 0 /\ budget # 0
  <2>1. start \in 0..(count - 1)
    BY <1>1, <1>3
  <2> HIDE DEF start, take, count
  <2>2. \A i \in 0..(take - 1) : SlotAt(i) \in 0..(count - 1) /\ Distance(SlotAt(i)) = i
    BY <1>1, <2>1
  <2>3. \A s \in 0..(count - 1) : Distance(s) \in Nat /\ SlotAt(Distance(s)) = s
    BY <1>1, <2>1
  <2> HIDE DEF SlotAt, Distance
  <2>4. ScanWindow(cursor, budget) =
            {AccountAtScanSlot[SlotAt(i)] :
                i \in {j \in 0..(take - 1) : SlotAt(j) \in DOMAIN AccountAtScanSlot}}
    BY <1>3 DEF ScanWindow, SlotAt, start, take, count
  <2>5. \A slot \in 0..(count - 1) : SlotInWindow(slot, cursor, budget) <=> Distance(slot) < take
    BY <1>1, <1>3 DEF SlotInWindow, Distance, start, take, count
  <2>6. DOMAIN AccountAtScanSlot = 0..(count - 1)
    BY DEF Shape, count
  <2>7. ASSUME NEW a \in ScanWindow(cursor, budget)
        PROVE  a \in DOMAIN ScanSlotOf /\ SlotInWindow(ScanSlotOf[a], cursor, budget)
    <3>1. PICK i \in 0..(take - 1) : a = AccountAtScanSlot[SlotAt(i)]
      BY <2>4, <2>7
    <3>2. a \in DOMAIN ScanSlotOf /\ ScanSlotOf[a] = SlotAt(i)
      BY <3>1, <2>2, <2>6 DEF Shape, MutuallyInverse
    <3>3. i < take
      BY <1>1
    <3> QED BY <3>2, <3>3, <2>2, <2>5
  <2>8. ASSUME NEW a \in DOMAIN ScanSlotOf, SlotInWindow(ScanSlotOf[a], cursor, budget)
        PROVE  a \in ScanWindow(cursor, budget)
    <3>1. ScanSlotOf[a] \in 0..(count - 1) /\ AccountAtScanSlot[ScanSlotOf[a]] = a
      BY <2>6 DEF Shape, MutuallyInverse
    <3>2. Distance(ScanSlotOf[a]) \in 0..(take - 1)
      BY <1>1, <2>3, <2>5, <2>8, <3>1
    <3> QED BY <3>1, <3>2, <2>3, <2>4, <2>6
  <2> QED BY <2>7, <2>8
<1> QED BY <1>2, <1>3

\* An account is reported to the runtime as Covered exactly when the node was
\* told to query it, in every reachable state.
THEOREM WindowMatchesCoverage == Spec => []WindowIsCoverage
<1>1. GateInv => WindowIsCoverage
  <2> SUFFICES ASSUME GateInv,
                      NEW cursor \in 0..(2 * Cardinality(Accounts)),
                      NEW budget \in 0..(Cardinality(Accounts) + 1)
               PROVE  ScanWindow(cursor, budget) =
                        {a \in DOMAIN ScanSlotOf : SlotInWindow(ScanSlotOf[a], cursor, budget)}
    BY DEF WindowIsCoverage
  <2>1. Cardinality(Accounts) \in Nat
    BY AccountsFinite, FS_CardinalityType
  <2>2. cursor \in Nat /\ budget \in Nat
    BY <2>1
  <2> QED BY <2>2, ShapeOfInv, WindowAgreesWithCoverage DEF GateInv
<1> QED BY <1>1, GateInvariant, PTL

\* Bans are permanent: no step lifts a tombstone or rebinds a banned credential.
THEOREM BansNeverLifted == Spec => BansArePermanent
<1> DEFINE Kept == /\ Tombstoned \subseteq Tombstoned'
                   /\ BannedStaysUnbound'
                   /\ TombstonedStakeCred \subseteq TombstonedStakeCred'
                   /\ \A c \in TombstonedStakeCred \ DOMAIN AccountOfStakeCred :
                          c \notin DOMAIN AccountOfStakeCred'
<1>1. ASSUME [Next]_gateVars, GateInv' PROVE [Kept]_gateVars
  <2>0. BannedStaysUnbound'
    BY <1>1 DEF GateInv
  <2>1. ASSUME NEW account, DoRevoke(account) PROVE Kept
    BY <2>0, <2>1 DEF DoRevoke, MapRemove
  <2>2. ASSUME NEW account, NEW cred, NEW nonce, LinkStakeSigned(account, cred, nonce) PROVE Kept
    BY <2>0, <2>2 DEF LinkStakeSigned, CanBindStake, identityVars, MapInsert
  <2>3. ASSUME NEW account, UnlinkStake(account) PROVE Kept
    BY <2>0, <2>3 DEF UnlinkStake, identityVars, MapRemove
  <2>4. ASSUME NEW cred, TombstoneStakeCred(cred) PROVE Kept
    BY <2>0, <2>4 DEF TombstoneStakeCred, identityVars
  <2>5. ASSUME NEW account, NEW identity, LinkIdentitySigned(account, identity) PROVE Kept
    BY <2>0, <2>5 DEF LinkIdentitySigned, stakeVars
  <2>6. CASE UNCHANGED <<identityVars, stakeVars>>
    BY <2>0, <2>6 DEF identityVars, stakeVars
  <2> HIDE DEF Kept
  <2> QED BY <1>1, <2>1, <2>2, <2>3, <2>4, <2>5, <2>6
             DEF Next, Revoke, RevokeMany, RevokeNext, OnIdle, MigrateV1ToV2, gateVars
<1> QED BY <1>1, GateInvariant, PTL DEF Spec, BansArePermanent

===============================================================================
