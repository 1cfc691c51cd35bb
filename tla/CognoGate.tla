------------------------------- MODULE CognoGate -------------------------------
(***************************************************************************)
(* pallet-cogno-gate: the one-to-one binding of a Cardano identity to a    *)
(* posting account, the optional stake-credential binding on top of it,    *)
(* the committee's revocation with its tombstones, and the scan rotation:  *)
(* the dense slot table the observer's window walks.                       *)
(*                                                                         *)
(* A CIP-8 proof is abstracted to what verify_*_proof returns: the account *)
(* the payload commits, the identity or credential, and the nonce.         *)
(*                                                                         *)
(* The hooks the pallet calls on other pallets (OnBind, OnTeardown) have   *)
(* no effect on this pallet's storage; the module Observer adds them.      *)
(***************************************************************************)
EXTENDS Integers, FiniteSets, Sequences, StorageMap

CONSTANTS
    Accounts,       \* posting accounts
    Identities,     \* 32-byte Cardano identity hashes (the beacon names)
    StakeCreds,     \* 28-byte stake credentials
    Nonces,         \* proof nonces
    HashRank,       \* position of an account's row in PkhOf's hashed-key order
    BackfillBatch,  \* BACKFILL_BATCH: accounts one on_idle call may walk
    MigrationCap,   \* MAX_ACCOUNTS of the v1 -> v2 migration
    MaxBatchTargets \* bound on revoke_many's target list

ASSUME AccountsFinite == IsFiniteSet(Accounts)
ASSUME HashRankInjective ==
    /\ HashRank \in [Accounts -> Nat \ {0}]
    /\ \A a, b \in Accounts : HashRank[a] = HashRank[b] => a = b
ASSUME GateBounds ==
    /\ BackfillBatch \in Nat \ {0}
    /\ MigrationCap \in Nat \ {0}
    /\ MaxBatchTargets \in Nat

VARIABLES
    PkhOf, AccountOf,                 \* the identity binding, both directions
    Tombstoned,                       \* identities banned for ever
    StakeCredOf, AccountOfStakeCred,  \* the stake binding, both directions
    TombstonedStakeCred,              \* stake credentials banned for ever
    SpentStakeNonce,                  \* the last stake-proof nonce an account spent
    ScanSlotCount, AccountAtScanSlot, ScanSlotOf,  \* the scan rotation
    RotationBackfillCursor,           \* resume key of the enrolment backfill
    version,                          \* the pallet's on-chain storage version
    batch                             \* targets revoke_many has still to visit

identityVars == <<PkhOf, AccountOf, Tombstoned>>
stakeVars == <<StakeCredOf, AccountOfStakeCred, TombstonedStakeCred, SpentStakeNonce>>
rotationVars == <<ScanSlotCount, AccountAtScanSlot, ScanSlotOf>>
gateVars == <<identityVars, stakeVars, rotationVars, RotationBackfillCursor, version, batch>>

\* RotationBackfillCursor is an Option: None, or the last hashed key walked.
NoCursor == -1

-------------------------------------------------------------------------------
(* The scan rotation.                                                        *)

\* join_rotation: the tail slot, and never a second slot.
JoinRotation(account) ==
    IF account \in DOMAIN ScanSlotOf
    THEN UNCHANGED rotationVars
    ELSE /\ AccountAtScanSlot' = MapInsert(AccountAtScanSlot, ScanSlotCount, account)
         /\ ScanSlotOf' = MapInsert(ScanSlotOf, account, ScanSlotCount)
         /\ ScanSlotCount' = ScanSlotCount + 1

\* Mutant: the count drops before the account is known to hold a slot.
BugLeaveCountsFirst(account) ==
    /\ ScanSlotCount' = ScanSlotCount - 1
    /\ AccountAtScanSlot' = [s \in {t \in DOMAIN AccountAtScanSlot :
                                        AccountAtScanSlot[t] # account} |-> AccountAtScanSlot[s]]
    /\ ScanSlotOf' = MapRemove(ScanSlotOf, account)

\* Mutant: the hole is left where the account was.
BugLeaveNoSwap(account) ==
    IF account \notin DOMAIN ScanSlotOf
    THEN UNCHANGED rotationVars
    ELSE /\ ScanSlotCount' = ScanSlotCount - 1
         /\ AccountAtScanSlot' = MapRemove(AccountAtScanSlot, ScanSlotOf[account])
         /\ ScanSlotOf' = MapRemove(ScanSlotOf, account)

\* leave_rotation: the last slot's account moves into the hole.
LeaveRotation(account) ==
    IF account \notin DOMAIN ScanSlotOf
    THEN UNCHANGED rotationVars
    ELSE LET slot == ScanSlotOf[account]
             last == ScanSlotCount - 1
             rest == MapRemove(ScanSlotOf, account)
         IN  /\ ScanSlotCount' = last
             /\ IF slot < last /\ last \in DOMAIN AccountAtScanSlot
                THEN LET moved == AccountAtScanSlot[last]
                     IN  /\ AccountAtScanSlot' =
                                MapRemove(MapInsert(AccountAtScanSlot, slot, moved), last)
                         /\ ScanSlotOf' = MapInsert(rest, moved, slot)
                ELSE /\ AccountAtScanSlot' =
                            MapRemove(MapRemove(AccountAtScanSlot, slot), last)
                     /\ ScanSlotOf' = rest

\* The rows of PkhOf after a resume key, which is how iter_keys_from walks on.
KeysAfter(key) == {a \in DOMAIN PkhOf : HashRank[a] > key}

\* B is what a walk of at most budget rows visits: the lowest rows of the rest.
IsWalk(B, rows, budget) ==
    /\ B \subseteq rows
    /\ \A b \in B, r \in rows \ B : HashRank[b] < HashRank[r]
    /\ \/ B = rows /\ Cardinality(B) <= budget
       \/ B # rows /\ Cardinality(B) = budget

\* Enrol the not yet enrolled accounts of B at the tail, in the order walked.
EnrolWalked(B) ==
    LET fresh == B \ DOMAIN ScanSlotOf
        n == Cardinality(fresh)
    IN  \E order \in [0..(n - 1) -> fresh] :
            /\ \A i, j \in 0..(n - 1) : i < j => HashRank[order[i]] < HashRank[order[j]]
            /\ \A a \in fresh : \E i \in 0..(n - 1) : order[i] = a
            /\ ScanSlotCount' = ScanSlotCount + n
            /\ AccountAtScanSlot' =
                    [s \in DOMAIN AccountAtScanSlot \cup ScanSlotCount..(ScanSlotCount + n - 1) |->
                        IF s >= ScanSlotCount THEN order[s - ScanSlotCount]
                                              ELSE AccountAtScanSlot[s]]
            /\ ScanSlotOf' =
                    [a \in DOMAIN ScanSlotOf \cup fresh |->
                        IF a \in fresh
                        THEN ScanSlotCount + (CHOOSE i \in 0..(n - 1) : order[i] = a)
                        ELSE ScanSlotOf[a]]

\* Mutant: the cursor steps over the next key.
BugResumeKey(B, key) == \E a \in B : key = HashRank[a] + 1 /\ \A b \in B : HashRank[b] < key

\* The hashed key a walk stopped at.
ResumeKey(B, key) == \E a \in B : key = HashRank[a] /\ \A b \in B : HashRank[b] <= key

-------------------------------------------------------------------------------
(* The window the observer scans, read from the rotation.                    *)

\* scan_window: the accounts of min(budget, count) slots from the cursor on,
\* wrapping; the node's db-sync query is scoped to these.
ScanWindow(cursor, budget) ==
    LET take == IF budget < ScanSlotCount THEN budget ELSE ScanSlotCount
        start == cursor % ScanSlotCount
        SlotAt(i) == IF start + i >= ScanSlotCount THEN start + i - ScanSlotCount ELSE start + i
    IN  IF ScanSlotCount = 0 \/ budget = 0
        THEN {}
        ELSE {AccountAtScanSlot[SlotAt(i)] :
                 i \in {j \in 0..(take - 1) : SlotAt(j) \in DOMAIN AccountAtScanSlot}}

\* Mutant: one slot more than the window takes.
BugSlotInWindow(slot, cursor, budget) ==
    LET take == IF budget < ScanSlotCount THEN budget ELSE ScanSlotCount
        start == cursor % ScanSlotCount
        distance == IF slot >= start THEN slot - start ELSE ScanSlotCount - start + slot
    IN  ScanSlotCount # 0 /\ budget # 0 /\ slot < ScanSlotCount /\ distance <= take

\* slot_in_window: the test the runtime scopes a clear by.
SlotInWindow(slot, cursor, budget) ==
    LET take == IF budget < ScanSlotCount THEN budget ELSE ScanSlotCount
        start == cursor % ScanSlotCount
        distance == IF slot >= start THEN slot - start ELSE ScanSlotCount - start + slot
    IN  /\ ScanSlotCount # 0
        /\ budget # 0
        /\ slot < ScanSlotCount
        /\ distance < take

\* next_scan_cursor.
NextScanCursor(cursor, budget) ==
    LET take == IF budget < ScanSlotCount THEN budget ELSE ScanSlotCount
    IN  IF ScanSlotCount = 0 THEN 0
        ELSE ((cursor % ScanSlotCount) + take) % ScanSlotCount

\* Mutant: the last, short window of the pass is not counted.
BugScanSweepBlocks(budget) ==
    IF ScanSlotCount = 0 \/ budget = 0 THEN 0 ELSE ScanSlotCount \div budget

\* scan_sweep_blocks: blocks one full pass takes (div_ceil).
ScanSweepBlocks(budget) ==
    IF ScanSlotCount = 0 \/ budget = 0 THEN 0
    ELSE (ScanSlotCount + budget - 1) \div budget

-------------------------------------------------------------------------------
(* Dispatch guards, and the pool's mirror of them in validate_unsigned.      *)

CanBind(account, identity) ==
    /\ identity \notin Tombstoned
    /\ account \notin DOMAIN PkhOf
    /\ identity \notin DOMAIN AccountOf

\* Mutant: the spent nonce is not consulted.
BugCanBindStakeNonce(account, cred, nonce) ==
    /\ account \in DOMAIN PkhOf \ DOMAIN StakeCredOf
    /\ cred \notin TombstonedStakeCred \cup DOMAIN AccountOfStakeCred

\* Mutant: the tombstone is not consulted.
BugCanBindStakeBan(account, cred, nonce) ==
    /\ account \in DOMAIN PkhOf \ DOMAIN StakeCredOf
    /\ account \in DOMAIN SpentStakeNonce => SpentStakeNonce[account] # nonce
    /\ cred \notin DOMAIN AccountOfStakeCred

CanBindStake(account, cred, nonce) ==
    /\ account \in DOMAIN PkhOf
    /\ cred \notin TombstonedStakeCred
    /\ account \in DOMAIN SpentStakeNonce => SpentStakeNonce[account] # nonce
    /\ account \notin DOMAIN StakeCredOf
    /\ cred \notin DOMAIN AccountOfStakeCred

\* validate_unsigned on link_identity_signed: TRUE is admission to the pool.
PoolAdmitsBind(account, identity) ==
    ~ (\/ identity \in Tombstoned
       \/ identity \in DOMAIN AccountOf
       \/ account \in DOMAIN PkhOf)

\* Mutant: the pool does not mirror the identity precondition.
BugPoolAdmitsBindStake(account, cred, nonce) ==
    ~ (\/ cred \in TombstonedStakeCred
       \/ account \in DOMAIN StakeCredOf
       \/ cred \in DOMAIN AccountOfStakeCred
       \/ account \in DOMAIN SpentStakeNonce /\ SpentStakeNonce[account] = nonce)

\* validate_unsigned on link_stake_signed.
PoolAdmitsBindStake(account, cred, nonce) ==
    /\ account \in DOMAIN PkhOf
    /\ ~ (\/ cred \in TombstonedStakeCred
          \/ account \in DOMAIN StakeCredOf
          \/ cred \in DOMAIN AccountOfStakeCred
          \/ account \in DOMAIN SpentStakeNonce /\ SpentStakeNonce[account] = nonce)

-------------------------------------------------------------------------------
(* Operations. Ready excludes them while an upgrade or a batch is under way. *)

Ready == version = 2 /\ batch = <<>>

\* link_identity_signed -> do_bind.
LinkIdentitySigned(account, identity) ==
    /\ Ready
    /\ CanBind(account, identity)
    /\ PkhOf' = MapInsert(PkhOf, account, identity)
    /\ AccountOf' = MapInsert(AccountOf, identity, account)
    /\ JoinRotation(account)
    /\ UNCHANGED <<Tombstoned, stakeVars, RotationBackfillCursor, version, batch>>

\* link_stake_signed -> do_bind_stake.
LinkStakeSigned(account, cred, nonce) ==
    /\ Ready
    /\ CanBindStake(account, cred, nonce)
    /\ SpentStakeNonce' = MapInsert(SpentStakeNonce, account, nonce)
    /\ StakeCredOf' = MapInsert(StakeCredOf, account, cred)
    /\ AccountOfStakeCred' = MapInsert(AccountOfStakeCred, cred, account)
    /\ UNCHANGED <<identityVars, TombstonedStakeCred, rotationVars,
                   RotationBackfillCursor, version, batch>>

\* Mutant: the reverse index keeps the revoked account.
BugDoRevoke(account) ==
    /\ account \in DOMAIN PkhOf
    /\ PkhOf' = MapRemove(PkhOf, account)
    /\ Tombstoned' = Tombstoned \cup {PkhOf[account]}
    /\ LeaveRotation(account)
    /\ UNCHANGED <<AccountOf, stakeVars, RotationBackfillCursor, version>>

\* do_revoke on a bound account: NotBound is returned before any write.
DoRevoke(account) ==
    /\ account \in DOMAIN PkhOf
    /\ PkhOf' = MapRemove(PkhOf, account)
    /\ AccountOf' = MapRemove(AccountOf, PkhOf[account])
    /\ Tombstoned' = Tombstoned \cup {PkhOf[account]}
    /\ IF account \in DOMAIN StakeCredOf
       THEN /\ StakeCredOf' = MapRemove(StakeCredOf, account)
            /\ AccountOfStakeCred' = MapRemove(AccountOfStakeCred, StakeCredOf[account])
            /\ TombstonedStakeCred' = TombstonedStakeCred \cup {StakeCredOf[account]}
       ELSE UNCHANGED <<StakeCredOf, AccountOfStakeCred, TombstonedStakeCred>>
    /\ LeaveRotation(account)
    /\ UNCHANGED <<SpentStakeNonce, RotationBackfillCursor, version>>

\* revoke.
Revoke(account) == Ready /\ DoRevoke(account) /\ UNCHANGED batch

\* revoke_many: the extrinsic takes its target list...
RevokeMany(targets) ==
    /\ Ready
    /\ targets # <<>>
    /\ batch' = targets
    /\ UNCHANGED <<identityVars, stakeVars, rotationVars, RotationBackfillCursor, version>>

\* ... and visits one target after another, nothing else running in between.
\* An unbound target is skipped instead of failing the rest.
RevokeNext ==
    /\ batch # <<>>
    /\ batch' = Tail(batch)
    /\ \/ DoRevoke(Head(batch))
       \/ /\ Head(batch) \notin DOMAIN PkhOf
          /\ UNCHANGED <<identityVars, stakeVars, rotationVars,
                         RotationBackfillCursor, version>>

\* unlink_stake: no tombstone, and the spent nonce stays spent.
UnlinkStake(account) ==
    /\ Ready
    /\ account \in DOMAIN StakeCredOf
    /\ StakeCredOf' = MapRemove(StakeCredOf, account)
    /\ AccountOfStakeCred' = MapRemove(AccountOfStakeCred, StakeCredOf[account])
    /\ UNCHANGED <<identityVars, TombstonedStakeCred, SpentStakeNonce, rotationVars,
                   RotationBackfillCursor, version, batch>>

\* tombstone_stake_cred: the ban alone; a live bind of the credential stands.
TombstoneStakeCred(cred) ==
    /\ Ready
    /\ TombstonedStakeCred' = TombstonedStakeCred \cup {cred}
    /\ UNCHANGED <<identityVars, StakeCredOf, AccountOfStakeCred, SpentStakeNonce,
                   rotationVars, RotationBackfillCursor, version, batch>>

\* Mutant: the cursor outlives the last row.
BugOnIdle(budget) ==
    /\ Ready
    /\ RotationBackfillCursor # NoCursor
    /\ LET rows == KeysAfter(RotationBackfillCursor)
       IN  \E B \in SUBSET rows :
               /\ IsWalk(B, rows, budget)
               /\ EnrolWalked(B)
               /\ IF B = {} THEN UNCHANGED RotationBackfillCursor
                            ELSE ResumeKey(B, RotationBackfillCursor')
    /\ UNCHANGED <<identityVars, stakeVars, version, batch>>

\* on_idle -> drain_rotation_backfill with idle weight for budget accounts.
OnIdle(budget) ==
    /\ Ready
    /\ RotationBackfillCursor # NoCursor
    /\ LET rows == KeysAfter(RotationBackfillCursor)
       IN  \E B \in SUBSET rows :
               /\ IsWalk(B, rows, budget)
               /\ EnrolWalked(B)
               /\ IF B = rows
                  THEN RotationBackfillCursor' = NoCursor
                  ELSE ResumeKey(B, RotationBackfillCursor')
    /\ UNCHANGED <<identityVars, stakeVars, version, batch>>

\* The v1 -> v2 migration: enrol up to MigrationCap accounts in the upgrade
\* block and leave a cursor for the rest.
MigrateV1ToV2 ==
    /\ version = 1
    /\ version' = 2
    /\ \E B \in SUBSET DOMAIN PkhOf :
           /\ IsWalk(B, DOMAIN PkhOf, MigrationCap)
           /\ EnrolWalked(B)
           /\ IF B = DOMAIN PkhOf
              THEN UNCHANGED RotationBackfillCursor
              ELSE ResumeKey(B, RotationBackfillCursor')
    /\ UNCHANGED <<identityVars, stakeVars, batch>>

-------------------------------------------------------------------------------

\* One-to-one binds of some accounts to keys, and the reverse index of such.
Binds(accounts, keys) ==
    {f \in MapOf(accounts, keys) : \A a, b \in DOMAIN f : f[a] = f[b] => a = b}
ReverseIndex(f) == [k \in {f[a] : a \in DOMAIN f} |-> CHOOSE a \in DOMAIN f : f[a] = k]

\* A chain whose storage is still at version 1: any binds, no rotation. Without
\* binds it is a chain at genesis.
Init ==
    /\ PkhOf \in Binds(Accounts, Identities)
    /\ AccountOf = ReverseIndex(PkhOf)
    /\ Tombstoned = {}
    /\ StakeCredOf \in Binds(DOMAIN PkhOf, StakeCreds)
    /\ AccountOfStakeCred = ReverseIndex(StakeCredOf)
    /\ TombstonedStakeCred = {}
    /\ SpentStakeNonce = EmptyMap
    /\ ScanSlotCount = 0
    /\ AccountAtScanSlot = EmptyMap
    /\ ScanSlotOf = EmptyMap
    /\ RotationBackfillCursor = NoCursor
    /\ version = 1
    /\ batch = <<>>

\* The target lists of revoke_many.
TargetLists == UNION {[1..n -> Accounts] : n \in 0..MaxBatchTargets}

Next ==
    \/ \E account \in Accounts, identity \in Identities : LinkIdentitySigned(account, identity)
    \/ \E account \in Accounts, cred \in StakeCreds, nonce \in Nonces :
           LinkStakeSigned(account, cred, nonce)
    \/ \E account \in Accounts : Revoke(account)
    \/ \E targets \in TargetLists : RevokeMany(targets)
    \/ RevokeNext
    \/ \E account \in Accounts : UnlinkStake(account)
    \/ \E cred \in StakeCreds : TombstoneStakeCred(cred)
    \/ \E budget \in 1..BackfillBatch : OnIdle(budget)
    \/ MigrateV1ToV2

Spec == Init /\ [][Next]_gateVars

\* Every block ends in an on_idle, and a block with idle weight to spare comes
\* again and again; an extrinsic that has started runs to its end.
FairSpec ==
    /\ Spec
    /\ WF_gateVars(MigrateV1ToV2)
    /\ WF_gateVars(RevokeNext)
    /\ SF_gateVars(\E budget \in 1..BackfillBatch : OnIdle(budget))

-------------------------------------------------------------------------------
(* Properties.                                                               *)

\* Types of the storage items (lib.rs 195-331).
TypeOK ==
    /\ PkhOf \in MapOf(Accounts, Identities)
    /\ AccountOf \in MapOf(Identities, Accounts)
    /\ Tombstoned \subseteq Identities
    /\ StakeCredOf \in MapOf(Accounts, StakeCreds)
    /\ AccountOfStakeCred \in MapOf(StakeCreds, Accounts)
    /\ TombstonedStakeCred \subseteq StakeCreds
    /\ SpentStakeNonce \in MapOf(Accounts, Nonces)
    /\ ScanSlotCount \in Nat
    /\ DOMAIN AccountAtScanSlot \subseteq Nat
    /\ \A s \in DOMAIN AccountAtScanSlot : AccountAtScanSlot[s] \in Accounts
    /\ DOMAIN ScanSlotOf \subseteq Accounts
    /\ \A a \in DOMAIN ScanSlotOf : ScanSlotOf[a] \in Nat
    /\ RotationBackfillCursor \in Nat \cup {NoCursor}
    /\ version \in {1, 2}
    /\ batch \in Seq(Accounts)

\* f and g are each other's inverse.
MutuallyInverse(f, g) ==
    /\ \A x \in DOMAIN f : f[x] \in DOMAIN g /\ g[f[x]] = x
    /\ \A y \in DOMAIN g : g[y] \in DOMAIN f /\ f[g[y]] = y

\* The anti-Sybil anchor: binds, revokes, batch revokes and unlinks leave each
\* pair of binding maps each other's inverse, so an identity never speaks
\* through two accounts and an account never holds two identities, and a stake
\* bind only ever stands on an identity bind (do_bind_stake's precondition,
\* which do_revoke must not outlive).
OneToOne ==
    /\ MutuallyInverse(PkhOf, AccountOf)
    /\ MutuallyInverse(StakeCredOf, AccountOfStakeCred)
    /\ DOMAIN StakeCredOf \subseteq DOMAIN PkhOf

\* A revoked identity is never bound again (do_revoke's tombstone).
BannedStaysUnbound == Tombstoned \cap DOMAIN AccountOf = {}

\* try_state's rotation invariant: the slot table has no hole below its count,
\* its two maps are each other's inverse, and only bound accounts are in it,
\* through every swap-remove, tail join and backfill batch.
RotationDense ==
    /\ DOMAIN AccountAtScanSlot = 0..(ScanSlotCount - 1)
    /\ MutuallyInverse(AccountAtScanSlot, ScanSlotOf)
    /\ DOMAIN ScanSlotOf \subseteq DOMAIN PkhOf

\* No bound account falls between the migration, the on_idle drain and the
\* tail joins: one that has no slot yet is still ahead of the drain's cursor,
\* so once the cursor is gone every bound account is in the rotation.
NobodySkipped ==
    version = 2 =>
        \A a \in DOMAIN PkhOf \ DOMAIN ScanSlotOf :
            /\ RotationBackfillCursor # NoCursor
            /\ HashRank[a] > RotationBackfillCursor

\* validate_unsigned mirrors the dispatch: the pool admits exactly the binds
\* that do_bind and do_bind_stake would accept in the same state.
PoolMirrorsDispatch ==
    /\ \A a \in Accounts, i \in Identities : PoolAdmitsBind(a, i) <=> CanBind(a, i)
    /\ \A a \in Accounts, c \in StakeCreds, n \in Nonces :
           PoolAdmitsBindStake(a, c, n) <=> CanBindStake(a, c, n)

\* The node queries db-sync for ScanWindow's accounts and the runtime clears a
\* row on SlotInWindow's word: for every stored cursor (also one left beyond
\* the count by revokes) the two name the same accounts. Were an account only
\* in the second, the observer would read its absence as a loss and clear it.
WindowIsCoverage ==
    \A cursor \in 0..(2 * Cardinality(Accounts)), budget \in 0..(Cardinality(Accounts) + 1) :
        ScanWindow(cursor, budget) =
            {a \in DOMAIN ScanSlotOf : SlotInWindow(ScanSlotOf[a], cursor, budget)}

\* The cursor after n blocks of an undisturbed rotation.
CursorAfter(cursor, budget) ==
    LET c[n \in 0..Cardinality(Accounts)] ==
            IF n = 0 THEN cursor ELSE NextScanCursor(c[n - 1], budget)
    IN  c

\* scan_sweep_blocks is a true bound: from any stored cursor, that many windows
\* cover every enrolled account (absent joins and leaves in between).
SweepCoversAll ==
    \A cursor \in 0..(2 * Cardinality(Accounts)), budget \in 1..(Cardinality(Accounts) + 1) :
        UNION {ScanWindow(CursorAfter(cursor, budget)[n], budget) :
                  n \in 0..(ScanSweepBlocks(budget) - 1)} = DOMAIN ScanSlotOf

\* Bans are for ever: no tombstone is lifted, a banned identity is bound to
\* nobody, and a banned stake credential that is not bound (any longer) is never
\* bound again.
BansArePermanent ==
    [][/\ Tombstoned \subseteq Tombstoned'
       /\ BannedStaysUnbound'
       /\ TombstonedStakeCred \subseteq TombstonedStakeCred'
       /\ \A c \in TombstonedStakeCred \ DOMAIN AccountOfStakeCred :
              c \notin DOMAIN AccountOfStakeCred']_gateVars

\* SpentStakeNonce outlives unlink and revoke: the proof an account bound its
\* stake with last can never be replayed to undo the unlink.
LastStakeProofSingleUse ==
    [][\A a \in DOMAIN SpentStakeNonce :
           a \in DOMAIN StakeCredOf' \ DOMAIN StakeCredOf =>
               SpentStakeNonce'[a] # SpentStakeNonce[a]]_gateVars

\* The on_idle drain finishes: no interleaving of binds and revokes keeps the
\* backfill going for ever.
BackfillCompletes == (RotationBackfillCursor # NoCursor) ~> (RotationBackfillCursor = NoCursor)

===============================================================================
