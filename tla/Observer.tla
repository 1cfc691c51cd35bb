-------------------------------- MODULE Observer --------------------------------
(***************************************************************************)
(* pallet-cardano-observer composed with the gate and the roles pallet.    *)
(* Every block the author's node reads Cardano for the accounts of the     *)
(* scan window; the runtime turns the read into a paged delta against the  *)
(* basis of what it wrote before, and the Mandatory inherent applies it to *)
(* AllowedStake (vault locks), VotingPower (stake) and ObservedRoles.      *)
(*                                                                         *)
(* A block is: NewBlock (initialize_block: upgrade hooks, on_initialize),  *)
(* the inherent or its absence, extrinsics, and at its end on_idle.        *)
(* Reads are of stable Cardano data, so every node that has a read has the *)
(* same one; a node may also have none.                                    *)
(***************************************************************************)
EXTENDS Integers, FiniteSets, StorageMap, SequencesExt

CONSTANTS
    \* of CognoGate
    Accounts, Identities, StakeCreds, Nonces, HashRank,
    BackfillBatch, MigrationCap, MaxBatchTargets,
    \* of CardanoRoles
    RoleKinds, RoleCreds, RoleNonces, Pools, MaxRoleTargets, MaxSeq,
    \* of this pallet
    KeyRank,            \* byte order of beacons, stake credentials and accounts
    Lovelaces,          \* amounts a vault can lock
    Totals,             \* total stakes a credential can have
    RoleFacts,          \* role entries Cardano can show: [source, credential, id]
    MinLock, MaxStakeWeight, MaxVotingPower,
    MaxChangesPerBlock, \* page size per axis
    MaxScanned,         \* window size
    StallAfter,         \* blocks without an observation before the alarm
    StabilityChoices,   \* the values of StabilitySlots the runtimes compile in
    \* bounds of the model
    MaxBlock,           \* blocks go on past it, their numbers do not
    MaxMoves,           \* extrinsics and moves of Cardano
    MaxUpgrades

VARIABLES
    PkhOf, AccountOf, Tombstoned, StakeCredOf, AccountOfStakeCred, TombstonedStakeCred,
    SpentStakeNonce, ScanSlotCount, AccountAtScanSlot, ScanSlotOf, RotationBackfillCursor,
    version, batch,
    RoleClaimOf, RoleCredIndex, TombstonedRoleCred, SpentRoleNonce,
    ObservedRoles, ObservedRolesSeq, LastObservedRoles, roleBatch,
    AllowedStake,       \* talk-stake: the deposit weight
    VotingPower, VotingPowerSeq,
    LastObserved,       \* vault basis: beacon -> [who, weight]
    LastObservedStake,  \* stake basis: credential -> [who, weight]
    EnforceWeight, PendingChanges, LastReference, LastAppliedAt, Stalled,
    ScanCursor, LastSweepAt, UpgradeEnactedAt,
    code,               \* version and StabilitySlots of the runtime in :code
    LastRuntimeUpgrade, \* version that ran last
    now, phase,
    cardano,            \* Cardano at the stable reference: vaults, stakes, roles
    data,               \* the author's read for the block being built
    moves,              \* extrinsics and moves of Cardano so far
    \* history, for the properties
    importer,           \* what an importer derives from the parent state
    lastApplied,        \* reference of the observation applied last
    unswept,            \* enrolled accounts the running sweep has yet to cover
    missed,             \* accounts the last completed sweep did not cover
    advanced            \* did the last observation advance the cursor

Gate == INSTANCE CognoGate
Roles == INSTANCE CardanoRoles WITH allowed <- DOMAIN PkhOf

gateVars == <<PkhOf, AccountOf, Tombstoned, StakeCredOf, AccountOfStakeCred,
              TombstonedStakeCred, SpentStakeNonce, ScanSlotCount, AccountAtScanSlot, ScanSlotOf,
              RotationBackfillCursor, version, batch>>
roleVars == <<RoleClaimOf, RoleCredIndex, TombstonedRoleCred, SpentRoleNonce,
              ObservedRoles, ObservedRolesSeq, LastObservedRoles, roleBatch>>
stakeVars == <<AllowedStake, VotingPower, VotingPowerSeq, LastObserved, LastObservedStake>>
clockVars == <<PendingChanges, LastReference, LastAppliedAt, Stalled, ScanCursor, LastSweepAt>>
blockVars == <<UpgradeEnactedAt, LastRuntimeUpgrade, now, phase, data, importer>>
sweepVars == <<unswept, missed, advanced>>
vars == <<gateVars, roleVars, stakeVars, EnforceWeight, clockVars, blockVars, code, cardano,
          moves, lastApplied, sweepVars>>

None == -1          \* Option::None for the numeric items
Nobody == "nobody"  \* a resolver that finds no account
NoData == [some |-> FALSE]

-------------------------------------------------------------------------------
(* The node's read, scoped by the window at the parent state.                *)

\* scan_window_accounts.
Window == Gate!ScanWindow(ScanCursor, MaxScanned)

\* BoundStakeCreds: the stake credentials of the window's accounts.
BoundStakeCredentials == {StakeCredOf[a] : a \in Window \cap DOMAIN StakeCredOf}

\* BoundRoleCreds: their claimed credentials for one role.
ClaimedCredentials(role) ==
    {RoleClaimOf[<<a, role>>] : a \in {w \in Window : <<w, role>> \in DOMAIN RoleClaimOf}}

\* The role whose claims a source resolves through; SpoOwner needs no claim.
RoleOf(source) == CASE source = "SpoCalidus" -> "Spo"
                    [] source = "DRep" -> "DRep"
                    [] source = "Committee" -> "Committee"

\* The observation the node hands in: every vault, and the stakes and roles of
\* the window's credentials, as of the stable slot behind the parent.
Read ==
    [some |-> TRUE,
     reference |-> now - code.stability,
     entries |-> cardano.vaults,
     stake_entries |-> [c \in DOMAIN cardano.stakes \cap BoundStakeCredentials |->
                            cardano.stakes[c]],
     role_entries |-> {e \in cardano.roles :
                           IF e.source = "SpoOwner" THEN e.credential \in BoundStakeCredentials
                           ELSE e.credential \in ClaimedCredentials(RoleOf(e.source))}]

-------------------------------------------------------------------------------
(* derive_call: the read against the basis.                                  *)

\* Mutant: an account out of the window counts as looked at.
BugClearedByAbsence(who) == TRUE

\* cleared_by_absence: GateScanWindow::coverage is not Deferred.
ClearedByAbsence(who) ==
    who \in DOMAIN ScanSlotOf => Gate!SlotInWindow(ScanSlotOf[who], ScanCursor, MaxScanned)

\* RoleLookup.
ResolveRole(e) ==
    IF e.source = "SpoOwner" THEN MapGet(AccountOfStakeCred, e.credential, Nobody)
    ELSE MapGet(RoleCredIndex, <<RoleOf(e.source), e.credential>>, Nobody)

\* kind_index: both pool sources show the same badge.
BadgeOf(e) == [kind |-> IF e.source = "SpoOwner" THEN "Spo" ELSE RoleOf(e.source), id |-> e.id]

\* The MIN_LOCK floor.
Floored(lovelace) == IF lovelace >= MinLock THEN lovelace ELSE 0

\* The state the vault axis should reach; a bad value never enters it.
VaultDesired(obs) ==
    LET keys == {b \in DOMAIN obs.entries \cap DOMAIN AccountOf :
                     Floored(obs.entries[b]) <= MaxStakeWeight}
    IN  [b \in keys |-> [who |-> AccountOf[b], weight |-> Floored(obs.entries[b])]]

StakeDesired(obs) ==
    LET keys == {c \in DOMAIN obs.stake_entries \cap DOMAIN AccountOfStakeCred :
                     obs.stake_entries[c] <= MaxVotingPower}
    IN  [c \in keys |-> [who |-> AccountOfStakeCred[c], weight |-> obs.stake_entries[c]]]

\* Aggregated per account, deduplicated by badge.
RoleDesired(obs) ==
    LET holders == {ResolveRole(e) : e \in obs.role_entries} \ {Nobody}
    IN  [a \in holders |-> {BadgeOf(e) : e \in {f \in obs.role_entries : ResolveRole(f) = a}}]

\* A change writes a row (some) or clears it.
Write(key, value) == [key |-> key, some |-> TRUE, value |-> value]
Clear(key) == [key |-> key, some |-> FALSE]

\* What differs: rows to write, and rows of the basis that are desired no more
\* and whose absence means that they are gone.
Changes(desired, basis, clearable) ==
    {Write(k, desired[k]) :
        k \in {d \in DOMAIN desired : d \in DOMAIN basis => basis[d] # desired[d]}}
    \cup {Clear(k) : k \in clearable \ DOMAIN desired}

\* Mutant: plain key order.
BugClearsFirst(x, y) == KeyRank[x.key] < KeyRank[y.key]

\* The order of the two key-addressed axes: clears before credits, then by key.
ClearsFirst(x, y) ==
    IF x.some # y.some THEN ~x.some ELSE KeyRank[x.key] < KeyRank[y.key]

\* The role axis is ordered by account.
ByKey(x, y) == KeyRank[x.key] < KeyRank[y.key]

Page(sorted) == SubSeq(sorted, 1, IF Len(sorted) < MaxChangesPerBlock THEN Len(sorted)
                                                                      ELSE MaxChangesPerBlock)

\* Mutant: not what is left but what exceeds a full page.
BugSurplus(sorted) == Len(sorted) - MaxChangesPerBlock

Surplus(sorted) == Len(sorted) - Len(Page(sorted))

\* derive_call: every axis sorted, then cut to a page; the rest is pending.
DeriveCall(obs) ==
    LET vault == SetToSortSeq(Changes(VaultDesired(obs), LastObserved, DOMAIN LastObserved),
                              ClearsFirst)
        stake == SetToSortSeq(Changes(StakeDesired(obs), LastObservedStake,
                                      {c \in DOMAIN LastObservedStake :
                                           ClearedByAbsence(LastObservedStake[c].who)}),
                              ClearsFirst)
        roles == SetToSortSeq(Changes(RoleDesired(obs), LastObservedRoles,
                                      {a \in DOMAIN LastObservedRoles : ClearedByAbsence(a)}),
                              ByKey)
    IN  [reference |-> obs.reference,
         changes |-> Page(vault), stake_changes |-> Page(stake), role_changes |-> Page(roles),
         pending |-> Surplus(vault) + Surplus(stake) + Surplus(roles)]

-------------------------------------------------------------------------------
(* observe: the call applied.                                                *)

Saturating(seq) == IF seq < MaxSeq THEN seq + 1 ELSE seq

\* A sink write: AllowedStake or VotingPower, whose sequence moves on a change.
SetWeight(acc, who, weight) ==
    [acc EXCEPT !.ledger[who] = weight,
                !.seq = IF acc.ledger[who] # weight THEN Saturating(acc.seq) ELSE acc.seq]

\* One change of a key-addressed axis. A credit goes to the account the key
\* resolves to now, a clear to the account the basis recorded.
ApplyKeyed(acc, change, owner, cap) ==
    IF change.some
    THEN IF change.key \notin DOMAIN owner \/ change.value.weight > cap
         THEN acc
         ELSE [SetWeight(acc, owner[change.key], change.value.weight) EXCEPT
                  !.basis = MapInsert(acc.basis, change.key,
                                      [who |-> owner[change.key], weight |-> change.value.weight])]
    ELSE IF change.key \notin DOMAIN acc.basis
         THEN acc
         ELSE [SetWeight(acc, acc.basis[change.key].who, 0) EXCEPT
                  !.basis = MapRemove(acc.basis, change.key)]

\* Mutant: the account's badges are added to.
BugApplyRole(acc, change) ==
    LET set == MapGet(acc.ledger, change.key, {}) \cup (IF change.some THEN change.value ELSE {})
    IN  [ledger |-> MapInsert(acc.ledger, change.key, set),
         basis  |-> MapInsert(acc.basis, change.key, set),
         seq    |-> acc.seq]

\* One change of the role axis: the account's whole set.
ApplyRole(acc, change) ==
    LET set == IF change.some THEN change.value ELSE {}
    IN  [ledger |-> IF set = {} THEN MapRemove(acc.ledger, change.key)
                                ELSE MapInsert(acc.ledger, change.key, set),
         basis  |-> IF set = {} THEN MapRemove(acc.basis, change.key)
                                ELSE MapInsert(acc.basis, change.key, set),
         seq    |-> IF MapGet(acc.ledger, change.key, {}) # set THEN Saturating(acc.seq)
                                                               ELSE acc.seq]

\* Ledger and basis move together, and on a frozen chain neither does.
WriteLedgers(call) ==
    LET V(acc, change) == ApplyKeyed(acc, change, AccountOf, MaxStakeWeight)
        S(acc, change) == ApplyKeyed(acc, change, AccountOfStakeCred, MaxVotingPower)
        vault == FoldLeft(V, [ledger |-> AllowedStake, basis |-> LastObserved, seq |-> 0],
                          call.changes)
        stake == FoldLeft(S, [ledger |-> VotingPower, basis |-> LastObservedStake,
                              seq |-> VotingPowerSeq], call.stake_changes)
        roles == FoldLeft(ApplyRole, [ledger |-> ObservedRoles, basis |-> LastObservedRoles,
                                      seq |-> ObservedRolesSeq], call.role_changes)
    IN  IF EnforceWeight
        THEN /\ AllowedStake' = vault.ledger /\ LastObserved' = vault.basis
             /\ VotingPower' = stake.ledger /\ LastObservedStake' = stake.basis
             /\ VotingPowerSeq' = stake.seq
             /\ ObservedRoles' = roles.ledger /\ LastObservedRoles' = roles.basis
             /\ ObservedRolesSeq' = roles.seq
        ELSE UNCHANGED <<stakeVars, ObservedRoles, LastObservedRoles, ObservedRolesSeq>>

\* Mutant: the cursor leaves a window whose page was full.
BugScopedAxesDrained(call) == TRUE

\* Mutant: the cursor leaves a window only when its page was full.
BugScopedAxesFull(call) ==
    \/ Len(call.stake_changes) >= MaxChangesPerBlock
    \/ Len(call.role_changes) >= MaxChangesPerBlock

\* Did the block carry this window's whole delta? A full page may be a cut one.
ScopedAxesDrained(call) ==
    /\ Len(call.stake_changes) < MaxChangesPerBlock
    /\ Len(call.role_changes) < MaxChangesPerBlock

\* The scan rotation moves on, and the sweep clock is stamped at the wrap.
AdvanceScan(call) ==
    LET next == Gate!NextScanCursor(ScanCursor, MaxScanned)
        rest == unswept \ Window
    IN  IF ScopedAxesDrained(call)
        THEN /\ ScanCursor' = next
             /\ advanced' = TRUE
             /\ IF next <= ScanCursor
                THEN /\ LastSweepAt' = now
                     /\ missed' = rest
                     /\ unswept' = DOMAIN ScanSlotOf \ Window
                ELSE /\ unswept' = rest
                     /\ UNCHANGED <<LastSweepAt, missed>>
        ELSE /\ advanced' = FALSE
             /\ UNCHANGED <<ScanCursor, LastSweepAt, unswept, missed>>

\* The reference bounds: behind the frontier, or inside the rollback window.
Accepts(reference) ==
    /\ LastReference # None => reference >= LastReference
    /\ reference <= now - code.stability

\* Mutant: the author asks what the importer asks, after initialize_block.
BugAuthorSkips == LastRuntimeUpgrade # code.version

\* create_inherent's upgrade test.
AuthorSkips == UpgradeEnactedAt # None /\ UpgradeEnactedAt + 1 >= now

\* The block is past its inherents; the read and the parent are forgotten.
InherentsDone ==
    /\ phase = "inherent"
    /\ phase' = "body"
    /\ data' = NoData
    /\ importer' = NoData
    /\ UNCHANGED <<gateVars, RoleClaimOf, RoleCredIndex, TombstonedRoleCred, SpentRoleNonce,
                   roleBatch, EnforceWeight, UpgradeEnactedAt, LastRuntimeUpgrade, now, code,
                   cardano, moves>>

badgeVars == <<ObservedRoles, ObservedRolesSeq, LastObservedRoles>>

\* No inherent: no read, or the block enacts an upgrade.
Abstain ==
    /\ InherentsDone
    /\ data = NoData \/ AuthorSkips
    /\ UNCHANGED <<stakeVars, badgeVars, clockVars, lastApplied, sweepVars>>

\* Mutant: the frontier moves although part of the reference is queued.
BugFrontier(call) == LastReference' = call.reference

\* LastReference moves on a block that carried its whole change set.
Frontier(call) == LastReference' = IF call.pending = 0 THEN call.reference ELSE LastReference

\* observe, accepted.
Observe ==
    /\ InherentsDone
    /\ data # NoData /\ ~AuthorSkips
    /\ Accepts(data.reference)
    /\ LET call == DeriveCall(data)
       IN  /\ WriteLedgers(call)
           /\ PendingChanges' = call.pending
           /\ Frontier(call)
           /\ AdvanceScan(call)
           /\ lastApplied' = call.reference
    /\ Stalled' = FALSE
    /\ LastAppliedAt' = now

\* observe with a reference it will not apply: skipped, never an error.
SkipObservation ==
    /\ InherentsDone
    /\ data # NoData /\ ~AuthorSkips
    /\ ~Accepts(data.reference)
    /\ UNCHANGED <<stakeVars, badgeVars, clockVars, lastApplied, sweepVars>>

-------------------------------------------------------------------------------
(* Blocks.                                                                   *)

\* Executive::runtime_upgraded at the parent state.
Enacting == LastRuntimeUpgrade # code.version

\* Mutant: armed by a drained observation only.
BugStallHook(block) ==
    IF LastAppliedAt = 0
    THEN LastAppliedAt' = block /\ UNCHANGED Stalled
    ELSE /\ Stalled' = (Stalled \/ (block - LastAppliedAt > StallAfter /\ LastReference # None))
         /\ UNCHANGED LastAppliedAt

\* on_initialize's alarm: anchored on first use, latched once per episode.
StallHook(block) ==
    LET armed == LastReference # None \/ PendingChanges # 0
    IN  IF LastAppliedAt = 0
        THEN LastAppliedAt' = block /\ UNCHANGED Stalled
        ELSE /\ Stalled' = (Stalled \/ (block - LastAppliedAt > StallAfter /\ armed))
             /\ UNCHANGED LastAppliedAt

\* initialize_block on the author's side: the migrations if the block enacts an
\* upgrade (they still see the parent's number), then the new block's number
\* and on_initialize. The node made its read, if it could, at the parent state.
NewBlock ==
    /\ phase \in {"body", "idle"}
    /\ batch = <<>> /\ roleBatch = <<>>
    /\ phase' = "inherent"
    /\ now' = IF now < MaxBlock THEN now + 1 ELSE now
    /\ \/ data' = NoData
       \/ now >= code.stability /\ data' = Read
    /\ importer' = IF data' = NoData THEN NoData
                   ELSE [some |-> TRUE, rejects |-> Enacting, call |-> DeriveCall(data')]
    /\ IF Enacting
       THEN /\ UpgradeEnactedAt' = now
            /\ LastRuntimeUpgrade' = code.version
            /\ IF version = 1 THEN Gate!MigrateV1ToV2 ELSE UNCHANGED gateVars
            /\ unswept' = unswept \cup DOMAIN ScanSlotOf'
       ELSE UNCHANGED <<UpgradeEnactedAt, LastRuntimeUpgrade, gateVars, unswept>>
    /\ StallHook(now')
    /\ UNCHANGED <<roleVars, stakeVars, EnforceWeight, PendingChanges, LastReference,
                   ScanCursor, LastSweepAt, code, cardano, moves, lastApplied,
                   missed, advanced>>

\* on_idle, after the block's last extrinsic.
OnIdle(budget) ==
    /\ phase = "body"
    /\ roleBatch = <<>>
    /\ phase' = "idle"
    /\ Gate!OnIdle(budget)
    /\ unswept' = unswept \cup (DOMAIN ScanSlotOf' \ DOMAIN ScanSlotOf)
    /\ UNCHANGED <<roleVars, stakeVars, EnforceWeight, clockVars, UpgradeEnactedAt,
                   LastRuntimeUpgrade, now, data, importer, code, cardano, moves, lastApplied,
                   missed, advanced>>

-------------------------------------------------------------------------------
(* Extrinsics, and Cardano moving on.                                        *)

\* What every extrinsic leaves alone, and its place in the block.
Body ==
    /\ phase = "body"
    /\ moves < MaxMoves
    /\ moves' = moves + 1
    /\ UNCHANGED <<clockVars, blockVars, lastApplied, missed, advanced>>

RolesIdle == roleBatch = <<>> /\ UNCHANGED roleVars

LinkIdentity(account, identity) ==
    /\ Body
    /\ Gate!LinkIdentitySigned(account, identity)
    /\ RolesIdle
    /\ unswept' = unswept \cup {account}
    /\ UNCHANGED <<stakeVars, EnforceWeight, code, cardano>>

LinkStake(account, cred, nonce) ==
    /\ Body
    /\ Gate!LinkStakeSigned(account, cred, nonce)
    /\ RolesIdle
    /\ UNCHANGED <<stakeVars, EnforceWeight, code, cardano, unswept>>

\* Mutant: the voting power outlives the bind it came from.
BugForgetStake(account) == UNCHANGED <<VotingPower, VotingPowerSeq, LastObservedStake>>

\* ObservedTeardown::forget_stake, with the credential the account still holds.
ForgetStake(account) ==
    /\ LastObservedStake' = MapRemove(LastObservedStake, StakeCredOf[account])
    /\ VotingPower' = [VotingPower EXCEPT ![account] = 0]
    /\ VotingPowerSeq' = IF VotingPower[account] # 0 THEN Saturating(VotingPowerSeq)
                                                     ELSE VotingPowerSeq

\* Mutant: the badges stay.
BugTeardown(account) ==
    /\ IF account \in DOMAIN StakeCredOf
       THEN ForgetStake(account)
       ELSE UNCHANGED <<VotingPower, VotingPowerSeq, LastObservedStake>>
    /\ unswept' = unswept \ {account}
    /\ UNCHANGED <<roleVars, AllowedStake, LastObserved>>

\* do_revoke's hooks: forget_stake, forget_account, and purge_account_roles by
\* on_revoke. The vault axis is left to the next observation.
Teardown(account) ==
    /\ IF account \in DOMAIN StakeCredOf
       THEN ForgetStake(account)
       ELSE UNCHANGED <<VotingPower, VotingPowerSeq, LastObservedStake>>
    /\ Roles!PurgeAccountRoles(account)
    /\ unswept' = unswept \ {account}
    /\ UNCHANGED <<AllowedStake, LastObserved, roleBatch>>

Revoke(account) ==
    /\ Body
    /\ roleBatch = <<>>
    /\ Gate!Revoke(account)
    /\ Teardown(account)
    /\ UNCHANGED <<EnforceWeight, code, cardano>>

RevokeMany(targets) ==
    /\ Body
    /\ Gate!RevokeMany(targets)
    /\ RolesIdle
    /\ UNCHANGED <<stakeVars, EnforceWeight, code, cardano, unswept>>

RevokeNext ==
    /\ phase = "body"
    /\ Gate!RevokeNext
    /\ IF Head(batch) \in DOMAIN PkhOf
       THEN Teardown(Head(batch))
       ELSE UNCHANGED <<roleVars, stakeVars, unswept>>
    /\ UNCHANGED <<EnforceWeight, clockVars, blockVars, code, cardano, moves, lastApplied,
                   missed, advanced>>

UnlinkStake(account) ==
    /\ Body
    /\ Gate!UnlinkStake(account)
    /\ RolesIdle
    /\ ForgetStake(account)
    /\ UNCHANGED <<AllowedStake, LastObserved, EnforceWeight, code, cardano, unswept>>

TombstoneStakeCred(cred) ==
    /\ Body
    /\ Gate!TombstoneStakeCred(cred)
    /\ RolesIdle
    /\ UNCHANGED <<stakeVars, EnforceWeight, code, cardano, unswept>>

\* The gate is idle and stays so: an extrinsic of another pallet.
GateIdle == Gate!Ready /\ UNCHANGED gateVars

ClaimRole(account, role, cred, nonce) ==
    /\ Body
    /\ GateIdle
    /\ Roles!ClaimRoleSigned(account, role, cred, nonce)
    /\ UNCHANGED <<stakeVars, EnforceWeight, code, cardano, unswept>>

UnclaimRole(account, role) ==
    /\ Body
    /\ GateIdle
    /\ Roles!UnclaimRole(account, role)
    /\ UNCHANGED <<stakeVars, EnforceWeight, code, cardano, unswept>>

RevokeRole(account, role) ==
    /\ Body
    /\ GateIdle
    /\ Roles!RevokeRole(account, role)
    /\ UNCHANGED <<stakeVars, EnforceWeight, code, cardano, unswept>>

\* set_enforcement: the committee freezes or releases the weight writer.
SetEnforcement(enabled) ==
    /\ Body
    /\ GateIdle
    /\ RolesIdle
    /\ EnforceWeight' = enabled
    /\ UNCHANGED <<stakeVars, code, cardano, unswept>>

\* apply_authorized_upgrade: a new runtime, perhaps with another window.
Upgrade(stability) ==
    /\ Body
    /\ GateIdle
    /\ RolesIdle
    /\ code.version < MaxUpgrades
    /\ now < MaxBlock - 1
    /\ code' = [version |-> code.version + 1, stability |-> stability]
    /\ UNCHANGED <<stakeVars, EnforceWeight, cardano, unswept>>

\* Between two references vaults are locked and unlocked, stake moves, roles
\* appear and lapse.
CardanoMoves(vaults, stakes, roles) ==
    /\ Body
    /\ GateIdle
    /\ RolesIdle
    /\ cardano' = [vaults |-> vaults, stakes |-> stakes, roles |-> roles]
    /\ UNCHANGED <<stakeVars, EnforceWeight, code, unswept>>

-------------------------------------------------------------------------------

\* A chain whose first runtime of this version has just been installed (with no
\* bind, a chain at genesis: an absent LastRuntimeUpgrade counts as upgraded).
Init ==
    /\ Gate!Init
    /\ RoleClaimOf = EmptyMap /\ RoleCredIndex = EmptyMap
    /\ TombstonedRoleCred = {} /\ SpentRoleNonce = EmptyMap
    /\ ObservedRoles = EmptyMap /\ ObservedRolesSeq = 0 /\ LastObservedRoles = EmptyMap
    /\ roleBatch = <<>>
    /\ AllowedStake = [a \in Accounts |-> 0]
    /\ VotingPower = [a \in Accounts |-> 0] /\ VotingPowerSeq = 0
    /\ LastObserved = EmptyMap /\ LastObservedStake = EmptyMap
    /\ EnforceWeight = TRUE
    /\ PendingChanges = 0 /\ LastReference = None /\ LastAppliedAt = 0 /\ Stalled = FALSE
    /\ ScanCursor = 0 /\ LastSweepAt = 0
    /\ UpgradeEnactedAt = None
    /\ \E s \in StabilityChoices : code = [version |-> 1, stability |-> s]
    /\ LastRuntimeUpgrade = 0
    /\ now = 0 /\ phase = "body" /\ data = NoData /\ importer = NoData
    /\ \E vaults \in MapOf(Identities, Lovelaces), stakes \in MapOf(StakeCreds, Totals),
          roles \in SUBSET RoleFacts :
           cardano = [vaults |-> vaults, stakes |-> stakes, roles |-> roles]
    /\ moves = 0
    /\ lastApplied = None /\ unswept = {} /\ missed = {} /\ advanced = TRUE

Next ==
    \/ NewBlock
    \/ Observe
    \/ SkipObservation
    \/ Abstain
    \/ \E budget \in 1..BackfillBatch : OnIdle(budget)
    \/ \E a \in Accounts, i \in Identities : LinkIdentity(a, i)
    \/ \E a \in Accounts, c \in StakeCreds, n \in Nonces : LinkStake(a, c, n)
    \/ \E a \in Accounts : Revoke(a)
    \/ \E targets \in Gate!TargetLists : RevokeMany(targets)
    \/ RevokeNext
    \/ \E a \in Accounts : UnlinkStake(a)
    \/ \E c \in StakeCreds : TombstoneStakeCred(c)
    \/ \E a \in Accounts, r \in RoleKinds, c \in RoleCreds, n \in RoleNonces :
           ClaimRole(a, r, c, n)
    \/ \E a \in Accounts, r \in RoleKinds : UnclaimRole(a, r)
    \/ \E a \in Accounts, r \in RoleKinds : RevokeRole(a, r)
    \/ \E enabled \in BOOLEAN : SetEnforcement(enabled)
    \/ \E s \in StabilityChoices : Upgrade(s)
    \/ \E vaults \in MapOf(Identities, Lovelaces), stakes \in MapOf(StakeCreds, Totals),
          roles \in SUBSET RoleFacts : CardanoMoves(vaults, stakes, roles)

Spec == Init /\ [][Next]_vars

\* Blocks keep coming; again and again a block's author has a read, and while
\* the backfill lasts a block again and again has idle weight for it.
FairSpec ==
    /\ Spec
    /\ []<>(phase = "body")
    /\ []<>(data # NoData)
    /\ []<>(phase = "idle" \/ RotationBackfillCursor = Gate!NoCursor)

NewBlockWithRead == NewBlock /\ data' # NoData

\* The same as fairness of the actions.
ScheduledSpec ==
    /\ Spec
    /\ WF_vars(NewBlock) /\ SF_vars(NewBlockWithRead)
    /\ WF_vars(Observe \/ SkipObservation \/ Abstain)
    /\ WF_vars(RevokeNext) /\ SF_vars(\E budget \in 1..BackfillBatch : OnIdle(budget))

-------------------------------------------------------------------------------
(* Properties.                                                               *)

\* Types of the pallet's storage and of talk-stake's two ledgers.
TypeOK ==
    /\ AllowedStake \in [Accounts -> 0..MaxStakeWeight]
    /\ VotingPower \in [Accounts -> 0..MaxVotingPower]
    /\ LastObserved \in MapOf(Identities, [who : Accounts, weight : 0..MaxStakeWeight])
    /\ LastObservedStake \in MapOf(StakeCreds, [who : Accounts, weight : 0..MaxVotingPower])
    /\ EnforceWeight \in BOOLEAN /\ Stalled \in BOOLEAN
    /\ PendingChanges \in Nat /\ LastReference \in Nat \cup {None}
    /\ LastAppliedAt \in 0..MaxBlock /\ LastSweepAt \in 0..MaxBlock
    /\ ScanCursor \in 0..Cardinality(Accounts)
    /\ UpgradeEnactedAt \in (0..MaxBlock) \cup {None}
    /\ phase \in {"inherent", "body", "idle"}

\* A ledger is what its basis says: an account's weight is that of the one row
\* that names it, and zero when no row does.
LedgerIsBasis(ledger, basis) ==
    \A a \in Accounts :
        LET rows == {k \in DOMAIN basis : basis[k].who = a}
        IN  IF rows = {} THEN ledger[a] = 0
            ELSE \A k \in rows : rows = {k} /\ ledger[a] = basis[k].weight

\* On all three axes, through paged deltas, freezes, revokes and rebinds, the
\* ledgers hold exactly what the diff basis records. A row that disagreed would
\* never be repaired: the delta compares Cardano with the basis, not with the
\* ledger. The clears-before-credits order of derive_call and the paired writes
\* of observe are there for this.
BasisIsLedger ==
    /\ LedgerIsBasis(AllowedStake, LastObserved)
    /\ LedgerIsBasis(VotingPower, LastObservedStake)
    /\ LastObservedRoles = ObservedRoles

\* Voting power and badges never outlive the bind or claim they come from, not
\* even on a frozen or stalled chain or out of the scan window: close_poll reads
\* both ledgers directly. (A pool badge may: unlink_stake leaves it to the next
\* window, and the chambers count a pool once.)
NoOrphanedWeight ==
    /\ \A c \in DOMAIN LastObservedStake :
           MapGet(AccountOfStakeCred, c, Nobody) = LastObservedStake[c].who
    /\ \A a \in Accounts : VotingPower[a] > 0 => a \in DOMAIN StakeCredOf
    /\ DOMAIN ObservedRoles \subseteq DOMAIN PkhOf
    /\ Roles!BadgeBackedByClaim

\* Absence is evidence only where somebody looked: an observation changes
\* nothing of an enrolled account outside the window on the two scoped axes.
DeferredIsHeld ==
    [][Observe => \A a \in DOMAIN ScanSlotOf \ Window :
           /\ VotingPower'[a] = VotingPower[a]
           /\ MapGet(ObservedRoles, a, {})' = MapGet(ObservedRoles, a, {})]_vars

\* "Observed and applied through here": a block that reports nothing pending on
\* an enforcing chain leaves no difference between its read and the basis, for
\* the whole window. LastReference moves exactly then.
DrainedMeansApplied ==
    [][Observe /\ EnforceWeight /\ LastReference' # LastReference
       => /\ LastObserved' = VaultDesired(data)
          /\ \A c \in DOMAIN StakeDesired(data) :
                 c \in DOMAIN LastObservedStake' /\ LastObservedStake'[c] = StakeDesired(data)[c]
          /\ \A a \in DOMAIN RoleDesired(data) :
                 MapGet(LastObservedRoles, a, {})' = RoleDesired(data)[a]]_vars

\* The cursor leaves no unapplied tail behind: when an enforcing block advances
\* the rotation, the basis shows what the read says of every account of the
\* window it leaves. observe holds the cursor on a full page for this.
NoTailLeftBehind ==
    [][Observe /\ EnforceWeight /\ advanced'
       => /\ \A c \in BoundStakeCredentials :
                 IF c \in DOMAIN StakeDesired(data)
                 THEN c \in DOMAIN LastObservedStake' /\ LastObservedStake'[c] = StakeDesired(data)[c]
                 ELSE c \notin DOMAIN LastObservedStake'
          /\ \A a \in Window :
                 MapGet(RoleDesired(data), a, {}) = MapGet(LastObservedRoles, a, {})']_vars

\* The author derives after initialize_block, every importer before it. Whenever
\* the author includes an observation the importers neither reject the block as
\* one that enacts an upgrade nor derive a different call.
ImportersAgree ==
    phase = "inherent" /\ data # NoData /\ ~AuthorSkips =>
        /\ ~importer.rejects
        /\ importer.call = DeriveCall(data)

\* The alarm is latched exactly while the writer that once wrote has not written
\* for more than StallAfter blocks; an upgrade's skipped block, a backlog and a
\* freeze do not confuse it.
AlarmIsExact ==
    phase # "inherent" \/ now > 1 =>
        (Stalled <=> /\ LastAppliedAt # 0
                     /\ now - LastAppliedAt > StallAfter
                     /\ LastReference # None \/ PendingChanges # 0)

\* What Cardano says of an account, once the chain has caught up.
Settled ==
    /\ \A a \in Accounts :
           /\ AllowedStake[a] =
                  IF a \in DOMAIN PkhOf /\ PkhOf[a] \in DOMAIN cardano.vaults
                     /\ Floored(cardano.vaults[PkhOf[a]]) <= MaxStakeWeight
                  THEN Floored(cardano.vaults[PkhOf[a]]) ELSE 0
           /\ VotingPower[a] =
                  IF a \in DOMAIN StakeCredOf /\ StakeCredOf[a] \in DOMAIN cardano.stakes
                     /\ cardano.stakes[StakeCredOf[a]] <= MaxVotingPower
                  THEN cardano.stakes[StakeCredOf[a]] ELSE 0
           /\ MapGet(ObservedRoles, a, {}) =
                  {BadgeOf(e) : e \in {f \in cardano.roles : ResolveRole(f) = a}}

\* Whatever happened before - backlogs, freezes, revokes, rebinds, upgrades - a
\* chain that is enforcing from some point on ends up showing what Cardano says
\* of every account: the window comes round, pages drain, nothing is stuck.
Converges == <>[]EnforceWeight => <>[]Settled

-------------------------------------------------------------------------------
(* Statements of the source's comments that the code does not keep.          *)

\* LastSweepAt "completed a FULL sweep of the rotation": every account enrolled
\* throughout the pass was in one of its windows.
SweepIsFull == missed = {}

\* Advancing on a frozen block "stops a freeze from pinning the rotation".
FreezeNeverPins == []<>(EnforceWeight \/ advanced)

\* "never apply older Cardano data": the references of the applied observations
\* do not go back.
NeverOlder == [][lastApplied' >= lastApplied]_vars

===============================================================================
