------------------------------ MODULE CardanoRoles ------------------------------
(***************************************************************************)
(* pallet-cardano-roles: an account claims the Cardano role credentials it *)
(* can prove (pool, dRep, committee member), the observer confirms them    *)
(* and writes the badges, and claims are released, revoked or purged.      *)
(*                                                                         *)
(* A badge is the pair (kind, id) the chambers of a governance poll count. *)
(* For a dRep and a committee member the id is the credential itself; a    *)
(* pool's id is not the key it was proved with.                            *)
(*                                                                         *)
(* LastObservedRoles is the observer's storage: it is here because every   *)
(* teardown of this pallet clears it through OnRoleTeardown.               *)
(***************************************************************************)
EXTENDS Integers, FiniteSets, Sequences, StorageMap

CONSTANTS
    Accounts,
    RoleKinds,          \* the roles in play, of Spo, DRep and Committee
    RoleCreds,          \* 28-byte role credentials
    RoleNonces,         \* proof nonces
    Pools,              \* pool ids, the ids of Spo badges
    MaxRoleTargets,     \* bound on revoke_role_many's target list
    MaxSeq              \* where ObservedRolesSeq saturates (2^64 - 1 in the code)

ASSUME RoleKindsKnown == RoleKinds \subseteq {"Spo", "DRep", "Committee"}
ASSUME RoleBounds == MaxRoleTargets \in Nat /\ MaxSeq \in Nat

VARIABLES
    RoleClaimOf,        \* (account, role) -> credential
    RoleCredIndex,      \* (role, credential) -> account
    TombstonedRoleCred, \* (role, credential) pairs banned for ever
    SpentRoleNonce,     \* (account, role) -> the nonce last spent
    ObservedRoles,      \* account -> badges; no row is no badge
    ObservedRolesSeq,   \* moves with every change of ObservedRoles
    LastObservedRoles,  \* the observer's basis: account -> badges last written
    roleBatch,          \* targets revoke_role_many has still to visit
    allowed             \* IdentityGate: the accounts with a live identity bind

claimVars == <<RoleClaimOf, RoleCredIndex, TombstonedRoleCred, SpentRoleNonce>>
badgeVars == <<ObservedRoles, ObservedRolesSeq, LastObservedRoles>>
roleVars == <<claimVars, badgeVars, roleBatch, allowed>>

Badges == [kind : RoleKinds \cap {"Spo"}, id : Pools] \cup [kind : RoleKinds \ {"Spo"}, id : RoleCreds]

-------------------------------------------------------------------------------
(* The badge ledger.                                                         *)

\* Mutant: the sequence does not move.
BugBumpSeq == UNCHANGED ObservedRolesSeq

\* saturating_add(1) on the sequence a paged close_poll compares.
BumpSeq == ObservedRolesSeq' = IF ObservedRolesSeq < MaxSeq THEN ObservedRolesSeq + 1
                                                            ELSE ObservedRolesSeq

\* Mutant: an empty set is stored as a row.
BugApplyRoles(account, set) ==
    IF set = MapGet(ObservedRoles, account, {})
    THEN UNCHANGED <<ObservedRoles, ObservedRolesSeq>>
    ELSE ObservedRoles' = MapInsert(ObservedRoles, account, set) /\ BumpSeq

\* apply_roles: whole-set overwrite; an unchanged set writes nothing.
ApplyRoles(account, set) ==
    IF set = MapGet(ObservedRoles, account, {})
    THEN UNCHANGED <<ObservedRoles, ObservedRolesSeq>>
    ELSE /\ ObservedRoles' = IF set = {} THEN MapRemove(ObservedRoles, account)
                                         ELSE MapInsert(ObservedRoles, account, set)
         /\ BumpSeq

\* Mutant: the observer's basis survives the badges.
BugDropObservedBadges(account) ==
    /\ IF account \in DOMAIN ObservedRoles
       THEN ObservedRoles' = MapRemove(ObservedRoles, account) /\ BumpSeq
       ELSE UNCHANGED <<ObservedRoles, ObservedRolesSeq>>
    /\ UNCHANGED LastObservedRoles

\* drop_observed_badges: every badge of the account and the observer's basis.
DropObservedBadges(account) ==
    /\ IF account \in DOMAIN ObservedRoles
       THEN ObservedRoles' = MapRemove(ObservedRoles, account) /\ BumpSeq
       ELSE UNCHANGED <<ObservedRoles, ObservedRolesSeq>>
    /\ LastObservedRoles' = MapRemove(LastObservedRoles, account)

-------------------------------------------------------------------------------
(* Claims.                                                                   *)

\* Mutant: the spent nonce is not consulted.
BugCanClaimNonce(account, role, cred, nonce) ==
    /\ account \in allowed
    /\ <<role, cred>> \notin TombstonedRoleCred
    /\ <<account, role>> \notin DOMAIN RoleClaimOf
    /\ <<role, cred>> \notin DOMAIN RoleCredIndex

\* do_claim's conditions.
CanClaim(account, role, cred, nonce) ==
    /\ account \in allowed
    /\ <<role, cred>> \notin TombstonedRoleCred
    /\ <<account, role>> \notin DOMAIN RoleClaimOf
    /\ <<role, cred>> \notin DOMAIN RoleCredIndex
    /\ <<account, role>> \in DOMAIN SpentRoleNonce => SpentRoleNonce[<<account, role>>] # nonce

\* Mutant: the pool does not look at the credential's claim.
BugPoolAdmitsClaim(account, role, cred, nonce) ==
    /\ account \in allowed
    /\ ~ (\/ <<role, cred>> \in TombstonedRoleCred
          \/ <<account, role>> \in DOMAIN RoleClaimOf
          \/ /\ <<account, role>> \in DOMAIN SpentRoleNonce
             /\ SpentRoleNonce[<<account, role>>] = nonce)

\* validate_unsigned on claim_role_signed: TRUE is admission to the pool.
PoolAdmitsClaim(account, role, cred, nonce) ==
    /\ account \in allowed
    /\ ~ (\/ <<role, cred>> \in TombstonedRoleCred
          \/ <<account, role>> \in DOMAIN RoleClaimOf
          \/ <<role, cred>> \in DOMAIN RoleCredIndex
          \/ /\ <<account, role>> \in DOMAIN SpentRoleNonce
             /\ SpentRoleNonce[<<account, role>>] = nonce)

RolesReady == roleBatch = <<>>

\* claim_role_signed -> do_claim.
ClaimRoleSigned(account, role, cred, nonce) ==
    /\ RolesReady
    /\ CanClaim(account, role, cred, nonce)
    /\ SpentRoleNonce' = MapInsert(SpentRoleNonce, <<account, role>>, nonce)
    /\ RoleClaimOf' = MapInsert(RoleClaimOf, <<account, role>>, cred)
    /\ RoleCredIndex' = MapInsert(RoleCredIndex, <<role, cred>>, account)
    /\ UNCHANGED <<TombstonedRoleCred, badgeVars, roleBatch, allowed>>

\* Mutant: releasing a claim leaves the badges standing.
BugUnclaimRole(account, role) ==
    /\ RolesReady
    /\ <<account, role>> \in DOMAIN RoleClaimOf
    /\ RoleClaimOf' = MapRemove(RoleClaimOf, <<account, role>>)
    /\ RoleCredIndex' = MapRemove(RoleCredIndex, <<role, RoleClaimOf[<<account, role>>]>>)
    /\ UNCHANGED <<TombstonedRoleCred, SpentRoleNonce, badgeVars, roleBatch, allowed>>

\* unclaim_role: no tombstone, and the spent nonce stays spent.
UnclaimRole(account, role) ==
    /\ RolesReady
    /\ <<account, role>> \in DOMAIN RoleClaimOf
    /\ RoleClaimOf' = MapRemove(RoleClaimOf, <<account, role>>)
    /\ RoleCredIndex' = MapRemove(RoleCredIndex, <<role, RoleClaimOf[<<account, role>>]>>)
    /\ DropObservedBadges(account)
    /\ UNCHANGED <<TombstonedRoleCred, SpentRoleNonce, roleBatch, allowed>>

\* do_revoke_role on a held claim: NotClaimed is returned before any write.
DoRevokeRole(account, role) ==
    /\ <<account, role>> \in DOMAIN RoleClaimOf
    /\ LET cred == RoleClaimOf[<<account, role>>]
       IN  /\ RoleClaimOf' = MapRemove(RoleClaimOf, <<account, role>>)
           /\ RoleCredIndex' = MapRemove(RoleCredIndex, <<role, cred>>)
           /\ TombstonedRoleCred' = TombstonedRoleCred \cup {<<role, cred>>}
    /\ DropObservedBadges(account)
    /\ UNCHANGED <<SpentRoleNonce, allowed>>

\* revoke_role.
RevokeRole(account, role) == RolesReady /\ DoRevokeRole(account, role) /\ UNCHANGED roleBatch

\* revoke_role_many: the extrinsic takes its target list...
RevokeRoleMany(targets) ==
    /\ RolesReady
    /\ targets # <<>>
    /\ roleBatch' = targets
    /\ UNCHANGED <<claimVars, badgeVars, allowed>>

\* ... and visits one target after another; an unclaimed target is skipped.
RevokeRoleNext ==
    /\ roleBatch # <<>>
    /\ roleBatch' = Tail(roleBatch)
    /\ LET target == Head(roleBatch)
       IN  \/ DoRevokeRole(target[1], target[2])
           \/ /\ target \notin DOMAIN RoleClaimOf
              /\ UNCHANGED <<claimVars, badgeVars, allowed>>

\* Mutant: the claims are freed but stay indexed.
BugPurgeAccountRoles(account) ==
    LET held == {r \in RoleKinds : <<account, r>> \in DOMAIN RoleClaimOf}
    IN  /\ RoleClaimOf' = [p \in DOMAIN RoleClaimOf \ {<<account, r>> : r \in held} |->
                               RoleClaimOf[p]]
        /\ DropObservedBadges(account)
        /\ UNCHANGED <<RoleCredIndex, TombstonedRoleCred, SpentRoleNonce>>

\* purge_account_roles: every claim and badge of an account whose identity is
\* revoked; the credentials are freed, not banned.
PurgeAccountRoles(account) ==
    LET held == {r \in RoleKinds : <<account, r>> \in DOMAIN RoleClaimOf}
    IN  /\ RoleClaimOf' = [p \in DOMAIN RoleClaimOf \ {<<account, r>> : r \in held} |->
                               RoleClaimOf[p]]
        /\ RoleCredIndex' =
               [p \in DOMAIN RoleCredIndex \ {<<r, RoleClaimOf[<<account, r>>]>> : r \in held} |->
                    RoleCredIndex[p]]
        /\ DropObservedBadges(account)
        /\ UNCHANGED <<TombstonedRoleCred, SpentRoleNonce>>

-------------------------------------------------------------------------------
(* What the rest of the runtime does to this pallet.                         *)

\* The identity gate binds an account.
GateBinds(account) ==
    /\ RolesReady
    /\ account \notin allowed
    /\ allowed' = allowed \cup {account}
    /\ UNCHANGED <<claimVars, badgeVars, roleBatch>>

\* The identity gate revokes an account: IdentityLifecycle::on_revoke.
GateRevokes(account) ==
    /\ RolesReady
    /\ account \in allowed
    /\ allowed' = allowed \ {account}
    /\ PurgeAccountRoles(account)
    /\ UNCHANGED roleBatch

\* The badges an observation covering the account can find: a dRep or committee
\* badge resolves through the claim index; a pool may also be owned.
Observable(account) ==
    {b \in Badges : b.kind # "Spo" => MapGet(RoleCredIndex, <<b.kind, b.id>>, "none") = account}

\* The observer confirms an account's badges: RoleSink::set_roles and the basis.
ObserverWrites(account, set) ==
    /\ RolesReady
    /\ account \in allowed
    /\ set \subseteq Observable(account)
    /\ ApplyRoles(account, set)
    /\ LastObservedRoles' = IF set = {} THEN MapRemove(LastObservedRoles, account)
                                        ELSE MapInsert(LastObservedRoles, account, set)
    /\ UNCHANGED <<claimVars, roleBatch, allowed>>

-------------------------------------------------------------------------------

Init ==
    /\ RoleClaimOf = EmptyMap
    /\ RoleCredIndex = EmptyMap
    /\ TombstonedRoleCred = {}
    /\ SpentRoleNonce = EmptyMap
    /\ ObservedRoles = EmptyMap
    /\ ObservedRolesSeq = 0
    /\ LastObservedRoles = EmptyMap
    /\ roleBatch = <<>>
    /\ allowed = {}

\* The target lists of revoke_role_many.
RoleTargetLists == UNION {[1..n -> Accounts \X RoleKinds] : n \in 0..MaxRoleTargets}

Next ==
    \/ \E a \in Accounts, r \in RoleKinds, c \in RoleCreds, n \in RoleNonces :
           ClaimRoleSigned(a, r, c, n)
    \/ \E a \in Accounts, r \in RoleKinds : UnclaimRole(a, r)
    \/ \E a \in Accounts, r \in RoleKinds : RevokeRole(a, r)
    \/ \E targets \in RoleTargetLists : RevokeRoleMany(targets)
    \/ RevokeRoleNext
    \/ \E a \in Accounts : GateBinds(a)
    \/ \E a \in Accounts : GateRevokes(a)
    \/ \E a \in Accounts, set \in SUBSET Badges : ObserverWrites(a, set)

Spec == Init /\ [][Next]_roleVars

-------------------------------------------------------------------------------
(* Properties.                                                               *)

\* Types of the storage items (lib.rs 290-396).
TypeOK ==
    /\ RoleClaimOf \in MapOf(Accounts \X RoleKinds, RoleCreds)
    /\ RoleCredIndex \in MapOf(RoleKinds \X RoleCreds, Accounts)
    /\ TombstonedRoleCred \subseteq RoleKinds \X RoleCreds
    /\ SpentRoleNonce \in MapOf(Accounts \X RoleKinds, RoleNonces)
    /\ ObservedRoles \in MapOf(Accounts, SUBSET Badges \ {{}})
    /\ ObservedRolesSeq \in 0..MaxSeq
    /\ LastObservedRoles \in MapOf(Accounts, SUBSET Badges \ {{}})
    /\ roleBatch \in Seq(Accounts \X RoleKinds)
    /\ allowed \subseteq Accounts

\* The per-role one-to-one of claims, through every claim, release, ban and
\* purge: the two maps describe the same claims, only accounts with a live
\* identity hold one, and a banned credential is claimed by nobody.
ClaimsOneToOne ==
    /\ \A p \in DOMAIN RoleClaimOf :
           /\ p[1] \in allowed
           /\ <<p[2], RoleClaimOf[p]>> \in DOMAIN RoleCredIndex
           /\ RoleCredIndex[<<p[2], RoleClaimOf[p]>>] = p[1]
    /\ \A q \in DOMAIN RoleCredIndex :
           /\ <<RoleCredIndex[q], q[1]>> \in DOMAIN RoleClaimOf
           /\ RoleClaimOf[<<RoleCredIndex[q], q[1]>>] = q[2]
    /\ TombstonedRoleCred \cap DOMAIN RoleCredIndex = {}

\* What close_poll counts on ("a dRep id is 1:1 with an account on the claim
\* ledger"): a dRep or committee badge is shown only by the account that holds
\* its claim now, so no two accounts carry the same one; a badge never outlives
\* the claim (drop_observed_badges in every teardown).
BadgeBackedByClaim ==
    \A a \in DOMAIN ObservedRoles : \A b \in ObservedRoles[a] :
        b.kind # "Spo" =>
            /\ <<a, b.kind>> \in DOMAIN RoleClaimOf
            /\ RoleClaimOf[<<a, b.kind>>] = b.id

\* validate_unsigned mirrors do_claim: the pool admits exactly the claims the
\* dispatch would accept in the same state.
PoolMirrorsClaim ==
    \A a \in Accounts, r \in RoleKinds, c \in RoleCreds, n \in RoleNonces :
        PoolAdmitsClaim(a, r, c, n) <=> CanClaim(a, r, c, n)

\* Every writer of the chamber inputs moves ObservedRolesSeq, which is how a
\* paged close_poll learns that they moved under it.
BadgeChangeMovesSeq ==
    [][ObservedRoles' # ObservedRoles =>
           ObservedRolesSeq' > ObservedRolesSeq \/ ObservedRolesSeq = MaxSeq]_roleVars

\* The proof an account claimed a role with last is never accepted again, not
\* even after unclaim_role or an identity revoke and a new bind.
LastRoleProofSingleUse ==
    [][\A p \in DOMAIN SpentRoleNonce :
           p \in DOMAIN RoleClaimOf' \ DOMAIN RoleClaimOf =>
               SpentRoleNonce'[p] # SpentRoleNonce[p]]_roleVars

===============================================================================
