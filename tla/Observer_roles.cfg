SPECIFICATION FairSpec
CONSTANTS
    a1 = a1
    a2 = a2
    a3 = a3
    i1 = i1
    i2 = i2
    i3 = i3
    i4 = i4
    s1 = s1
    s2 = s2
    d1 = d1
    Accounts = {a1, a2}
    Identities = {i1, i2}
    StakeCreds = {s1}
    Nonces = {n1}
    HashRank <- MCHashRank
    BackfillBatch = 1
    MigrationCap = 1
    MaxBatchTargets = 1
    RoleKinds = {"Spo", "DRep"}
    RoleCreds = {d1}
    RoleNonces = {n1}
    Pools = {"pool"}
    MaxRoleTargets = 0
    MaxSeq = 0
    KeyRank <- MCKeyRank
    Lovelaces = {}
    Totals = {}
    RoleFacts <- MCRoleFacts
    MinLock = 2
    MaxStakeWeight = 5
    MaxVotingPower = 5
    MaxChangesPerBlock = 1
    MaxScanned = 2
    StallAfter = 1
    StabilityChoices = {0}
    MaxBlock = 2
    MaxMoves = 3
    MaxUpgrades = 1
INVARIANTS
    BasisIsLedger
    NoOrphanedWeight
PROPERTIES
    DrainedMeansApplied
    NoTailLeftBehind
    Converges
