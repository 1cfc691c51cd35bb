SPECIFICATION Spec
CONSTANTS
    a1 = a1
    a2 = a2
    a3 = a3
    i1 = i1
    i2 = i2
    i3 = i3
    i4 = i4
    s1 = s1
    s2 = s2
    d1 = d1
    Accounts = {a1, a2}
    Identities = {i1, i2}
    StakeCreds = {}
    Nonces = {}
    HashRank <- MCHashRank
    BackfillBatch = 1
    MigrationCap = 1
    MaxBatchTargets = 2
    RoleKinds = {}
    RoleCreds = {}
    RoleNonces = {}
    Pools = {}
    MaxRoleTargets = 0
    MaxSeq = 0
    KeyRank <- MCKeyRank
    Lovelaces = {1, 3, 9}
    Totals = {}
    RoleFacts = {}
    MinLock = 2
    MaxStakeWeight = 5
    MaxVotingPower = 5
    MaxChangesPerBlock = 1
    MaxScanned = 1
    StallAfter = 1
    StabilityChoices = {0}
    MaxBlock = 4
    MaxMoves = 2
    MaxUpgrades = 2
INVARIANTS
    TypeOK
    BasisIsLedger
    ImportersAgree
    
