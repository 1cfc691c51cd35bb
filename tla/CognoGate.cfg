SPECIFICATION FairSpec
CONSTANTS
    a1 = a1
    a2 = a2
    a3 = a3
    Accounts = {a1, a2, a3}
    Identities = {i1, i2, i3}
    StakeCreds = {c1}
    Nonces = {n1, n2}
    HashRank <- MCHashRank
    BackfillBatch = 1
    MigrationCap = 1
    MaxBatchTargets = 2
INVARIANTS
    TypeOK
    OneToOne
    RotationDense
    NobodySkipped
    WindowIsCoverage
    SweepCoversAll
    PoolMirrorsDispatch
PROPERTIES
    BansArePermanent
    
    BackfillCompletes
