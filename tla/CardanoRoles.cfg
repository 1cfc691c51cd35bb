SPECIFICATION Spec
CONSTANTS
    Accounts = {a1, a2}
    RoleKinds = {"Spo", "DRep"}
    RoleCreds = {c1}
    RoleNonces = {n1, n2}
    Pools = {"pool"}
    MaxRoleTargets = 2
    MaxSeq = 2
INVARIANTS
    TypeOK
    
    BadgeBackedByClaim
    PoolMirrorsClaim
PROPERTIES
    BadgeChangeMovesSeq
    
