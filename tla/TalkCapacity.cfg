SPECIFICATION Spec
CONSTANTS
    Accounts = {a1}
    Weights = {0, 1, 2, 6}
    CapRatio = 4
    RegenPerBlock = 2
    Ceiling = 10
    Calls <- MCCalls
    BaseCost = 1
    PerByteCost = 2
    VoteCost = 2
    FollowCost = 1
    ProfileCost = 5
    MaxLength = 1
    MaxMeteredCallLen = 1
    Primes = {1, 7, 12}
    MaxProviders = 2
    MaxBlock = 4
INVARIANTS
    TypeOK
    BoundCanTransact
    RefillWindowFixed
PROPERTIES
    ImplementsBucket
