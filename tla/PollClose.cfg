SPECIFICATION FairSpec
CONSTANTS
    a1 = a1
    a2 = a2
    Accounts = {a1, a2}
    Powers = {0, 1}
    RoleSets <- MCRoleSets
    HashRank <- MCHashRank
    ScratchRank <- MCScratchRank
    PollKinds = {"governance", "stake"}
    MaxPollOptions = 2
    MinPollDuration = 1
    MaxPollDuration = 1
    MaxClosePage = 1
    MaxChamberBadges = 1
    MaxMoves = 1
    MaxBlock = 2
INVARIANTS
    UnsmearedIsAtomic
    EveryVoterOnce
    InFlightOrFinal
PROPERTIES
    FrozenForEver
    ClosesEventually
