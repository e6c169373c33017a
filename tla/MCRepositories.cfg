SPECIFICATION RepositoriesSpec
CONSTANTS
    o1 = o1
    o2 = o2
    o3 = o3
    Owners = {o1, o2, o3}
    Jobs = {"job"}
    TTLs = {2, 3}
    Phases = {"saved"}
    Fingerprints = {f1, f2}
    MaxSkew = 1
    MaxTime = 3
    MaxAttempt = 3
SYMMETRY Symmetric
INVARIANTS
    FencingTokens
    LeaseMargin
    ConfirmedCompletions
    StoreSound
PROPERTIES
    OwnershipHistory
    OwnerDataSound
    GasSound
    ReviewSound
CHECK_DEADLOCK FALSE
