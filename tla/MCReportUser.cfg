SPECIFICATION Spec
CONSTANTS
    Workers = {w1, w2}
    Kinds = {"scheduled", "regenerate"}
    WithAI = {"scheduled"}
    MaxInputs = 2
    MaxPub = 1
    MaxRevision = 2
    MaxClicks = 2
    MaxStalled = 1
SYMMETRY Symmetric
INVARIANTS
    DoneMeansSaved
    SuccessIsReal
    ReuseIsFresh
PROPERTIES
    NoPurchaseAfterSave
    InterpretationKept
    ImplementsRegister
CHECK_DEADLOCK FALSE
