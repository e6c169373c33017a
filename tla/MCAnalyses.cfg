SPECIFICATION AnalysesSpec
CONSTANTS
    Callers = {c1, c2}
    Keys <- MCKeys
    RequestKeys = {"k1", "k2"}
    Legacy <- MCLegacy
    Jobs = {"report"}
    JobOf <- MCJobOf
    Estimate <- MCEstimate
    Budget = 2
    Results = {r1, r2}
    NoResult = NoResult
    LastMonth = 2
    Absent = Absent
SYMMETRY Symmetric
INVARIANTS
    PeriodsCompare
    AtMostOneDispatch
    OneUnresolvedPerJob
    BudgetConserved
    BudgetCap
    SameAnswer
PROPERTIES
    LedgerForward
    FactsAreObserved
CHECK_DEADLOCK FALSE
