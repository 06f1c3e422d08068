CONSTANTS
    Results <- AllResults
    Budgets <- Tight
    Count <- Heuristic
    MaxLength = 200
    MaxCards = 3
SPECIFICATION Spec
CHECK_DEADLOCK FALSE
INVARIANT TypeOK
INVARIANT UsedWithinBudget
INVARIANT NothingLostUncounted
INVARIANT PackingIsMaximal
INVARIANT RelationsJoinIncluded
INVARIANT LocateWithinBudget
