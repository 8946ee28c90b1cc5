SPECIFICATION Spec
CONSTANTS
    r1 = r1  r2 = r2  r3 = r3  p1 = p1  p2 = p2
    alice = alice  team = team  total = total
    Requests = {r1, r2, r3}
    Replicas = {p1, p2}
    Scopes = {alice, team, total}
    Total = total
    LimitScopes <- MCLimitScopes
    RepOf <- TwoReplicas
    ReqLimit <- RateLimits
    BudgetLimit <- TokenBudget
    WindowLen <- MCWindowLen
    Reported <- SomeUsage
    MaxUsage = 2
    Configured = TRUE
    FailOpen = FALSE
    StatsAdmin = TRUE
    Resends = FALSE
    MaxTime = 1
    MaxFaults = 1
    MaxConcurrent = 2
CHECK_DEADLOCK FALSE
INVARIANTS AdmittedWithinLimit NeverUnderCounts RejectionsLeaveOthersAlone
    BudgetOvershootBounded
SYMMETRY Symmetry
