SPECIFICATION Spec
CONSTANTS
    r1 = r1  r2 = r2  r3 = r3  p1 = p1  p2 = p2
    alice = alice  team = team  total = total
    Requests = {r1, r2, r3}
    Replicas = {p1, p2}
    Scopes = {alice, team, total}
    Total = total
    LimitScopes <- AliceOnly
    RepOf <- TwoReplicas
    ReqLimit <- OnePerMinute
    BudgetLimit <- NoBudgets
    WindowLen <- MCWindowLen
    Reported <- NoUsage
    MaxUsage = 2
    Configured = TRUE
    FailOpen = TRUE
    StatsAdmin = FALSE
    Resends = FALSE
    MaxTime = 0
    MaxFaults = 1
    MaxConcurrent = 2
CHECK_DEADLOCK FALSE
INVARIANTS NeverUnderCounts
