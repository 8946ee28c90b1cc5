SPECIFICATION Spec
CONSTANTS
    r1 = r1  r2 = r2  r3 = r3  alpha = alpha  beta = beta
    Requests = {r1, r2, r3}
    Providers = {alpha, beta}
    Gateway = "gateway"
    Pool <- TwoProviders
    Price <- OnePrice
    Enabled = TRUE
    MaxAttempts = 2
    Tries = 2
    Threshold = 2
    OpenDuration = 1
    MaxOpenDuration = 3
    Cacheable = {r1, r2}
    Budgeted = {r3}
    MaxTime = 1
CHECK_DEADLOCK FALSE
INVARIANTS OneAnswer NeverDearer BreakerCountsRequests
SYMMETRY Symmetry
