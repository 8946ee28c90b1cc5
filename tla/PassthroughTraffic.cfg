SPECIFICATION MCSpec
CONSTANTS
    r0 = r0
    r1 = r1
    r2 = r2
    i0 = i0
    Requests = {r0, r1, r2, i0, i1, i2, i3, i4}
    Media = {i0, i1, i2, i3, i4}
    Asks <- MCAsks
    ProviderNames <- MCProviderNames
    Models = {"m", "n"}
    Priced = {"m"}
    TeeLimit = 3
    TeeCap = 2
    MaxLength = 3
    Slots = 1
    Ceiling = 3
    Regrow = 2
CHECK_DEADLOCK FALSE
INVARIANTS NamesAgree ResourcesReturned UsedIsBilled OverloadIsRemembered BudgetSeesCost
PROPERTIES GrantsNeverMix
