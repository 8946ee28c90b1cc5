SPECIFICATION FairSpec
CONSTANTS
    n1 = n1  n2 = n2  k1 = k1  k2 = k2  c1 = c1  c2 = c2
    Names = {n1, n2}
    Keys = {k1, k2}
    Inline <- InlineUser
    Callers = {c1, c2}
    MaxWrites = 3
INVARIANTS OneKeyPerUser
PROPERTIES NeverBackwards Converges
