SPECIFICATION StoreSpec
CONSTANTS
    c1 = c1  c2 = c2  c3 = c3  c4 = c4  p1 = p1  p2 = p2  k1 = k1  k2 = k2
    Batches = {c1, c2, c3, c4}
    Replicas = {p1, p2}
    Keys = {k1, k2}
    RepOf <- MCRepOf
    Entries <- MCEntries
    Delta <- MCDelta
    CacheMax = 1
    MaxLost = 2
    MaxFaults = 1
    MaxConcurrent = 3
CHECK_DEADLOCK FALSE
INVARIANTS QuietMeansMortal
