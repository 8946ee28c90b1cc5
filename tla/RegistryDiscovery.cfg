SPECIFICATION Spec
CONSTANTS
    p1 = p1  m1 = m1  r1 = r1  r2 = r2
    Providers = {p1}
    Models = {m1}
    Versions = {1, 2}
    Readers = {r1, r2}
    Interval = 1
    Threshold = 1
    OpenBase = 1
    OpenMax = 3
    MaxTime = 3
    MaxRefreshes = 3
CHECK_DEADLOCK FALSE
INVARIANTS OneFetchPerProvider CachedListingCurrent
PROPERTY ModelsSurvive
SYMMETRY Symmetry
