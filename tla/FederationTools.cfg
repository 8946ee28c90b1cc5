SPECIFICATION MCSpec
CONSTANTS
    a = a
    ab = ab
    old = old
    r1 = r1
    r2 = r2
    p1 = p1
    p2 = p2
    Targets = {a, ab, old}
    Agents = {}
    Legacy = {old}
    Stateful = {ab}
    Pollers = {p1, p2}
    Threshold = 2
    Interval = 2
    FanOut = 2
    MaxClock = 3
    MaxProxied = 1
    Requests = {r1, r2}
    Methods <- MCMethods
    Allowed <- MCAllowed
    Name <- MCName
    Offers <- MCOffers
    Calls <- MCCalls
    Gate = 1
    MaxPages = 2
CHECK_DEADLOCK FALSE
INVARIANTS ListingIsExact TwiceOnlyIfRefused SlotsHeld SessionsClosed
PROPERTIES SweepsApart ListsAreAnswered
