SPECIFICATION FairSpec
CONSTANTS
    c1 = c1  c2 = c2  c3 = c3  s1 = s1  s2 = s2
    Calls = {c1, c2, c3}
    Slots = {s1, s2}
    NumCmds <- MCNumCmds
    Mutates <- MCMutates
    MaxBreaks = 1
CHECK_DEADLOCK FALSE
INVARIANTS RepliesAreOwn SlotsAccounted TwiceOnlyIfSilent
PROPERTY CallsReturn
