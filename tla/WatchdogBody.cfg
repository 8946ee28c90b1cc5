SPECIFICATION FairSpec
CONSTANTS
    Timeout = 2
    MaxChunks = 2
    MaxFires = 3
CHECK_DEADLOCK FALSE
INVARIANTS BlameIsRight OnlySilenceFires
PROPERTY AlwaysCloses
