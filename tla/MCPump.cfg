SPECIFICATION Spec
CONSTANTS
    t1 = t1
    t2 = t2
    short = short
    long = long
    large = large
    Texts = {t1, t2}
    Files = {short, long, large}
    FileSize <- MCFileSize
    Oversize = {large}
    Chunk = 2
    MaxId = 2
    EagerEof = TRUE
    None = None
    MaxLogins = 1
    Calls <- MCCalls
    Locking = {TRUE, FALSE}
CHECK_DEADLOCK FALSE
INVARIANTS TypeOK SentPrefix NothingLost OneWrite NullNeverUsed
PROPERTIES PumpDrains StrandedNeedsLogin ResendsOnlyFront
