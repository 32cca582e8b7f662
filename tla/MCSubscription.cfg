SPECIFICATION FairSpec
CONSTANTS
    Urls = {u1}
    None = None
    Hour = 2
    WordSize = 16
    Headers = {0, 2, 5}
    DefaultHours = 1
    MaxAge = 4
    MaxChanges = 1
INVARIANTS TypeOK PatchStands
PROPERTIES IntervalKept FallbackTried AutoRefreshes
