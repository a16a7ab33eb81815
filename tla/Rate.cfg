SPECIFICATION MCSpec

CONSTANTS
    Thread = {t1, t2}
    Limit = 2
    Window = 2
    MaxTime = 6

INVARIANT BucketIsBounded
PROPERTY AloneImplementsSlidingWindow
PROPERTY EveryCallEnds

CHECK_DEADLOCK FALSE
