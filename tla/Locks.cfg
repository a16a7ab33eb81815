SPECIFICATION Spec

CONSTANTS
    Session = {s1, s2}
    Worker = {w1, w2}
    None = none

INVARIANT OrderedRequestsNeverDeadlock
PROPERTY EveryRequestEnds
