SPECIFICATION Spec

CONSTANTS
    Value = {v1, v2}
    Row = {r1}
    Worker = {w1}
    None = none
    LocalMailbox = TRUE

INVARIANT VerdictIsCurrent
INVARIANT EnabledIsDeliverable
