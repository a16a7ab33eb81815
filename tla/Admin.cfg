SPECIFICATION MCSpec

CONSTANTS
    User = {u1, u2, u3}
    Email = {e1, e2, e3}
    Worker = {w1, w2}
    None = none
    UsersManage = TRUE

SYMMETRY Symmetry

INVARIANT TypeOK
PROPERTY AdminRemainsAlone
PROPERTY DeletionIsFinal

CHECK_DEADLOCK FALSE
