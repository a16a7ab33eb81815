SPECIFICATION MCSpec

CONSTANTS
    User = {u1, u2}
    Email = {e1, e2}
    Worker = {w1, w2}
    None = none
    UsersManage = FALSE

SYMMETRY Symmetry

PROPERTY AdminRemains

CHECK_DEADLOCK FALSE
