SPECIFICATION MCSpec

CONSTANTS
    Token = {t1, t2, t3}
    Session = {s1, s2}
    Worker = {w1, w2}
    None = none
    Ttl = 1
    MaxTime = 2
    MaxPassword = 3

SYMMETRY Symmetry

INVARIANT TypeOK
INVARIANT SurvivorsCameLate
INVARIANT LinksAreBounded
INVARIANT UsesAreBounded
PROPERTY NoLinkIsLost

CHECK_DEADLOCK FALSE
