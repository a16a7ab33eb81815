SPECIFICATION MCSpec

CONSTANTS
    User = {u1}
    PreAuth = {p1, p2}
    Challenge = {c1, c2, c3}
    Session = {s1, s2}
    Worker = {w1, w2}
    None = none
    Kinds <- Operations
    AttemptLimits = {1, 2}
    CodeTtl = 4
    ResendDelay = 2
    MaxTime = 4

SYMMETRY Symmetry

INVARIANT TypeOK
INVARIANT OneAtATime
INVARIANT SignInsCompleteOnce
INVARIANT OneUsableCode
INVARIANT GuessesAreBounded
PROPERTY ResendsAreSpaced
PROPERTY DeadStaysDead
PROPERTY NoCodeIsLost

CHECK_DEADLOCK FALSE
