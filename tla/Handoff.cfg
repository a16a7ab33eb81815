SPECIFICATION MCSpec

CONSTANTS
    User = {u1}
    Session = {s1}
    Code = {c1}
    AppSession = {1, 2, 3}
    Worker = {w1, w2}
    Radar = radar
    None = none
    Kinds <- AllKinds
    Payload <- Payloads
    IdleChoices = {1, 2}
    PortalAbsolute = 2
    CodeTtl = 1
    AppIdle = 1
    AppAbsolute = 2
    Retention = 1
    Batch = 1
    MaxTime = 2

SYMMETRY Symmetry

INVARIANT TypeOK
INVARIANT ReplaysAreBounded
INVARIANT AuthorityIsCurrentAlone
INVARIANT ChildWithinParent
INVARIANT EndedParentsAreBarren
INVARIANT VerdictsHoldAtCommit
INVARIANT NoCodeIsBurnt
PROPERTY RevocationIsFinal
PROPERTY CleanupSparesLive
PROPERTY ImplementsHandoff

CHECK_DEADLOCK FALSE
