SPECIFICATION Spec

CONSTANTS
    Attempt = {a1}
    None = none

INVARIANT PortalIsConfirmed
INVARIANT NoRedirectLoop
PROPERTY FormLeavesPending
PROPERTY GateOpens
