SPECIFICATION RolesSpec

CONSTANTS
    Key = {edit, use, other}
    Critical = {edit}
    UserDefaults = {use}
    RolesEdit = edit
    Thread = {w1, w2}

SYMMETRY Symmetry

INVARIANT RolesTypeOK
INVARIANT AdministratorsKeepCritical
INVARIANT AdministratorGrantsAreSubmitted
