SPECIFICATION Spec
CONSTANTS
    u1 = u1
    u2 = u2
    r1 = r1
    r2 = r2
    Users <- MCUsers
    Builtin = u1
    Roles <- MCRoles
    Requests <- TwoRequests
    RedisFails = TRUE
    MaxCommits = 2
INVARIANTS ResolvedFresh AdminsOnly
SYMMETRY Symmetry
