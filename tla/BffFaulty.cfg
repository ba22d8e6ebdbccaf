SPECIFICATION Spec
CONSTANTS
    None = None
    Reqs = {r1, r2}
    Sids = {s1}
    Certs <- MCCerts
    Clients = {"bff"}
    Revocable = {}
    RoleSets <- MCRoleSets
    Routes <- MCGet
    MaxAge = 2
    AccessTtl = 2
    CrapiTtl = 2
    Margin = 1
    Slack = 1
    MaxTime = 3
    Faulty = TRUE
SYMMETRY Symmetry
CHECK_DEADLOCK FALSE
INVARIANTS
    SessionAgeBounded
    EndedLoginBounded
    LoggedOutStaysOut
