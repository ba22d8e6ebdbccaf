SPECIFICATION Spec
CONSTANTS
    None = None
    Reqs = {r1}
    Sids = {s1}
    Certs <- MCCerts
    Clients = {"bff"}
    Revocable = {}
    RoleSets <- MCRoleSets
    Routes <- MCGet
    MaxAge = 5
    AccessTtl = 2
    CrapiTtl = 3
    Margin = 1
    Slack = 1
    MaxTime = 5
    Faulty = FALSE
SYMMETRY Symmetry
CHECK_DEADLOCK FALSE
INVARIANTS
    CrapiTokenAlive
