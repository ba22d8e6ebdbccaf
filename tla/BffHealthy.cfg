SPECIFICATION Spec
CONSTANTS
    None = None
    Reqs = {r1, r2}
    Sids = {s1, s2}
    Certs <- MCCerts
    Clients = {"bff", "stepup"}
    Revocable <- MCRevocable
    RoleSets <- MCRoleSets
    Routes <- MCOrder
    MaxAge = 3
    AccessTtl = 2
    CrapiTtl = 2
    Margin = 1
    Slack = 1
    MaxTime = 4
    Faulty = FALSE
SYMMETRY Symmetry
CONSTRAINT RacesOrLogins
CHECK_DEADLOCK FALSE
INVARIANTS
    AccessTokenAlive
    NoEarlyDenial
    EndedLoginBounded
    SensitiveOnlyStepUp
    RevokedWriteBounded
PROPERTIES
    RefreshRollbackBounded
