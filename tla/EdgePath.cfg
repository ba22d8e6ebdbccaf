SPECIFICATION Spec
CONSTANTS
    Methods  <- MCMethods
    Paths    <- MCPaths
    RoleSets <- MCRoleSets
    Certs    <- MCCerts
    MaxKey   = 2
    None     = None
INVARIANTS
    IdentityVetted
PROPERTIES
    NoSurpriseDenial
    NoNeedlessRefusal
