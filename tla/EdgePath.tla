------------------------------ MODULE EdgePath ------------------------------
(***************************************************************************)
(* One browser's request on its way through the three enforcement points:  *)
(* the mesh hops edge-gateway -> waf -> bff, the BFF's own gate, and the   *)
(* policy decision point in front of the backend -- zta_crapi for community *)
(* and workshop (AWS), crosscloud_crapi for identity (OpenStack).          *)
(*                                                                         *)
(* The BFF decides on what it recorded at login, the AWS policy on the     *)
(* access token the BFF forwards, the OpenStack policy on the posture      *)
(* header alone.  The module is about where the three agree: the token is  *)
(* refreshed under a session, Keycloak's signing key rotates, OPA's copy   *)
(* of the keys lags, a device is revoked in between.                       *)
(*                                                                         *)
(* The gate is one step here and the store is exact; the interleavings of  *)
(* the gate's coroutines are BffSession's.                                 *)
(***************************************************************************)
EXTENDS BffGate, OpaPolicy

CONSTANTS
    Methods,    \* the methods the browser uses
    Paths,      \* the backend paths it asks for, cut into chunks
    RoleSets,   \* the realm roles an access token can carry
    Certs,      \* the device certificates it can present
    MaxKey,     \* bound: how many signing keys Keycloak ever has
    None

ASSUME MethodsAssumption == Methods \subseteq ProxiedMethods
ASSUME PathsAssumption ==
    \A p \in Paths : /\ p \in Seq(STRING) /\ p # <<>>
                     /\ Head(p) \in {"/identity", "/community", "/workshop"}
ASSUME MaxKeyAssumption == MaxKey \in Nat \ {0}

VARIABLES
    kcKey,      \* Keycloak's newest signing key
    opaKeys,    \* the newest key in OPA's copy of the JWKS, 0 while it has none
    revoked,    \* the device revocation list the BFF reads
    session,    \* the browser's session, or None
    req         \* the request: hop, method, path and the session it was gated on

vars == <<kcKey, opaKeys, revoked, session, req>>

\* The acr claims of Keycloak's tokens; "" is a token without one.
Acrs    == {"", "normal", "high"}
Devices == {c.device : c \in Certs} \ {NoDevice}

Token   == [roles : RoleSets, acr : Acrs, key : 1..MaxKey, live : BOOLEAN]
Session == [roles   : RoleSets,
            acr     : Acrs,
            device  : Devices \cup {NoDevice},
            posture : {c.posture : c \in Certs} \cup {"unknown"},
            trust   : {"trusted", "suspicious"},
            token   : Token]
Request == [hop    : {"waf", "bff", "gate", "backend", "served", "refused"},
            method : Methods, path : Paths, as : Session \cup {None}]

ASSUME NoneAssumption == None \notin Session

Backend(path) == CASE Head(path) = "/identity"  -> "identity"
                   [] Head(path) = "/community" -> "community"
                   [] OTHER                     -> "workshop"

\* What ext_authz asks about the forwarded request.  Before the BFF's own hop
\* it has no headers of the BFF's.
MeshQuery(src, dst, r) ==
    [src |-> src, dst |-> dst, method |-> r.method, path |-> r.path]

BackendQuery(r) ==
    [src |-> "bff", dst |-> Backend(r.path), method |-> r.method, path |-> r.path,
     token |-> r.as.token, posture |-> r.as.posture, trust |-> r.as.trust]

Idle == req # None => req.hop \in {"served", "refused"}

Init == /\ kcKey = 1
        /\ opaKeys = 0
        /\ revoked = {}
        /\ session = None
        /\ req = None

-----------------------------------------------------------------------------
\* The browser.  Sessions come and go between its requests (a bound).

Login(roles, acr, cert) ==
    /\ Idle
    /\ LET device == EvaluateDevice(cert, revoked)
       IN  session' = [roles   |-> roles,
                       acr     |-> acr,
                       device  |-> device.device,
                       posture |-> device.posture,
                       trust   |-> device.trust,
                       token   |-> [roles |-> roles, acr |-> acr,
                                    key |-> kcKey, live |-> TRUE]]
    /\ req' = None
    /\ UNCHANGED <<kcKey, opaKeys, revoked>>

Logout ==
    /\ Idle /\ session # None
    /\ session' = None /\ req' = None
    /\ UNCHANGED <<kcKey, opaKeys, revoked>>

ClientSends(method, path) ==
    /\ Idle
    /\ req' = [hop |-> "waf", method |-> method, path |-> path, as |-> None]
    /\ UNCHANGED <<kcKey, opaKeys, revoked, session>>

-----------------------------------------------------------------------------
\* The enforcement points.

MovesTo(hop) ==
    /\ req' = [req EXCEPT !.hop = hop]
    /\ UNCHANGED <<kcKey, opaKeys, revoked>>

WafDecides ==
    /\ req # None /\ req.hop = "waf"
    /\ MovesTo(IF PdpAllows(MeshQuery("edge-gateway", "waf", req), opaKeys)
               THEN "bff" ELSE "refused")
    /\ UNCHANGED session

BffSidecarDecides ==
    /\ req # None /\ req.hop = "bff"
    /\ MovesTo(IF PdpAllows(MeshQuery("waf", "bff", req), opaKeys)
               THEN "gate" ELSE "refused")
    /\ UNCHANGED session

AtGate == req # None /\ req.hop = "gate"

\* A refresh takes the new token's acr, if it has one, and leaves the roles,
\* the device and the crAPI token of the login.
Refreshed(s, roles, acr, key) ==
    [s EXCEPT !.acr   = IF acr = "" THEN s.acr ELSE acr,
              !.token = [roles |-> roles, acr |-> acr, key |-> key, live |-> TRUE]]

\* What the gate makes of session s.
Gate(s) ==
    /\ session' = s
    /\ req' = [req EXCEPT !.as  = s,
                          !.hop = IF GateVerdict(s, revoked, req.method, req.path) = "forward"
                                  THEN "backend" ELSE "refused"]
    /\ UNCHANGED <<kcKey, opaKeys, revoked>>

BffFindsNoSession ==
    /\ AtGate /\ session = None
    /\ MovesTo("refused")
    /\ UNCHANGED session

BffGates ==
    /\ AtGate /\ session # None /\ session.token.live
    /\ Gate(session)

\* The roles are Keycloak's of the moment.  The acr of the new token is the old
\* one's, a lower one or none: it does not rise in a refresh.
BffRefreshesAndGates(roles, acr) ==
    /\ AtGate /\ session # None /\ ~ session.token.live
    /\ acr \in {"", "normal", session.token.acr}
    /\ Gate(Refreshed(session, roles, acr, kcKey))

BffRefreshFails ==
    /\ AtGate /\ session # None /\ ~ session.token.live
    /\ MovesTo("refused")
    /\ UNCHANGED session

BackendDecides ==
    /\ req # None /\ req.hop = "backend"
    /\ MovesTo(IF PdpAllows(BackendQuery(req), opaKeys) THEN "served" ELSE "refused")
    /\ UNCHANGED session

-----------------------------------------------------------------------------
\* Around them.

TokenExpires ==
    /\ session # None /\ session.token.live
    /\ session' = [session EXCEPT !.token.live = FALSE]
    /\ UNCHANGED <<kcKey, opaKeys, revoked, req>>

\* The copy under way expires after the session's own: it is that one.
ForwardedTokenExpires ==
    /\ req # None /\ req.hop = "backend" /\ req.as.token.live
    /\ session # None /\ ~ session.token.live
    /\ req' = [req EXCEPT !.as.token.live = FALSE]
    /\ UNCHANGED <<kcKey, opaKeys, revoked, session>>

KeyRotates ==
    /\ kcKey < MaxKey
    /\ kcKey' = kcKey + 1
    /\ UNCHANGED <<opaKeys, revoked, session, req>>

JwksSync ==
    /\ opaKeys < kcKey
    /\ opaKeys' = kcKey
    /\ UNCHANGED <<kcKey, revoked, session, req>>

DeviceListed(device) ==
    /\ revoked' = revoked \cup {device}
    /\ revoked' # revoked
    /\ UNCHANGED <<kcKey, opaKeys, session, req>>

DeviceUnlisted(device) ==
    /\ device \in revoked
    /\ revoked' = revoked \ {device}
    /\ UNCHANGED <<kcKey, opaKeys, session, req>>

Next ==
    \/ \E roles \in RoleSets, acr \in Acrs, cert \in Certs : Login(roles, acr, cert)
    \/ Logout
    \/ \E method \in Methods, path \in Paths : ClientSends(method, path)
    \/ WafDecides
    \/ BffSidecarDecides
    \/ BffFindsNoSession
    \/ BffGates
    \/ \E roles \in RoleSets, acr \in Acrs : BffRefreshesAndGates(roles, acr)
    \/ BffRefreshFails
    \/ BackendDecides
    \/ TokenExpires
    \/ ForwardedTokenExpires
    \/ KeyRotates
    \/ JwksSync
    \/ \E device \in Devices : DeviceListed(device) \/ DeviceUnlisted(device)

Spec == Init /\ [][Next]_vars

-----------------------------------------------------------------------------
\* Each variable has its type; a request past the gate carries the session it
\* was gated on, one before it none.
TypeOK ==
    /\ kcKey \in 1..MaxKey
    /\ opaKeys \in 0..kcKey
    /\ revoked \subseteq Devices
    /\ session \in Session \cup {None}
    /\ req \in Request \cup {None}
    /\ req # None /\ req.hop \in {"backend", "served"} => req.as # None
    /\ req # None /\ req.hop \in {"waf", "bff", "gate"} => req.as = None

Served == req # None /\ req.hop = "served"

\* The inductive invariant: a trusted session is on a compliant device and
\* remembers the step-up its token has; a request past the gate passed its three tests on the session it carries; one
\* that was served passed the policy of its backend.
Vetted(s, method, path) ==
    /\ s.trust = "trusted" => s.posture = "compliant"
    /\ method \in WriteMethods => s.trust = "trusted"
    /\ RbacOk(s.roles, method, path)
    /\ IsSensitive(method, path) => s.acr = "high"

Coherent(s) ==
    /\ s.trust = "trusted" => s.posture = "compliant"
    /\ s.token.acr = "high" => s.acr = "high"

PassedPdp(q) ==
    IF q.dst = "identity"
    THEN CrosscloudAllow(q)
    ELSE \/ ZtaPublicPath(q.method, q.path)
         \/ /\ RolePermitsAction(q.token.roles, q.method, q.path)
            /\ SensitiveCrapiAction(q.method, q.path) => q.token.acr = "high"

GateInv ==
    /\ session # None => Coherent(session)
    /\ req # None /\ req.hop \in {"backend", "served"}
          => Vetted(req.as, req.method, req.path)
    /\ Served => PassedPdp(BackendQuery(req))

\* What api_proxy lets through, the policy in front of the backend refuses
\* only for a reason the BFF cannot see or has not copied: the service graph
\* has no such call, OPA has not synchronised the signing key, the token ran
\* out under way, Keycloak changed the user's roles or left out the acr at the
\* last refresh, or identity is asked for from a device that is not compliant.
\* The roles, the device and the step-up are never a reason of their own.
NoSurpriseDenial ==
    [][ LET q == BackendQuery(req)
        IN  (req # None /\ req.hop = "backend" /\ req'.hop = "refused") =>
               \/ ~ AllowedByAcl(q)
               \/ q.token.key > opaKeys
               \/ ~ q.token.live
               \/ q.token.roles # req.as.roles
               \/ q.token.acr # req.as.acr
               \/ q.dst = "identity" /\ q.posture # "compliant" ]_vars

\* The converse on AWS: what api_proxy refuses by one of its own tests, the
\* user rules of zta_crapi would refuse as well, asked about the token and the
\* headers the BFF would have forwarded -- unless it is a write from a device
\* that is on the revocation list, which no policy reads, or the last refresh
\* brought other roles than the session's, which the BFF does not copy.
NoNeedlessRefusal ==
    [][ LET q == BackendQuery(req')
        IN  (AtGate /\ req'.hop = "refused" /\ req'.as # None /\ q.dst # "identity") =>
               \/ ~ KeycloakGate(q, kcKey)
               \/ req.method \in WriteMethods /\ req'.as.device \in revoked
               \/ q.token.roles # req'.as.roles ]_vars

\* identity's policy sees no user, so all that stands behind a request it
\* serves is what the BFF recorded: a compliant device always; for a write, a
\* trusted one and the roles of the login; for a sensitive one, the step-up.
IdentityVetted ==
    Served /\ Backend(req.path) = "identity"
           /\ ~ CrosscloudPublicPath(req.method, req.path)
      => /\ req.as.posture = "compliant"
         /\ req.method \in WriteMethods =>
                /\ req.as.trust = "trusted"
                /\ RbacOk(req.as.roles, req.method, req.path)
         /\ IsSensitive(req.method, req.path) => req.as.acr = "high"
=============================================================================
