--------------------------- MODULE EdgePath_proofs ---------------------------
(***************************************************************************)
(* The BFF's role check against the AWS policy's, and the properties of    *)
(* EdgePath, for every set of methods, paths, role sets and certificates.  *)
(***************************************************************************)
EXTENDS EdgePath, SequenceTheorems, TLAPS

\* A path has the chunks of each of its prefixes.
LEMMA PrefixAgrees ==
    ASSUME NEW S, NEW p \in Seq(S), NEW path \in Seq(S), IsPrefix(p, path),
           NEW i \in 1..Len(p)
    PROVE  path[i] = p[i]
<1>1. Len(p) \in Nat /\ Len(path) \in Nat /\ Len(p) <= Len(path)
  BY LenProperties DEF IsPrefix
<1>2. SubSeq(p, 1, Len(p))[i] = p[i] /\ SubSeq(path, 1, Len(p))[i] = path[i]
  BY <1>1, SubSeqProperties
<1> QED
  BY <1>2 DEF IsPrefix

\* No path is both an administrator's and a mechanic's, so the order in which
\* the BFF asks does not matter.
LEMMA AdminOrMechanic ==
    ASSUME NEW S, NEW path \in Seq(S)
    PROVE  ~ (AdminPath(path) /\ MechanicOnlyPath(path))
<1> SUFFICES ASSUME AdminPath(path), MechanicOnlyPath(path) PROVE FALSE
  OBVIOUS
<1> DEFINE Videos     == <<"/identity", "/api", "/v2", "/admin">>
           Management == <<"/workshop", "/api", "/management">>
           Requests   == <<"/workshop", "/api", "/mechanic", "/service_requests">>
           Chunks     == S \cup {"/identity", "/api", "/v2", "/admin", "/workshop",
                                 "/management", "/mechanic", "/service_requests",
                                 "/mechanic_report"}
           Report     == <<"/workshop", "/api", "/mechanic", "/mechanic_report">>
<1>1. /\ IsPrefix(Videos, path) \/ IsPrefix(Management, path)
      /\ IsPrefix(Requests, path) \/ IsPrefix(Report, path)
  BY Zenon DEF AdminPath, MechanicOnlyPath, HasPrefix
<1>2. Videos \in Seq(Chunks)
  OBVIOUS
<1>3. Management \in Seq(Chunks)
  OBVIOUS
<1>4. Requests \in Seq(Chunks) /\ Report \in Seq(Chunks)
  OBVIOUS
<1>5. path \in Seq(Chunks)
  BY SeqMonotonic
<1>6. Len(Videos) = 4 /\ Len(Management) = 3 /\ Len(Requests) = 4 /\ Len(Report) = 4
  OBVIOUS
<1>7. /\ Videos[1] = "/identity" /\ Management[3] = "/management"
      /\ Requests[1] = "/workshop" /\ Requests[3] = "/mechanic"
      /\ Report[1] = "/workshop" /\ Report[3] = "/mechanic"
  OBVIOUS
<1> HIDE DEF Videos, Management, Requests, Report, Chunks
<1>8. \A p \in {Videos, Management, Requests, Report} :
        IsPrefix(p, path) => path[1] = p[1] /\ path[3] = p[3]
  <2>1. SUFFICES ASSUME NEW p \in {Videos, Management, Requests, Report}, IsPrefix(p, path)
                 PROVE  path[1] = p[1] /\ path[3] = p[3]
    OBVIOUS
  <2>2. p \in Seq(Chunks)
    BY <1>2, <1>3, <1>4
  <2>3. Len(p) = 3 \/ Len(p) = 4
    BY <1>6
  <2>4. \A i \in 1..Len(p) : path[i] = p[i]
    BY <1>5, <2>1, <2>2, PrefixAgrees
  <2>5. CASE Len(p) = 3
    BY <2>4, <2>5
  <2>6. CASE Len(p) = 4
    BY <2>4, <2>6
  <2> QED
    BY <2>3, <2>5, <2>6
<1>9. path[1] = "/workshop" /\ path[3] = "/mechanic"
  BY <1>1, <1>7, <1>8
<1>10. path[1] = "/identity" \/ path[3] = "/management"
  BY <1>1, <1>7, <1>8
<1> QED
  BY <1>9, <1>10

\* The docstring of _rbac_ok calls it the mirror of role_permits_action: on
\* every method the BFF proxies, every path and every set of realm roles the
\* two agree, although the policy's rule for mechanics names no method.
THEOREM RbacMirror ==
    ASSUME NEW S, NEW path \in Seq(S), NEW roles, NEW method \in ProxiedMethods
    PROVE  RbacOk(roles, method, path) <=> RolePermitsAction(roles, method, path)
<1> DEFINE Admin == AdminPath(path)
           Mech  == MechanicOnlyPath(path)
           Has(r) == r \in roles
<1>1. (\E p \in AdminPrefixes : StartsWith(path, p)) <=> Admin
  BY Zenon DEF AdminPrefixes, StartsWith, AdminPath, HasPrefix
<1>2. (\E p \in MechanicPrefixes : StartsWith(path, p)) <=> Mech
  BY Zenon DEF MechanicPrefixes, StartsWith, MechanicOnlyPath, HasPrefix
<1>3. WritersOf(path) = IF Admin THEN {"crapi-admin"}
                        ELSE IF Mech THEN MechanicRoles ELSE WriterRoles
  BY <1>1, <1>2, Zenon DEF WritersOf
<1> HIDE DEF Admin, Mech
<1>4. RbacOk(roles, method, path) <=>
         /\ Has("crapi-user") \/ Has("crapi-mechanic") \/ Has("crapi-admin") \/ Has("soc-analyst")
         /\ \/ method \in ReadMethods
            \/ method \in WriteMethods /\ roles \cap WritersOf(path) # {}
  BY DEF RbacOk, KnownRoles
<1>5. roles \cap WritersOf(path) # {} <=>
         \/ Has("crapi-admin")
         \/ ~ Admin /\ Has("crapi-mechanic")
         \/ ~ Admin /\ ~ Mech /\ Has("crapi-user")
  BY <1>3 DEF WriterRoles, KnownRoles, MechanicRoles
<1>6. RolePermitsAction(roles, method, path) <=>
         \/ /\ Has("crapi-user") \/ Has("crapi-mechanic") \/ Has("crapi-admin") \/ Has("soc-analyst")
            /\ method \in {"GET", "OPTIONS", "HEAD"}
         \/ /\ Has("crapi-user") \/ Has("crapi-mechanic") \/ Has("crapi-admin")
            /\ method \in {"POST", "PUT", "PATCH", "DELETE"}
            /\ ~ Admin /\ ~ Mech
         \/ (Has("crapi-mechanic") \/ Has("crapi-admin")) /\ Mech
         \/ Has("crapi-admin") /\ method \in {"POST", "PUT", "PATCH", "DELETE"}
  BY DEF RolePermitsAction, RoleReadOk, RoleWriteOk, Admin, Mech
<1>7. method \in {"GET", "POST", "PUT", "DELETE", "PATCH", "OPTIONS"}
  BY DEF ProxiedMethods
<1>8. ~ (Admin /\ Mech)
  BY AdminOrMechanic DEF Admin, Mech
<1> QED
  BY <1>4, <1>5, <1>6, <1>7, <1>8 DEF ReadMethods, WriteMethods

-----------------------------------------------------------------------------
IInv == TypeOK /\ GateInv

\* EvaluateDevice trusts only a device that says it is compliant.
LEMMA Evaluated ==
    ASSUME NEW cert \in Certs, revoked \subseteq Devices
    PROVE  LET d == EvaluateDevice(cert, revoked)
           IN  /\ d.device \in Devices \cup {NoDevice}
               /\ d.posture \in {c.posture : c \in Certs} \cup {"unknown"}
               /\ d.trust \in {"trusted", "suspicious"}
               /\ d.trust = "trusted" => d.posture = "compliant"
<1>1. CASE cert.device = NoDevice
  BY <1>1 DEF EvaluateDevice
<1>2. CASE cert.device # NoDevice
  <2>1. cert.device \in Devices
    BY <1>2 DEF Devices
  <2> QED
    BY <1>2, <2>1 DEF EvaluateDevice
<1> QED
  BY <1>1, <1>2

\* A session stays a session, and a coherent one, through a refresh.
LEMMA RefreshedType ==
    ASSUME NEW s \in Session, NEW roles \in RoleSets, NEW acr \in Acrs, NEW key \in 1..MaxKey
    PROVE  /\ Refreshed(s, roles, acr, key) \in Session
           /\ Coherent(s) => Coherent(Refreshed(s, roles, acr, key))
  BY DEF Session, Token, Refreshed, Coherent

\* What the gate lets through passed its three tests.
LEMMA ForwardedIsVetted ==
    ASSUME NEW s \in Session, Coherent(s), NEW list, NEW method, NEW path,
           GateVerdict(s, list, method, path) = "forward"
    PROVE  Vetted(s, method, path)
<1>1. ~ (s.trust = "suspicious" /\ method \in WriteMethods)
  BY DEF GateVerdict
<1>2. RbacOk(s.roles, method, path)
  BY DEF GateVerdict
<1>3. IsSensitive(method, path) => s.acr = "high"
  BY DEF GateVerdict
<1>4. s.trust \in {"trusted", "suspicious"}
  BY DEF Session
<1> QED
  BY <1>1, <1>2, <1>3, <1>4 DEF Vetted, Coherent

\* A step of the gate keeps the invariant, whatever session it runs on.
LEMMA GateStep ==
    ASSUME IInv, AtGate, NEW s \in Session, Gate(s), Coherent(s)
    PROVE  IInv'
<1>1. req \in Request /\ req # None
  BY DEF IInv, TypeOK, AtGate
<1>2. /\ req' = [req EXCEPT !.as = s, !.hop = req'.hop]
      /\ req'.hop \in {"backend", "refused"}
      /\ req'.hop = "backend" => GateVerdict(s, revoked, req.method, req.path) = "forward"
      /\ session' = s /\ kcKey' = kcKey /\ opaKeys' = opaKeys /\ revoked' = revoked
  BY <1>1 DEF Gate, Request
<1>3. /\ req' \in Request /\ req'.as = s
      /\ req'.method = req.method /\ req'.path = req.path
  BY <1>1, <1>2 DEF Request
<1>4. TypeOK'
  BY <1>2, <1>3, NoneAssumption DEF IInv, TypeOK
<1>5. req'.hop = "backend" => Vetted(req'.as, req'.method, req'.path)
  BY <1>2, <1>3, ForwardedIsVetted
<1>6. GateInv'
  BY <1>2, <1>5 DEF GateInv, Served
<1> QED
  BY <1>4, <1>6 DEF IInv

\* What the policy in front of the backend lets through passed its rules.
LEMMA AllowedIsPassed ==
    ASSUME NEW q, NEW jwks, q.src = "bff", PdpAllows(q, jwks)
    PROVE  PassedPdp(q)
  BY DEF PdpAllows, PassedPdp, ZtaAllow, KeycloakGate

LEMMA InitInv == Init => IInv
  BY MaxKeyAssumption DEF Init, IInv, TypeOK, GateInv, Served

LEMMA StepInv == IInv /\ [Next]_vars => IInv'
<1> SUFFICES ASSUME IInv, [Next]_vars PROVE IInv'
  OBVIOUS
<1> USE DEF IInv
<1>1. ASSUME NEW roles \in RoleSets, NEW acr \in Acrs, NEW cert \in Certs,
             Login(roles, acr, cert)
      PROVE  IInv'
  <2> DEFINE d == EvaluateDevice(cert, revoked)
  <2>1. /\ d.device \in Devices \cup {NoDevice}
        /\ d.posture \in {c.posture : c \in Certs} \cup {"unknown"}
        /\ d.trust \in {"trusted", "suspicious"}
        /\ d.trust = "trusted" => d.posture = "compliant"
    BY Evaluated DEF TypeOK
  <2>2. session' = [roles |-> roles, acr |-> acr, device |-> d.device,
                    posture |-> d.posture, trust |-> d.trust,
                    token |-> [roles |-> roles, acr |-> acr, key |-> kcKey, live |-> TRUE]]
    BY <1>1 DEF Login
  <2> HIDE DEF d
  <2>3. session' \in Session /\ Coherent(session')
    BY <2>1, <2>2 DEF Session, Token, TypeOK, Coherent
  <2>4. req' = None /\ kcKey' = kcKey /\ opaKeys' = opaKeys /\ revoked' = revoked
    BY <1>1 DEF Login
  <2> QED
    BY <2>3, <2>4 DEF TypeOK, GateInv, Served
<1>2. CASE Logout
  BY <1>2 DEF Logout, TypeOK, GateInv, Served
<1>3. ASSUME NEW method \in Methods, NEW path \in Paths, ClientSends(method, path)
      PROVE  IInv'
  <2>1. /\ req' \in Request /\ req'.hop = "waf" /\ req'.as = None
        /\ session' = session /\ kcKey' = kcKey /\ opaKeys' = opaKeys /\ revoked' = revoked
    BY <1>3 DEF ClientSends, Request
  <2> QED
    BY <2>1 DEF TypeOK, GateInv, Served
<1>4. ASSUME NEW hop \in {"bff", "gate", "refused"}, MovesTo(hop), UNCHANGED session,
             req # None, req.hop \in {"waf", "bff", "gate"}
      PROVE  IInv'
  <2>1. req \in Request /\ req.as = None
    BY <1>4 DEF TypeOK
  <2>2. /\ req' \in Request /\ req'.hop = hop /\ req'.as = None
        /\ session' = session /\ kcKey' = kcKey /\ opaKeys' = opaKeys /\ revoked' = revoked
    BY <1>4, <2>1 DEF MovesTo, Request
  <2> QED
    BY <2>2 DEF TypeOK, GateInv, Served
<1>5. CASE WafDecides \/ BffSidecarDecides \/ BffFindsNoSession \/ BffRefreshFails
  BY <1>4, <1>5 DEF WafDecides, BffSidecarDecides, BffFindsNoSession, BffRefreshFails, AtGate
<1>6. CASE BffGates
  <2>1. session \in Session /\ Coherent(session)
    BY <1>6 DEF BffGates, TypeOK, GateInv
  <2> QED
    BY <1>6, <2>1, GateStep DEF BffGates
<1>7. ASSUME NEW roles \in RoleSets, NEW acr \in Acrs, BffRefreshesAndGates(roles, acr)
      PROVE  IInv'
  <2>1. session \in Session /\ Coherent(session)
    BY <1>7 DEF BffRefreshesAndGates, TypeOK, GateInv
  <2>2. kcKey \in 1..MaxKey
    BY DEF TypeOK
  <2> QED
    BY <1>7, <2>1, <2>2, GateStep, RefreshedType DEF BffRefreshesAndGates
<1>8. CASE BackendDecides
  <2>1. /\ req \in Request /\ req # None /\ req.hop = "backend"
        /\ session' = session /\ kcKey' = kcKey /\ opaKeys' = opaKeys /\ revoked' = revoked
    BY <1>8 DEF BackendDecides, TypeOK, MovesTo
  <2>2. /\ req' = [req EXCEPT !.hop = req'.hop] /\ req'.hop \in {"served", "refused"}
        /\ req'.hop = "served" => PdpAllows(BackendQuery(req), opaKeys)
    BY <1>8, <2>1 DEF BackendDecides, MovesTo, Request
  <2>3. /\ req' \in Request /\ req'.as = req.as
        /\ req'.method = req.method /\ req'.path = req.path
    BY <2>1, <2>2 DEF Request
  <2>4. TypeOK'
    BY <2>1, <2>2, <2>3 DEF TypeOK
  <2>5. BackendQuery(req)' = BackendQuery(req) /\ BackendQuery(req).src = "bff"
    BY <2>3 DEF BackendQuery, Backend
  <2>6. Served' => PassedPdp(BackendQuery(req))'
    BY <2>2, <2>5, AllowedIsPassed DEF Served, PassedPdp
  <2>7. Vetted(req.as, req.method, req.path)
    BY <2>1 DEF GateInv
  <2>8. Vetted(req'.as, req'.method, req'.path)
    BY <2>3, <2>7
  <2>9. session' # None => Coherent(session')
    BY <2>1 DEF GateInv
  <2> QED
    BY <2>4, <2>6, <2>8, <2>9 DEF GateInv
<1>9. CASE TokenExpires
  <2>1. /\ session \in Session /\ session # None
        /\ session' = [session EXCEPT !.token.live = FALSE]
        /\ req' = req /\ kcKey' = kcKey /\ opaKeys' = opaKeys /\ revoked' = revoked
    BY <1>9 DEF TokenExpires, TypeOK
  <2>2. session' \in Session /\ (Coherent(session) => Coherent(session'))
    BY <2>1 DEF Session, Token, Coherent
  <2>3. TypeOK'
    BY <2>1, <2>2 DEF TypeOK
  <2>4. BackendQuery(req)' = BackendQuery(req)
    BY <2>1 DEF BackendQuery, Backend
  <2> QED
    BY <2>1, <2>2, <2>3, <2>4 DEF GateInv, Served, PassedPdp
<1>10. CASE ForwardedTokenExpires
  <2>1. /\ req \in Request /\ req # None /\ req.hop = "backend"
        /\ req.as \in Session /\ req.as # None
        /\ req' = [req EXCEPT !.as.token.live = FALSE]
        /\ session' = session /\ kcKey' = kcKey /\ opaKeys' = opaKeys /\ revoked' = revoked
    BY <1>10 DEF ForwardedTokenExpires, TypeOK, Request
  <2>2. /\ req' \in Request /\ req'.hop = "backend"
        /\ req'.method = req.method /\ req'.path = req.path
    BY <2>1 DEF Request, Session, Token
  <2>3. /\ req'.as \in Session
        /\ req'.as.trust = req.as.trust /\ req'.as.posture = req.as.posture
        /\ req'.as.roles = req.as.roles /\ req'.as.acr = req.as.acr
    BY <2>1 DEF Request, Session, Token
  <2>4. Vetted(req'.as, req'.method, req'.path)
    BY <2>1, <2>2, <2>3 DEF GateInv, Vetted
  <2> QED
    BY <2>1, <2>2, <2>3, <2>4, NoneAssumption DEF TypeOK, GateInv, Served
<1>11. ASSUME UNCHANGED <<session, req>>, kcKey' \in 1..MaxKey, opaKeys' \in 0..kcKey',
              revoked' \subseteq Devices
       PROVE  IInv'
  BY <1>11 DEF TypeOK, GateInv, Served, BackendQuery, Backend, PassedPdp
<1>12. CASE KeyRotates \/ JwksSync
  BY <1>11, <1>12, MaxKeyAssumption DEF KeyRotates, JwksSync, TypeOK
<1>13. ASSUME NEW device \in Devices, DeviceListed(device) \/ DeviceUnlisted(device)
       PROVE  IInv'
  BY <1>11, <1>13 DEF DeviceListed, DeviceUnlisted, TypeOK
<1>14. CASE UNCHANGED vars
  BY <1>11, <1>14 DEF vars, TypeOK
<1> QED
  BY <1>1, <1>2, <1>3, <1>5, <1>6, <1>7, <1>8, <1>9, <1>10, <1>12, <1>13, <1>14 DEF Next

\* The invariant holds of every behaviour.
LEMMA Inductive == Spec => []IInv
  BY InitInv, StepInv, PTL DEF Spec

\* Every variable of the request path keeps its type.
THEOREM TypeCorrect == Spec => []TypeOK
  BY Inductive, PTL DEF IInv

\* The invariant that api_proxy and the two policies keep between them.
THEOREM Gated == Spec => []GateInv
  BY Inductive, PTL DEF IInv

\* A request served by identity was vetted on the session, and on the posture.
THEOREM IdentityRequests == Spec => []IdentityVetted
<1>1. IInv => IdentityVetted
  <2> SUFFICES ASSUME IInv, Served, Backend(req.path) = "identity",
                      ~ CrosscloudPublicPath(req.method, req.path)
               PROVE  /\ req.as.posture = "compliant"
                      /\ req.method \in WriteMethods =>
                             /\ req.as.trust = "trusted"
                             /\ RbacOk(req.as.roles, req.method, req.path)
                      /\ IsSensitive(req.method, req.path) => req.as.acr = "high"
    BY DEF IdentityVetted
  <2>1. Vetted(req.as, req.method, req.path) /\ PassedPdp(BackendQuery(req))
    BY DEF IInv, GateInv, Served
  <2>2. req.as.posture = "compliant"
    BY <2>1 DEF PassedPdp, CrosscloudAllow, BackendQuery, PostureCompliant
  <2> QED
    BY <2>1, <2>2 DEF Vetted
<1> QED
  BY <1>1, Inductive, PTL

\* The two lists of sensitive actions agree, and all of them are writes.
LEMMA SensitiveAlike ==
    ASSUME NEW method, NEW path, SensitiveCrapiAction(method, path)
    PROVE  IsSensitive(method, path) /\ method \in WriteMethods
<1>1. PICK p \in {OrdersPath, ReturnOrderPath, ResetPwdPath, ChangeEmailPath} :
         StartsWith(path, p)
  BY Zenon DEF SensitiveCrapiAction, HasPrefix, StartsWith, OrdersPath, ReturnOrderPath,
               ResetPwdPath, ChangeEmailPath
<1>2. method = "POST"
  BY DEF SensitiveCrapiAction
<1>3. <<"POST", p>> \in SensitiveActions
  BY <1>1 DEF SensitiveActions
<1>4. <<"POST", p>>[1] = "POST" /\ <<"POST", p>>[2] = p
  OBVIOUS
<1> QED
  BY <1>1, <1>2, <1>3, <1>4 DEF IsSensitive, WriteMethods

\* The policies never refuse what the BFF forwards over the roles, the device
\* or the step-up alone.
THEOREM NoSurprise == Spec => NoSurpriseDenial
<1>1. ASSUME IInv, [Next]_vars, req # None, req.hop = "backend", req'.hop = "refused",
             AllowedByAcl(BackendQuery(req)), req.as.token.key <= opaKeys,
             req.as.token.live, req.as.token.roles = req.as.roles,
             req.as.token.acr = req.as.acr,
             BackendQuery(req).dst = "identity" => req.as.posture = "compliant"
      PROVE  FALSE
  <2> DEFINE q == BackendQuery(req)
  <2>1. req \in Request /\ Vetted(req.as, req.method, req.path)
    BY <1>1 DEF IInv, TypeOK, GateInv
  <2>2. /\ q.src = "bff" /\ q.method = req.method /\ q.path = req.path
        /\ q.token = req.as.token /\ q.posture = req.as.posture /\ q.trust = req.as.trust
    BY DEF BackendQuery
  <2>3. req.method \in ProxiedMethods /\ req.path \in Seq(STRING)
    BY <2>1, MethodsAssumption, PathsAssumption DEF Request
  <2>4. ~ PdpAllows(q, opaKeys)
    <3>1. req' # req /\ ~ Idle /\ ~ AtGate
      BY <1>1 DEF Idle, AtGate
    <3>2. ~ \E roles \in RoleSets, acr \in Acrs, cert \in Certs : Login(roles, acr, cert)
      BY <3>1, Zenon DEF Login
    <3>3. ~ Logout /\ ~ \E method \in Methods, path \in Paths : ClientSends(method, path)
      BY <3>1, Zenon DEF Logout, ClientSends
    <3>4. ~ WafDecides /\ ~ BffSidecarDecides
      <4>1. req.hop # "waf" /\ req.hop # "bff"
        BY <1>1
      <4> QED
        BY <4>1, Zenon DEF WafDecides, BffSidecarDecides
    <3>5. ~ BffFindsNoSession /\ ~ BffGates /\ ~ BffRefreshFails
      BY <3>1, Zenon DEF BffFindsNoSession, BffGates, BffRefreshFails
    <3>6. ~ \E roles \in RoleSets, acr \in Acrs : BffRefreshesAndGates(roles, acr)
      BY <3>1, Zenon DEF BffRefreshesAndGates
    <3>7. ~ ForwardedTokenExpires
      <4> SUFFICES ASSUME ForwardedTokenExpires PROVE req'.hop = req.hop
        BY <1>1
      <4> QED
        BY <2>1 DEF ForwardedTokenExpires, Request
    <3>8. ~ TokenExpires /\ ~ KeyRotates /\ ~ JwksSync
      BY <3>1, Zenon DEF TokenExpires, KeyRotates, JwksSync
    <3>9. ~ \E device \in Devices : DeviceListed(device) \/ DeviceUnlisted(device)
      BY <3>1, Zenon DEF DeviceListed, DeviceUnlisted
    <3>10. BackendDecides
      BY <1>1, <3>1, <3>2, <3>3, <3>4, <3>5, <3>6, <3>7, <3>8, <3>9, Zenon DEF Next, vars
    <3>11. ASSUME PdpAllows(q, opaKeys) PROVE FALSE
      <4>1. MovesTo("served")
        BY <3>10, <3>11, Zenon DEF BackendDecides
      <4>2. req'.hop = "served"
        BY <2>1, <4>1 DEF MovesTo, Request
      <4> QED
        BY <1>1, <4>2
    <3> QED
      BY <3>11
  <2> HIDE DEF q
  <2>5. CASE q.dst = "identity"
    BY <1>1, <2>2, <2>4, <2>5 DEF PdpAllows, CrosscloudAllow, PostureCompliant, q
  <2>6. CASE q.dst # "identity"
    <3>1. ~ KeycloakGate(q, opaKeys)
      BY <1>1, <2>4, <2>6 DEF PdpAllows, ZtaAllow, q
    <3>2. ValidJwt(q.token, opaKeys)
      BY <1>1, <2>2 DEF ValidJwt
    <3>3. RolePermitsAction(q.token.roles, q.method, q.path)
      BY <1>1, <2>1, <2>2, <2>3, RbacMirror DEF Vetted
    <3>4. StrongControlRequired(q) => req.method \in WriteMethods
      BY <2>2, SensitiveAlike DEF StrongControlRequired, WriteMethods
    <3>5. StrongControlRequired(q) => PostureCompliant(q) /\ DeviceTrustCompliant(q)
      BY <2>1, <2>2, <3>4 DEF Vetted, PostureCompliant, DeviceTrustCompliant
    <3>6. SensitiveCrapiAction(q.method, q.path) => q.token.acr = "high"
      BY <1>1, <2>1, <2>2, SensitiveAlike DEF Vetted
    <3> QED
      BY <2>2, <3>1, <3>2, <3>3, <3>5, <3>6 DEF KeycloakGate
  <2> QED
    BY <2>5, <2>6
<1>2. IInv /\ [Next]_vars =>
        [ LET q == BackendQuery(req)
          IN  (req # None /\ req.hop = "backend" /\ req'.hop = "refused") =>
               \/ ~ AllowedByAcl(q)
               \/ q.token.key > opaKeys
               \/ ~ q.token.live
               \/ q.token.roles # req.as.roles
               \/ q.token.acr # req.as.acr
               \/ q.dst = "identity" /\ q.posture # "compliant" ]_vars
  <2> SUFFICES ASSUME IInv, [Next]_vars,
                      req # None, req.hop = "backend", req'.hop = "refused",
                      AllowedByAcl(BackendQuery(req)),
                      ~ (BackendQuery(req).token.key > opaKeys),
                      BackendQuery(req).token.live,
                      BackendQuery(req).token.roles = req.as.roles,
                      BackendQuery(req).token.acr = req.as.acr,
                      ~ (BackendQuery(req).dst = "identity" /\ BackendQuery(req).posture # "compliant")
               PROVE  FALSE
    OBVIOUS
  <2>1. BackendQuery(req).token = req.as.token /\ BackendQuery(req).posture = req.as.posture
    BY DEF BackendQuery
  <2>2. req.as.token.key \in Nat /\ opaKeys \in Nat
    BY MaxKeyAssumption DEF IInv, TypeOK, Request, Session, Token
  <2> QED
    BY <1>1, <2>1, <2>2
<1> QED
  BY <1>2, Inductive, PTL DEF Spec, NoSurpriseDenial

\* A sensitive action of the BFF's list is one of the policy's.
LEMMA SensitiveToo ==
    ASSUME NEW method, NEW path, IsSensitive(method, path)
    PROVE  SensitiveCrapiAction(method, path)
<1>1. PICK a \in SensitiveActions : method = a[1] /\ StartsWith(path, a[2])
  BY DEF IsSensitive
<1>2. method = "POST" /\ a[2] \in {OrdersPath, ReturnOrderPath, ResetPwdPath, ChangeEmailPath}
  BY <1>1 DEF SensitiveActions
<1>3. PICK p \in {OrdersPath, ReturnOrderPath, ResetPwdPath, ChangeEmailPath} :
         StartsWith(path, p)
  BY <1>1, <1>2
<1>4. HasPrefix(path, {OrdersPath, ReturnOrderPath, ResetPwdPath, ChangeEmailPath})
  BY <1>3, Zenon DEF HasPrefix, StartsWith
<1> QED
  BY <1>2, <1>4, Zenon DEF SensitiveCrapiAction, OrdersPath, ReturnOrderPath, ResetPwdPath,
                           ChangeEmailPath

\* What the gate refuses of a coherent session with the roles of its token, on
\* a device that is not listed if it is a write, the AWS policy refuses too.
LEMMA RefusedByBoth ==
    ASSUME NEW s \in Session, Coherent(s), s.token.roles = s.roles,
           NEW list, NEW method \in ProxiedMethods, NEW path \in Seq(STRING),
           GateVerdict(s, list, method, path) # "forward",
           ~ (method \in WriteMethods /\ s.device \in list),
           NEW q, q.src = "bff", q.method = method, q.path = path, q.token = s.token,
           "trust" \in DOMAIN q, q.trust = s.trust, NEW jwks
    PROVE  ~ KeycloakGate(q, jwks)
<1>1. \/ s.trust = "suspicious" /\ method \in WriteMethods
      \/ ~ RbacOk(s.roles, method, path)
      \/ IsSensitive(method, path) /\ s.acr # "high"
  BY DEF GateVerdict, LiveRevoked
<1>2. CASE s.trust = "suspicious" /\ method \in WriteMethods
  <2>1. StrongControlRequired(q)
    BY <1>2 DEF StrongControlRequired, WriteMethods
  <2>2. ~ DeviceTrustCompliant(q)
    BY <1>2 DEF DeviceTrustCompliant
  <2> QED
    BY <2>1, <2>2 DEF KeycloakGate
<1>3. CASE ~ RbacOk(s.roles, method, path)
  <2>1. ~ RolePermitsAction(q.token.roles, q.method, q.path)
    BY <1>3, RbacMirror
  <2> QED
    BY <2>1 DEF KeycloakGate
<1>4. CASE IsSensitive(method, path) /\ s.acr # "high"
  <2>1. SensitiveCrapiAction(q.method, q.path)
    BY <1>4, SensitiveToo
  <2>2. q.token.acr # "high"
    BY <1>4 DEF Coherent
  <2> QED
    BY <2>1, <2>2 DEF KeycloakGate
<1> QED
  BY <1>1, <1>2, <1>3, <1>4

\* A refusal of the BFF that carries a session is a step of its gate.
LEMMA GateRefuses ==
    ASSUME IInv, [Next]_vars, AtGate, req'.hop = "refused", req'.as # None, req.as = None
    PROVE  \E s \in Session : Coherent(s) /\ Gate(s)
<1>1. req \in Request /\ req # None /\ req.hop = "gate" /\ ~ Idle
  BY DEF IInv, TypeOK, AtGate, Idle
<1>2. req' # req
  BY <1>1
<1>3. ~ \E roles \in RoleSets, acr \in Acrs, cert \in Certs : Login(roles, acr, cert)
  BY <1>1, Zenon DEF Login
<1>4. ~ Logout /\ ~ \E method \in Methods, path \in Paths : ClientSends(method, path)
  BY <1>1, Zenon DEF Logout, ClientSends
<1>5. ~ WafDecides /\ ~ BffSidecarDecides /\ ~ BackendDecides /\ ~ ForwardedTokenExpires
  <2>1. req.hop # "waf" /\ req.hop # "bff" /\ req.hop # "backend"
    BY <1>1
  <2> QED
    BY <2>1, Zenon DEF WafDecides, BffSidecarDecides, BackendDecides, ForwardedTokenExpires
<1>6. ~ TokenExpires /\ ~ KeyRotates /\ ~ JwksSync
  BY <1>2, Zenon DEF TokenExpires, KeyRotates, JwksSync
<1>7. ~ \E device \in Devices : DeviceListed(device) \/ DeviceUnlisted(device)
  BY <1>2, Zenon DEF DeviceListed, DeviceUnlisted
<1>8. ~ BffFindsNoSession /\ ~ BffRefreshFails
  <2> SUFFICES ASSUME MovesTo("refused") PROVE FALSE
    BY Zenon DEF BffFindsNoSession, BffRefreshFails
  <2> QED
    BY <1>1 DEF MovesTo, Request
<1>9. CASE BffGates
  <2>1. session \in Session /\ Coherent(session)
    BY <1>9 DEF BffGates, IInv, TypeOK, GateInv
  <2> QED
    BY <1>9, <2>1 DEF BffGates
<1>10. ASSUME NEW roles \in RoleSets, NEW acr \in Acrs, BffRefreshesAndGates(roles, acr)
       PROVE  \E s \in Session : Coherent(s) /\ Gate(s)
  <2>1. session \in Session /\ Coherent(session) /\ kcKey \in 1..MaxKey
    BY <1>10 DEF BffRefreshesAndGates, IInv, TypeOK, GateInv
  <2> QED
    BY <1>10, <2>1, RefreshedType DEF BffRefreshesAndGates
<1>11. BffGates \/ \E roles \in RoleSets, acr \in Acrs : BffRefreshesAndGates(roles, acr)
  BY <1>2, <1>3, <1>4, <1>5, <1>6, <1>7, <1>8, Zenon DEF Next, vars
<1> QED
  BY <1>9, <1>10, <1>11

\* The BFF refuses no request for AWS that the AWS policy would let through,
\* except for the revocation list and for roles a refresh has brought.
THEOREM NoNeedless == Spec => NoNeedlessRefusal
<1>1. ASSUME IInv, [Next]_vars, AtGate, req'.hop = "refused", req'.as # None,
             BackendQuery(req').dst # "identity",
             ~ (req.method \in WriteMethods /\ req'.as.device \in revoked),
             BackendQuery(req').token.roles = req'.as.roles
      PROVE  ~ KeycloakGate(BackendQuery(req'), kcKey)
  <2>1. req \in Request /\ req.as = None
    BY <1>1 DEF IInv, TypeOK, AtGate, GateInv
  <2>2. PICK s \in Session : Coherent(s) /\ Gate(s)
    BY <1>1, <2>1, GateRefuses
  <2>3. /\ req'.as = s /\ req'.method = req.method /\ req'.path = req.path
        /\ GateVerdict(s, revoked, req.method, req.path) # "forward"
    BY <1>1, <2>1, <2>2 DEF Gate, Request
  <2>4. req.method \in ProxiedMethods /\ req.path \in Seq(STRING)
    BY <2>1, MethodsAssumption, PathsAssumption DEF Request
  <2> DEFINE q == BackendQuery(req')
  <2>5. /\ q.src = "bff" /\ q.method = req.method /\ q.path = req.path /\ q.token = s.token
        /\ "trust" \in DOMAIN q /\ q.trust = s.trust
    BY <2>3 DEF BackendQuery
  <2>6. s.token.roles = s.roles /\ ~ (req.method \in WriteMethods /\ s.device \in revoked)
    BY <1>1, <2>3, <2>5
  <2> HIDE DEF q
  <2>7. ~ KeycloakGate(q, kcKey)
    BY <2>2, <2>3, <2>4, <2>5, <2>6, RefusedByBoth
  <2> QED
    BY <2>7 DEF q
<1>2. IInv /\ [Next]_vars =>
        [ LET q == BackendQuery(req')
          IN  (AtGate /\ req'.hop = "refused" /\ req'.as # None /\ q.dst # "identity") =>
               \/ ~ KeycloakGate(q, kcKey)
               \/ req.method \in WriteMethods /\ req'.as.device \in revoked
               \/ q.token.roles # req'.as.roles ]_vars
  BY <1>1, Zenon
<1> QED
  BY <1>2, Inductive, PTL DEF Spec, NoNeedlessRefusal
=============================================================================
