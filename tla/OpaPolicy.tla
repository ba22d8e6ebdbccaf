------------------------------ MODULE OpaPolicy ------------------------------
(***************************************************************************)
(* The policy decision points of the two clusters, rule by rule: zta_crapi *)
(* (AWS), crosscloud_crapi (OpenStack) and the service graph both read,    *)
(* service_acl (opa/crapi-policies).                                       *)
(*                                                                         *)
(* A request is what Envoy's ext_authz asks about: a source and a          *)
(* destination workload, a method, a path cut into chunks as in BffGate,   *)
(* and the headers the BFF sets.  A hop whose source is not the BFF has no *)
(* such headers: the question then lacks the field.                        *)
(***************************************************************************)
EXTENDS Naturals, SequencesExt

HasPrefix(path, prefixes) == \E p \in prefixes : IsPrefix(p, path)

-----------------------------------------------------------------------------
\* service_acl, of the hops a user's request takes and of the calls between
\* the backends.

Edge(src, dst, methods, prefix) ==
    [src |-> src, dst |-> dst, methods |-> methods, prefix |-> prefix]

AllMethods == {"GET", "POST", "PUT", "DELETE", "PATCH", "HEAD", "OPTIONS"}

ServiceAcl ==
    { Edge("edge-gateway", "waf", AllMethods, <<>>),
      Edge("waf", "bff", AllMethods, <<>>),
      Edge("bff", "identity", {"GET", "POST", "PUT", "DELETE"}, <<"/identity", "/api">>),
      Edge("bff", "identity", {"GET"}, <<"/identity", "/health_check">>),
      Edge("bff", "community", {"GET", "POST"}, <<"/community", "/api">>),
      Edge("bff", "workshop", {"GET", "POST", "PUT"}, <<"/workshop", "/api">>) }
    \cup { Edge(src, "identity", {"POST"}, <<"/identity", "/api", "/auth", "/verify">>) :
             src \in {"community", "workshop"} }
    \cup { Edge(src, "identity", {"GET"}, <<"/identity", "/health_check">>) :
             src \in {"community", "workshop"} }

AllowedByAcl(q) ==
    \E edge \in ServiceAcl : /\ edge.src = q.src /\ edge.dst = q.dst
                             /\ q.method \in edge.methods
                             /\ IsPrefix(edge.prefix, q.path)

-----------------------------------------------------------------------------
\* The user: role, device and step-up rules of zta_crapi.

RoleReadOk(roles, method) ==
    /\ roles \cap {"crapi-user", "crapi-mechanic", "crapi-admin", "soc-analyst"} # {}
    /\ method \in {"GET", "OPTIONS", "HEAD"}

AdminPath(path) ==
    HasPrefix(path, { <<"/identity", "/api", "/v2", "/admin">>,
                      <<"/workshop", "/api", "/management">> })

MechanicOnlyPath(path) ==
    HasPrefix(path, { <<"/workshop", "/api", "/mechanic", "/service_requests">>,
                      <<"/workshop", "/api", "/mechanic", "/mechanic_report">> })

\* The second rule, for mechanics, names no method.
RoleWriteOk(roles, method, path) ==
    \/ /\ roles \cap {"crapi-user", "crapi-mechanic", "crapi-admin"} # {}
       /\ method \in {"POST", "PUT", "PATCH", "DELETE"}
       /\ ~ AdminPath(path) /\ ~ MechanicOnlyPath(path)
    \/ roles \cap {"crapi-mechanic", "crapi-admin"} # {} /\ MechanicOnlyPath(path)
    \/ "crapi-admin" \in roles /\ method \in {"POST", "PUT", "PATCH", "DELETE"}

RolePermitsAction(roles, method, path) ==
    RoleReadOk(roles, method) \/ RoleWriteOk(roles, method, path)

SensitiveCrapiAction(method, path) ==
    /\ method = "POST"
    /\ HasPrefix(path, { <<"/workshop", "/api", "/shop", "/orders">>,
                         <<"/workshop", "/api", "/shop", "/orders", "/return_order">>,
                         <<"/identity", "/api", "/v2", "/user", "/reset-password">>,
                         <<"/identity", "/api", "/v2", "/user", "/change-email">> })

StrongControlRequired(q) ==
    q.method \in {"POST", "PUT", "PATCH", "DELETE"} \/ SensitiveCrapiAction(q.method, q.path)

\* A request without the header passes both.
PostureCompliant(q)     == "posture" \in DOMAIN q => q.posture = "compliant"
DeviceTrustCompliant(q) == "trust" \in DOMAIN q => q.trust # "suspicious"

\* jwks: how many of Keycloak's signing keys, in the order they came into use,
\* are in OPA's copy of the JWKS; 0 while it has none.
ValidJwt(token, jwks) == token.key <= jwks /\ token.live

\* Mutant: the device is asked for on reads too.
KeycloakGateAllReads(q, jwks) ==
    q.src = "bff" => /\ ValidJwt(q.token, jwks)
                     /\ RolePermitsAction(q.token.roles, q.method, q.path)
                     /\ PostureCompliant(q) /\ DeviceTrustCompliant(q)
                     /\ SensitiveCrapiAction(q.method, q.path) => q.token.acr = "high"

KeycloakGate(q, jwks) ==
    q.src = "bff" => /\ ValidJwt(q.token, jwks)
                     /\ RolePermitsAction(q.token.roles, q.method, q.path)
                     /\ StrongControlRequired(q) =>
                            PostureCompliant(q) /\ DeviceTrustCompliant(q)
                     /\ SensitiveCrapiAction(q.method, q.path) => q.token.acr = "high"

-----------------------------------------------------------------------------
\* Public paths: health, metrics, and the calls of crAPI's own sign-up and
\* login, which come before any token.

HealthPath(path) ==
    \/ path \in { <<"/health">>, <<"/ready">>, <<"/identity", "/health_check">> }
    \/ HasPrefix(path, {<<"/metrics">>})

CrapiAuthCall(method, path) ==
    \/ method = "POST" /\ HasPrefix(path,
         { <<"/identity", "/api", "/auth", c>> :
             c \in { "/signup", "/login", "/forget-password", "/v2/check-otp",
                     "/v3/check-otp", "/v2.7/user/login-with-token",
                     "/v4.0/user/login-with-token", "/verify" } })
    \/ method = "GET" /\ HasPrefix(path, {<<"/identity", "/api", "/auth", "/jwks.json">>})

ZtaPublicPath(method, path) ==
    \/ HealthPath(path)
    \/ CrapiAuthCall(method, path)
    \/ method = "POST" /\ HasPrefix(path, {<<"/workshop", "/api", "/mechanic", "/signup">>})
    \/ method \in {"GET", "POST"} /\ HasPrefix(path,
         { <<"/auth", "/start">>, <<"/auth", "/callback">>, <<"/auth", "/logout">>,
           <<"/login">>, <<"/kc">> })

CrosscloudPublicPath(method, path) ==
    \/ HealthPath(path)
    \/ CrapiAuthCall(method, path)
    \/ method = "POST" /\ HasPrefix(path, {<<"/identity", "/api", "/auth", "/reset-test-users">>})

-----------------------------------------------------------------------------
\* The two decisions.

ZtaAllow(q, jwks) ==
    ZtaPublicPath(q.method, q.path) \/ (AllowedByAcl(q) /\ KeycloakGate(q, jwks))

\* Mutant: only the service graph is asked.
CrosscloudAllowAclOnly(q) ==
    CrosscloudPublicPath(q.method, q.path) \/ AllowedByAcl(q)

CrosscloudAllow(q) ==
    CrosscloudPublicPath(q.method, q.path) \/ (AllowedByAcl(q) /\ PostureCompliant(q))

\* identity runs on OpenStack, everything else on AWS.
PdpAllows(q, jwks) ==
    IF q.dst = "identity" THEN CrosscloudAllow(q) ELSE ZtaAllow(q, jwks)
=============================================================================
