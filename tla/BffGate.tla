------------------------------- MODULE BffGate -------------------------------
(***************************************************************************)
(* The decisions the BFF takes about one request, as pure operators: the   *)
(* device evaluation made at login, the role check, the list of sensitive  *)
(* actions and the order in which api_proxy asks them                      *)
(* (services/bff/main.py).  The session machinery that feeds them is in    *)
(* BffSession; the policy engines the BFF mirrors are in OpaPolicy.        *)
(*                                                                         *)
(* A URL path is a sequence of chunks whose concatenation is the path, cut *)
(* so that every prefix the code tests ends at a cut:                      *)
(* <<"/workshop", "/api", "/shop", "/orders", "_v2">> is a path that       *)
(* startswith("/workshop/api/shop/orders") holds of.                       *)
(***************************************************************************)
EXTENDS Naturals, SequencesExt

StartsWith(path, prefix) == IsPrefix(prefix, path)

WriteMethods == {"POST", "PUT", "PATCH", "DELETE"}
ReadMethods  == {"GET", "HEAD", "OPTIONS"}

\* The methods FastAPI routes to api_proxy: HEAD is not one of them.
ProxiedMethods == {"GET", "POST", "PUT", "DELETE", "PATCH", "OPTIONS"}

OrdersPath      == <<"/workshop", "/api", "/shop", "/orders">>
ReturnOrderPath == <<"/workshop", "/api", "/shop", "/orders", "/return_order">>
ResetPwdPath    == <<"/identity", "/api", "/v2", "/user", "/reset-password">>
ChangeEmailPath == <<"/identity", "/api", "/v2", "/user", "/change-email">>

SensitiveActions ==
    {"POST"} \X {OrdersPath, ReturnOrderPath, ResetPwdPath, ChangeEmailPath}

IsSensitive(method, path) ==
    \E a \in SensitiveActions : method = a[1] /\ StartsWith(path, a[2])

AdminPrefixes    == { <<"/identity", "/api", "/v2", "/admin">>,
                      <<"/workshop", "/api", "/management">> }
MechanicPrefixes == { <<"/workshop", "/api", "/mechanic", "/service_requests">>,
                      <<"/workshop", "/api", "/mechanic", "/mechanic_report">> }

KnownRoles   == {"crapi-user", "crapi-mechanic", "crapi-admin", "soc-analyst"}
WriterRoles  == KnownRoles \ {"soc-analyst"}
MechanicRoles == {"crapi-mechanic", "crapi-admin"}

\* The roles that may write to a path; the admin prefixes are asked first.
WritersOf(path) ==
    IF \E p \in AdminPrefixes : StartsWith(path, p) THEN {"crapi-admin"}
    ELSE IF \E p \in MechanicPrefixes : StartsWith(path, p) THEN MechanicRoles
    ELSE WriterRoles

\* Mutant: asks every method for the roles of a write.
RbacOkForWriters(roles, method, path) ==
    roles \cap KnownRoles # {} /\ roles \cap WritersOf(path) # {}

RbacOk(roles, method, path) ==
    /\ roles \cap KnownRoles # {}
    /\ \/ method \in ReadMethods
       \/ method \in WriteMethods /\ roles \cap WritersOf(path) # {}

-----------------------------------------------------------------------------
\* Devices.  A certificate names a device, or none (no device URI in its SAN),
\* and carries the posture written in its subject.  A request without the
\* x-device-cert-info header is evaluated as one whose certificate names none.
NoDevice == "no device"

EvaluateDevice(cert, revoked) ==
    IF cert.device = NoDevice
    THEN [device |-> NoDevice, posture |-> "unknown", trust |-> "suspicious"]
    ELSE [device |-> cert.device, posture |-> cert.posture,
          trust |-> IF cert.posture = "compliant" /\ cert.device \notin revoked
                    THEN "trusted" ELSE "suspicious"]

-----------------------------------------------------------------------------
\* The device is on the list now, whatever it was at login.
\* Mutant: trusts what was recorded at login.
RevokedAtLoginOnly(session, revoked) == FALSE

LiveRevoked(session, revoked) ==
    session.device # NoDevice /\ session.device \in revoked

\* Mutant: asks for a step-up only of a session that has no acr at all.
GateWithLaxStepUp(session, revoked, method, path) ==
    IF /\ session.trust = "suspicious" \/ LiveRevoked(session, revoked)
       /\ method \in WriteMethods                  THEN "device_denied"
    ELSE IF ~ RbacOk(session.roles, method, path)  THEN "role_denied"
    ELSE IF IsSensitive(method, path) /\ session.acr = ""
                                                   THEN "step_up_required"
    ELSE "forward"

\* The verdict of api_proxy on a session whose token is fresh: the first of
\* its tests that refuses, else "forward".
GateVerdict(session, revoked, method, path) ==
    IF /\ session.trust = "suspicious" \/ LiveRevoked(session, revoked)
       /\ method \in WriteMethods                  THEN "device_denied"
    ELSE IF ~ RbacOk(session.roles, method, path)  THEN "role_denied"
    ELSE IF IsSensitive(method, path) /\ session.acr # "high"
                                                   THEN "step_up_required"
    ELSE "forward"
=============================================================================
