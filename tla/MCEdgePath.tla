----------------------------- MODULE MCEdgePath -----------------------------
(* EdgePath on one path of each kind the gates tell apart, three role sets,  *)
(* a compliant device, a non-compliant one and a certificate without one.    *)
EXTENDS EdgePath

MCMethods == {"GET", "POST", "PATCH"}

MCPaths ==
    { <<"/identity", "/api", "/v2", "/user", "/dashboard">>,
      <<"/identity", "/api", "/v2", "/user", "/reset-password">>,
      <<"/identity", "/api", "/auth", "/signup">>,
      <<"/identity", "/api", "/v2", "/admin", "/videos">>,
      <<"/workshop", "/api", "/shop", "/orders">>,
      <<"/workshop", "/api", "/mechanic", "/mechanic_report">>,
      <<"/workshop", "/api", "/mechanic", "/signup">>,
      <<"/community", "/api", "/v2", "/posts">> }

MCRoleSets == { {"crapi-user"}, {"crapi-user", "crapi-mechanic"}, {"soc-analyst"} }

MCCerts == { [device |-> "d1", posture |-> "compliant"],
             [device |-> "d2", posture |-> "non-compliant"],
             [device |-> NoDevice, posture |-> "unknown"] }
=============================================================================
