----------------------------- MODULE MCOperations -----------------------------
(***************************************************************************)
(* The three programs the operator runs by hand: a behaviour is one of     *)
(* deploy-crapi.sh, of ensure-spire-entries.sh or of ml/evaluate.py, and   *)
(* the other two rest.                                                     *)
(*                                                                         *)
(* The graphs: that of the repository without the workloads that repeat    *)
(* another's place in it, a revision that takes out, adds and changes      *)
(* edges, and one that moves Keycloak to the other cloud, as happened once. *)
(*                                                                         *)
(* The tables: a chunk may have attack windows or not, windows of the      *)
(* attacker, of others, or only rows the filters drop.                     *)
(***************************************************************************)
EXTENDS PolicyRollout, SpireEntries, ModelEval, TLC

W(cluster, ns, label, account, pod) ==
    [cluster |-> cluster, ns |-> ns, label |-> label, account |-> account,
     spiffe |-> account # "", pod |-> pod]

App(cluster, name) == W(cluster, "crapi", "", name, name)
Db(cluster, name)  == W(cluster, "crapi", name, "", name)

\* The pods of the seed Job bear no app label.
Job(cluster, name) == W(cluster, "crapi", "", name, "")

RealWorkloads ==
    ("edge-gateway" :> W("aws", "istio-system", "", "istio-ingressgateway-service-account",
                         "istio-ingressgateway"))
    @@ ("waf" :> App("aws", "waf")) @@ ("bff" :> App("aws", "bff"))
    @@ ("community" :> App("aws", "crapi-community")) @@ ("aws-opa" :> App("aws", "opa"))
    @@ ("redis" :> Db("aws", "redis")) @@ ("mongodb" :> Db("aws", "mongodb"))
    @@ ("mailhog" :> Db("aws", "mailhog"))
    @@ ("identity" :> App("openstack", "crapi-identity"))
    @@ ("postgresdb" :> Db("openstack", "postgresdb")) @@ ("os-opa" :> App("openstack", "opa"))
    @@ ("seed" :> Job("openstack", "crapi-seed"))
    @@ ("keycloak" :> W("openstack", "identity", "", "keycloak", "keycloak"))
    @@ ("kc-admin-setup" :> W("openstack", "identity", "", "kc-admin-setup", "kc-admin-setup"))

Edge(from, to, ports)  == [from |-> from, to |-> to, cross |-> FALSE, l4only |-> FALSE, ports |-> ports]
Cross(from, to, port)  == [Edge(from, to, {port}) EXCEPT !.cross = TRUE]
L4(e)                  == [e EXCEPT !.l4only = TRUE]

RealEdges ==
    { Edge("edge-gateway", "waf", {8080, 15006}), Edge("waf", "bff", {8080, 15006}),
      Edge("bff", "community", {8087, 15006}),
      Cross("bff", "identity", 30090), Cross("community", "identity", 30090),
      Edge("seed", "identity", {8080, 15006}),
      L4(Edge("bff", "redis", {6379})), L4(Edge("community", "mongodb", {27017})),
      L4(Cross("community", "postgresdb", 30432)), L4(Edge("identity", "postgresdb", {5432})),
      L4(Cross("identity", "mailhog", 31025)),
      Cross("bff", "keycloak", 30091), Edge("kc-admin-setup", "keycloak", {8080, 15006}),
      L4(Edge("bff", "aws-opa", {9191, 8181})), L4(Edge("community", "aws-opa", {9191})),
      L4(Edge("identity", "os-opa", {9191, 8181})), L4(Edge("keycloak", "os-opa", {9191, 8181})) }

RealBaseline ==
    [aws |-> [ingress |-> {Rule({Ns("kube-system"), Ns("istio-system")}, {8080, 15006}),
                           Rule({Ns("monitoring")}, {8080, 15006, 8181})},
              egress  |-> {Rule({Ns("kube-system")}, {53}),
                           Rule({Ns("crapi")}, {80, 8000, 8087, 8181, 9191, 6379, 27017, 15006})}],
     openstack |->
             [ingress |-> {Rule({Block("aws"), Block("openstack"), Block("pods")},
                                {8080, 5432, 15006, 8181, 9191})},
              egress  |-> {Rule({Ns("kube-system")}, {53}),
                           Rule({Ns("crapi")}, {5432, 1025, 8025, 8181, 9191, 15006})}]]

Graph(workloads, edges, baseline) ==
    [workloads |-> workloads, edges |-> edges, baseline |-> baseline,
     behind |-> (30090 :> 8080) @@ (30091 :> 8080) @@ (30432 :> 5432) @@ (31025 :> 1025)]

Real == Graph(RealWorkloads, RealEdges, RealBaseline)

Edited ==
    Graph(RealWorkloads,
          (RealEdges \ { L4(Edge("community", "mongodb", {27017})),
                         L4(Edge("community", "aws-opa", {9191})),
                         Edge("seed", "identity", {8080, 15006}),
                         Edge("waf", "bff", {8080, 15006}) })
          \cup { Edge("waf", "bff", {8081, 15006}), L4(Edge("community", "redis", {6380})),
                 Edge("mailhog", "community", {8087}),
                 L4(Edge("community", "mailhog", {1025})) },
          RealBaseline)

\* No generator gives the home namespace an egress rule to another one of the
\* cluster: it has to be written by hand with the move.
Moved ==
    Graph([RealWorkloads EXCEPT !["keycloak"].cluster = "aws", !["kc-admin-setup"].cluster = "aws"],
          (RealEdges \ { Cross("bff", "keycloak", 30091),
                         L4(Edge("keycloak", "os-opa", {9191, 8181})) })
          \cup { Edge("bff", "keycloak", {8080, 15006}),
                 L4(Edge("keycloak", "aws-opa", {9191, 8181})) },
          [RealBaseline EXCEPT !.aws.egress = @ \cup {Rule({Ns("identity")}, {8080, 15006})}])

MCGraphs == {Real, Edited, Moved}

\* The list of one cluster -- the seed Job stands for itself only in the graph --
\* and a workload that was on it once.
MCListed    == {s[1] : s \in GenSpireEntries(Real, "openstack")} \ {"seed"}
MCWorkloads == MCListed \cup {"workshop"}

-----------------------------------------------------------------------------
Row(label, target, entity, etype, holdout, warm) ==
    [label |-> label, target |-> target, entity |-> entity, etype |-> etype,
     holdout |-> holdout, warm |-> warm]

Attack == Row("attack", TRUE, "mal", "user", FALSE, TRUE)
Variant == Row("attack", TRUE, "mal", "user", TRUE, TRUE)
Idle == Row("attack_idle", TRUE, "mal", "user", FALSE, TRUE)
Family == Row("attack", FALSE, "mal", "user", FALSE, TRUE)
Own == Row("benign", FALSE, "mal", "user", FALSE, TRUE)
Other == Row("benign", FALSE, "ann", "user", FALSE, TRUE)
Service == Row("benign", FALSE, "bff", "workload", FALSE, TRUE)
Cold == Row("benign", FALSE, "mal", "user", FALSE, FALSE)

MCTables ==
    {{Attack, Own, Service}, {Attack, Variant, Other}, {Own, Other}, {Service, Cold},
     {Idle, Family}}

MCScopes == <<"all", "user", "same-user">>

-----------------------------------------------------------------------------
\* A program at rest has no step left.

RolloutRests ==
    /\ graph = Real
    /\ files = [acl |-> Real, pods |-> Real, base |-> Real]
    /\ net = [c \in CloudClusters |-> {}]
    /\ acl = [c \in CloudClusters |-> {}]
    /\ step = "idle"
    /\ stable = {}
    /\ current = FALSE
    /\ edits = MaxEdits
    /\ deploys = MaxDeploys

SpireRests ==
    /\ entries = [w \in Workloads |-> "none"]
    /\ alias = FALSE
    /\ todo = Listed
    /\ call = Call("exit", AnyListed)
    /\ passed = FALSE
    /\ unread = {}
    /\ lost = "since"

EvalRests ==
    /\ table = [c \in 1..MaxChunks |-> {}]
    /\ eval = None
    /\ model = None
    /\ report = None
    /\ count = MaxEvals
    /\ killed = 0

Deploying   == RolloutInit /\ SpireRests /\ EvalRests
Registering == SpireInit /\ RolloutRests /\ EvalRests
Evaluating  == EvalInit /\ RolloutRests /\ SpireRests

OperationsInit == Deploying \/ Registering \/ Evaluating

OperationsNext ==
    \/ RolloutNext /\ UNCHANGED spireVars /\ UNCHANGED evalVars
    \/ SpireNext /\ UNCHANGED rolloutVars /\ UNCHANGED evalVars
    \/ EvalNext /\ UNCHANGED rolloutVars /\ UNCHANGED spireVars

OperationsSpec ==
    OperationsInit /\ [][OperationsNext]_<<rolloutVars, spireVars, evalVars>>
=============================================================================
