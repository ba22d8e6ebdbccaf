---------------------------- MODULE PolicyRollout ----------------------------
(***************************************************************************)
(* The service graph on its way to the clusters: scripts/deploy-crapi.sh   *)
(* from the generators to the last kubectl apply (deploy_crapi_opa,        *)
(* apply_network_policies).                                                *)
(*                                                                         *)
(* A deployment stops at the first step that fails (set -e), with what it  *)
(* has applied in force -- except that a failing gen-networkpolicy is not  *)
(* seen (2>/dev/null || true) and the files of an earlier run are applied. *)
(* The graph may be edited at any time, also while a deployment runs.      *)
(***************************************************************************)
EXTENDS PolicyGen

CONSTANTS
    Graphs,     \* the revisions of the service graph
    MaxEdits,   \* bound: how often the graph is edited
    MaxDeploys  \* bound: how often it is deployed

CloudClusters == {"aws", "openstack"}

ASSUME GraphsAssumption ==
    \A g \in Graphs :
        /\ DOMAIN g.baseline = CloudClusters
        /\ \A e \in g.edges : Known(g, e) /\ e.ports # {}
        /\ \A w \in DOMAIN g.workloads :
             /\ Cluster(g, w) \in CloudClusters
             /\ g.workloads[w].label # Unset \/ g.workloads[w].account # Unset

\* A workload has a name of its own in its namespace and cluster, and a pod of
\* the home namespace bears that name as its app label or, a Job's, none.
ASSUME NamesOfPodsAssumption ==
    \A g \in Graphs : \A w \in DOMAIN g.workloads :
        /\ NsOf(g, w) = Home => /\ g.workloads[w].pod \in {Unset, AppLabel(g, w)}
                               /\ AppLabel(g, w) # "allow-baseline"
        /\ \A v \in DOMAIN g.workloads :
              /\ NsOf(g, v) = NsOf(g, w)
              /\ Cluster(g, v) = Cluster(g, w)
              /\ AppLabel(g, v) = AppLabel(g, w)
              => v = w

\* Each revision, taken alone, gives by hand what no generator derives: egress
\* to the other namespaces of the cluster, ingress of callers whose pods do not
\* bear their name.  A pod listens on a port its own cluster calls it by.
ASSUME EdgesAssumption ==
    \A g \in Graphs : \A e \in g.edges :
        LET c == Cluster(g, e.to)
        IN  /\ e.cross <=> Cluster(g, e.from) # c
            /\ g.workloads[e.to].pod = AppLabel(g, e.to)
            /\ ~ e.cross /\ NsOf(g, e.from) = Home /\ NsOf(g, e.to) # Home =>
                  \A p \in e.ports :
                      \E r \in g.baseline[c].egress : Covers(r, PodOf(g, e.to), p)
            /\ ~ e.cross /\ g.workloads[e.from].pod # AppLabel(g, e.from) =>
                  /\ NsOf(g, e.to) = Home
                  /\ \A p \in e.ports :
                        \E r \in g.baseline[c].ingress : Covers(r, PodOf(g, e.from), p)
            /\ e.cross /\ (\E i \in Intra(g, c) : i.to = e.to) =>
                  \A p \in e.ports, h \in Graphs :
                      \E i \in Intra(g, c) : i.to = e.to /\ h.behind[p] \in i.ports

VARIABLES
    graph,      \* policy/service-graph-crapi.yaml
    files,      \* the generated files, each by the revision it was made from
    net,        \* the NetworkPolicies of each cluster
    acl,        \* the service_acl OPA reads in each cluster
    step,       \* the deployment: the step it is at, "idle" between two
    stable,     \* ghost: the edges, with their two ends, that the last complete
                \* deployment opened and every revision since declares as it did
    current,    \* ghost: the clusters have what the graph declares
    edits,
    deploys

rolloutVars == <<graph, files, net, acl, step, stable, current, edits, deploys>>

\* An edge as it is declared: its two ends belong to it.
Declared(g) == { [edge |-> e, src |-> g.workloads[e.from], dst |-> g.workloads[e.to]] :
                   e \in g.edges }

\* The first deployment of a revision the files were generated from and
\* committed with; nothing is on the clusters.
RolloutInit ==
    /\ graph \in Graphs
    /\ files = [acl |-> graph, pods |-> graph, base |-> graph]
    /\ net = [c \in CloudClusters |-> {}]
    /\ acl = [c \in CloudClusters |-> {}]
    /\ step = "idle"
    /\ stable = {}
    /\ current = FALSE
    /\ edits = 0
    /\ deploys = 0

-----------------------------------------------------------------------------
\* The operator.

EditGraph ==
    /\ edits < MaxEdits
    /\ \E g \in Graphs \ {graph} :
         /\ graph' = g
         /\ stable' = stable \cap Declared(g)
    /\ current' = FALSE
    /\ edits' = edits + 1
    /\ UNCHANGED <<files, net, acl, step, deploys>>

StartDeploy ==
    /\ step = "idle"
    /\ deploys < MaxDeploys
    /\ step' = "gen-rego-acl"
    /\ current' = FALSE
    /\ deploys' = deploys + 1
    /\ UNCHANGED <<graph, files, net, acl, stable, edits>>

-----------------------------------------------------------------------------
\* The steps of a deployment.

GenerateAcl ==
    /\ step = "gen-rego-acl"
    /\ files' = [files EXCEPT !.acl = graph]
    /\ step' = "gen-networkpolicy"
    /\ UNCHANGED <<graph, net, acl, stable, current, edits, deploys>>

\* The pod policies of both clusters are written first, the baselines after
\* them; the generator may fail before either.
GenerateNetpol ==
    /\ step = "gen-networkpolicy"
    /\ \/ files' = [files EXCEPT !.pods = graph, !.base = graph]
       \/ files' = [files EXCEPT !.pods = graph]
       \/ UNCHANGED files
    /\ step' = "opa-aws"
    /\ UNCHANGED <<graph, net, acl, stable, current, edits, deploys>>

ApplyAcl(c, at, next) ==
    /\ step = at
    /\ acl' = [acl EXCEPT ![c] = GenRegoAcl(files.acl)]
    /\ step' = next
    /\ UNCHANGED <<graph, files, net, stable, current, edits, deploys>>

ApplyBaseline(c, at, next) ==
    /\ step = at
    /\ net' = [net EXCEPT ![c] = Applied(@, {GenBaseline(files.base, c)})]
    /\ step' = next
    /\ UNCHANGED <<graph, files, acl, stable, current, edits, deploys>>

ApplyPods(c, at, next) ==
    /\ step = at
    /\ net' = [net EXCEPT ![c] = Applied(@, GenForCluster(files.pods, c))]
    /\ step' = next
    /\ UNCHANGED <<graph, files, acl, stable, current, edits, deploys>>

\* The policy of a destination that lost its last caller is never deleted.
LeftOver(g, c, dst) ==
    /\ \A e \in Intra(g, c) : e.to # dst
    /\ \E p \in net[c] : p.ns = NsOf(g, dst) /\ p.app = AppLabel(g, dst)

\* A destination that only the other cluster calls gets no policy of its own:
\* in the home namespace the baseline shuts it, elsewhere one left over may.
ShutOff(g, e) ==
    LET c == Cluster(g, e.to)
    IN  /\ e.cross
        /\ \A i \in Intra(g, c) : i.to # e.to
        /\ NsOf(g, e.to) = Home \/ LeftOver(g, c, e.to)

\* The last step returned.  What the clusters now have is what the files say.
FinishDeploy ==
    /\ step = "done"
    /\ stable' = { d \in Declared(graph) \cap Declared(files.acl)
                               \cap Declared(files.pods) \cap Declared(files.base) :
                       ~ ShutOff(files.pods, d.edge) }
    /\ current' = ({files.acl, files.pods, files.base} = {graph})
    /\ step' = "idle"
    /\ UNCHANGED <<graph, files, net, acl, edits, deploys>>

\* set -e: a generator or a kubectl returned an error.
FailDeploy ==
    /\ step \notin {"idle", "gen-networkpolicy", "done"}
    /\ step' = "idle"
    /\ UNCHANGED <<graph, files, net, acl, stable, current, edits, deploys>>

RolloutNext ==
    \/ EditGraph
    \/ StartDeploy
    \/ GenerateAcl
    \/ GenerateNetpol
    \/ ApplyAcl("aws", "opa-aws", "opa-openstack")
    \/ ApplyAcl("openstack", "opa-openstack", "baseline-aws")
    \/ ApplyBaseline("aws", "baseline-aws", "baseline-openstack")
    \/ ApplyBaseline("openstack", "baseline-openstack", "pods-aws")
    \/ ApplyPods("aws", "pods-aws", "pods-openstack")
    \/ ApplyPods("openstack", "pods-openstack", "done")
    \/ FinishDeploy
    \/ FailDeploy

RolloutSpec == RolloutInit /\ [][RolloutNext]_rolloutVars

-----------------------------------------------------------------------------
\* Properties.

\* An edge that the last complete deployment opened, and that no edit since
\* has touched, works at every moment: through a redeployment in the
\* middle of its steps, after one that stopped half-way, after one that
\* applied the files of another revision.  (deploy-crapi.sh: a redeployment
\* never cuts what it is not about; gen-networkpolicy.py: egress of the
\* caller, ingress of the callee, in the namespace each is really in.)
StableEdgesPass ==
    \A d \in stable :
        LET e == d.edge
        IN  /\ \A p \in e.ports : Reaches(graph, net, e.from, e.to, p)
            /\ e.l4only \/ <<e.from, e.to>> \in acl[Cluster(graph, e.to)]

AllPorts == UNION {e.ports : e \in UNION {g.edges : g \in Graphs}}

\* Once the graph is deployed, a pod of the home namespace reaches another of
\* its cluster only on a port of an edge between the two: an edge taken out,
\* or a port, is shut.  Excepted are the destinations the manifests open to
\* everyone on purpose -- those called from the other cluster, and the ports
\* a baseline rule gives to every pod -- and policies left over.
RemovedEdgesRefused ==
    current /\ step = "idle" =>
        \A c \in CloudClusters :
            LET pods == {w \in DOMAIN graph.workloads :
                            Cluster(graph, w) = c /\ NsOf(graph, w) = Home}
            IN  /\ acl[c] = GenRegoAcl(graph)
                /\ \A src, dst \in pods, p \in AllPorts :
                     Reaches(graph, net, src, dst, p) =>
                        \/ \E e \in graph.edges : e.from = src /\ e.to = dst /\ p \in e.ports
                        \/ \E e \in graph.edges : e.to = dst /\ e.cross
                        \/ \E r \in graph.baseline[c].ingress : Covers(r, PodOf(graph, src), p)
                        \/ LeftOver(graph, c, dst)
=============================================================================
