------------------------------ MODULE PolicyGen ------------------------------
(***************************************************************************)
(* What the generators derive from the service graph                       *)
(* (policy/service-graph-crapi.yaml): the NetworkPolicies of each cluster, *)
(* OPA's service_acl and the list of SPIRE entries.                        *)
(* What Kubernetes does with a NetworkPolicy is at the end: it is not code *)
(* of this repository, and the manifests are judged by it.                 *)
(*                                                                         *)
(* A graph g is a record:                                                  *)
(*   workloads  name |-> [cluster, ns, label, account, spiffe, pod], where *)
(*              label and account are "" if the graph does not give them   *)
(*              and pod is the app label its manifest puts on its pods;    *)
(*   edges      a set of [from, to, cross, l4only, ports];                 *)
(*   baseline   cluster |-> [ingress, egress], the rules written by hand;  *)
(*   behind     NodePort |-> the port of the pod behind it.                *)
(***************************************************************************)
EXTENDS Naturals, FiniteSets

Home  == "crapi"        \* NS
Unset == ""             \* a field the graph or a manifest does not give

\* Every workload of the graph gives one of the two.
AppLabel(g, w) ==
    LET r == g.workloads[w] IN IF r.label # Unset THEN r.label ELSE r.account

Cluster(g, w) == g.workloads[w].cluster
NsOf(g, w)    == g.workloads[w].ns

Known(g, e) == {e.from, e.to} \subseteq DOMAIN g.workloads

-----------------------------------------------------------------------------
\* Peers and rules.  A rule without ports is one for every port.

Pods(ns, app) == [ns |-> ns, app |-> app, block |-> Unset]
Ns(ns)        == Pods(ns, Unset)
Block(name)   == [ns |-> Unset, app |-> Unset, block |-> name]
Anywhere      == Block("0.0.0.0/0")

Rule(peers, ports) == [peers |-> peers, ports |-> ports]

-----------------------------------------------------------------------------
\* gen_for_cluster: one ingress policy per destination with a caller in its
\* own cluster.

Intra(g, c) ==
    { e \in g.edges : /\ ~ e.cross
                      /\ Known(g, e)
                      /\ Cluster(g, e.from) = c /\ Cluster(g, e.to) = c
                      /\ e.ports # {} }

\* Mutant: the sources of a destination share the ports of all of them.
SourcesMerged(g, c, dest) ==
    LET es == {e \in Intra(g, c) : e.to = dest}
    IN  { Rule({Pods(NsOf(g, e.from), AppLabel(g, e.from)) : e \in es},
               UNION {e.ports : e \in es}) }

Sources(g, c, dest) ==
    { Rule({Pods(NsOf(g, e.from), AppLabel(g, e.from))}, e.ports) :
        e \in {e \in Intra(g, c) : e.to = dest} }

\* cross_ingress: a policy shuts its destination to everyone it does not
\* name, so the callers from the other cluster are let in too, on the ports
\* its own cluster calls it by and from any address.
CrossSources(g, c, dest) ==
    { Rule({Anywhere}, UNION {r.ports : r \in Sources(g, c, dest)}) :
        e \in {e \in g.edges : e.cross /\ e.to = dest /\ Known(g, e)} }

\* A policy is known by its namespace and its name; its rules say which of
\* the two directions it is about.
PodPolicy(g, c, dest) ==
    [ns |-> NsOf(g, dest), name |-> AppLabel(g, dest), app |-> AppLabel(g, dest),
     rules |-> [ingress |-> Sources(g, c, dest) \cup CrossSources(g, c, dest)]]

GenForCluster(g, c) == { PodPolicy(g, c, dest) : dest \in {e.to : e \in Intra(g, c)} }

-----------------------------------------------------------------------------
\* gen_baseline: every pod of the home namespace, both directions.

IntraNsEgressPorts(g, c) ==
    UNION { e.ports : e \in {e \in Intra(g, c) : NsOf(g, e.from) = Home
                                                 /\ NsOf(g, e.to) = Home} }

\* Mutant: the list written by hand is the whole list.
MergeNothing(rules, derived) == rules

\* The ports go into the first rule for the namespace; a set of rules has no
\* order, and what they admit together does not depend on it.
MergeIntraNsEgress(rules, derived) ==
    LET own   == {r \in rules : Ns(Home) \in r.peers /\ r.ports # {}}
        first == CHOOSE r \in own : TRUE
    IN  IF own # {}
        THEN (rules \ {first}) \cup {Rule(first.peers, first.ports \cup derived)}
        ELSE rules \cup {Rule({Ns(Home)}, ports) : ports \in {derived} \ {{}}}

CrossCloudEgress(g, c) ==
    LET out == {e \in g.edges : e.cross /\ Known(g, e) /\ Cluster(g, e.from) = c}
    IN  { Rule({Block(d)}, UNION {e.ports : e \in {e \in out : Cluster(g, e.to) = d}}) :
            d \in {Cluster(g, e.to) : e \in out} }

GenBaseline(g, c) ==
    [ns |-> Home, name |-> "allow-baseline", app |-> Unset,
     rules |-> [ingress |-> g.baseline[c].ingress,
                egress  |-> MergeIntraNsEgress(g.baseline[c].egress, IntraNsEgressPorts(g, c))
                            \cup CrossCloudEgress(g, c)]]

-----------------------------------------------------------------------------
\* gen-rego-acl and gen-spire-entries.  Methods and paths are OpaPolicy's.

GenRegoAcl(g) == { <<e.from, e.to>> : e \in {e \in g.edges : ~ e.l4only} }

\* The list of one cluster; the number ensure-spire-entries expects is its length.
GenSpireEntries(g, c) ==
    { <<w, NsOf(g, w), g.workloads[w].account>> :
        w \in {w \in DOMAIN g.workloads : /\ Cluster(g, w) = c
                                          /\ g.workloads[w].spiffe
                                          /\ g.workloads[w].account # Unset} }

-----------------------------------------------------------------------------
\* Kubernetes: a pod that no policy selects for a direction is open in it, a
\* pod that one selects is open to what a rule of any such policy names.  A
\* caller from the other cluster is seen with an address of the destination's
\* own subnet, that of the gateway.

PodOf(g, w) == Pods(NsOf(g, w), g.workloads[w].pod)

Matches(peer, seen) ==
    \/ peer = Anywhere
    \/ peer.block = "pods" /\ seen.block = Unset
    \/ peer.block # Unset /\ peer.block = seen.block
    \/ peer.block = Unset /\ seen.block = Unset /\ peer.ns = seen.ns /\ peer.app \in {Unset, seen.app}

Covers(rule, seen, port) ==
    /\ \E peer \in rule.peers : Matches(peer, seen)
    /\ rule.ports = {} \/ port \in rule.ports

Admits(policies, pod, dir, seen, port) ==
    LET selecting == {p \in policies : /\ p.ns = pod.ns
                                       /\ p.app \in {Unset, pod.app}
                                       /\ dir \in DOMAIN p.rules}
    IN  selecting = {} \/ \E p \in selecting : \E r \in p.rules[dir] : Covers(r, seen, port)

\* net: cluster |-> the policies applied there.
Reaches(g, net, src, dst, port) ==
    IF Cluster(g, src) = Cluster(g, dst)
    THEN LET c == Cluster(g, src)
         IN  /\ Admits(net[c], PodOf(g, src), "egress", PodOf(g, dst), port)
             /\ Admits(net[c], PodOf(g, dst), "ingress", PodOf(g, src), port)
    ELSE LET d == Cluster(g, dst)
         IN  /\ Admits(net[Cluster(g, src)], PodOf(g, src), "egress", Block(d), port)
             /\ Admits(net[d], PodOf(g, dst), "ingress", Block(d), g.behind[port])

\* kubectl apply: an object of the file replaces the one of its name, and what
\* the file does not name stays.
Applied(old, file) ==
    {p \in old : \A q \in file : <<q.ns, q.name>> # <<p.ns, p.name>>} \cup file
=============================================================================
