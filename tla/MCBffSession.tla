---------------------------- MODULE MCBffSession ----------------------------
(***************************************************************************)
(* Small instances of BffSession for TLC.                                  *)
(***************************************************************************)
EXTENDS BffSession

MCRoleSets == {{"crapi-user"}}
MCRoutes == { [method |-> "GET", path |-> OrdersPath],
              [method |-> "POST", path |-> OrdersPath] }
MCGet == { [method |-> "GET", path |-> OrdersPath] }
MCOrder == { [method |-> "POST", path |-> OrdersPath] }
MCRevocable == {"laptop"}
MCCerts == {[device |-> "laptop", posture |-> "compliant"]}

\* Bound: two requests race on one session for the whole time, or one request
\* at a time uses two, which may share one login, for half of it.  A device on the
\* revocation list is followed until the first write it may no longer send.
RacesOrLogins ==
    \/ /\ \A d \in RevokedIds : clock <= revoked[d] + Slack
       /\ \E s \in Sids : \A t \in Sids \ {s} : born[t] = 0 /\ issued[t] = None /\ kc[t] = "unborn"
                                           /\ \A r \in Reqs : req[r].sid # t
    \/ /\ Cardinality({r \in Reqs : req[r].pc # "idle"}) <= 1
       /\ 2 * clock <= MaxTime /\ RevokedIds = {}

Symmetry == Permutations(Reqs) \cup Permutations(Sids)
=============================================================================
