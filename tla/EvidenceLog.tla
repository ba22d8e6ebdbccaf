---------------------------- MODULE EvidenceLog -----------------------------
(***************************************************************************)
(* What incident-analyzer promises its caller: evidence, once stored, stays*)
(* stored, and a notification is answered with 200 only when each alert it *)
(* carries has evidence (services/incident-analyzer/main.py, 6-16).        *)
(***************************************************************************)
CONSTANTS Notifs,
          Wanted(_)   \* the alerts of a notification that call for evidence

VARIABLES stored,     \* the alerts with evidence, as <<notification, alert>>
          acked       \* the notifications answered with 200

vars == <<stored, acked>>

Init == stored = {} /\ acked = {}

Store(n, i) ==
    /\ i \in Wanted(n)
    /\ stored' = stored \cup {<<n, i>>}
    /\ UNCHANGED acked

Ack(n) ==
    /\ \A i \in Wanted(n) : <<n, i>> \in stored
    /\ acked' = acked \cup {n}
    /\ UNCHANGED stored

Next == \E n \in Notifs : Ack(n) \/ \E i \in Wanted(n) : Store(n, i)

Spec == Init /\ [][Next]_vars
=============================================================================
