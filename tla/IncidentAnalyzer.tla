-------------------------- MODULE IncidentAnalyzer --------------------------
(***************************************************************************)
(* The incident analyzer (services/incident-analyzer/main.py): Grafana's   *)
(* notifications become evidence records, mailed, kept in memory, appended *)
(* to the evidence file and pushed to Loki; a risk score may be attached   *)
(* later.  Handlers are coroutines of one asyncio process, interleaved at  *)
(* the Loki queries that collect a bundle and at the Loki push; the code   *)
(* between two of them runs through, SMTP and the file included, but the   *)
(* pod can be killed inside it.                                            *)
(*                                                                         *)
(* Grafana sends a notification again until it is answered with 200; the   *)
(* handler of a request Grafana gave up on goes on unheard.  Bundles,      *)
(* queries and scores are left out: the answer of a Loki query changes     *)
(* neither what is stored nor what is answered.                            *)
(***************************************************************************)
EXTENDS LineFile, FiniteSets, FiniteSetsExt

CONSTANTS Notifs,     \* the notifications Grafana sends
          Payload,    \* the alerts of each, in order
          Slots,      \* handlers at work at once
          Risks,      \* the risk scores a model may attach
          NoRisk,
          MaxScores,  \* bound: scores attached in a behaviour
          Plans,      \* which faults the environment may mix
          MaxFaults   \* bound: how many of them in a behaviour

AlertKinds == {"firing", "resolved", "health"}

FaultKinds == {"crash", "timeout", "tear", "full"}

ASSUME AnalyzerAssumption ==
    /\ Payload \in [Notifs -> Seq(AlertKinds)]
    /\ MaxScores \in Nat /\ MaxFaults \in Nat
    /\ NoRisk \notin Risks
    /\ \A p \in Plans : p \subseteq FaultKinds

VARIABLES
    up,        \* the pod runs, past its startup handler
    evidence,  \* EVIDENCE
    file,      \* EVIDENCE_STORE_PATH
    made,      \* evidence ids given out, and mailed, by any process
    handler,   \* the requests being handled
    acked,     \* notifications Grafana has a 200 for
    scored,    \* history: evidence whose risk score was answered with 200
    crashes,   \* history: how often the pod was killed
    scores, plan, faults

store == <<evidence, file, made>>
bounds == <<scores, plan, faults>>
vars == <<up, store, handler, acked, scored, crashes, bounds>>

-----------------------------------------------------------------------------
(* Alerts and records.                                                     *)

\* The alerts of a notification that get evidence: those that fire, less
\* the health alerts _grafana_to_alert() returns None for.
Wanted(n) == { i \in DOMAIN Payload[n] : Payload[n][i] = "firing" }

EvidenceRecord(id, n, i) == [id |-> id, n |-> n, i |-> i, risk |-> NoRisk]

Record == [id : Nat, n : Notifs, i : Nat, risk : Risks \cup {NoRisk}]

ASSUME TornAssumption == Torn \notin Record

LinesOf(f, id) == { i \in Readable(f) : f.lines[i].id = id }

\* Mutant: a line about known evidence is skipped.
LoadFirstWins(f) ==
    [id \in { f.lines[i].id : i \in Readable(f) } |->
        f.lines[Min(LinesOf(f, id))]]

\* _load_evidence(): the last line about an id wins.
LoadEvidence(f) ==
    [id \in { f.lines[i].id : i \in Readable(f) } |->
        f.lines[Max(LinesOf(f, id))]]

\* EVIDENCE[r.evidence_id] = r
Holding(held, r) ==
    [id \in DOMAIN held \cup {r.id} |-> IF id = r.id THEN r ELSE held[id]]

\* pc: the await a handler is suspended at.  heard: Grafana still waits.
Idle == [pc |-> "idle"]
Handling(pc, n, i, heard) == [pc |-> pc, n |-> n, i |-> i, heard |-> heard]
Scoring(id) == [pc |-> "score", id |-> id]

AtWork(s) == handler[s].pc \in {"bundle", "push"}

Init ==
    /\ up = TRUE
    /\ evidence = << >> /\ file = EmptyFile /\ made = 0
    /\ handler = [s \in Slots |-> Idle]
    /\ acked = {} /\ scored = {} /\ crashes = 0
    /\ scores = 0 /\ faults = 0 /\ plan \in Plans

Inject(kind) ==
    /\ kind \in plan /\ faults < MaxFaults
    /\ faults' = faults + 1 /\ UNCHANGED <<scores, plan>>

-----------------------------------------------------------------------------
(* POST /grafana-webhook.                                                  *)

Later(n, i) == { j \in Wanted(n) : j > i }

\* The handler goes to its next alert, and its Loki queries.
Collects(s, n, i, heard) ==
    /\ \E j \in Later(n, i) :
           /\ \A k \in Later(n, i) : j <= k
           /\ handler' = [handler EXCEPT ![s] = Handling("bundle", n, j, heard)]
    /\ UNCHANGED acked

\* Mutant: answers after its first alert.
AnswersEarly(s, n, i, heard) ==
    /\ i > 0 \/ Later(n, i) = {}
    /\ handler' = [handler EXCEPT ![s] = Idle]
    /\ acked' = IF heard THEN acked \cup {n} ELSE acked

\* After the last one, 200.
Answers(s, n, i, heard) ==
    /\ Later(n, i) = {}
    /\ handler' = [handler EXCEPT ![s] = Idle]
    /\ acked' = IF heard THEN acked \cup {n} ELSE acked

Continues(s, n, i, heard) ==
    Collects(s, n, i, heard) \/ Answers(s, n, i, heard)

Waiting(n) == \E s \in Slots : AtWork(s) /\ handler[s].n = n /\ handler[s].heard

\* Grafana sends a notification it has no 200 for, and is not waiting on.
Receive(s, n) ==
    /\ up /\ handler[s] = Idle
    /\ n \notin acked /\ ~Waiting(n)
    /\ Continues(s, n, 0, TRUE)
    /\ UNCHANGED <<up, store, scored, crashes, bounds>>

\* The record _build_evidence() makes for the alert of handler s.
NewRecord(s) == EvidenceRecord(made + 1, handler[s].n, handler[s].i)

Building(s) ==
    /\ up /\ handler[s].pc = "bundle"
    /\ made' = made + 1

\* Mutant: the record is appended once the push is answered, and lost with
\* the process till then.
BuildsUnsaved(s) ==
    /\ Building(s)
    /\ LET r == NewRecord(s) IN evidence' = Holding(evidence, r)
    /\ handler' = [handler EXCEPT ![s].pc = "push"]
    /\ UNCHANGED <<up, file, acked, scored, crashes, bounds>>

\* _build_evidence() from the bundle to the push: mail, memory, file.
Builds(s) ==
    /\ Building(s)
    /\ LET r == NewRecord(s)
       IN  /\ evidence' = Holding(evidence, r)
           /\ file' = AppendRec(file, r)
    /\ handler' = [handler EXCEPT ![s].pc = "push"]
    /\ UNCHANGED <<up, acked, scored, crashes, bounds>>

\* The append raises: 500, with the evidence mailed and in memory.
BuildFails(s) ==
    /\ Inject("full")
    /\ Building(s)
    /\ LET r == NewRecord(s)
       IN  /\ evidence' = Holding(evidence, r)
           /\ file' \in {file} \cup Damaged(file, r)
    /\ handler' = [handler EXCEPT ![s] = Idle]
    /\ UNCHANGED <<up, acked, scored, crashes>>

\* The push was answered, or given up: both are logged and the loop goes on.
Pushed(s) ==
    /\ up /\ handler[s].pc = "push"
    /\ Continues(s, handler[s].n, handler[s].i, handler[s].heard)
    /\ UNCHANGED <<up, store, scored, crashes, bounds>>

\* Grafana gives up on the request; nobody tells the handler.
TimesOut(s) ==
    /\ Inject("timeout")
    /\ AtWork(s) /\ handler[s].heard
    /\ handler' = [handler EXCEPT ![s].heard = FALSE]
    /\ UNCHANGED <<up, store, acked, scored, crashes>>

-----------------------------------------------------------------------------
(* POST /evidence/{id}/risk-score.                                         *)

Updated(id, risk) == [evidence[id] EXCEPT !.risk = risk]

Attaching(s, id, risk) ==
    /\ up /\ handler[s] = Idle
    /\ id \in DOMAIN evidence
    /\ evidence' = Holding(evidence, Updated(id, risk))
    /\ UNCHANGED <<up, made, acked, scored, crashes>>

\* Mutant: the score is kept in memory only.
AttachUnsaved(s, id, risk) ==
    /\ Attaching(s, id, risk)
    /\ scores < MaxScores
    /\ scores' = scores + 1
    /\ handler' = [handler EXCEPT ![s] = Scoring(id)]
    /\ UNCHANGED <<file, plan, faults>>

Attach(s, id, risk) ==
    /\ Attaching(s, id, risk)
    /\ scores < MaxScores
    /\ scores' = scores + 1
    /\ file' = AppendRec(file, Updated(id, risk))
    /\ handler' = [handler EXCEPT ![s] = Scoring(id)]
    /\ UNCHANGED <<plan, faults>>

AttachFails(s, id, risk) ==
    /\ Inject("full")
    /\ Attaching(s, id, risk)
    /\ file' \in {file} \cup Damaged(file, Updated(id, risk))
    /\ UNCHANGED handler

ScoreAnswered(s) ==
    /\ up /\ handler[s].pc = "score"
    /\ scored' = scored \cup {handler[s].id}
    /\ handler' = [handler EXCEPT ![s] = Idle]
    /\ UNCHANGED <<up, store, acked, crashes, bounds>>

-----------------------------------------------------------------------------
(* The pod is killed, between awaits or in the middle of a segment, and    *)
(* restarted by its Deployment (Recreate, so never two at a time).         *)

Dies ==
    /\ up
    /\ up' = FALSE /\ evidence' = << >>
    /\ handler' = [s \in Slots |-> Idle]
    /\ crashes' = crashes + 1
    /\ UNCHANGED <<acked, scored>>

Crash ==
    /\ Inject("crash")
    /\ Dies
    /\ UNCHANGED <<file, made>>

CrashInBuild(s) ==
    /\ Dies
    /\ Building(s)
    /\ \/ Inject("crash") /\ file' \in {file, AppendRec(file, NewRecord(s))}
       \/ Inject("tear") /\ file' \in Damaged(file, NewRecord(s))

CrashInAttach(id, risk) ==
    /\ Dies
    /\ id \in DOMAIN evidence
    /\ \/ Inject("crash") /\ file' = AppendRec(file, Updated(id, risk))
       \/ Inject("tear") /\ file' \in Damaged(file, Updated(id, risk))
    /\ UNCHANGED made

\* Mutant: a line that does not parse ends the startup.
StartIfAllParse ==
    /\ ~up /\ Readable(file) = DOMAIN file.lines
    /\ up' = TRUE
    /\ evidence' = LoadEvidence(file)
    /\ UNCHANGED <<file, made, handler, acked, scored, crashes, bounds>>

\* _startup(): a line that does not parse is logged and skipped.
Start ==
    /\ ~up
    /\ up' = TRUE
    /\ evidence' = LoadEvidence(file)
    /\ UNCHANGED <<file, made, handler, acked, scored, crashes, bounds>>

Handler(s) == Builds(s) \/ Pushed(s) \/ ScoreAnswered(s)

Receives == \E s \in Slots, n \in Notifs : Receive(s, n)

Scores ==
    \E id \in DOMAIN evidence, risk \in Risks :
        \/ CrashInAttach(id, risk)
        \/ \E s \in Slots : Attach(s, id, risk) \/ AttachFails(s, id, risk)

Next ==
    \/ Receives \/ Scores \/ Start \/ Crash
    \/ \E s \in Slots : Handler(s) \/ BuildFails(s) \/ TimesOut(s) \/ CrashInBuild(s)

\* Every await is a call with a time-out, so a handler goes on; the kubelet
\* restarts the pod; Grafana sends again what was not answered.
Spec ==
    /\ Init /\ [][Next]_vars
    /\ WF_vars(Receives) /\ WF_vars(Start)
    /\ \A s \in Slots : WF_vars(Handler(s))

-----------------------------------------------------------------------------
(* Properties.                                                             *)

\* Every append is whole or does not happen; the pod may still be killed
\* anywhere and Grafana may give up on any request.
WholeWrites == plan \cap {"tear", "full"} = {}

Stored == { <<file.lines[i].n, file.lines[i].i>> : i \in Readable(file) }

HandlingOf(n) == [pc : {"bundle", "push"}, n : {n}, i : Wanted(n), heard : BOOLEAN]

\* Every variable keeps its type.
TypeOK ==
    /\ up \in BOOLEAN /\ made \in Nat /\ crashes \in Nat
    /\ DOMAIN evidence \subseteq 1 .. made
    /\ \A id \in DOMAIN evidence : evidence[id] \in Record /\ evidence[id].id = id
    /\ file.lines \in Seq(Record \cup {Torn}) /\ file.open \in BOOLEAN
    /\ handler \in [Slots -> {Idle} \cup { Scoring(id) : id \in 1 .. made }
                       \cup UNION { HandlingOf(n) : n \in Notifs }]
    /\ acked \subseteq Notifs /\ scored \subseteq 1 .. made
    /\ scores \in 0 .. MaxScores /\ plan \in Plans /\ faults \in 0 .. MaxFaults

\* What the running analyzer serves is what a restart would load, risk scores
\* included, whatever was killed before (main.py:199-219, 520-521: memory and
\* file are updated together, and the last line of an id wins).
ServedIsStored == WholeWrites /\ up => evidence = LoadEvidence(file)

\* A risk score that was answered with 200 is never lost
\* (main.py:512-525).
ScoresKept ==
    WholeWrites => \A id \in scored : /\ id \in DOMAIN LoadEvidence(file)
                                      /\ LoadEvidence(file)[id].risk # NoRisk

\* Evidence the operator was mailed about and cannot find is the work of a
\* kill between the mail and the append, and one kill makes at most one
\* (main.py:429-431).
OrphanMailsBounded ==
    WholeWrites => Cardinality((1 .. made) \ DOMAIN LoadEvidence(file)) <= crashes

\* Writes cut in the middle cost at most one alert each, among those whose
\* notification was answered with 200: the one whose line is glued to the cut
\* one (main.py:218).
LostBounded ==
    Cardinality((UNION { {n} \X Wanted(n) : n \in acked }) \ Stored) <= faults

\* The analyzer implements the evidence log: nothing stored is lost, and a
\* notification is answered with 200 only when all its alerts are stored --
\* as long as no write is cut.
Log == INSTANCE EvidenceLog WITH
    stored <- IF WholeWrites THEN Stored ELSE {},
    acked  <- IF WholeWrites THEN acked ELSE {}

ImplementsLog == Log!Spec

\* Every notification is answered with 200 in the end, however often the pod
\* was killed, a write failed or Grafana gave up in between.
AllAnswered == \A n \in Notifs : <>(n \in acked)
=============================================================================
