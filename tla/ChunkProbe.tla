----------------------------- MODULE ChunkProbe -----------------------------
(***************************************************************************)
(* How the collector tells a gap: the freshness probes inside a chunk and  *)
(* the post-hoc bucket check after it (tests/collect_chunked.py, run_chunk *)
(* and Loki), for one cloud; the other runs the same code on its own log.  *)
(*                                                                         *)
(* Time is counted in ticks of probe_interval = bucket = 10 s.  The cloud  *)
(* writes a line in every tick.  While its pipeline is down Promtail holds *)
(* the lines and sends them later, with their own time stamps, or they are *)
(* lost.  While the port-forward is down the probe is not answered.        *)
(***************************************************************************)
EXTENDS Naturals, Integers

CONSTANTS Length,       \* ticks in the chunk
          FreshWindow,  \* --fresh-window, in ticks
          MaxGap,       \* --max-gap, in ticks
          None

ASSUME ProbeAssumption ==
    /\ Length \in Nat \ {0} /\ MaxGap \in Nat \ {0}
    /\ FreshWindow \in 1 .. MaxGap
    /\ None \notin 0 .. Length

Ticks == 1 .. Length

VARIABLES
    t,           \* now, in ticks after t_start
    stored,      \* the lines Loki holds, by time stamp
    held,        \* the lines Promtail holds
    stale,       \* where the open stale stretch began
    violations,  \* fresh_violations, as pairs <<from, to>>
    verdict,     \* of the whole chunk, once it is closed
    down,        \* history: ticks in which nothing could reach Loki
    blind        \* history: ticks whose probe was not answered

vars == <<t, stored, held, stale, violations, verdict, down, blind>>

Lost == (1 .. t) \ (stored \cup held)

Init ==
    /\ t = 0 /\ stored = {} /\ held = {}
    /\ stale = None /\ violations = {} /\ verdict = "running"
    /\ down = {} /\ blind = {}

-----------------------------------------------------------------------------
(* One tick: the world moves, then the collector probes.                   *)

\* The line of tick n, and what Promtail held, by the state of the pipeline.
Flows(n) == /\ stored' = stored \cup held \cup {n}
            /\ held' = {}
            /\ UNCHANGED down

Holds(n) == /\ held' = held \cup {n}
            /\ down' = down \cup {n}
            /\ UNCHANGED stored

Loses(n) == /\ down' = down \cup {n}
            /\ UNCHANGED <<stored, held>>

\* fresh_counts(): a line stamped within the window, in Loki by now.
IsFresh(n) == \E ts \in stored' : n - FreshWindow < ts /\ ts <= n

\* Mutant: max_gap itself is too long.
OverInclusive(from, now) ==
    IF from # None /\ now - from >= MaxGap THEN {<<from, now>>} ELSE {}

\* A stretch from "from" to now, if it is over max_gap.
Over(from, now) ==
    IF from # None /\ now - from > MaxGap THEN {<<from, now>>} ELSE {}

MaxOf(a, b) == IF a >= b THEN a ELSE b

\* Mutant: the stretch is dated to the probe that saw it.
StretchFromProbe(n) == n

StretchBegins(n) == MaxOf(0, n - FreshWindow)

Answered(n) ==
    /\ UNCHANGED blind
    /\ IF IsFresh(n)
       THEN /\ violations' = violations \cup Over(stale, n)
            /\ stale' = None
       ELSE /\ stale' = IF stale = None THEN StretchBegins(n) ELSE stale
            /\ UNCHANGED violations

\* fresh_counts() is None: continue.
Unanswered(n) ==
    /\ blind' = blind \cup {n}
    /\ UNCHANGED <<stale, violations>>

Tick ==
    /\ t < Length
    /\ t' = t + 1
    /\ Flows(t + 1) \/ Holds(t + 1) \/ Loses(t + 1)
    /\ Answered(t + 1) \/ Unanswered(t + 1)
    /\ UNCHANGED verdict

-----------------------------------------------------------------------------
(* bucket_gaps(): each bucket with a line covers the tick that ends at its *)
(* time stamp; a stretch that no bucket covers ends where the next bucket, *)
(* or a sentinel past the end, begins.                                     *)

Sentinel == Length + MaxGap + 2

\* covered_until, when the sorted time stamps have come to ts
CoveredUntil(present, ts) ==
    LET before == {0} \cup {x \in present : x < ts}
    IN  CHOOSE x \in before : \A y \in before : y <= x

Uncovered(present, ts) ==
    <<CoveredUntil(present, ts), IF ts - 1 < Length THEN ts - 1 ELSE Length>>

BucketGaps(present) ==
    LET gaps == { Uncovered(present, ts) :
                    ts \in { x \in present \cup {Sentinel} :
                               (x - 1) - CoveredUntil(present, x) > MaxGap } }
    IN  { g \in gaps : g[2] - g[1] > MaxGap }

\* The settle time is over: Promtail has sent what it held, if it could.
Close ==
    /\ t = Length /\ verdict = "running"
    /\ \E sent \in BOOLEAN :
          /\ stored' = IF sent THEN stored \cup held ELSE stored
          /\ held' = IF sent THEN {} ELSE held
    /\ violations' = violations \cup Over(stale, t)
    /\ verdict' = IF violations' # {} \/ BucketGaps(stored') # {}
                  THEN "gap" ELSE "clean"
    /\ UNCHANGED <<t, stale, down, blind>>

Next == Tick \/ Close

Spec == Init /\ [][Next]_vars

-----------------------------------------------------------------------------
(* Properties.                                                             *)

\* n ticks in a row belong to S.
HasRun(S, n) ==
    \E from \in 0 .. Length - n : \A i \in 1 .. n : from + i \in S

\* Every variable keeps its type.
TypeOK ==
    /\ t \in 0 .. Length
    /\ stored \subseteq 1 .. t /\ held \subseteq (1 .. t) \ stored
    /\ stale \in (0 .. t) \cup {None}
    /\ violations \subseteq (0 .. t) \X (0 .. t)
    /\ verdict \in {"running", "clean", "gap"}
    /\ down \subseteq 1 .. t /\ blind \subseteq 1 .. t

\* Each fault is seen by one of the two criteria.  Lines lost for more than max_gap make a gap,
\* whatever the probes; an outage of more than max_gap is seen although Promtail sends everything
\* afterwards and no bucket stays empty, unless the probe a fresh window into it went unanswered
\* (collect_chunked.py:18-26: to be overlooked, an outage that lasts b ticks longer has to lose
\* b + 1 probes in a row there).
FaultsAreCaught ==
    verdict = "clean" =>
        /\ ~HasRun(Lost, MaxGap + 1)
        /\ \A f \in 0 .. Length - (MaxGap + 1) :
              (\A i \in 1 .. MaxGap + 1 : f + i \in down) => f + FreshWindow \in blind

\* A chunk is not thrown away for nothing: what is called a gap had, for max_gap, nothing arriving or
\* no probe answered, or it has no lines for longer (collect_chunked.py:276-285; probes that go
\* unanswered leave the freshness clock running, so they can stretch a tolerated outage).
GapIsReal ==
    verdict = "gap" => \/ HasRun(down \cup blind, MaxGap)
                       \/ HasRun(Ticks \ stored, MaxGap + 1)
=============================================================================
