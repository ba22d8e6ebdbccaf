----------------------------- MODULE ShadowScore -----------------------------
(***************************************************************************)
(* ml/score.py, the scoring service in shadow mode, beside the collection  *)
(* of FeatureWindows.  A cycle exports the last Window + Margin seconds    *)
(* from Loki, featurizes them as one chunk with an empty history and no    *)
(* runs, keeps the last row of every entity, scores it, and appends one    *)
(* record per entity to shadow_scores.jsonl.                               *)
(*                                                                         *)
(* loki_export swallows the failure of a stream after some of its pages,   *)
(* so a stream may arrive cut.  A cycle that fails otherwise writes        *)
(* nothing.  The cycle's table is the reference table of its lines; that   *)
(* build_chunk computes it is RowsExact.                                   *)
(***************************************************************************)
EXTENDS FeatureWindows

CONSTANTS Margin,      \* margin of featurize_recent
          MaxQuiet,    \* bound: a cycle runs at most this long after the newest line
          Threshold    \* threshold of the model's bundle, on the number of new objects

ASSUME ScoreAssumption == {Margin, MaxQuiet, Threshold} \subseteq Nat

VARIABLES archive,     \* what Loki holds of the closed chunks, by stream
          cycle        \* the cycle that has just ended: when, what Loki returned, its records

scoreVars == <<vars, archive, cycle>>

Idle == [events |-> {}, records |-> {}]
ScoreInit == Init /\ archive = NoFiles /\ cycle = Idle

\* The collection goes on by itself; what a closed chunk held stays in Loki.
Collect ==
    /\ phase # "scored" /\ Next
    /\ archive' = IF chunk' = chunk THEN archive
                  ELSE [s \in StreamSet |-> archive[s] \o files[s]]
    /\ UNCHANGED cycle

InLoki(s) == archive[s] \o files[s]

\* The lines of q from one time to another, in their order: the j-th of them is the one that
\* has j of them up to its place.
Between(q, from, to) ==
    LET kept == {i \in DOMAIN q : from <= q[i].ts /\ q[i].ts < to}
    IN  [j \in 1..Cardinality(kept) |->
            q[CHOOSE i \in kept : Cardinality({h \in kept : h <= i}) = j]]

\* loki_export of [now - Window - Margin, now); stream `cut` ended after its first n lines
LokiExport(now, cut, n) ==
    [s \in StreamSet |->
        LET all == Between(InLoki(s), now - Window - Margin, now)
        IN  IF s = cut /\ n < Len(all) THEN SubSeq(all, 1, n) ELSE all]

\* With an empty history an object was first touched where the export first shows it.
FreshFirst(evs, ent, o) == MinOf({e.ts : e \in {d \in evs : d.ent = ent /\ d.obj = o}})

\* Mutant: the table is sorted the other way round.
FirstStart(evs, ent) == MinOf({x[2] : x \in {y \in Windows(evs) : y[1] = ent}})

\* sort_values("window_end").groupby("entity").tail(1) of the table
LastStart(evs, ent) == MaxOf({x[2] : x \in {y \in Windows(evs) : y[1] = ent}})

Scored(evs) ==
    {LET a == LastStart(evs, ent)
         objs == {e.obj : e \in EventsIn(evs, ent, a)} \ {NoOne}
         new == {o \in objs : IsNew(FreshFirst(evs, ent, o), a)}
     IN  [ent |-> ent, a |-> a, objs |-> objs, newObjs |-> new,
          evs |-> EventsIn(evs, ent, a), alert |-> Cardinality(new) >= Threshold]
        : ent \in {e.ent : e \in evs} \ {NoOne}}

Newest == MaxOf({0} \union {l.ts : l \in UNION {LinesOf(files, s) : s \in StreamSet}})

\* run_once at time now.  Modelled for exports whose disorder is at most Lag, as RowsExact is.
RunOnce(now, cut, n) ==
    /\ phase = "export"
    /\ Newest < now /\ now <= Newest + MaxQuiet
    /\ n <= Len(InLoki(cut))
    /\ LET export == LokiExport(now, cut, n)
       IN  /\ Sorted(export) /\ Events(export) # {}
           /\ cycle' = [events |-> Events(export), records |-> Scored(Events(export))]
    /\ phase' = "scored"
    /\ UNCHANGED <<chunk, files, pos, heap, cur, nextB, buf, hist, rows, logged, past, archive>>

\* time.sleep(interval): the records are on disk, the service forgets them.
Sleep ==
    /\ phase = "scored"
    /\ cycle' = Idle /\ phase' = "export"
    /\ UNCHANGED <<chunk, files, pos, heap, cur, nextB, buf, hist, rows, logged, past, archive>>

ScoreNext ==
    \/ Collect
    \/ \E now \in Ticks, cut \in StreamSet, n \in 0..MaxLines : RunOnce(now, cut, n)
    \/ Sleep

ScoreSpec == ScoreInit /\ [][ScoreNext]_scoreVars

-----------------------------------------------------------------------------
\* A cycle leaves one record for every entity in what Loki returned, and the record
\* judges the entity's newest lines: all of them since the last full step, and
\* nothing older.  (The flush at the end of build_chunk emits windows until the last event
\* leaves them, so the last row is the tail of the activity and not its last Window seconds.)
ScoresTheTail ==
    /\ \A e \in cycle.events : e.ent # NoOne =>
          \E r \in cycle.records : r.ent = e.ent /\ (e.ts >= r.a => e \in r.evs)
    /\ \A r, q \in cycle.records : r.ent = q.ent => r = q
    /\ \A r \in cycle.records :
          LET newest == MaxOf({e.ts : e \in r.evs})
          IN  \A e \in cycle.events : e.ent = r.ent =>
                 e.ts <= newest /\ (e.ts >= (newest \div Step) * Step <=> e \in r.evs)

\* score.py:8-9 says the features are computed by features_v2.py "exactly as in
\* training": an object counts as new in a scored window exactly when it would in the
\* training table, where the user's history reaches back over all chunks.
ScoredAsTrained ==
    past.sorted /\ Sorted(files) =>
        \A r \in cycle.records : r.ent \in Users \ (past.blind \union Blind(files)) =>
            r.newObjs = {o \in r.objs : FirstTouch(r.ent, o) >= r.a}
=============================================================================
