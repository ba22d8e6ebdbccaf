----------------------------- MODULE BolaDataset -----------------------------
(***************************************************************************)
(* services/bola-detector: the first pipeline of the detector, kept beside *)
(* ml/.  It takes a whole log at once: windows per entity from the step of *)
(* the entity's first event, windows over several sessions dropped, labels *)
(* from the overlap with a run, a split in time with a buffer.  Its log has *)
(* one record per request; here that is a line of the opa stream.          *)
(***************************************************************************)
EXTENDS FeatureWindows

\* build_entity_id: the subject of the token, else the calling workload
BuildEntityId(k) == IF k.user # NoOne THEN k.user ELSE k.svc

\* caller_identity: a request that OPA decides has a caller
ASSUME CallerAssumption ==
    \A k \in Kinds : k.stream = "opa" => k.user # NoOne \/ k.svc # NoOne

Requests(fs) ==
    {[ts |-> fs["opa"][i].ts, at |-> <<"opa", i>>, ent |-> BuildEntityId(fs["opa"][i].kind),
      session |-> fs["opa"][i].kind.sid, pair |-> fs["opa"][i].kind.pair]
        : i \in DOMAIN fs["opa"]}

Floor(t) == (t \div Step) * Step

\* w_start runs from the floor of the first event to the last event.
Starts(times) ==
    {n * Step : n \in 0..MaxOf(times)} \intersect Floor(MinOf(times))..MaxOf(times)

\* make_windows: [ws, ws + WINDOW) for every entity and start, if there is an event in it;
\* _crosses_boundary is true of any window with two named sessions in it.
MakeWindows(reqs) ==
    LET Of(ent) == {r \in reqs : r.ent = ent}
        Within(ent, ws) == {r \in Of(ent) : ws <= r.ts /\ r.ts < ws + Window}
    IN  UNION {{[ent |-> ent, ws |-> ws, reqs |-> Within(ent, ws),
                 dropped |-> Cardinality({r.session : r \in Within(ent, ws)} \ {NoOne}) > 1]
                  : ws \in {w \in Starts({r.ts : r \in Of(ent)}) : Within(ent, w) # {}}}
               : ent \in {r.ent : r \in reqs}}

\* build_known_pairs: pairs seen before the window, by anyone
KnownPairs(reqs, before) == {r.pair : r \in {q \in reqs : q.ts < before}}

InScope(run) == run.class = "attack"

\* Mutant: a run that began before the window is not in it.
LabelStarted(ws) ==
    \E run \in Runs : InScope(run) /\ ws <= run.t0 /\ run.t0 < ws + Window

\* label_windows: any run in scope whose time overlaps the window's, whoever ran it
LabelOf(ws) ==
    \E run \in Runs : InScope(run) /\ ws < run.t1 /\ ws + Window > run.t0

\* build_feature_table_from_events and label_windows
LabeledTable(reqs) ==
    {[ent |-> w.ent, ws |-> w.ws, reqs |-> w.reqs, label |-> LabelOf(w.ws),
      unseen |-> {r.pair : r \in w.reqs} \ KnownPairs(reqs, w.ws)]
        : w \in {v \in MakeWindows(reqs) : ~v.dropped}}

\* Mutant: no buffer around the cut.
SplitAtCut(table, cutoff) ==
    [train |-> {w \in table : w.ws < cutoff}, test |-> {w \in table : w.ws >= cutoff}]

\* time_session_split: a buffer of one window on either side of the cut
TimeSessionSplit(table, cutoff) ==
    [train |-> {w \in table : w.ws < cutoff - Window},
     test  |-> {w \in table : w.ws > cutoff + Window}]

-----------------------------------------------------------------------------
\* Where the older pipeline has a window, the streaming one has the same window with the same
\* requests, and what the streaming one calls an attack is positive in the older one too, unless
\* the window starts as the run ends (for sorted files in which every line's user is recognised);
\* and every request of an entity with one session, or some requests of which name none, is in a
\* window of the older table (windowing.py:6-33, label_windows.py:10-37 and features_v2.py:264-342).
BatchExact ==
    phase = "closed" =>
        LET reqs == Requests(files)
            table == LabeledTable(reqs)
        IN  /\ Sorted(files) /\ Blind(files) = {} =>
                 \A w \in table :
                     \E r \in rows :
                         /\ r.ent = w.ent /\ r.a = w.ws
                         /\ {q.at : q \in w.reqs} = {at \in r.evs : at[1] = "opa"}
                         /\ r.label = "attack" => w.label \/ \E run \in Runs : run.t1 = w.ws
            /\ \A q \in reqs :
                 (\E s \in {p.session : p \in reqs} :
                     \A p \in reqs : p.ent = q.ent => p.session \in {s, NoOne})
                     => \E w \in table : q \in w.reqs

\* Wherever the cut falls, no request is seen from both sides of the split.
SplitSealed ==
    phase = "closed" =>
        LET table == LabeledTable(Requests(files))
        IN  \A cutoff \in 0..(Chunks * ChunkLen) :
               LET s == TimeSessionSplit(table, cutoff)
               IN  \A v \in s.train, w \in s.test : v.reqs \intersect w.reqs = {}
=============================================================================
