--------------------------- MODULE FeatureWindows ---------------------------
(***************************************************************************)
(* ml/features_v2.py: the log lines of exported chunks become a table of   *)
(* labelled windows.  A chunk is three files (envoy, opa, bff); each is a  *)
(* concatenation of Loki streams and only nearly sorted.  build_chunk      *)
(* reads them twice: once to learn which session and which trace belong    *)
(* to which user, once through heapq.merge and the bounded re-sorting      *)
(* buffer of tests/phaseb_gate.py to slide a window of Window seconds by   *)
(* Step over the events of every entity.  What was touched before is       *)
(* carried from chunk to chunk in History.                                 *)
(*                                                                         *)
(* A line is a time and a kind; a kind says who made the request, how the  *)
(* line shows it, the object and the pair of workloads it names, and the   *)
(* signs by which is_attack_event knows the call of an attack.             *)
(* Feature values are represented by what they count: the events of the    *)
(* window, its new objects and its new pairs.                              *)
(***************************************************************************)
EXTENDS Integers, Sequences, FiniteSets

CONSTANTS Window, Step, Lag,   \* WINDOW, STEP, lag
          ChunkLen, Chunks,    \* seconds of a chunk, number of chunks
          MaxLines,            \* bound: lines logged in all chunks
          Kinds,               \* what a log line may be, see KindType
          Runs,                \* the attack and noise runs of runs.jsonl
          NoOne,               \* no user, no session, no trace, no object, no pair
          NoEvent              \* nothing delivered

WindowsAssumption ==
    /\ {Window, Step, ChunkLen, Chunks} \subseteq Nat \ {0}
    /\ {Lag, MaxLines} \subseteq Nat

ASSUME WindowsAssumption

\* 300 and 60 seconds unless the command line says otherwise
ASSUME RoundedAssumption == \E n \in 1..Window : Window = n * Step

Streams == <<"envoy", "opa", "bff">>      \* the order heapq.merge is given them
StreamSet == {"envoy", "opa", "bff"}

\* "location": the path has "/location" in it.  "deny": decision False, or code 401 or 403.
\* "large": the path has "posts/recent" in it, or more than 500000 bytes were sent.
Signs == {"location", "deny", "large"}

ASSUME KindsAssumption == \A k \in Kinds : k.stream \in StreamSet /\ k.signs \subseteq Signs

ASSUME RunsAssumption == IsFiniteSet(Runs) /\ \A r \in Runs : {r.t0, r.t1} \subseteq Nat

Users == {k.user : k \in Kinds} \ {NoOne}
Entities == Users \union {k.svc : k \in Kinds}

\* A workload is known by its SPIFFE ID, which is no user's name.
ASSUME NamesAssumption == {k.svc : k \in Kinds} \intersect Users = {}

Objects == {k.obj : k \in Kinds} \ {NoOne}
Pairs == {k.pair : k \in Kinds} \ {NoOne}
Ticks == 1..(Chunks * ChunkLen)

VARIABLES
    chunk,   \* number of the chunk being exported or built
    phase,   \* "export": lines arrive; "build": build_chunk runs; "closed": its table is written
    files,   \* stream -> the lines of its file
    pos,     \* stream -> how many of them were read
    heap,    \* lines read and not yet delivered
    cur,     \* the delivered event the loop of build_chunk holds
    nextB,   \* next_b; 0 before the first event
    buf,     \* entity -> its recent events
    hist,    \* History: when an entity, an entity's object, a pair was first seen
    rows,    \* the table of the chunk
    logged,  \* lines logged so far
    past     \* what really happened in the closed chunks (for the properties)

vars == <<chunk, phase, files, pos, heap, cur, nextB, buf, hist, rows, logged, past>>

-----------------------------------------------------------------------------
(* Whose line it is.  build_sid_map and build_identity_maps read the whole   *)
(* chunk, and only it, before the first window is built.                     *)

LinesOf(fs, s) == {fs[s][i] : i \in DOMAIN fs[s]}

NamedSids(fs) == {l.kind.sid : l \in LinesOf(fs, "bff")} \ {NoOne}

UserFromHeaders(fs, k) ==
    IF \/ k.via = "jwt"
       \/ k.via = "cookie" /\ k.sid \in NamedSids(fs)
    THEN k.user ELSE NoOne

TraceUser(fs) ==
    {l.kind.tid : l \in {m \in LinesOf(fs, "opa") : UserFromHeaders(fs, m.kind) # NoOne}} \ {NoOne}

UserOf(fs, k) ==
    CASE k.stream = "opa"   -> UserFromHeaders(fs, k)
      [] k.stream = "envoy" -> IF k.tid \in TraceUser(fs) THEN k.user ELSE NoOne
      [] k.stream = "bff"   -> k.user

EntityOf(fs, k) == IF UserOf(fs, k) # NoOne THEN UserOf(fs, k) ELSE k.svc

Event(fs, s, i) ==
    [ts |-> fs[s][i].ts, at |-> <<s, i>>, ent |-> EntityOf(fs, fs[s][i].kind),
     obj |-> fs[s][i].kind.obj, pair |-> fs[s][i].kind.pair, signs |-> fs[s][i].kind.signs]

Events(fs) == {Event(fs, at[1], at[2]) :
                 at \in UNION {{s} \X DOMAIN fs[s] : s \in StreamSet}}

-----------------------------------------------------------------------------
(* RunIndex and label_window.                                                *)

MinOf(S) == CHOOSE x \in S : \A y \in S : x <= y
MaxOf(S) == CHOOSE x \in S : \A y \in S : x >= y

MaxLen == IF Runs = {} THEN 0 ELSE MaxOf({r.t1 - r.t0 : r \in Runs})

\* Mutant: looks back as far as the window alone.
OverlappingStarted(ent, a, b) ==
    {r \in Runs : r.entity = ent /\ r.t0 < b /\ r.t0 >= a - 1 /\ r.t1 >= a}

\* The two bisections bound the start of a run, the filter its end.
Overlapping(ent, a, b) ==
    {r \in Runs : /\ r.entity = ent
                  /\ r.t0 < b
                  /\ r.t0 >= a - MaxLen - 1
                  /\ r.t1 >= a}

\* is_attack_event: the signature of a call of the run's scenario.  A bola run that did not
\* record its victims claims every call to a location; a scenario it does not know, the refused
\* calls.
IsAttackEvent(e, r) ==
    CASE r.scenario = "bola" -> "location" \in e.signs /\ (r.victims = {} \/ e.obj \in r.victims)
      [] r.scenario = "large_response" -> "large" \in e.signs
      [] r.scenario \in {"brute_force", "privilege_escalation"} -> TRUE
      [] OTHER -> "deny" \in e.signs

HasCall(r, evs) == \E e \in evs : r.t0 <= e.ts /\ e.ts <= r.t1 /\ IsAttackEvent(e, r)

LabelWindow(ent, a, b, evs) ==
    LET over == Overlapping(ent, a, b)
        attacks == {r \in over : r.class = "attack"}
    IN  IF \E r \in attacks : HasCall(r, evs) THEN "attack"
        ELSE IF attacks # {} THEN "attack_idle"
        ELSE IF \E r \in over : r.class = "benign_noise" THEN "benign_noise"
        ELSE "benign"

-----------------------------------------------------------------------------
(* History and the row of a window.                                          *)

Never == -1
NoHistory == [ent  |-> [e \in Entities |-> Never],
              obj  |-> [x \in Entities \X Objects |-> Never],
              pair |-> [p \in Pairs |-> Never]]

\* Mutant: remembers the last time.
SetLast(f, k, t) == [f EXCEPT ![k] = t]

SetDefault(f, k, t) == [f EXCEPT ![k] = IF @ = Never THEN t ELSE @]

Observe(h, e) ==
    [ent  |-> SetDefault(h.ent, e.ent, e.ts),
     obj  |-> IF e.obj = NoOne THEN h.obj ELSE SetDefault(h.obj, <<e.ent, e.obj>>, e.ts),
     pair |-> IF e.pair = NoOne \/ e.at[1] # "opa" THEN h.pair ELSE SetDefault(h.pair, e.pair, e.ts)]

\* obj_first.get(o, a) >= a
IsNew(first, a) == first = Never \/ first >= a

RowOf(h, ent, a, evs, label) ==
    [ent |-> ent, a |-> a, b |-> a + Window, evs |-> {e.at : e \in evs}, label |-> label,
     objs |-> {e.obj : e \in evs} \ {NoOne},
     newObjs |-> {o \in {e.obj : e \in evs} \ {NoOne} : IsNew(h.obj[<<ent, o>>], a)},
     newPairs |-> {p \in {e.pair : e \in {d \in evs : d.at[1] = "opa"}} \ {NoOne} : IsNew(h.pair[p], a)},
     histSec |-> IF h.ent[ent] = Never THEN 0 ELSE a - h.ent[ent]]

-----------------------------------------------------------------------------
NoFiles == [s \in StreamSet |-> <<>>]

Init ==
    /\ chunk = 1 /\ phase = "export"
    /\ files = NoFiles /\ pos = [s \in StreamSet |-> 0] /\ logged = 0
    /\ heap = {} /\ cur = NoEvent /\ nextB = 0
    /\ buf = [e \in Entities |-> <<>>]
    /\ hist = NoHistory /\ rows = {}
    /\ past = [touch |-> [x \in Users \X Objects |-> Never], blind |-> {}, sorted |-> TRUE]

\* A line of the chunk's hours reaches its file, in whatever order Loki returns it.
Log(k, t) ==
    /\ phase = "export" /\ logged < MaxLines
    /\ t > (chunk - 1) * ChunkLen /\ t <= chunk * ChunkLen
    /\ files' = [files EXCEPT ![k.stream] = Append(@, [ts |-> t, kind |-> k])]
    /\ logged' = logged + 1
    /\ UNCHANGED <<chunk, phase, pos, heap, cur, nextB, buf, hist, rows, past>>

Build ==
    /\ phase = "export"
    /\ phase' = "build"
    /\ UNCHANGED <<chunk, files, pos, heap, cur, nextB, buf, hist, rows, logged, past>>

(* The loop of build_chunk over iter_events.                                 *)

Unread == {s \in StreamSet : pos[s] < Len(files[s])}
Head_(s) == files[s][pos[s] + 1]
Rank(s) == CHOOSE i \in DOMAIN Streams : Streams[i] = s

\* heapq.merge: the smallest head, the earlier stream among equals.
MergeNext(s) ==
    /\ s \in Unread
    /\ \A r \in Unread \ {s} : \/ Head_(s).ts < Head_(r).ts
                               \/ Head_(s).ts = Head_(r).ts /\ Rank(s) < Rank(r)

ReadCount == pos["envoy"] + pos["opa"] + pos["bff"]
ReadTimes == UNION {{files[s][i].ts : i \in 1..pos[s]} : s \in StreamSet}

HeapTop(x) ==
    /\ x \in heap
    /\ \A y \in heap : x.event.ts < y.event.ts \/ (x.event.ts = y.event.ts /\ x.seq <= y.seq)

\* Mutant: the merged streams are taken to be sorted.
DueAtOnce(x) == HeapTop(x)

\* A line leaves the buffer when the newest one is Lag past it, or at the end of the files.
Due(x) == HeapTop(x) /\ (Unread = {} \/ x.event.ts <= MaxOf(ReadTimes) - Lag)

Read(s) ==
    /\ phase = "build" /\ cur = NoEvent /\ MergeNext(s)
    /\ ~ \E x \in heap : Due(x)
    /\ heap' = heap \union {[event |-> Event(files, s, pos[s] + 1), seq |-> ReadCount]}
    /\ pos' = [pos EXCEPT ![s] = @ + 1]
    /\ UNCHANGED <<chunk, phase, files, cur, nextB, buf, hist, rows, logged, past>>

\* The first event sets next_b to the end of the step it falls in.
Deliver ==
    /\ phase = "build" /\ cur = NoEvent
    /\ \E x \in heap :
         /\ Due(x)
         /\ cur' = x.event /\ heap' = heap \ {x}
         /\ nextB' = IF nextB = 0 THEN (x.event.ts \div Step + 1) * Step ELSE nextB
    /\ UNCHANGED <<chunk, phase, files, pos, buf, hist, rows, logged, past>>

\* popleft while the oldest event in hand lies before the window
DropOld(q, a) ==
    LET kept == {i \in DOMAIN q : q[i].ts >= a}
    IN  IF kept = {} THEN <<>> ELSE SubSeq(q, MinOf(kept), Len(q))

InWindow(q, b) == {q[i] : i \in {j \in DOMAIN q : q[j].ts < b}}

\* emit(b): one row for every entity with events in [b - Window, b), and next_b moves on.
EmitWindow ==
    LET a == nextB - Window
        kept == [e \in Entities |-> DropOld(buf[e], a)]
    IN  /\ buf' = kept
        /\ rows' = rows \union
             {RowOf(hist, e, a, InWindow(kept[e], nextB),
                    LabelWindow(e, a, nextB, InWindow(kept[e], nextB))) :
                e \in {d \in Entities \ {NoOne} : InWindow(kept[d], nextB) # {}}}
        /\ nextB' = nextB + Step

Emit ==
    /\ phase = "build" /\ cur # NoEvent /\ cur.ts >= nextB
    /\ EmitWindow
    /\ UNCHANGED <<chunk, phase, files, pos, heap, cur, hist, logged, past>>

Take ==
    /\ phase = "build" /\ cur # NoEvent /\ cur.ts < nextB
    /\ hist' = Observe(hist, cur)
    /\ buf' = [buf EXCEPT ![cur.ent] = Append(@, cur)]
    /\ cur' = NoEvent
    /\ UNCHANGED <<chunk, phase, files, pos, heap, nextB, rows, logged, past>>

AtEnd == phase = "build" /\ Unread = {} /\ heap = {} /\ cur = NoEvent
LastB == (MaxOf(ReadTimes) \div Step + 1) * Step + Window
Flushing == nextB # 0 /\ nextB <= LastB /\ \E e \in Entities : buf[e] # <<>>

\* After the last event the windows still open are emitted.
Flush ==
    /\ AtEnd /\ Flushing
    /\ EmitWindow
    /\ UNCHANGED <<chunk, phase, files, pos, heap, cur, hist, logged, past>>

Close ==
    /\ AtEnd /\ ~Flushing
    /\ phase' = "closed"
    /\ UNCHANGED <<chunk, files, pos, heap, cur, nextB, buf, hist, rows, logged, past>>

-----------------------------------------------------------------------------
(* What happened, whoever the lines were attributed to.                      *)

Touches(fs, u, o) ==
    {l.ts : l \in {m \in UNION {LinesOf(fs, s) : s \in StreamSet} :
                     m.kind.user = u /\ m.kind.obj = o}}

FirstTouch(u, o) ==
    LET ts == Touches(files, u, o) \union ({past.touch[<<u, o>>]} \ {Never})
    IN  IF ts = {} THEN Never ELSE MinOf(ts)

\* users some of whose lines are not recognised as theirs
Blind(fs) ==
    {k.user : k \in {l.kind : l \in {m \in UNION {LinesOf(fs, s) : s \in StreamSet} :
                                       UserOf(fs, m.kind) # m.kind.user}}}

\* No line of a file lies more than Lag behind one before it.
Sorted(fs) ==
    \A s \in StreamSet : \A j \in DOMAIN fs[s] : \A i \in 1..j :
        fs[s][j].ts >= fs[s][i].ts - Lag

\* cmd_build goes on with the next directory; only History is kept.
NextChunk ==
    /\ phase = "closed" /\ chunk < Chunks
    /\ chunk' = chunk + 1 /\ phase' = "export"
    /\ files' = NoFiles /\ pos' = [s \in StreamSet |-> 0]
    /\ buf' = [e \in Entities |-> <<>>]
    /\ nextB' = 0 /\ rows' = {}
    /\ past' = [touch  |-> [x \in Users \X Objects |-> FirstTouch(x[1], x[2])],
                blind  |-> past.blind \union Blind(files),
                sorted |-> past.sorted /\ Sorted(files)]
    /\ UNCHANGED <<heap, cur, hist, logged>>

Next ==
    \/ \E k \in Kinds, t \in Ticks : Log(k, t)
    \/ Build
    \/ \E s \in StreamSet : Read(s)
    \/ Deliver \/ Emit \/ Take \/ Flush \/ Close
    \/ NextChunk

Spec == Init /\ [][Next]_vars

-----------------------------------------------------------------------------
(* The reference: the windows of a chunk, straight from its lines.           *)

WindowStarts == {n * Step - Window : n \in 1..((Chunks * ChunkLen + Window) \div Step + 1)}

EventsIn(evs, ent, a) == {e \in evs : e.ent = ent /\ a <= e.ts /\ e.ts < a + Window}

Windows(evs) ==
    {x \in {<<e.ent, a>> : e \in evs, a \in WindowStarts} :
        x[1] # NoOne /\ EventsIn(evs, x[1], x[2]) # {}}

KindType == [stream : StreamSet, user : Users \union {NoOne}, via : {"cookie", "jwt", "none"},
             sid : {k.sid : k \in Kinds}, tid : {k.tid : k \in Kinds}, svc : Entities,
             obj : Objects \union {NoOne}, pair : Pairs \union {NoOne}, signs : SUBSET Signs]
Line == [ts : Ticks, kind : Kinds]
EventType == [ts : Ticks, at : StreamSet \X (Nat \ {0}), ent : Entities,
              obj : Objects \union {NoOne}, pair : Pairs \union {NoOne}, signs : SUBSET Signs]

ASSUME NoEventAssumption == NoEvent \notin EventType

\* Every variable keeps its type, and what is read or buffered comes from the files.
TypeOK ==
    /\ chunk \in 1..Chunks
    /\ phase \in {"export", "build", "closed", "scored"}
    /\ files \in [StreamSet -> Seq(Line)] /\ logged \in 0..MaxLines
    /\ pos \in [StreamSet -> Nat] /\ \A s \in StreamSet : pos[s] <= Len(files[s])
    /\ \A x \in heap : x.event \in EventType /\ x.seq \in Nat
    /\ cur \in EventType \union {NoEvent}
    /\ nextB \in Nat
    /\ buf \in [Entities -> Seq(EventType)]
    /\ hist.ent \in [Entities -> Nat \union {Never}]
    /\ hist.obj \in [Entities \X Objects -> Nat \union {Never}]
    /\ hist.pair \in [Pairs -> Nat \union {Never}]

\* When no line of a file lies more than Lag behind its predecessors (the docstring
\* of _resort_bounded: "exact order as long as the real skew is at most lag"), the table
\* of a finished chunk has a row for every entity and every window in which the entity has
\* an event, and the row holds exactly those events: none is dropped at the flush, counted twice,
\* kept past its window or seen before it.
RowsExact ==
    phase = "closed" /\ Sorted(files) =>
        LET evs == Events(files)
        IN  {<<r.ent, r.a, r.evs>> : r \in rows} =
            {<<x[1], x[2], {e.at : e \in EventsIn(evs, x[1], x[2])}>> : x \in Windows(evs)}

\* "Never seen before" is causal and survives the chunk border: an object of a
\* window is new exactly when its user first touched it, in any chunk, in or after the
\* window's first second.  For users all of whose lines were recognised, in sorted files.
NewnessCausal ==
    past.sorted /\ Sorted(files) =>
        \A r \in rows : r.ent \in Users \ (past.blind \union Blind(files)) =>
            r.newObjs = {o \in r.objs : FirstTouch(r.ent, o) >= r.a}

\* A call of an attacker's run -- a line of the attacker's, in the time of the run, with the
\* signature of its scenario -- is in an "attack" row of the attacker in every window that
\* contains it, whatever the header that carried the identity and however long the run; a row
\* is "attack" only if such a call was made in its window; and no row of another label holds
\* one.  For users all of whose lines were recognised in the chunk.
CallsOf(r, a) ==
    {l \in UNION {LinesOf(files, s) : s \in StreamSet} :
        /\ l.kind.user = r.entity /\ IsAttackEvent(l.kind, r)
        /\ r.t0 <= l.ts /\ l.ts <= r.t1 /\ a <= l.ts /\ l.ts < a + Window}

AttackLabelled ==
    phase = "closed" /\ Sorted(files) =>
        \A u \in Users \ Blind(files), a \in WindowStarts :
            (\E r \in Runs : r.class = "attack" /\ r.entity = u /\ CallsOf(r, a) # {})
            <=> (\E row \in rows : row.ent = u /\ row.a = a /\ row.label = "attack")
=============================================================================
