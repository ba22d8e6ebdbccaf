------------------------ MODULE FeatureWindows_proofs ------------------------
(***************************************************************************)
(* What the detection pipelines compute, for any stream of lines, any      *)
(* kinds of line and runs, and any window, step, lag and chunk length that *)
(* the assumptions of FeatureWindows, ShadowScore and BolaDataset allow.   *)
(*                                                                         *)
(* RowsExact speaks of closed chunks.  What makes it inductive is the      *)
(* state of the stream in between: where every event of the files is       *)
(* (Held), that nothing to come is older than what was taken up (Order,    *)
(* from the lag and the heap), that the next window's buffer has           *)
(* everything this window needs (Slid), that the rows so far are the       *)
(* reference rows of the windows ended so far (Table), and that the        *)
(* history has the first of what was taken up (Firsts).                    *)
(***************************************************************************)
EXTENDS ShadowScore, BolaDataset, FiniteSetTheorems, SequenceTheorems,
        WellFoundedInduction, TLAPS

\* The events of the chunk's files: read, waiting in the sorter, taken up by the windows, to come;
\* and those of an entity in the window that ends at b.
Evs == Events(files)
ReadEvs == {e \in Evs : e.at[2] <= pos[e.at[1]]}
HeapEvs == {x.event : x \in heap}
Taken == (ReadEvs \ HeapEvs) \ {cur}
Ahead == Evs \ Taken
Seen(ent, b) == EventsIn(Evs, ent, b - Window)
\* The times at which a window may end.
Ends == {n * Step : n \in Nat \ {0}}

\* The types of the variables.
Typed ==
    /\ TypeOK
    /\ past.touch \in [Users \X Objects -> Nat \union {Never}]
    /\ past.sorted \in BOOLEAN

\* An event that the sorter holds was read, is held once, and has not reached the windows; an
\* entity's buffer holds events of its own that have.
Held ==
    /\ HeapEvs \subseteq ReadEvs
    /\ cur # NoEvent => cur \in ReadEvs /\ cur \notin HeapEvs
    /\ \A x, y \in heap : x.event = y.event => x = y
    /\ \A e \in Entities : \A i \in DOMAIN buf[e] : buf[e][i] \in Taken /\ buf[e][i].ent = e

\* build_chunk starts from nothing, and has taken everything up when the chunk closes.
Fresh ==
    /\ \A s \in StreamSet : pos[s] = 0
    /\ heap = {} /\ cur = NoEvent /\ nextB = 0 /\ rows = {}
    /\ \A e \in Entities : buf[e] = <<>>

Phases ==
    /\ phase \in {"export", "scored"} => Fresh
    /\ phase = "closed" => Unread = {} /\ heap = {} /\ cur = NoEvent /\ ~Flushing

\* A line lies in the seconds of its chunk, in the file of its stream; what is remembered is older.
Hours ==
    /\ \A s \in StreamSet : \A i \in DOMAIN files[s] :
          /\ files[s][i].ts > (chunk - 1) * ChunkLen /\ files[s][i].ts <= chunk * ChunkLen
          /\ files[s][i].kind.stream = s
    /\ \A x \in Users \X Objects : past.touch[x] <= (chunk - 1) * ChunkLen

\* History: for a user all of whose lines were recognised, the first touch of an object is
\* that of an earlier chunk if there was one, and else the first of what was taken up.
Touched(u, o) == {e \in Taken : e.ent = u /\ e.obj = o}

FirstKnown(u, o) ==
    /\ past.touch[<<u, o>>] # Never => hist.obj[<<u, o>>] = past.touch[<<u, o>>]
    /\ past.touch[<<u, o>>] = Never =>
          /\ hist.obj[<<u, o>>] = Never => Touched(u, o) = {}
          /\ hist.obj[<<u, o>>] # Never => \E e \in Touched(u, o) : hist.obj[<<u, o>>] = e.ts
          /\ Sorted(files) => \A e \in Touched(u, o) : hist.obj[<<u, o>>] <= e.ts

Firsts == past.sorted => \A u \in Users \ past.blind, o \in Objects : FirstKnown(u, o)

\* _resort_bounded: in sorted files what is still to come is never older than what was taken.
Order ==
    Sorted(files) =>
        /\ \A u \in Evs \ ReadEvs, r \in ReadEvs : u.ts >= r.ts - Lag
        /\ \A t \in Taken, x \in Ahead : t.ts <= x.ts
        /\ cur # NoEvent => \A x \in Ahead : cur.ts <= x.ts

\* The windows slide with the events: nothing still to come is older than the step that ends the
\* next window, and a buffer holds all that this window can still need, in order.
Slid ==
    /\ nextB = 0 => Taken = {} /\ cur = NoEvent /\ rows = {}
    /\ nextB # 0 => nextB \in Ends
    /\ Sorted(files) =>
          /\ nextB # 0 => \A x \in Ahead : x.ts >= nextB - Step
          /\ \A e \in Entities : \A i, j \in DOMAIN buf[e] : i <= j => buf[e][i].ts <= buf[e][j].ts
          /\ \A t \in Taken : t.ts >= nextB - Step - Window =>
                                 \E i \in DOMAIN buf[t.ent] : buf[t.ent][i] = t

\* The table so far: the rows are the reference rows of the windows that have ended.
Fits(r, b) ==
    /\ b < nextB /\ r.ent \in Entities \ {NoOne} /\ r.a = b - Window
    /\ Seen(r.ent, b) # {}
    /\ r.evs = {e.at : e \in Seen(r.ent, b)}
    /\ r.objs = {e.obj : e \in Seen(r.ent, b)} \ {NoOne}
    /\ r.label = LabelWindow(r.ent, b - Window, b, Seen(r.ent, b))

Table ==
    Sorted(files) =>
        /\ \A r \in rows : \E b \in Ends : Fits(r, b)
        /\ \A ent \in Entities \ {NoOne}, b \in Ends :
              b < nextB /\ Seen(ent, b) # {} => \E r \in rows : r.ent = ent /\ r.a = b - Window

IInv == Typed /\ Held /\ Phases /\ Hours /\ Firsts /\ Order /\ Slid /\ Table /\ NewnessCausal

-----------------------------------------------------------------------------
(* Arithmetic of the steps.                                                  *)

\* Two ends of steps are a step apart or more.
LEMMA EndsApart ==
    ASSUME NEW m \in Nat, NEW n \in Nat, m * Step < n * Step
    PROVE  m * Step <= n * Step - Step
<1>. Step \in Nat \ {0}
  BY WindowsAssumption DEF WindowsAssumption
<1>1. m < n
  <2>. SUFFICES ASSUME m >= n PROVE m * Step >= n * Step
    OBVIOUS
  <2>. QED OBVIOUS
<1>2. n = m + (n - m) /\ n - m \in Nat /\ n - m >= 1
  BY <1>1
<1>. QED BY <1>1

\* The step a time falls in.
LEMMA StepOf ==
    ASSUME NEW x \in Nat
    PROVE  /\ x \div Step \in Nat
           /\ (x \div Step) * Step <= x
           /\ x < (x \div Step + 1) * Step
           /\ (x \div Step + 1) * Step = (x \div Step) * Step + Step
           /\ (x \div Step + 1) * Step \in Ends
<1>. Step \in Nat \ {0}
  BY WindowsAssumption DEF WindowsAssumption
<1>1. x \div Step \in Nat /\ (x \div Step) * Step <= x /\ x < (x \div Step) * Step + Step
  OBVIOUS
<1>2. \A n \in Nat : (n + 1) * Step = n * Step + Step
  OBVIOUS
<1>3. x \div Step + 1 \in Nat \ {0}
  BY <1>1
<1>. QED BY <1>1, <1>2, <1>3 DEF Ends

\* What is at most x is at most as many steps as x has.
LEMMA StepsBelow ==
    ASSUME NEW x \in Nat, NEW n \in Nat, n * Step <= x
    PROVE  n <= x \div Step
<1>. Step \in Nat \ {0}
  BY WindowsAssumption DEF WindowsAssumption
<1>1. x \div Step \in Nat /\ x < (x \div Step) * Step + Step
  OBVIOUS
<1>. QED BY <1>1

\* An end of a step is a positive number, and so is the next.
LEMMA EndsType ==
    ASSUME NEW b \in Ends
    PROVE  /\ b \in Nat /\ b >= Step /\ b + Step \in Ends
           /\ \A c \in Ends : c < b + Step => c <= b
           /\ \A c \in Ends : c < b => c <= b - Step
<1>. Step \in Nat \ {0}
  BY WindowsAssumption DEF WindowsAssumption
<1>1. PICK n \in Nat \ {0} : b = n * Step
  BY DEF Ends
<1>2. b \in Nat /\ b >= Step
  BY <1>1
<1>3. (n + 1) * Step = n * Step + Step /\ n + 1 \in Nat \ {0}
  OBVIOUS
<1>4. b + Step \in Ends
  BY <1>1, <1>3 DEF Ends
<1>5. ASSUME NEW c \in Ends, c < b + Step PROVE c <= b
  <2>1. PICK m \in Nat \ {0} : c = m * Step
    BY DEF Ends
  <2>. QED BY <2>1, <1>1, <1>3, <1>5, EndsApart
<1>6. ASSUME NEW c \in Ends, c < b PROVE c <= b - Step
  <2>1. PICK m \in Nat \ {0} : c = m * Step
    BY DEF Ends
  <2>. QED BY <2>1, <1>1, <1>6, EndsApart
<1>. QED BY <1>2, <1>4, <1>5, <1>6

-----------------------------------------------------------------------------
(* Least and greatest elements.                                              *)

\* A set of naturals has a least element, and MinOf picks it.
LEMMA Least ==
    ASSUME NEW S \in SUBSET Nat, S # {}
    PROVE  MinOf(S) \in S /\ \A y \in S : MinOf(S) <= y
<1>1. PICK t \in S : \A y \in S : <<y, t>> \notin OpToRel(<, Nat)
  <2>1. IsWellFoundedOn(OpToRel(<, Nat), Nat)
    BY NatLessThanWellFounded
  <2>. QED BY <2>1, WFMin
<1>2. \A y \in S : t <= y
  <2>. TAKE y \in S
  <2>1. ~ (y < t)
    BY <1>1 DEF OpToRel
  <2>. QED BY <2>1
<1>. QED BY <1>2 DEF MinOf

\* A set of integers with a bound has a greatest element, and MaxOf picks it.
LEMMA Greatest ==
    ASSUME NEW n \in Nat, NEW S \in SUBSET Int, S # {}, \A x \in S : x <= n
    PROVE  MaxOf(S) \in S /\ \A y \in S : MaxOf(S) >= y
<1>. DEFINE T == {n - x : x \in S}
<1>1. T \subseteq Nat /\ T # {}
  <2>1. \A x \in S : n - x \in Nat
    OBVIOUS
  <2>2. PICK x \in S : TRUE
    OBVIOUS
  <2>3. n - x \in T
    OBVIOUS
  <2>. QED BY <2>1, <2>3
<1>2. MinOf(T) \in T /\ \A y \in T : MinOf(T) <= y
  <2>. HIDE DEF T
  <2>. QED BY <1>1, Least
<1>3. PICK m \in S : MinOf(T) = n - m
  BY <1>2
<1>4. \A y \in S : m >= y
  <2>. TAKE y \in S
  <2>1. n - m <= n - y
    BY <1>2, <1>3
  <2>. QED BY <2>1
<1>. QED BY <1>4 DEF MaxOf

-----------------------------------------------------------------------------
(* The events of the files.                                                  *)

\* An event is a line of a stream, and the place of the line tells it from the others.
LEMMA EventAt ==
    ASSUME NEW fs
    PROVE  /\ \A e \in Events(fs) : \E s \in StreamSet : \E i \in DOMAIN fs[s] : e = Event(fs, s, i)
           /\ \A s \in StreamSet : \A i \in DOMAIN fs[s] : Event(fs, s, i) \in Events(fs)
           /\ \A e, f \in Events(fs) : e.at = f.at => e = f
<1>1. \A e \in Events(fs) : \E s \in StreamSet : \E i \in DOMAIN fs[s] : e = Event(fs, s, i)
  BY DEF Events
<1>2. ASSUME NEW s \in StreamSet, NEW i \in DOMAIN fs[s] PROVE Event(fs, s, i) \in Events(fs)
  <2>1. <<s, i>> \in UNION {{r} \X DOMAIN fs[r] : r \in StreamSet}
    OBVIOUS
  <2>2. <<s, i>>[1] = s /\ <<s, i>>[2] = i
    OBVIOUS
  <2>. QED BY <2>1, <2>2 DEF Events
<1>3. ASSUME NEW e \in Events(fs), NEW f \in Events(fs), e.at = f.at PROVE e = f
  <2>1. PICK s \in StreamSet : \E i \in DOMAIN fs[s] : e = Event(fs, s, i)
    BY <1>1
  <2>2. PICK i \in DOMAIN fs[s] : e = Event(fs, s, i)
    BY <2>1
  <2>3. PICK r \in StreamSet : \E j \in DOMAIN fs[r] : f = Event(fs, r, j)
    BY <1>1
  <2>4. PICK j \in DOMAIN fs[r] : f = Event(fs, r, j)
    BY <2>3
  <2>5. <<s, i>> = <<r, j>>
    BY <2>2, <2>4, <1>3 DEF Event
  <2>. QED BY <2>2, <2>4, <2>5
<1>. QED BY <1>1, <1>2, <1>3

\* A line belongs to its user or to its workload.
LEMMA EntityType ==
    ASSUME NEW fs, NEW k \in Kinds
    PROVE  /\ UserOf(fs, k) \in {k.user, NoOne}
           /\ EntityOf(fs, k) \in Entities
           /\ EntityOf(fs, k) = IF UserOf(fs, k) # NoOne THEN k.user ELSE k.svc
<1>1. UserFromHeaders(fs, k) \in {k.user, NoOne}
  BY DEF UserFromHeaders
<1>2. k.stream \in {"envoy", "opa", "bff"}
  BY KindsAssumption DEF StreamSet
<1>3. UserOf(fs, k) \in {k.user, NoOne}
  BY <1>1, <1>2 DEF UserOf
<1>. QED BY <1>3 DEF EntityOf, Entities, Users

\* make_event: a line becomes an event with the time of the line.
LEMMA EventTyped ==
    ASSUME NEW fs \in [StreamSet -> Seq(Line)], NEW s \in StreamSet, NEW i \in DOMAIN fs[s]
    PROVE  /\ i \in Nat \ {0} /\ i <= Len(fs[s])
           /\ fs[s][i] \in Line
           /\ Event(fs, s, i) \in EventType
           /\ Event(fs, s, i).ts = fs[s][i].ts
           /\ Event(fs, s, i).at = <<s, i>>
           /\ Event(fs, s, i).ent = EntityOf(fs, fs[s][i].kind)
           /\ Event(fs, s, i).obj = fs[s][i].kind.obj
           /\ Event(fs, s, i).pair = fs[s][i].kind.pair
           /\ Event(fs, s, i).signs = fs[s][i].kind.signs
<1>1. i \in Nat \ {0} /\ i <= Len(fs[s]) /\ fs[s][i] \in Line
  OBVIOUS
<1>2. fs[s][i].ts \in Ticks /\ fs[s][i].kind \in Kinds
  BY <1>1 DEF Line
<1>3. EntityOf(fs, fs[s][i].kind) \in Entities
  BY <1>2, EntityType
<1>4. fs[s][i].kind.obj \in Objects \union {NoOne} /\ fs[s][i].kind.pair \in Pairs \union {NoOne}
  BY <1>2 DEF Objects, Pairs
<1>5. fs[s][i].kind.signs \in SUBSET Signs
  BY <1>2, KindsAssumption
<1>. QED BY <1>1, <1>2, <1>3, <1>4, <1>5 DEF Event, EventType

\* The events of well-typed files are events.
LEMMA EventsTyped ==
    ASSUME NEW fs \in [StreamSet -> Seq(Line)]
    PROVE  /\ Events(fs) \subseteq EventType
           /\ NoEvent \notin Events(fs)
BY EventAt, EventTyped, NoEventAssumption

\* The fields of an event, and the seconds it can lie in.
LEMMA EventFields ==
    ASSUME NEW e \in EventType
    PROVE  /\ e.ts \in Nat /\ e.ts >= 1 /\ e.ts <= Chunks * ChunkLen
           /\ e.at[1] \in StreamSet /\ e.at[2] \in Nat \ {0}
           /\ e.ent \in Entities
<1>. Chunks \in Nat /\ ChunkLen \in Nat /\ Chunks * ChunkLen \in Nat
  BY WindowsAssumption DEF WindowsAssumption
<1>1. e.ts \in Ticks /\ e.at \in StreamSet \X (Nat \ {0}) /\ e.ent \in Entities
  BY DEF EventType
<1>. QED BY <1>1 DEF Ticks

-----------------------------------------------------------------------------
(* The deque of an entity.                                                   *)

\* Nothing is added, and order stays.
LEMMA DropOldType ==
    ASSUME NEW q \in Seq(EventType), NEW a \in Int
    PROVE  /\ DropOld(q, a) \in Seq(EventType)
           /\ \A j \in DOMAIN DropOld(q, a) : \E i \in DOMAIN q : DropOld(q, a)[j] = q[i]
           /\ (\A i, j \in DOMAIN q : i <= j => q[i].ts <= q[j].ts)
                 => \A i, j \in DOMAIN DropOld(q, a) : i <= j => DropOld(q, a)[i].ts <= DropOld(q, a)[j].ts
           /\ (\A i, j \in DOMAIN q : i <= j => q[i].ts <= q[j].ts)
                 => \A i \in DOMAIN q : q[i].ts >= a =>
                        \E j \in DOMAIN DropOld(q, a) : DropOld(q, a)[j] = q[i]
           /\ (\A i, j \in DOMAIN q : i <= j => q[i].ts <= q[j].ts)
                 => \A j \in DOMAIN DropOld(q, a) : DropOld(q, a)[j].ts >= a
<1>. DEFINE kept == {i \in DOMAIN q : q[i].ts >= a}
            m == MinOf(kept)
            d == DropOld(q, a)
<1>0. DOMAIN q = 1..Len(q) /\ Len(q) \in Nat /\ \A i \in 1..Len(q) : q[i] \in EventType
  OBVIOUS
<1>1. CASE kept = {}
  <2>1. d = <<>>
    BY <1>1 DEF DropOld
  <2>2. DOMAIN d = {} /\ d \in Seq(EventType)
    BY <2>1
  <2>. QED BY <1>1, <2>2
<1>2. CASE kept # {}
  <2>1. m \in kept /\ \A i \in kept : m <= i
    <3>1. kept \in SUBSET Nat
      BY <1>0
    <3>. HIDE DEF kept
    <3>. QED BY <1>2, <3>1, Least
  <2>2. d = SubSeq(q, m, Len(q))
    BY <1>2 DEF DropOld
  <2>3. m \in 1..Len(q) /\ q[m].ts >= a
    BY <2>1, <1>0
  <2>. HIDE DEF m, kept
  <2>4. /\ SubSeq(q, m, Len(q)) \in Seq(EventType)
        /\ Len(SubSeq(q, m, Len(q))) = Len(q) - m + 1
        /\ \A i \in 1..Len(q) - m + 1 : SubSeq(q, m, Len(q))[i] = q[m + i - 1]
    <3>1. \A i \in m..Len(q) : q[i] \in EventType
      BY <1>0, <2>3
    <3>2. m \in Int /\ Len(q) \in Int /\ m <= Len(q)
      BY <1>0, <2>3
    <3>. QED BY <3>1, <3>2, SubSeqProperties
  <2>. HIDE DEF d
  <2>5. d \in Seq(EventType) /\ Len(d) = Len(q) - m + 1 /\ DOMAIN d = 1..(Len(q) - m + 1)
    BY <2>2, <2>4
  <2>6. \A j \in DOMAIN d : d[j] = q[m + j - 1] /\ m + j - 1 \in DOMAIN q /\ m <= m + j - 1
    BY <2>2, <2>3, <2>4, <2>5, <1>0
  <2>7. \A i \in DOMAIN q : q[i].ts >= a => i - m + 1 \in DOMAIN d /\ d[i - m + 1] = q[i]
    <3>. TAKE i \in DOMAIN q
    <3>. HAVE q[i].ts >= a
    <3>1. m <= i
      BY <2>1 DEF kept
    <3>2. i - m + 1 \in DOMAIN d
      BY <3>1, <2>3, <2>5, <1>0
    <3>3. d[i - m + 1] = q[m + (i - m + 1) - 1]
      BY <3>2, <2>6
    <3>4. m + (i - m + 1) - 1 = i
      BY <2>3, <1>0
    <3>. QED BY <3>2, <3>3, <3>4
  <2>8. ASSUME \A i, j \in DOMAIN q : i <= j => q[i].ts <= q[j].ts
        PROVE  /\ \A i, j \in DOMAIN d : i <= j => d[i].ts <= d[j].ts
               /\ \A j \in DOMAIN d : d[j].ts >= a
    <3>1. ASSUME NEW i \in DOMAIN d, NEW j \in DOMAIN d, i <= j PROVE d[i].ts <= d[j].ts
      <4>1. m + i - 1 <= m + j - 1
        BY <3>1, <2>5, <2>3
      <4>. QED BY <4>1, <2>6, <2>8
    <3>2. ASSUME NEW j \in DOMAIN d PROVE d[j].ts >= a
      <4>1. q[m].ts <= q[m + j - 1].ts /\ q[m + j - 1] \in EventType
        BY <2>6, <2>8, <2>3, <1>0
      <4>2. q[m].ts \in Nat /\ q[m + j - 1].ts \in Nat
        BY <4>1, <2>3, <1>0, EventFields
      <4>. QED BY <4>1, <4>2, <2>3, <2>6
    <3>. QED BY <3>1, <3>2
  <2>. QED BY <2>5, <2>6, <2>7, <2>8 DEF d
<1>. QED BY <1>1, <1>2

-----------------------------------------------------------------------------
(* The parts of the invariant, one action at a time.                         *)

\* Where an event can be.
LEMMA Places ==
    ASSUME Typed
    PROVE  /\ files \in [StreamSet -> Seq(Line)] /\ pos \in [StreamSet -> Nat]
           /\ Evs \subseteq EventType /\ NoEvent \notin Evs
           /\ ReadEvs \subseteq Evs /\ Taken \subseteq ReadEvs /\ Ahead \subseteq Evs
           /\ nextB \in Nat /\ buf \in [Entities -> Seq(EventType)]
           /\ Window \in Nat \ {0} /\ Step \in Nat \ {0} /\ Lag \in Nat
<1>1. files \in [StreamSet -> Seq(Line)] /\ pos \in [StreamSet -> Nat]
      /\ nextB \in Nat /\ buf \in [Entities -> Seq(EventType)]
  BY DEF Typed, TypeOK
<1>2. Evs \subseteq EventType /\ NoEvent \notin Evs
  BY <1>1, EventsTyped DEF Evs
<1>3. ReadEvs \subseteq Evs /\ Taken \subseteq ReadEvs /\ Ahead \subseteq Evs
  BY DEF ReadEvs, Taken, Ahead
<1>. QED BY <1>1, <1>2, <1>3, WindowsAssumption DEF WindowsAssumption

\* The event of a line.
LEMMA LineEvent ==
    ASSUME Typed, NEW s \in StreamSet, NEW i \in DOMAIN files[s]
    PROVE  /\ i \in Nat \ {0} /\ i <= Len(files[s]) /\ files[s][i] \in Line
           /\ Event(files, s, i) \in Evs
           /\ Event(files, s, i) \in EventType
           /\ Event(files, s, i).ts = files[s][i].ts
           /\ Event(files, s, i).at = <<s, i>>
           /\ Event(files, s, i).ent = EntityOf(files, files[s][i].kind)
           /\ Event(files, s, i).obj = files[s][i].kind.obj
           /\ Event(files, s, i).signs = files[s][i].kind.signs
<1>1. files \in [StreamSet -> Seq(Line)]
  BY Places
<1>2. Event(files, s, i) \in Evs
  BY EventAt DEF Evs
<1>. QED BY <1>1, <1>2, EventTyped

\* An event is the event of some line.
LEMMA EventLine ==
    ASSUME Typed, NEW e \in Evs
    PROVE  \E s \in StreamSet : \E i \in DOMAIN files[s] : e = Event(files, s, i)
BY EventAt DEF Evs

\* What the history holds of a user is what the closed chunks showed.
Kept == past.sorted => \A u \in Users \ past.blind, o \in Objects :
                          hist.obj[<<u, o>>] = past.touch[<<u, o>>]

\* Before a chunk is read there is nothing to keep in order.
LEMMA NothingRead ==
    ASSUME Typed, Fresh
    PROVE  ReadEvs = {} /\ Taken = {} /\ HeapEvs = {}
<1>1. ReadEvs = {}
  <2>. SUFFICES ASSUME NEW e \in ReadEvs PROVE FALSE
    OBVIOUS
  <2>1. e \in EventType /\ e.at[2] <= pos[e.at[1]]
    BY Places DEF ReadEvs
  <2>2. e.at[1] \in StreamSet /\ e.at[2] \in Nat \ {0}
    BY <2>1, EventFields
  <2>3. pos[e.at[1]] = 0
    BY <2>2 DEF Fresh
  <2>. QED BY <2>1, <2>2, <2>3
<1>. QED BY <1>1 DEF Taken, Fresh, HeapEvs

\* A fresh chunk satisfies what speaks of its stream, once the history is kept.
LEMMA Refreshed ==
    Typed /\ Fresh /\ Kept =>
        Held /\ Firsts /\ Order /\ Slid /\ Table /\ NewnessCausal
<1>. SUFFICES ASSUME Typed, Fresh, Kept
              PROVE  Held /\ Firsts /\ Order /\ Slid /\ Table /\ NewnessCausal
  OBVIOUS
<1>2. ReadEvs = {} /\ Taken = {} /\ HeapEvs = {}
  BY NothingRead
<1>3. Held
  BY <1>2 DEF Held, Fresh
<1>4. Firsts
  BY <1>2 DEF Firsts, FirstKnown, Touched, Kept
<1>5. Order
  BY <1>2 DEF Order, Fresh
<1>6. Slid
  BY <1>2 DEF Slid, Fresh
<1>7. Table
  <2>1. nextB = 0 /\ rows = {}
    BY DEF Fresh
  <2>2. \A b \in Ends : ~ (b < 0)
    <3>. TAKE b \in Ends
    <3>1. b \in Nat
      BY EndsType
    <3>. QED BY <3>1
  <2>. QED BY <2>1, <2>2 DEF Table
<1>8. NewnessCausal
  BY DEF NewnessCausal, Fresh
<1>. QED BY <1>3, <1>4, <1>5, <1>6, <1>7, <1>8

\* What the history knows is right as long as nothing else is taken.
LEMMA FirstsKept ==
    ASSUME Firsts, Taken' = Taken, files' = files, hist' = hist, past' = past
    PROVE  Firsts'
<1>. SUFFICES ASSUME past.sorted, NEW u \in Users \ past.blind, NEW o \in Objects
              PROVE  FirstKnown(u, o)'
  BY DEF Firsts
<1>1. FirstKnown(u, o)
  BY DEF Firsts
<1>2. Touched(u, o)' = Touched(u, o)
  BY DEF Touched
<1>. QED BY <1>1, <1>2 DEF FirstKnown

\* A step that moves only the phase.
LEMMA PhaseStep ==
    ASSUME IInv, UNCHANGED <<chunk, files, pos, heap, cur, nextB, buf, hist, rows, logged, past>>,
           phase' \in {"export", "build", "closed", "scored"}, Phases'
    PROVE  IInv'
<1>1. /\ Evs' = Evs /\ ReadEvs' = ReadEvs /\ HeapEvs' = HeapEvs /\ Taken' = Taken /\ Ahead' = Ahead
  BY DEF Evs, ReadEvs, HeapEvs, Taken, Ahead
<1>2. Typed'
  BY DEF IInv, Typed, TypeOK
<1>3. Held'
  BY <1>1 DEF IInv, Held
<1>4. Hours'
  BY DEF IInv, Hours
<1>5. Firsts'
  BY <1>1, FirstsKept DEF IInv
<1>6. Order'
  BY <1>1 DEF IInv, Order
<1>7. Slid'
  BY <1>1 DEF IInv, Slid
<1>8. Table'
  BY <1>1 DEF IInv, Table, Fits, Seen
<1>9. NewnessCausal'
  BY DEF IInv, NewnessCausal, FirstTouch
<1>. QED BY <1>2, <1>3, <1>4, <1>5, <1>6, <1>7, <1>8, <1>9 DEF IInv

\* A fresh start.
LEMMA InitStep == Init => IInv
<1>. SUFFICES ASSUME Init PROVE IInv
  OBVIOUS
<1>. Chunks \in Nat \ {0} /\ ChunkLen \in Nat \ {0} /\ MaxLines \in Nat
  BY WindowsAssumption DEF WindowsAssumption
<1>1. Typed
  BY DEF Init, Typed, TypeOK, NoFiles, NoHistory, Never
<1>2. Fresh
  BY DEF Init, Fresh
<1>3. Kept
  BY DEF Init, Kept, NoHistory, Entities
<1>4. Phases
  BY <1>2 DEF Phases, Init
<1>5. Hours
  <2>1. chunk = 1 /\ \A s \in StreamSet : DOMAIN files[s] = {}
    BY DEF Init, NoFiles
  <2>2. \A x \in Users \X Objects : past.touch[x] = -1
    BY DEF Init, Never
  <2>3. (chunk - 1) * ChunkLen = 0
    BY <2>1
  <2>. QED BY <2>1, <2>2, <2>3 DEF Hours
<1>. QED BY <1>1, <1>2, <1>3, <1>4, <1>5, Refreshed DEF IInv

\* A line reaches its file.
LEMMA LogStep ==
    ASSUME IInv, NEW k \in Kinds, NEW t \in Ticks, Log(k, t)
    PROVE  IInv'
<1>. USE DEF Log
<1>0. Typed /\ Phases /\ Hours /\ Fresh
  BY DEF IInv, Phases
<1>. DEFINE l == [ts |-> t, kind |-> k]
<1>1. k.stream \in StreamSet /\ l \in Line
  BY KindsAssumption DEF Line
<1>2. files \in [StreamSet -> Seq(Line)] /\ files' = [files EXCEPT ![k.stream] = Append(@, l)]
  BY <1>0, Places
<1>3. files' \in [StreamSet -> Seq(Line)]
  BY <1>1, <1>2
<1>4. Typed'
  <2>1. logged' \in 0..MaxLines
    BY <1>0, WindowsAssumption DEF Typed, TypeOK, WindowsAssumption
  <2>2. \A s \in StreamSet : pos[s] = 0 /\ Len(files'[s]) \in Nat
    BY <1>0, <1>3 DEF Fresh
  <2>3. \A s \in StreamSet : pos[s] <= Len(files'[s])
    BY <2>2
  <2>. QED BY <2>1, <2>3, <1>0, <1>3 DEF Typed, TypeOK
<1>5. Fresh' /\ Kept'
  <2>1. Fresh'
    BY <1>0 DEF Fresh
  <2>2. Kept
    <3>1. \A u \in Users, o \in Objects : Touched(u, o) = {}
      BY <1>0, NothingRead DEF Touched
    <3>. QED BY <3>1 DEF IInv, Firsts, FirstKnown, Kept
  <2>. QED BY <2>1, <2>2 DEF Kept
<1>6. Hours'
  <2>1. ASSUME NEW s \in StreamSet, NEW i \in DOMAIN files'[s]
        PROVE  /\ files'[s][i].ts > (chunk - 1) * ChunkLen /\ files'[s][i].ts <= chunk * ChunkLen
               /\ files'[s][i].kind.stream = s
    <3>1. CASE s = k.stream
      <4>1. files'[s] = Append(files[s], l) /\ files[s] \in Seq(Line)
        BY <1>1, <1>2, <3>1
      <4>2. CASE i \in DOMAIN files[s]
        <5>1. files'[s][i] = files[s][i]
          BY <4>1, <4>2
        <5>. QED BY <5>1, <4>2, <1>0 DEF Hours
      <4>3. CASE i \notin DOMAIN files[s]
        <5>1. files'[s][i] = l
          BY <4>1, <4>3
        <5>. QED BY <5>1, <3>1
      <4>. QED BY <4>2, <4>3
    <3>2. CASE s # k.stream
      <4>1. files'[s] = files[s]
        BY <1>1, <1>2, <3>2
      <4>. QED BY <4>1, <1>0 DEF Hours
    <3>. QED BY <3>1, <3>2
  <2>. QED BY <2>1, <1>0 DEF Hours
<1>7. Phases'
  BY <1>5 DEF Phases
<1>8. (Typed /\ Fresh /\ Kept => Held /\ Firsts /\ Order /\ Slid /\ Table /\ NewnessCausal)'
  BY Refreshed, PTL
<1>. QED BY <1>4, <1>5, <1>6, <1>7, <1>8 DEF IInv

\* The table stands on the lines and on next_b alone.
LEMMA Unmoved ==
    ASSUME UNCHANGED <<chunk, files, rows, past>>
    PROVE  /\ Hours => Hours'
           /\ NewnessCausal => NewnessCausal'
           /\ nextB' = nextB /\ Table => Table'
<1>1. Hours => Hours'
  BY DEF Hours
<1>2. NewnessCausal => NewnessCausal'
  BY DEF NewnessCausal, FirstTouch
<1>3. nextB' = nextB /\ Table => Table'
  <2>1. Evs' = Evs
    BY DEF Evs
  <2>. QED BY <2>1 DEF Table, Fits, Seen
<1>. QED BY <1>1, <1>2, <1>3

\* heapq.merge gives its smallest head to the buffer.
LEMMA ReadStep ==
    ASSUME IInv, NEW s \in StreamSet, Read(s)
    PROVE  IInv'
<1>. USE DEF Read
<1>. DEFINE e == Event(files, s, pos[s] + 1)
<1>0. Typed /\ Held /\ Hours /\ Firsts /\ Order /\ Slid /\ Table /\ NewnessCausal
  BY DEF IInv
<1>1. /\ files \in [StreamSet -> Seq(Line)] /\ pos \in [StreamSet -> Nat]
      /\ Evs \subseteq EventType /\ NoEvent \notin Evs /\ ReadEvs \subseteq Evs
      /\ Lag \in Nat
  BY <1>0, Places
<1>2. pos[s] + 1 \in DOMAIN files[s] /\ pos[s] \in Nat /\ pos[s] + 1 <= Len(files[s])
  <2>1. pos[s] < Len(files[s])
    BY DEF MergeNext, Unread
  <2>2. files[s] \in Seq(Line) /\ pos[s] \in Nat
    BY <1>1
  <2>. QED BY <2>1, <2>2
<1>3. /\ e \in Evs /\ e \in EventType /\ e.at = <<s, pos[s] + 1>> /\ e.ts = Head_(s).ts
  BY <1>0, <1>2, LineEvent DEF Head_
<1>4. /\ pos' = [pos EXCEPT ![s] = @ + 1]
      /\ heap' = heap \union {[event |-> e, seq |-> ReadCount]}
      /\ cur = NoEvent /\ cur' = cur /\ Evs' = Evs
  BY DEF Evs
<1>5. e \notin ReadEvs
  BY <1>2, <1>3 DEF ReadEvs
<1>6. ReadEvs' = ReadEvs \union {e}
  <2>1. ASSUME NEW f \in Evs
        PROVE  f.at[2] <= pos'[f.at[1]] <=> f.at[2] <= pos[f.at[1]] \/ f = e
    <3>1. f.at \in StreamSet \X (Nat \ {0})
      BY <1>1 DEF EventType
    <3>2. CASE f.at[1] # s
      BY <3>1, <3>2, <1>1, <1>3, <1>4
    <3>3. CASE f.at[1] = s
      <4>1. f.at[2] = pos[s] + 1 => f.at = e.at
        BY <3>1, <3>3, <1>3
      <4>2. f.at = e.at => f = e
        BY <1>3, EventAt DEF Evs
      <4>3. pos'[s] = pos[s] + 1 /\ f.at[2] \in Nat
        BY <3>1, <1>1, <1>4
      <4>. QED BY <4>1, <4>2, <4>3, <3>3, <1>2, <1>3
    <3>. QED BY <3>2, <3>3
  <2>2. ReadEvs' = {f \in Evs : f.at[2] <= pos'[f.at[1]]}
    BY <1>4 DEF ReadEvs
  <2>. QED BY <2>1, <2>2, <1>3 DEF ReadEvs
<1>7. HeapEvs' = HeapEvs \union {e}
  <2>1. [event |-> e, seq |-> ReadCount].event = e
    OBVIOUS
  <2>. HIDE DEF e
  <2>2. HeapEvs' = {x.event : x \in heap \union {[event |-> e, seq |-> ReadCount]}}
    BY <1>4 DEF HeapEvs
  <2>. QED BY <2>1, <2>2 DEF HeapEvs
<1>8. Taken' = Taken /\ Ahead' = Ahead
  <2>1. Taken' = Taken
    <3>1. NoEvent \notin ReadEvs /\ e # NoEvent
      BY <1>1, <1>3
    <3>. QED BY <3>1, <1>4, <1>5, <1>6, <1>7 DEF Taken
  <2>. QED BY <2>1, <1>4 DEF Ahead
<1>. HIDE DEF e
<1>9. Typed'
  <2>1. pos' \in [StreamSet -> Nat] /\ \A r \in StreamSet : pos'[r] <= Len(files[r])
    BY <1>0, <1>1, <1>2, <1>4 DEF Typed, TypeOK
  <2>2. ReadCount \in Nat
    BY <1>1 DEF ReadCount, StreamSet
  <2>3. \A x \in heap' : x.event \in EventType /\ x.seq \in Nat
    BY <2>2, <1>0, <1>3, <1>4 DEF Typed, TypeOK
  <2>. QED BY <2>1, <2>3, <1>0 DEF Typed, TypeOK
<1>10. Held'
  <2>1. HeapEvs \subseteq ReadEvs
    BY <1>0 DEF Held
  <2>2. HeapEvs' \subseteq ReadEvs'
    BY <2>1, <1>6, <1>7
  <2>3. ASSUME NEW x \in heap', NEW y \in heap', x.event = y.event PROVE x = y
    <3>1. \A z \in heap : z.event # e
      BY <2>1, <1>5 DEF HeapEvs
    <3>2. \A z \in heap' : z \in heap \/ z = [event |-> e, seq |-> ReadCount]
      BY <1>4
    <3>. QED BY <3>1, <3>2, <2>3, <1>0 DEF Held
  <2>. QED BY <2>2, <2>3, <1>0, <1>4, <1>8 DEF Held
<1>11. Order'
  <2>. SUFFICES ASSUME Sorted(files) PROVE Order'
    BY <1>4 DEF Order
  <2>1. ASSUME NEW u \in Evs \ ReadEvs', NEW r \in ReadEvs' PROVE u.ts >= r.ts - Lag
    <3>1. u \notin ReadEvs /\ u # e
      BY <1>6
    <3>2. CASE r \in ReadEvs
      BY <3>1, <3>2, <1>0 DEF Order
    <3>3. CASE r = e
      <4>1. PICK q \in StreamSet : \E i \in DOMAIN files[q] : u = Event(files, q, i)
        BY <1>0, EventLine
      <4>2. PICK i \in DOMAIN files[q] : u = Event(files, q, i)
        BY <4>1
      <4>3. u.at = <<q, i>> /\ u.ts = files[q][i].ts /\ i \in Nat \ {0} /\ i <= Len(files[q])
        BY <4>2, <1>0, LineEvent
      <4>4. i > pos[q] /\ pos[q] \in Nat
        BY <3>1, <4>3, <1>1 DEF ReadEvs
      <4>5. pos[q] + 1 \in 1..i /\ pos[q] + 1 \in DOMAIN files[q] /\ q \in Unread
        BY <4>3, <4>4, <1>1 DEF Unread
      <4>6. u.ts >= Head_(q).ts - Lag
        BY <4>3, <4>5, <2>1 DEF Sorted, Head_
      <4>7. Head_(q) \in Line /\ Head_(s) \in Line
        BY <4>5, <1>1, <1>2, EventTyped DEF Head_
      <4>8. Head_(q).ts \in Nat /\ Head_(s).ts \in Nat /\ u.ts \in Nat
        BY <4>7, <1>1, EventFields DEF Line, Ticks
      <4>9. Head_(s).ts <= Head_(q).ts
        BY <4>5, <4>8 DEF MergeNext
      <4>. QED BY <4>6, <4>8, <4>9, <3>3, <1>1, <1>3
    <3>. QED BY <3>2, <3>3, <1>6
  <2>2. \A t \in Taken, x \in Ahead : t.ts <= x.ts
    BY <1>0 DEF Order
  <2>. QED BY <2>1, <2>2, <1>4, <1>8 DEF Order
<1>12. Slid'
  BY <1>0, <1>4, <1>8 DEF Slid
<1>13. Phases'
  BY DEF Phases
<1>14. Hours' /\ Table' /\ NewnessCausal'
  BY <1>0, Unmoved
<1>15. Firsts'
  BY <1>0, <1>8, FirstsKept
<1>. QED BY <1>9, <1>10, <1>11, <1>12, <1>13, <1>14, <1>15 DEF IInv

\* The newest time read is that of an event, and no event read is newer.
LEMMA MaxRead ==
    ASSUME Typed, NEW e \in ReadEvs
    PROVE  /\ \E r \in ReadEvs : MaxOf(ReadTimes) = r.ts
           /\ MaxOf(ReadTimes) \in Nat /\ MaxOf(ReadTimes) >= e.ts
<1>1. Evs \subseteq EventType /\ ReadEvs \subseteq Evs /\ pos \in [StreamSet -> Nat]
  BY Places
<1>2. \A t \in ReadTimes : \E r \in ReadEvs : t = r.ts
  <2>. TAKE t \in ReadTimes
  <2>1. PICK p \in StreamSet : t \in {files[p][j].ts : j \in 1..pos[p]}
    BY DEF ReadTimes
  <2>2. PICK j \in 1..pos[p] : t = files[p][j].ts
    BY <2>1
  <2>3. j \in DOMAIN files[p]
    BY <2>2, <1>1 DEF Typed, TypeOK
  <2>4. Event(files, p, j) \in Evs /\ Event(files, p, j).ts = t /\ Event(files, p, j).at = <<p, j>>
    BY <2>2, <2>3, LineEvent
  <2>5. Event(files, p, j) \in ReadEvs
    BY <2>2, <2>4, <1>1 DEF ReadEvs
  <2>. QED BY <2>4, <2>5
<1>3. e.ts \in ReadTimes
  <2>0. e \in Evs
    BY <1>1
  <2>1. PICK p \in StreamSet : \E j \in DOMAIN files[p] : e = Event(files, p, j)
    BY <2>0, EventLine
  <2>2. PICK j \in DOMAIN files[p] : e = Event(files, p, j)
    BY <2>1
  <2>3. e.at = <<p, j>> /\ j \in Nat \ {0} /\ e.ts = files[p][j].ts
    BY <2>2, LineEvent
  <2>4. j \in 1..pos[p]
    BY <2>3, <1>1 DEF ReadEvs
  <2>. DEFINE R(r) == {files[r][m].ts : m \in 1..pos[r]}
  <2>5. e.ts \in R(p) /\ ReadTimes = UNION {R(r) : r \in StreamSet}
    BY <2>3, <2>4 DEF ReadTimes
  <2>. HIDE DEF R
  <2>. QED BY <2>5
<1>4. \A r \in ReadEvs : r.ts \in Nat /\ r.ts <= Chunks * ChunkLen
  BY <1>1, EventFields
<1>5. ReadTimes \in SUBSET Int /\ \A t \in ReadTimes : t <= Chunks * ChunkLen
  BY <1>2, <1>4
<1>6. Chunks * ChunkLen \in Nat
  BY WindowsAssumption DEF WindowsAssumption
<1>7. MaxOf(ReadTimes) \in ReadTimes /\ MaxOf(ReadTimes) >= e.ts
  BY <1>3, <1>5, <1>6, Greatest
<1>. QED BY <1>2, <1>4, <1>7

\* The smallest line in the buffer is handed on once nothing before it can come.
LEMMA DeliverStep ==
    ASSUME IInv, Deliver
    PROVE  IInv'
<1>. USE DEF Deliver
<1>0. Typed /\ Held /\ Hours /\ Firsts /\ Order /\ Slid /\ Table /\ NewnessCausal
  BY DEF IInv
<1>1. /\ files \in [StreamSet -> Seq(Line)] /\ pos \in [StreamSet -> Nat]
      /\ Evs \subseteq EventType /\ NoEvent \notin Evs /\ ReadEvs \subseteq Evs
      /\ Lag \in Nat /\ nextB \in Nat /\ Step \in Nat \ {0} /\ Window \in Nat \ {0}
  BY <1>0, Places
<1>2. PICK x \in heap : /\ Due(x) /\ cur' = x.event /\ heap' = heap \ {x}
                        /\ nextB' = IF nextB = 0 THEN (x.event.ts \div Step + 1) * Step ELSE nextB
  OBVIOUS
<1>. DEFINE e == x.event
<1>3. e \in HeapEvs /\ e \in ReadEvs /\ e \in Evs /\ e \in EventType /\ e.ts \in Nat
  BY <1>0, <1>1, EventFields DEF Held, HeapEvs
<1>4. cur = NoEvent /\ Evs' = Evs /\ ReadEvs' = ReadEvs
  BY DEF Evs, ReadEvs
<1>5. HeapEvs' = HeapEvs \ {e}
  BY <1>0, <1>2 DEF HeapEvs, Held
<1>6. Taken = ReadEvs \ HeapEvs
  BY <1>1, <1>4 DEF Taken
<1>7. Taken' = Taken /\ Ahead' = Ahead
  <2>1. Taken' = Taken
    BY <1>2, <1>3, <1>4, <1>5, <1>6 DEF Taken
  <2>. QED BY <2>1, <1>4 DEF Ahead
<1>8. ASSUME Sorted(files), NEW y \in Ahead PROVE e.ts <= y.ts
  <2>1. y \in Evs /\ y \in EventType /\ y.ts \in Nat
    BY <1>1, EventFields DEF Ahead
  <2>2. CASE y \in HeapEvs
    <3>1. PICK z \in heap : y = z.event
      BY <2>2 DEF HeapEvs
    <3>. QED BY <3>1, <2>1, <1>2, <1>3 DEF Due, HeapTop
  <2>3. CASE y \notin HeapEvs
    <3>1. y \notin ReadEvs
      BY <2>3, <1>6, <2>1 DEF Ahead
    <3>2. PICK q \in StreamSet : \E i \in DOMAIN files[q] : y = Event(files, q, i)
      BY <2>1, <1>0, EventLine
    <3>3. PICK i \in DOMAIN files[q] : y = Event(files, q, i)
      BY <3>2
    <3>4. y.at = <<q, i>> /\ i \in Nat \ {0} /\ i <= Len(files[q])
      BY <3>3, <1>0, LineEvent
    <3>5. q \in Unread
      BY <3>1, <3>4, <2>1, <1>1 DEF ReadEvs, Unread
    <3>6. e.ts <= MaxOf(ReadTimes) - Lag
      BY <3>5, <1>2 DEF Due
    <3>10. PICK r \in ReadEvs : MaxOf(ReadTimes) = r.ts
      BY <1>0, <1>3, MaxRead
    <3>11. y.ts >= r.ts - Lag
      BY <3>1, <2>1, <1>8, <1>0 DEF Order
    <3>12. r.ts \in Nat
      BY <1>1, EventFields
    <3>. QED BY <3>6, <3>10, <3>11, <3>12, <2>1, <1>1, <1>3
  <2>. QED BY <2>2, <2>3
<1>. HIDE DEF e
<1>9. nextB' \in Nat /\ nextB' # 0 /\ nextB' \in Ends
  <2>1. CASE nextB = 0
    <3>1. nextB' = (e.ts \div Step + 1) * Step
      BY <1>2, <2>1 DEF e
    <3>2. nextB' \in Ends
      BY <3>1, <1>3, StepOf
    <3>3. nextB' \in Nat /\ nextB' >= Step
      BY <3>2, EndsType
    <3>. QED BY <3>2, <3>3, <1>1
  <2>2. CASE nextB # 0
    BY <2>2, <1>0, <1>1, <1>2 DEF Slid
  <2>. QED BY <2>1, <2>2
<1>10. Typed'
  BY <1>0, <1>1, <1>2, <1>3, <1>9 DEF Typed, TypeOK, e
<1>11. Held'
  <2>1. HeapEvs' \subseteq ReadEvs'
    BY <1>0, <1>4, <1>5 DEF Held
  <2>2. cur' \in ReadEvs' /\ cur' \notin HeapEvs'
    BY <1>2, <1>3, <1>4, <1>5 DEF e
  <2>. QED BY <2>1, <2>2, <1>0, <1>2, <1>7 DEF Held
<1>12. Order'
  <2>1. cur' = e
    BY <1>2 DEF e
  <2>. QED BY <2>1, <1>0, <1>4, <1>7, <1>8 DEF Order
<1>13. ASSUME Sorted(files), NEW y \in Ahead PROVE y.ts >= nextB' - Step
  <2>1. CASE nextB = 0
    <3>1. nextB' = (e.ts \div Step + 1) * Step
      BY <1>2, <2>1 DEF e
    <3>2. nextB' - Step <= e.ts
      <4>1. (e.ts \div Step) * Step \in Int /\ (e.ts \div Step) * Step <= e.ts
            /\ nextB' = (e.ts \div Step) * Step + Step
        <5>1. e.ts \div Step \in Nat
          BY <1>3, StepOf
        <5>2. (e.ts \div Step) * Step \in Int
          BY <5>1, <1>1
        <5>. QED BY <5>2, <3>1, <1>3, StepOf
      <4>. QED BY <4>1, <1>1, <1>3
    <3>3. e.ts <= y.ts /\ y.ts \in Nat
      BY <1>1, <1>8, <1>13, EventFields DEF Ahead
    <3>. QED BY <3>2, <3>3, <1>1, <1>3, <1>9
  <2>2. CASE nextB # 0
    BY <2>2, <1>0, <1>2, <1>13 DEF Slid
  <2>. QED BY <2>1, <2>2
<1>14. Slid'
  <2>1. ASSUME Sorted(files), NEW t \in Taken, t.ts >= nextB' - Step - Window
        PROVE  \E i \in DOMAIN buf[t.ent] : buf[t.ent][i] = t
    <3>1. nextB # 0
      BY <1>0 DEF Slid
    <3>. QED BY <3>1, <2>1, <1>0, <1>2 DEF Slid
  <2>. QED BY <2>1, <1>0, <1>7, <1>9, <1>13 DEF Slid
<1>15. Hours' /\ NewnessCausal' /\ (nextB' = nextB => Table')
  BY <1>0, Unmoved
<1>16. Table'
  <2>1. CASE nextB # 0
    BY <2>1, <1>2, <1>15
  <2>2. CASE nextB = 0
    <3>1. rows' = {} /\ Taken = {} /\ Ahead = Evs
      BY <2>2, <1>0 DEF Slid, Ahead
    <3>2. ASSUME Sorted(files), NEW ent, NEW b \in Ends, b < nextB', NEW y \in EventsIn(Evs, ent, b - Window)
          PROVE  FALSE
      <4>1. y \in Evs /\ y.ts < b - Window + Window /\ y.ts \in Nat
        BY <3>2, <1>1, EventFields DEF EventsIn
      <4>2. y.ts >= nextB' - Step
        BY <4>1, <3>1, <3>2, <1>13
      <4>3. b <= nextB' - Step /\ b \in Nat
        BY <3>2, <1>9, EndsType
      <4>. QED BY <4>1, <4>2, <4>3, <1>1, <1>9
    <3>3. Sorted(files) => \A ent \in Entities \ {NoOne}, b \in Ends :
                              ~ (b < nextB' /\ EventsIn(Evs, ent, b - Window) # {})
      BY <3>2
    <3>. QED BY <3>1, <3>3, <1>4 DEF Table, Seen
  <2>. QED BY <2>1, <2>2
<1>17. Phases' /\ Firsts'
  BY <1>0, <1>7, FirstsKept DEF Phases
<1>. QED BY <1>10, <1>11, <1>12, <1>14, <1>15, <1>16, <1>17 DEF IInv

\* The event leaves the loop for the deque of its entity and for the history.
LEMMA TakeStep ==
    ASSUME IInv, Take
    PROVE  IInv'
<1>. USE DEF Take
<1>0. Typed /\ Held /\ Hours /\ Firsts /\ Order /\ Slid /\ Table /\ NewnessCausal
  BY DEF IInv
<1>1. /\ Evs \subseteq EventType /\ NoEvent \notin Evs /\ ReadEvs \subseteq Evs
      /\ Taken \subseteq Evs /\ Ahead \subseteq Evs
      /\ buf \in [Entities -> Seq(EventType)]
  BY <1>0, Places
<1>2. cur \in ReadEvs /\ cur \notin HeapEvs /\ cur \in EventType /\ cur.ent \in Entities /\ cur.ts \in Nat
  BY <1>0, <1>1, EventFields DEF Held
<1>3. Evs' = Evs /\ ReadEvs' = ReadEvs /\ HeapEvs' = HeapEvs
  BY DEF Evs, ReadEvs, HeapEvs
<1>4. Taken' = Taken \union {cur} /\ cur \notin Taken /\ cur \in Ahead
  BY <1>1, <1>2, <1>3 DEF Taken, Ahead
<1>5. Ahead' = Ahead \ {cur}
  BY <1>3, <1>4 DEF Ahead
<1>6. nextB # 0 /\ nextB' = nextB
  BY <1>0 DEF Slid
<1>7. \A e \in Entities : buf'[e] = IF e = cur.ent THEN Append(buf[e], cur) ELSE buf[e]
  BY <1>1, <1>2
<1>8. Typed'
  <2>1. buf' \in [Entities -> Seq(EventType)]
    BY <1>1, <1>2
  <2>2. cur.obj \in Objects \union {NoOne} /\ cur.pair \in Pairs \union {NoOne}
    BY <1>2 DEF EventType
  <2>3. /\ hist'.ent = SetDefault(hist.ent, cur.ent, cur.ts)
        /\ hist'.obj = IF cur.obj = NoOne THEN hist.obj
                       ELSE SetDefault(hist.obj, <<cur.ent, cur.obj>>, cur.ts)
        /\ hist'.pair = IF cur.pair = NoOne \/ cur.at[1] # "opa" THEN hist.pair
                        ELSE SetDefault(hist.pair, cur.pair, cur.ts)
    BY DEF Observe
  <2>4. /\ hist.ent \in [Entities -> Nat \union {Never}]
        /\ hist.obj \in [Entities \X Objects -> Nat \union {Never}]
        /\ hist.pair \in [Pairs -> Nat \union {Never}]
    BY <1>0 DEF Typed, TypeOK
  <2>5. hist'.ent \in [Entities -> Nat \union {Never}]
    BY <2>3, <2>4, <1>2 DEF SetDefault
  <2>6. hist'.obj \in [Entities \X Objects -> Nat \union {Never}]
    BY <2>2, <2>3, <2>4, <1>2 DEF SetDefault
  <2>7. hist'.pair \in [Pairs -> Nat \union {Never}]
    BY <2>2, <2>3, <2>4, <1>2 DEF SetDefault
  <2>. QED BY <2>1, <2>5, <2>6, <2>7, <1>0 DEF Typed, TypeOK
<1>9. Held'
  <2>1. ASSUME NEW e \in Entities, NEW i \in DOMAIN buf'[e]
        PROVE  buf'[e][i] \in Taken' /\ buf'[e][i].ent = e
    <3>1. buf[e] \in Seq(EventType)
      BY <1>1
    <3>2. CASE i \in DOMAIN buf[e]
      <4>1. buf'[e][i] = buf[e][i]
        BY <3>1, <3>2, <1>7
      <4>. QED BY <4>1, <3>2, <1>0, <1>4 DEF Held
    <3>3. CASE i \notin DOMAIN buf[e]
      <4>1. e = cur.ent /\ buf'[e][i] = cur
        BY <3>1, <3>3, <1>7
      <4>. QED BY <4>1, <1>4
    <3>. QED BY <3>2, <3>3
  <2>. QED BY <2>1, <1>0, <1>3 DEF Held
<1>10. Order'
  <2>1. ASSUME Sorted(files), NEW t \in Taken', NEW x \in Ahead' PROVE t.ts <= x.ts
    BY <2>1, <1>0, <1>4, <1>5 DEF Order
  <2>. QED BY <2>1, <1>0, <1>3 DEF Order
<1>11. Slid'
  <2>1. ASSUME Sorted(files), NEW e \in Entities, NEW i \in DOMAIN buf'[e], NEW j \in DOMAIN buf'[e], i <= j
        PROVE  buf'[e][i].ts <= buf'[e][j].ts
    <3>1. buf[e] \in Seq(EventType) /\ buf'[e] \in Seq(EventType)
      BY <1>1, <1>2, <1>7
    <3>2. CASE j \in DOMAIN buf[e]
      <4>1. i \in DOMAIN buf[e] /\ buf'[e][i] = buf[e][i] /\ buf'[e][j] = buf[e][j]
        BY <3>1, <3>2, <2>1, <1>7
      <4>. QED BY <4>1, <3>2, <2>1, <1>0 DEF Slid
    <3>3. CASE j \notin DOMAIN buf[e]
      <4>1. buf'[e][j] = cur
        BY <3>1, <3>3, <1>7
      <4>2. CASE i \in DOMAIN buf[e]
        <5>1. buf'[e][i] = buf[e][i] /\ buf[e][i] \in Taken
          BY <3>1, <4>2, <1>0, <1>7 DEF Held
        <5>. QED BY <5>1, <4>1, <2>1, <1>0, <1>4 DEF Order
      <4>3. CASE i \notin DOMAIN buf[e]
        <5>1. buf'[e][i] = cur
          BY <3>1, <4>3, <1>7
        <5>. QED BY <5>1, <4>1, <1>2
      <4>. QED BY <4>2, <4>3
    <3>. QED BY <3>2, <3>3
  <2>2. ASSUME Sorted(files), NEW t \in Taken', t.ts >= nextB - Step - Window
        PROVE  \E i \in DOMAIN buf'[t.ent] : buf'[t.ent][i] = t
    <3>1. t.ent \in Entities /\ buf[t.ent] \in Seq(EventType)
      BY <1>1, <1>2, <1>4, EventFields
    <3>2. CASE t \in Taken
      <4>1. PICK i \in DOMAIN buf[t.ent] : buf[t.ent][i] = t
        BY <3>2, <2>2, <1>0 DEF Slid
      <4>2. i \in DOMAIN buf'[t.ent] /\ buf'[t.ent][i] = t
        BY <4>1, <3>1, <1>7
      <4>. QED BY <4>2
    <3>3. CASE t = cur
      <4>1. buf'[t.ent] = Append(buf[t.ent], t)
        BY <3>1, <3>3, <1>7
      <4>2. Len(buf[t.ent]) + 1 \in DOMAIN buf'[t.ent] /\ buf'[t.ent][Len(buf[t.ent]) + 1] = t
        BY <4>1, <3>1
      <4>. QED BY <4>2
    <3>. QED BY <3>2, <3>3, <1>4
  <2>3. Sorted(files) => \A x \in Ahead' : x.ts >= nextB - Step
    BY <1>0, <1>5, <1>6 DEF Slid
  <2>4. nextB \in Ends
    BY <1>0, <1>6 DEF Slid
  <2>. QED BY <2>1, <2>2, <2>3, <2>4, <1>6 DEF Slid
<1>12. Firsts'
  <2>. SUFFICES ASSUME past.sorted, NEW u \in Users \ past.blind, NEW o \in Objects
                PROVE  FirstKnown(u, o)'
    BY DEF Firsts
  <2>1. FirstKnown(u, o)
    BY <1>0 DEF Firsts
  <2>2. u \in Entities /\ o # NoOne
    BY DEF Entities, Objects
  <2>3. /\ hist.obj \in [Entities \X Objects -> Nat \union {Never}]
        /\ past.touch[<<u, o>>] \in Nat \union {Never}
    BY <1>0 DEF Typed, TypeOK
  <2>4. Touched(u, o)' = IF cur.ent = u /\ cur.obj = o THEN Touched(u, o) \union {cur} ELSE Touched(u, o)
    BY <1>4 DEF Touched
  <2>5. cur.obj \in Objects \union {NoOne}
    BY <1>2 DEF EventType
  <2>6. hist'.obj[<<u, o>>] = IF cur.ent = u /\ cur.obj = o /\ hist.obj[<<u, o>>] = Never
                              THEN cur.ts ELSE hist.obj[<<u, o>>]
    <3>1. hist'.obj = IF cur.obj = NoOne THEN hist.obj
                      ELSE SetDefault(hist.obj, <<cur.ent, cur.obj>>, cur.ts)
      BY DEF Observe
    <3>2. CASE cur.obj = NoOne
      BY <3>1, <3>2, <2>2
    <3>3. CASE cur.obj # NoOne
      BY <3>1, <3>3, <2>2, <2>3, <2>5, <1>2 DEF SetDefault
    <3>. QED BY <3>2, <3>3
  <2>7. Sorted(files) => \A e \in Touched(u, o) : e.ts <= cur.ts
    BY <1>0, <1>4 DEF Order, Touched
  <2>8. hist.obj[<<u, o>>] \in Nat \union {Never} /\ \A e \in Touched(u, o) : e.ts \in Nat
    BY <2>2, <2>3, <1>1, EventFields DEF Touched
  <2>9. CASE past.touch[<<u, o>>] # Never
    BY <2>1, <2>6, <2>9 DEF FirstKnown
  <2>10. CASE past.touch[<<u, o>>] = Never
    <3>1. CASE cur.ent = u /\ cur.obj = o
      <4>1. CASE hist.obj[<<u, o>>] = Never
        <5>1. Touched(u, o)' = {cur} /\ hist'.obj[<<u, o>>] = cur.ts
          BY <2>1, <2>4, <2>6, <2>10, <3>1, <4>1 DEF FirstKnown
        <5>2. cur.ts # Never /\ cur.ts <= cur.ts
          BY <1>2 DEF Never
        <5>. QED BY <5>1, <5>2, <2>10 DEF FirstKnown
      <4>2. CASE hist.obj[<<u, o>>] # Never
        <5>1. Touched(u, o)' = Touched(u, o) \union {cur} /\ hist'.obj[<<u, o>>] = hist.obj[<<u, o>>]
          BY <2>4, <2>6, <3>1, <4>2
        <5>2. PICK e \in Touched(u, o) : hist.obj[<<u, o>>] = e.ts
          BY <2>1, <2>10, <4>2 DEF FirstKnown
        <5>3. Sorted(files) => hist.obj[<<u, o>>] <= cur.ts
          BY <5>2, <2>7
        <5>. QED BY <5>1, <5>2, <5>3, <4>2, <2>1, <2>10 DEF FirstKnown
      <4>. QED BY <4>1, <4>2
    <3>2. CASE ~ (cur.ent = u /\ cur.obj = o)
      <4>1. Touched(u, o)' = Touched(u, o) /\ hist'.obj[<<u, o>>] = hist.obj[<<u, o>>]
        BY <2>4, <2>6, <3>2
      <4>. QED BY <4>1, <2>1, <2>10 DEF FirstKnown
    <3>. QED BY <3>1, <3>2
  <2>. QED BY <2>9, <2>10
<1>13. Hours' /\ Table' /\ NewnessCausal' /\ Phases'
  BY <1>0, Unmoved DEF Phases
<1>. QED BY <1>8, <1>9, <1>10, <1>11, <1>12, <1>13 DEF IInv

-----------------------------------------------------------------------------
(* What a user touched, and what the history knows of it.                    *)

\* A user all of whose lines are recognised has the events of those lines.
LEMMA Recognised ==
    ASSUME Typed, NEW u \in Users \ Blind(files), NEW s \in StreamSet, NEW i \in DOMAIN files[s]
    PROVE  files[s][i].kind.user = u <=> Event(files, s, i).ent = u
<1>. DEFINE l == files[s][i]
<1>1. l \in Line /\ l.kind \in Kinds /\ Event(files, s, i).ent = EntityOf(files, l.kind)
  BY LineEvent DEF Line
<1>2. l \in UNION {LinesOf(files, r) : r \in StreamSet}
  <2>1. l \in LinesOf(files, s)
    BY DEF LinesOf
  <2>. HIDE DEF l
  <2>. QED BY <2>1
<1>. HIDE DEF l
<1>3. UserOf(files, l.kind) # l.kind.user => l.kind.user \in Blind(files)
  BY <1>2 DEF Blind
<1>4. /\ UserOf(files, l.kind) \in {l.kind.user, NoOne}
      /\ EntityOf(files, l.kind) = IF UserOf(files, l.kind) # NoOne THEN l.kind.user ELSE l.kind.svc
  BY <1>1, EntityType
<1>5. l.kind.svc # u
  BY <1>1, NamesAssumption DEF NamesAssumption
<1>6. u # NoOne
  BY DEF Users
<1>. QED BY <1>1, <1>3, <1>4, <1>5, <1>6 DEF l

\* What such a user touched, as events.
LEMMA TouchesAre ==
    ASSUME Typed, NEW u \in Users \ Blind(files), NEW o
    PROVE  /\ \A e \in Evs : e.ent = u /\ e.obj = o => e.ts \in Touches(files, u, o)
           /\ \A t \in Touches(files, u, o) : \E e \in Evs : e.ent = u /\ e.obj = o /\ e.ts = t
<1>1. ASSUME NEW e \in Evs, e.ent = u, e.obj = o PROVE e.ts \in Touches(files, u, o)
  <2>1. PICK s \in StreamSet : \E i \in DOMAIN files[s] : e = Event(files, s, i)
    BY EventLine
  <2>2. PICK i \in DOMAIN files[s] : e = Event(files, s, i)
    BY <2>1
  <2>3. files[s][i].kind.user = u /\ files[s][i].kind.obj = o /\ files[s][i].ts = e.ts
    BY <1>1, <2>2, Recognised, LineEvent
  <2>4. files[s][i] \in LinesOf(files, s)
    BY DEF LinesOf
  <2>5. files[s][i] \in UNION {LinesOf(files, r) : r \in StreamSet}
    BY <2>4
  <2>. QED BY <2>3, <2>5 DEF Touches
<1>2. ASSUME NEW t \in Touches(files, u, o) PROVE \E e \in Evs : e.ent = u /\ e.obj = o /\ e.ts = t
  <2>1. PICK l \in UNION {LinesOf(files, r) : r \in StreamSet} :
           l.kind.user = u /\ l.kind.obj = o /\ l.ts = t
    BY DEF Touches
  <2>2. PICK s \in StreamSet : l \in LinesOf(files, s)
    OBVIOUS
  <2>3. PICK i \in DOMAIN files[s] : l = files[s][i]
    BY <2>2 DEF LinesOf
  <2>4. Event(files, s, i).ent = u
    BY <2>1, <2>3, Recognised
  <2>. QED BY <2>1, <2>3, <2>4, LineEvent
<1>. QED BY <1>1, <1>2

\* The first touch of all chunks is that of the closed ones, if there is one.
LEMMA FirstIs ==
    ASSUME Typed, Hours, NEW u \in Users, NEW o \in Objects
    PROVE  /\ past.touch[<<u, o>>] \in Nat \union {Never}
           /\ past.touch[<<u, o>>] # Never => FirstTouch(u, o) = past.touch[<<u, o>>]
           /\ past.touch[<<u, o>>] = Never /\ Touches(files, u, o) = {} => FirstTouch(u, o) = Never
           /\ past.touch[<<u, o>>] = Never /\ Touches(files, u, o) # {} =>
                 /\ FirstTouch(u, o) \in Touches(files, u, o)
                 /\ \A t \in Touches(files, u, o) : FirstTouch(u, o) <= t
           /\ \A t \in Touches(files, u, o) :
                 t \in Nat /\ t > (chunk - 1) * ChunkLen /\ t <= chunk * ChunkLen
<1>. DEFINE T == Touches(files, u, o)
            p == past.touch[<<u, o>>]
<1>1. p \in Nat \union {Never} /\ p <= (chunk - 1) * ChunkLen
  BY DEF Typed, Hours
<1>2. \A t \in T : t \in Nat /\ t > (chunk - 1) * ChunkLen /\ t <= chunk * ChunkLen
  <2>. TAKE t \in T
  <2>1. PICK l \in UNION {LinesOf(files, r) : r \in StreamSet} : l.ts = t
    BY DEF Touches
  <2>2. PICK s \in StreamSet : l \in LinesOf(files, s)
    OBVIOUS
  <2>3. PICK i \in DOMAIN files[s] : l = files[s][i]
    BY <2>2 DEF LinesOf
  <2>4. files[s][i].ts \in Ticks
    BY LineEvent DEF Line
  <2>. QED BY <2>1, <2>3, <2>4 DEF Hours, Ticks
<1>3. FirstTouch(u, o) = IF T \union ({p} \ {Never}) = {} THEN Never ELSE MinOf(T \union ({p} \ {Never}))
  BY DEF FirstTouch
<1>. HIDE DEF T, p
<1>4. CASE p # Never
  <2>1. T \union ({p} \ {Never}) \in SUBSET Nat /\ p \in T \union ({p} \ {Never})
    BY <1>1, <1>2, <1>4
  <2>2. /\ MinOf(T \union ({p} \ {Never})) \in T \union ({p} \ {Never})
        /\ MinOf(T \union ({p} \ {Never})) <= p
    BY <2>1, Least
  <2>3. (chunk - 1) * ChunkLen \in Int
    <3>1. chunk \in Int /\ ChunkLen \in Int
      BY WindowsAssumption DEF Typed, TypeOK, WindowsAssumption
    <3>. QED BY <3>1
  <2>4. MinOf(T \union ({p} \ {Never})) = p
    BY <2>1, <2>2, <2>3, <1>1, <1>2, <1>4
  <2>. QED BY <2>1, <2>4, <1>1, <1>2, <1>3, <1>4 DEF T, p
<1>5. CASE p = Never
  <2>1. T \union ({p} \ {Never}) = T /\ T \in SUBSET Nat
    BY <1>2, <1>5
  <2>2. T # {} => MinOf(T) \in T /\ \A t \in T : MinOf(T) <= t
    BY <2>1, Least
  <2>. QED BY <2>1, <2>2, <1>1, <1>2, <1>3, <1>5 DEF T, p
<1>. QED BY <1>4, <1>5

-----------------------------------------------------------------------------
(* emit(b): the rows of a window.                                            *)

\* The deque of an entity holds all its events of a window that nothing can still enter.
LEMMA SeenInHand ==
    ASSUME Typed, Held, Slid, Sorted(files), nextB # 0, \A x \in Ahead : x.ts >= nextB,
           NEW ent \in Entities
    PROVE  InWindow(DropOld(buf[ent], nextB - Window), nextB) = Seen(ent, nextB)
<1>. DEFINE q == buf[ent]
            a == nextB - Window
            d == DropOld(q, a)
<1>0. /\ Evs \subseteq EventType /\ Taken \subseteq Evs
      /\ nextB \in Nat /\ Step \in Nat \ {0} /\ Window \in Nat \ {0}
      /\ q \in Seq(EventType) /\ a \in Int
  <2>1. /\ Evs \subseteq EventType /\ Taken \subseteq Evs
        /\ nextB \in Nat /\ Step \in Nat \ {0} /\ Window \in Nat \ {0}
        /\ buf \in [Entities -> Seq(EventType)]
    BY Places
  <2>. QED BY <2>1
<1>1. \A i, j \in DOMAIN q : i <= j => q[i].ts <= q[j].ts
  BY DEF Slid
<1>2. /\ \A j \in DOMAIN d : \E i \in DOMAIN q : d[j] = q[i]
      /\ \A i \in DOMAIN q : q[i].ts >= a => \E j \in DOMAIN d : d[j] = q[i]
      /\ \A j \in DOMAIN d : d[j].ts >= a
  <2>. HIDE DEF q, a
  <2>. QED BY <1>0, <1>1, DropOldType
<1>3. \A i \in DOMAIN q : q[i] \in Taken /\ q[i].ent = ent
  BY DEF Held
<1>. HIDE DEF q, d
<1>4. ASSUME NEW e \in InWindow(d, nextB) PROVE e \in Seen(ent, nextB)
  <2>1. PICK j \in DOMAIN d : e = d[j] /\ d[j].ts < nextB
    BY <1>4 DEF InWindow
  <2>2. e \in Evs /\ e.ent = ent /\ e.ts >= a /\ e.ts \in Nat
    BY <2>1, <1>0, <1>2, <1>3, EventFields
  <2>3. a <= e.ts /\ e.ts < a + Window
    BY <2>1, <2>2, <1>0
  <2>. QED BY <2>2, <2>3 DEF Seen, EventsIn
<1>5. ASSUME NEW e \in Seen(ent, nextB) PROVE e \in InWindow(d, nextB)
  <2>1. e \in Evs /\ e.ent = ent /\ a <= e.ts /\ e.ts < a + Window
    BY DEF Seen, EventsIn
  <2>2. e.ts \in Nat
    BY <2>1, <1>0, EventFields
  <2>3. e.ts < nextB /\ e.ts >= a /\ e.ts >= nextB - Step - Window
    BY <2>1, <2>2, <1>0
  <2>4. e \in Taken
    BY <2>1, <2>2, <2>3, <1>0 DEF Ahead
  <2>5. PICK i \in DOMAIN q : q[i] = e
    BY <2>1, <2>3, <2>4 DEF Slid, q
  <2>6. PICK j \in DOMAIN d : d[j] = e
    BY <2>3, <2>5, <1>2
  <2>. QED BY <2>3, <2>6 DEF InWindow
<1>6. InWindow(d, nextB) = Seen(ent, nextB)
  BY <1>4, <1>5
<1>. QED BY <1>6 DEF d, q

\* What a new row calls new was first touched in its window or later.
LEMMA NewRow ==
    ASSUME Typed, Hours, Firsts, past.sorted, Sorted(files), nextB # 0, \A x \in Ahead : x.ts >= nextB,
           NEW u \in Users \ (past.blind \union Blind(files)),
           NEW o \in {e.obj : e \in Seen(u, nextB)} \ {NoOne}
    PROVE  IsNew(hist.obj[<<u, o>>], nextB - Window) <=> FirstTouch(u, o) >= nextB - Window
<1>0. /\ Evs \subseteq EventType /\ Taken \subseteq Evs
      /\ nextB \in Nat /\ Window \in Nat \ {0}
  BY Places
<1>1. PICK e \in Seen(u, nextB) : e.obj = o
  OBVIOUS
<1>2. e \in Evs /\ e.ent = u /\ e.ts < nextB - Window + Window /\ e.ts \in Nat
  BY <1>0, EventFields DEF Seen, EventsIn
<1>3. e \in Taken
  <2>1. e.ts < nextB
    BY <1>0, <1>2
  <2>. QED BY <2>1, <1>0, <1>2 DEF Ahead
<1>4. e \in Touched(u, o) /\ o \in Objects
  BY <1>0, <1>1, <1>2, <1>3 DEF Touched, EventType
<1>5. FirstKnown(u, o)
  BY <1>4 DEF Firsts
<1>6. u \in Users /\ u \in Users \ Blind(files)
  OBVIOUS
<1>7. CASE past.touch[<<u, o>>] # Never
  <2>1. FirstTouch(u, o) = past.touch[<<u, o>>] /\ hist.obj[<<u, o>>] = past.touch[<<u, o>>]
    BY <1>4, <1>5, <1>6, <1>7, FirstIs DEF FirstKnown
  <2>. QED BY <2>1, <1>7 DEF IsNew
<1>8. CASE past.touch[<<u, o>>] = Never
  <2>. DEFINE h == hist.obj[<<u, o>>]
              f == FirstTouch(u, o)
  <2>1. h # Never /\ (\E d \in Touched(u, o) : h = d.ts) /\ \A d \in Touched(u, o) : h <= d.ts
    BY <1>4, <1>5, <1>8 DEF FirstKnown
  <2>2. PICK d \in Touched(u, o) : h = d.ts
    BY <2>1
  <2>3. d.ts \in Touches(files, u, o)
    BY <2>2, <1>0, <1>6, TouchesAre DEF Touched
  <2>4. f \in Touches(files, u, o) /\ f <= d.ts /\ f \in Nat
    BY <2>3, <1>4, <1>6, <1>8, FirstIs
  <2>5. PICK c \in Evs : c.ent = u /\ c.obj = o /\ c.ts = f
    BY <2>4, <1>6, TouchesAre
  <2>6. d.ts \in Nat /\ h <= e.ts
    BY <2>1, <1>0, <1>4, EventFields DEF Touched
  <2>7. h <= f
    <3>1. CASE c \in Taken
      BY <3>1, <2>1, <2>5 DEF Touched
    <3>2. CASE c \notin Taken
      <4>1. f >= nextB
        BY <3>2, <2>5 DEF Ahead
      <4>. QED BY <4>1, <2>2, <2>4, <2>6, <1>0, <1>2
    <3>. QED BY <3>1, <3>2
  <2>8. h = f
    BY <2>2, <2>4, <2>6, <2>7
  <2>. QED BY <2>1, <2>8 DEF IsNew
<1>. QED BY <1>7, <1>8

\* Emitting the window that ends at next_b, once every line still to come is past it.
LEMMA WindowStep ==
    ASSUME IInv, phase = "build", nextB # 0, Sorted(files) => \A x \in Ahead : x.ts >= nextB,
           EmitWindow, UNCHANGED <<chunk, phase, files, pos, heap, cur, hist, logged, past>>
    PROVE  IInv'
<1>0. Typed /\ Held /\ Hours /\ Firsts /\ Order /\ Slid /\ Table /\ NewnessCausal
  BY DEF IInv
<1>1. /\ Evs \subseteq EventType /\ Taken \subseteq Evs
      /\ nextB \in Nat /\ Step \in Nat \ {0} /\ Window \in Nat \ {0}
      /\ buf \in [Entities -> Seq(EventType)]
  BY <1>0, Places
<1>2. nextB \in Ends /\ nextB' = nextB + Step /\ nextB' \in Ends /\ nextB' \in Nat /\ nextB' # 0
  <2>1. nextB \in Ends /\ nextB' = nextB + Step
    BY <1>0 DEF Slid, EmitWindow
  <2>. QED BY <2>1, <1>1, EndsType
<1>3. /\ Evs' = Evs /\ ReadEvs' = ReadEvs /\ HeapEvs' = HeapEvs /\ Taken' = Taken /\ Ahead' = Ahead
  BY DEF Evs, ReadEvs, HeapEvs, Taken, Ahead
<1>. DEFINE a == nextB - Window
            D(e) == DropOld(buf[e], a)
            W(e) == InWindow(D(e), nextB)
<1>4. buf' = [e \in Entities |-> D(e)]
  BY DEF EmitWindow
<1>5. \A r \in rows' : r \in rows \/ \E e \in Entities \ {NoOne} :
                          W(e) # {} /\ r = RowOf(hist, e, a, W(e), LabelWindow(e, a, nextB, W(e)))
  <2>1. rows' = rows \union
             {RowOf(hist, e, a, InWindow([c \in Entities |-> D(c)][e], nextB),
                    LabelWindow(e, a, nextB, InWindow([c \in Entities |-> D(c)][e], nextB))) :
                e \in {d \in Entities \ {NoOne} : InWindow([c \in Entities |-> D(c)][d], nextB) # {}}}
    BY DEF EmitWindow
  <2>2. \A e \in Entities : InWindow([c \in Entities |-> D(c)][e], nextB) = W(e)
    OBVIOUS
  <2>. HIDE DEF D, W, a
  <2>. QED BY <2>1, <2>2
<1>6. /\ rows \subseteq rows'
      /\ \A e \in Entities \ {NoOne} : W(e) # {} =>
            RowOf(hist, e, a, W(e), LabelWindow(e, a, nextB, W(e))) \in rows'
  <2>1. rows' = rows \union
             {RowOf(hist, e, a, InWindow([c \in Entities |-> D(c)][e], nextB),
                    LabelWindow(e, a, nextB, InWindow([c \in Entities |-> D(c)][e], nextB))) :
                e \in {d \in Entities \ {NoOne} : InWindow([c \in Entities |-> D(c)][d], nextB) # {}}}
    BY DEF EmitWindow
  <2>2. \A e \in Entities : InWindow([c \in Entities |-> D(c)][e], nextB) = W(e)
    OBVIOUS
  <2>. HIDE DEF D, W, a
  <2>. QED BY <2>1, <2>2
<1>7. a \in Int
  BY <1>1
<1>8. Sorted(files) => \A e \in Entities : W(e) = Seen(e, nextB)
  BY <1>0, SeenInHand
<1>9. \A e \in Entities : /\ D(e) \in Seq(EventType)
                          /\ \A j \in DOMAIN D(e) : \E i \in DOMAIN buf[e] : D(e)[j] = buf[e][i]
  <2>. TAKE e \in Entities
  <2>1. buf[e] \in Seq(EventType)
    BY <1>1
  <2>. HIDE DEF a
  <2>. QED BY <2>1, <1>7, DropOldType
<1>10. ASSUME Sorted(files), NEW e \in Entities
       PROVE  /\ \A i, j \in DOMAIN D(e) : i <= j => D(e)[i].ts <= D(e)[j].ts
              /\ \A i \in DOMAIN buf[e] : buf[e][i].ts >= a => \E j \in DOMAIN D(e) : D(e)[j] = buf[e][i]
  <2>1. buf[e] \in Seq(EventType)
    BY <1>1
  <2>2. \A i, j \in DOMAIN buf[e] : i <= j => buf[e][i].ts <= buf[e][j].ts
    BY <1>0, <1>10 DEF Slid
  <2>. HIDE DEF a
  <2>. QED BY <2>1, <2>2, <1>7, DropOldType
<1>. HIDE DEF D, W
<1>11. Typed'
  BY <1>0, <1>2, <1>4, <1>9 DEF Typed, TypeOK
<1>12. Held'
  <2>1. \A e \in Entities : \A i \in DOMAIN buf'[e] : buf'[e][i] \in Taken /\ buf'[e][i].ent = e
    BY <1>0, <1>4, <1>9 DEF Held
  <2>. QED BY <2>1, <1>0, <1>3 DEF Held
<1>13. Order'
  BY <1>0, <1>3 DEF Order
<1>14. Slid'
  <2>1. ASSUME Sorted(files), NEW t \in Taken, t.ts >= nextB' - Step - Window
        PROVE  \E i \in DOMAIN buf'[t.ent] : buf'[t.ent][i] = t
    <3>1. t.ent \in Entities /\ t.ts \in Nat
      BY <1>1, EventFields
    <3>2. t.ts >= a /\ t.ts >= nextB - Step - Window
      BY <2>1, <3>1, <1>1, <1>2
    <3>3. PICK i \in DOMAIN buf[t.ent] : buf[t.ent][i] = t
      BY <2>1, <3>2, <1>0 DEF Slid
    <3>. QED BY <3>1, <3>2, <3>3, <2>1, <1>4, <1>10
  <2>2. Sorted(files) => \A x \in Ahead : x.ts >= nextB' - Step
    <3>1. nextB' - Step = nextB
      BY <1>1, <1>2
    <3>. QED BY <3>1
  <2>3. Sorted(files) => \A e \in Entities : \A i, j \in DOMAIN buf'[e] :
                             i <= j => buf'[e][i].ts <= buf'[e][j].ts
    BY <1>4, <1>10
  <2>. QED BY <2>1, <2>2, <2>3, <1>2, <1>3 DEF Slid
<1>15. ASSUME Sorted(files), NEW r \in rows', r \notin rows, NEW b \in Ends, b = nextB PROVE Fits(r, b)'
  <2>1. PICK e \in Entities \ {NoOne} :
           W(e) # {} /\ r = RowOf(hist, e, a, W(e), LabelWindow(e, a, nextB, W(e)))
    BY <1>5, <1>15
  <2>2. W(e) = Seen(e, nextB)
    BY <1>8, <1>15
  <2>3. /\ r.ent = e /\ r.a = a /\ r.evs = {x.at : x \in Seen(e, nextB)}
        /\ r.objs = {x.obj : x \in Seen(e, nextB)} \ {NoOne}
        /\ r.label = LabelWindow(e, a, nextB, Seen(e, nextB))
    BY <2>1, <2>2 DEF RowOf
  <2>4. nextB < nextB'
    BY <1>1, <1>2
  <2>. QED BY <2>1, <2>2, <2>3, <2>4, <1>3, <1>15 DEF Fits, Seen
<1>16. ASSUME NEW r, NEW b \in Ends, Fits(r, b) PROVE Fits(r, b)'
  <2>1. b < nextB'
    BY <1>1, <1>2, <1>16, EndsType DEF Fits
  <2>. QED BY <2>1, <1>3, <1>16 DEF Fits, Seen
<1>17. Table'
  <2>1. ASSUME Sorted(files), NEW r \in rows' PROVE \E b \in Ends : Fits(r, b)'
    BY <2>1, <1>0, <1>2, <1>15, <1>16 DEF Table
  <2>2. ASSUME Sorted(files), NEW ent \in Entities \ {NoOne}, NEW b \in Ends, b < nextB', Seen(ent, b) # {}
        PROVE  \E r \in rows' : r.ent = ent /\ r.a = b - Window
    <3>1. CASE b < nextB
      BY <3>1, <2>2, <1>0, <1>6 DEF Table
    <3>2. CASE ~ (b < nextB)
      <4>1. b = nextB
        BY <3>2, <2>2, <1>1, <1>2, EndsType
      <4>2. W(ent) # {}
        BY <4>1, <2>2, <1>8
      <4>3. RowOf(hist, ent, a, W(ent), LabelWindow(ent, a, nextB, W(ent))) \in rows'
        BY <4>2, <1>6
      <4>. QED BY <4>1, <4>3 DEF RowOf
    <3>. QED BY <3>1, <3>2
  <2>3. \A ent, b : Seen(ent, b)' = Seen(ent, b)
    BY <1>3 DEF Seen
  <2>. QED BY <2>1, <2>2, <2>3 DEF Table
<1>18. NewnessCausal'
  <2>1. \A u, o : FirstTouch(u, o)' = FirstTouch(u, o)
    BY DEF FirstTouch
  <2>2. ASSUME past.sorted, Sorted(files), NEW r \in rows', r.ent \in Users \ (past.blind \union Blind(files))
        PROVE  r.newObjs = {o \in r.objs : FirstTouch(r.ent, o) >= r.a}
    <3>1. CASE r \in rows
      BY <3>1, <2>2, <1>0 DEF NewnessCausal
    <3>2. CASE r \notin rows
      <4>1. PICK e \in Entities \ {NoOne} :
               W(e) # {} /\ r = RowOf(hist, e, a, W(e), LabelWindow(e, a, nextB, W(e)))
        BY <1>5, <3>2
      <4>2. W(e) = Seen(e, nextB)
        BY <1>8, <2>2
      <4>3. /\ r.ent = e /\ r.a = a /\ r.objs = {x.obj : x \in Seen(e, nextB)} \ {NoOne}
            /\ r.newObjs = {o \in {x.obj : x \in Seen(e, nextB)} \ {NoOne} : IsNew(hist.obj[<<e, o>>], a)}
        BY <4>1, <4>2 DEF RowOf
      <4>4. \A o \in r.objs : IsNew(hist.obj[<<e, o>>], a) <=> FirstTouch(e, o) >= a
        BY <4>3, <2>2, <1>0, NewRow
      <4>. QED BY <4>3, <4>4
    <3>. QED BY <3>1, <3>2
  <2>. QED BY <2>1, <2>2 DEF NewnessCausal
<1>19. Phases' /\ Hours' /\ Firsts'
  BY <1>0, <1>3, FirstsKept DEF Phases, Hours
<1>. QED BY <1>11, <1>12, <1>13, <1>14, <1>17, <1>18, <1>19 DEF IInv

\* At the end of the files everything was taken.
LEMMA AllTaken ==
    ASSUME Typed, Unread = {}, heap = {}, cur = NoEvent
    PROVE  ReadEvs = Evs /\ Taken = Evs /\ Ahead = {}
<1>1. ASSUME NEW e \in Evs PROVE e \in ReadEvs
  <2>1. PICK s \in StreamSet : \E i \in DOMAIN files[s] : e = Event(files, s, i)
    BY EventLine
  <2>2. PICK i \in DOMAIN files[s] : e = Event(files, s, i)
    BY <2>1
  <2>3. e.at = <<s, i>> /\ i \in Nat \ {0} /\ i <= Len(files[s])
    BY <2>2, LineEvent
  <2>4. pos[s] \in Nat /\ Len(files[s]) \in Nat /\ ~ (pos[s] < Len(files[s]))
    BY Places DEF Unread
  <2>. QED BY <2>3, <2>4 DEF ReadEvs
<1>2. ReadEvs = Evs
  BY <1>1 DEF ReadEvs
<1>3. Taken = Evs
  BY <1>2, Places DEF Taken, HeapEvs
<1>. QED BY <1>2, <1>3 DEF Ahead

\* A window boundary before the event in hand: the rows of one end are emitted.
LEMMA EmitStep ==
    ASSUME IInv, Emit
    PROVE  IInv'
<1>. USE DEF Emit
<1>1. Typed /\ Held /\ Order /\ Slid /\ Evs \subseteq EventType /\ Ahead \subseteq Evs /\ nextB \in Nat
  BY Places DEF IInv
<1>2. nextB # 0
  BY <1>1 DEF Slid
<1>3. cur.ts \in Nat
  BY <1>1, EventFields DEF Typed, TypeOK
<1>4. ASSUME Sorted(files), NEW x \in Ahead PROVE x.ts >= nextB
  <2>1. cur.ts <= x.ts
    BY <1>1, <1>4 DEF Order
  <2>2. x.ts \in Nat
    BY <1>1, EventFields
  <2>. QED BY <2>1, <2>2, <1>1, <1>3
<1>. QED BY <1>2, <1>4, WindowStep

\* The flush after the last event goes on one end at a time.
LEMMA FlushStep ==
    ASSUME IInv, Flush
    PROVE  IInv'
<1>. USE DEF Flush
<1>1. Ahead = {} /\ nextB # 0 /\ phase = "build"
  BY AllTaken DEF IInv, AtEnd, Flushing
<1>. QED BY <1>1, WindowStep

\* The table is begun: nothing has been read of it.
LEMMA BuildStep ==
    ASSUME IInv, Build
    PROVE  IInv'
BY PhaseStep DEF Build, Phases

\* The chunk closes when everything was read, taken up and flushed.
LEMMA CloseStep ==
    ASSUME IInv, Close
    PROVE  IInv'
<1>1. Phases'
  <2>1. Flushing' = Flushing /\ Unread' = Unread
    BY DEF Close, Flushing, LastB, ReadTimes, Unread
  <2>. QED BY <2>1 DEF Close, AtEnd, Phases
<1>. QED BY <1>1, PhaseStep DEF Close

\* The table is left behind, and the history goes on with what the chunk showed.
LEMMA NextChunkStep ==
    ASSUME IInv, NextChunk
    PROVE  IInv'
<1>. USE DEF NextChunk
<1>0. Typed /\ Hours /\ Firsts
  BY DEF IInv
<1>1. Unread = {} /\ heap = {} /\ cur = NoEvent
  BY DEF IInv, Phases
<1>2. Taken = Evs /\ Evs \subseteq EventType
  BY <1>0, <1>1, AllTaken, Places
<1>3. chunk \in Nat /\ chunk' = chunk + 1 /\ chunk' \in 1..Chunks /\ ChunkLen \in Nat /\ Chunks \in Nat
  BY <1>0, WindowsAssumption DEF Typed, TypeOK, WindowsAssumption
<1>4. \A s \in StreamSet : files'[s] = <<>> /\ pos'[s] = 0
  BY DEF NoFiles
<1>5. ASSUME NEW u \in Users, NEW o \in Objects
      PROVE  /\ past'.touch[<<u, o>>] = FirstTouch(u, o)
             /\ FirstTouch(u, o) \in Nat \union {Never}
             /\ FirstTouch(u, o) <= chunk * ChunkLen
  <2>1. past'.touch[<<u, o>>] = FirstTouch(u, o)
    BY DEF FirstTouch
  <2>2. /\ past.touch[<<u, o>>] \in Nat \union {Never}
        /\ past.touch[<<u, o>>] <= (chunk - 1) * ChunkLen
    BY <1>0 DEF Typed, Hours
  <2>3. (chunk - 1) * ChunkLen \in Int /\ (chunk - 1) * ChunkLen <= chunk * ChunkLen /\ 0 <= chunk * ChunkLen
        /\ chunk * ChunkLen \in Int
    BY <1>3
  <2>4. \/ FirstTouch(u, o) = past.touch[<<u, o>>]
        \/ FirstTouch(u, o) = Never
        \/ FirstTouch(u, o) \in Touches(files, u, o)
    BY <1>0, FirstIs
  <2>5. \A t \in Touches(files, u, o) : t \in Nat /\ t <= chunk * ChunkLen
    BY <1>0, FirstIs
  <2>. QED BY <2>1, <2>2, <2>3, <2>4, <2>5 DEF Never
<1>6. Typed'
  <2>1. files' \in [StreamSet -> Seq(Line)] /\ pos' \in [StreamSet -> Nat]
        /\ buf' \in [Entities -> Seq(EventType)]
    BY DEF NoFiles
  <2>2. past'.touch \in [Users \X Objects -> Nat \union {Never}]
    <3>1. past'.touch = [x \in Users \X Objects |-> FirstTouch(x[1], x[2])]
      OBVIOUS
    <3>. QED BY <3>1, <1>5
  <2>3. past'.sorted \in BOOLEAN
    BY <1>0 DEF Typed, Sorted
  <2>4. \A s \in StreamSet : pos'[s] <= Len(files'[s])
    BY <1>4
  <2>. QED BY <2>1, <2>2, <2>3, <2>4, <1>0, <1>3 DEF Typed, TypeOK
<1>7. Fresh'
  BY <1>1, <1>4 DEF Fresh
<1>8. Hours'
  <2>1. \A x \in Users \X Objects : past'.touch[x] <= (chunk' - 1) * ChunkLen
    <3>1. chunk' - 1 = chunk
      BY <1>3
    <3>2. ASSUME NEW x \in Users \X Objects PROVE past'.touch[x] <= chunk * ChunkLen
      <4>1. PICK u \in Users, o \in Objects : x = <<u, o>>
        OBVIOUS
      <4>. QED BY <4>1, <1>5
    <3>. QED BY <3>1, <3>2
  <2>. QED BY <2>1, <1>4 DEF Hours
<1>9. ASSUME past'.sorted, NEW u \in Users \ past'.blind, NEW o \in Objects
      PROVE  hist.obj[<<u, o>>] = FirstTouch(u, o)
  <2>1. past.sorted /\ Sorted(files) /\ u \in Users \ past.blind /\ u \in Users \ Blind(files)
    BY <1>9
  <2>2. FirstKnown(u, o)
    BY <2>1, <1>0 DEF Firsts
  <2>3. CASE past.touch[<<u, o>>] # Never
    BY <2>2, <2>3, <1>0, FirstIs DEF FirstKnown
  <2>4. CASE past.touch[<<u, o>>] = Never /\ hist.obj[<<u, o>>] = Never
    <3>1. Touched(u, o) = {}
      BY <2>2, <2>4 DEF FirstKnown
    <3>2. Touches(files, u, o) = {}
      BY <3>1, <2>1, <1>0, <1>2, TouchesAre DEF Touched
    <3>. QED BY <3>2, <2>4, <1>0, FirstIs
  <2>5. CASE past.touch[<<u, o>>] = Never /\ hist.obj[<<u, o>>] # Never
    <3>1. PICK e \in Touched(u, o) : hist.obj[<<u, o>>] = e.ts
      BY <2>2, <2>5 DEF FirstKnown
    <3>2. e.ts \in Touches(files, u, o) /\ e.ts \in Nat
      BY <3>1, <2>1, <1>0, <1>2, TouchesAre, EventFields DEF Touched
    <3>3. FirstTouch(u, o) \in Touches(files, u, o) /\ FirstTouch(u, o) <= e.ts
      BY <3>2, <2>5, <1>0, FirstIs
    <3>4. PICK c \in Evs : c.ent = u /\ c.obj = o /\ c.ts = FirstTouch(u, o)
      BY <3>3, <2>1, <1>0, TouchesAre
    <3>5. hist.obj[<<u, o>>] <= c.ts
      BY <3>4, <2>1, <2>2, <2>5, <1>2 DEF FirstKnown, Touched
    <3>6. c.ts \in Nat
      BY <1>2, EventFields
    <3>. QED BY <3>1, <3>2, <3>3, <3>4, <3>5, <3>6
  <2>. QED BY <2>3, <2>4, <2>5
<1>10. Phases' /\ Kept'
  <2>1. hist' = hist /\ phase' = "export"
    OBVIOUS
  <2>. HIDE DEF NextChunk
  <2>2. past'.sorted => \A u \in Users \ past'.blind, o \in Objects :
           hist'.obj[<<u, o>>] = past'.touch[<<u, o>>]
    BY <2>1, <1>5, <1>9
  <2>3. Kept'
    BY <2>2 DEF Kept
  <2>. QED BY <2>1, <2>3, <1>7 DEF Phases
<1>11. (Typed /\ Fresh /\ Kept => Held /\ Firsts /\ Order /\ Slid /\ Table /\ NewnessCausal)'
  BY Refreshed, PTL
<1>. QED BY <1>6, <1>7, <1>8, <1>10, <1>11 DEF IInv

\* Every step of the collection keeps the invariant.
LEMMA NextStep ==
    ASSUME IInv, Next
    PROVE  IInv'
<1>1. CASE \E k \in Kinds, t \in Ticks : Log(k, t)
  BY <1>1, LogStep
<1>2. CASE Build
  BY <1>2, BuildStep
<1>3. CASE \E s \in StreamSet : Read(s)
  BY <1>3, ReadStep
<1>4. CASE Deliver
  BY <1>4, DeliverStep
<1>5. CASE Emit
  BY <1>5, EmitStep
<1>6. CASE Take
  BY <1>6, TakeStep
<1>7. CASE Flush
  BY <1>7, FlushStep
<1>8. CASE Close
  BY <1>8, CloseStep
<1>9. CASE NextChunk
  BY <1>9, NextChunkStep
<1>. QED BY <1>1, <1>2, <1>3, <1>4, <1>5, <1>6, <1>7, <1>8, <1>9 DEF Next

\* A step that moves none of the variables of FeatureWindows.
LEMMA StutterStep ==
    ASSUME IInv, UNCHANGED vars
    PROVE  IInv'
<1>1. Phases'
  <2>1. Flushing' = Flushing /\ Unread' = Unread
    BY DEF vars, Flushing, LastB, ReadTimes, Unread
  <2>2. Fresh' = Fresh
    BY DEF vars, Fresh
  <2>. QED BY <2>1, <2>2 DEF IInv, Phases, vars
<1>2. phase \in {"export", "build", "closed", "scored"}
  BY DEF IInv, Typed, TypeOK
<1>. QED BY <1>1, <1>2, PhaseStep DEF vars

\* The scoring service moves the phase alone.
LEMMA ScoreStep ==
    ASSUME IInv, [ScoreNext]_scoreVars
    PROVE  IInv'
<1>1. CASE Collect
  BY <1>1, NextStep DEF Collect
<1>2. ASSUME NEW now \in Ticks, NEW cut \in StreamSet, NEW n \in 0..MaxLines, RunOnce(now, cut, n)
      PROVE  IInv'
  <2>1. Phases'
    <3>1. Fresh' = Fresh
      BY <1>2 DEF RunOnce, Fresh
    <3>. QED BY <1>2, <3>1 DEF RunOnce, IInv, Phases
  <2>. QED BY <1>2, <2>1, PhaseStep DEF RunOnce
<1>3. CASE Sleep
  <2>1. Phases'
    <3>1. Fresh' = Fresh
      BY <1>3 DEF Sleep, Fresh
    <3>. QED BY <1>3, <3>1 DEF Sleep, IInv, Phases
  <2>. QED BY <1>3, <2>1, PhaseStep DEF Sleep
<1>4. CASE UNCHANGED scoreVars
  BY <1>4, StutterStep DEF scoreVars
<1>. QED BY <1>1, <1>2, <1>3, <1>4 DEF ScoreNext

\* The state of the stream between any two events, across chunks and across score cycles.
THEOREM Inductive == ScoreSpec => []IInv
<1>1. ScoreInit => IInv
  BY InitStep DEF ScoreInit
<1>2. IInv /\ [ScoreNext]_scoreVars => IInv'
  BY ScoreStep
<1>. QED BY <1>1, <1>2, PTL DEF ScoreSpec

-----------------------------------------------------------------------------
(* The table of a finished chunk.                                            *)

\* The step an end of a window belongs to.
LEMMA StartEnds ==
    ASSUME NEW a \in WindowStarts
    PROVE  a \in Int /\ a + Window \in Ends /\ (a + Window) - Window = a
<1>1. PICK n \in 1..((Chunks * ChunkLen + Window) \div Step + 1) : a = n * Step - Window
  BY DEF WindowStarts
<1>2. Window \in Nat /\ Step \in Nat \ {0} /\ Chunks * ChunkLen + Window \in Nat
  BY WindowsAssumption DEF WindowsAssumption
<1>3. (Chunks * ChunkLen + Window) \div Step \in Nat
  BY <1>2, StepOf
<1>4. n \in Nat \ {0} /\ n * Step \in Nat
  BY <1>1, <1>2, <1>3
<1>5. a + Window = n * Step /\ a \in Int
  BY <1>1, <1>2, <1>4
<1>. QED BY <1>2, <1>4, <1>5 DEF Ends

\* A window with an event in it is one of the windows of the chunk.
LEMMA EndStarts ==
    ASSUME NEW b \in Ends, NEW e \in EventType, b - Window <= e.ts
    PROVE  b - Window \in WindowStarts
<1>1. PICK n \in Nat \ {0} : b = n * Step
  BY DEF Ends
<1>2. Window \in Nat /\ Step \in Nat \ {0} /\ Chunks * ChunkLen + Window \in Nat /\ Chunks * ChunkLen \in Nat
  BY WindowsAssumption DEF WindowsAssumption
<1>3. e.ts \in Nat /\ e.ts <= Chunks * ChunkLen
  BY EventFields
<1>4. n * Step <= Chunks * ChunkLen + Window
  BY <1>1, <1>2, <1>3, EndsType
<1>5. n <= (Chunks * ChunkLen + Window) \div Step /\ (Chunks * ChunkLen + Window) \div Step \in Nat
  BY <1>2, <1>4, StepsBelow, StepOf
<1>6. n \in 1..((Chunks * ChunkLen + Window) \div Step + 1)
  BY <1>5
<1>. QED BY <1>1, <1>6 DEF WindowStarts

\* The rows of a finished chunk are its windows, each with what the window holds.
LEMMA ClosedRows ==
    ASSUME IInv, phase = "closed", Sorted(files)
    PROVE  /\ \A ent \in Entities \ {NoOne}, a \in WindowStarts :
                 EventsIn(Evs, ent, a) # {} => \E r \in rows : r.ent = ent /\ r.a = a
           /\ \A r \in rows :
                 /\ r.ent \in Entities \ {NoOne} /\ r.a \in WindowStarts
                 /\ EventsIn(Evs, r.ent, r.a) # {}
                 /\ r.evs = {e.at : e \in EventsIn(Evs, r.ent, r.a)}
                 /\ r.label = LabelWindow(r.ent, r.a, r.a + Window, EventsIn(Evs, r.ent, r.a))
<1>0. Typed /\ Held /\ Slid /\ Table
  BY DEF IInv
<1>1. /\ Evs \subseteq EventType /\ nextB \in Nat
      /\ Window \in Nat \ {0} /\ Step \in Nat \ {0}
      /\ buf \in [Entities -> Seq(EventType)]
  BY <1>0, Places
<1>2. ~ Flushing /\ ReadEvs = Evs /\ Taken = Evs
  BY <1>0, AllTaken DEF IInv, Phases
<1>3. ASSUME NEW ent \in Entities \ {NoOne}, NEW a \in WindowStarts, EventsIn(Evs, ent, a) # {}
      PROVE  \E r \in rows : r.ent = ent /\ r.a = a
  <2>. DEFINE b == a + Window
  <2>1. a \in Int /\ b \in Ends /\ b - Window = a /\ b \in Nat
    BY StartEnds, EndsType
  <2>2. Seen(ent, b) # {}
    BY <1>3, <2>1 DEF Seen
  <2>3. PICK e \in Evs : e.ent = ent /\ a <= e.ts
    BY <1>3 DEF EventsIn
  <2>4. e.ts \in Nat /\ e \in EventType
    BY <1>1, EventFields
  <2>5. nextB # 0
    BY <1>0, <1>2 DEF Slid
  <2>6. b < nextB
    <3>. SUFFICES ASSUME ~ (b < nextB) PROVE FALSE
      OBVIOUS
    <3>1. e.ts >= nextB - Window /\ e.ts >= nextB - Step - Window
      BY <1>1, <2>1, <2>3, <2>4
    <3>2. PICK i \in DOMAIN buf[e.ent] : buf[e.ent][i] = e
      BY <3>1, <1>0, <1>2 DEF Slid
    <3>3. buf[e.ent] # <<>>
      BY <3>2
    <3>4. ~ (nextB <= LastB)
      BY <3>3, <2>3, <2>5, <1>2 DEF Flushing
    <3>5. MaxOf(ReadTimes) \in Nat /\ MaxOf(ReadTimes) >= e.ts
      BY <1>0, <1>2, MaxRead
    <3>6. /\ (MaxOf(ReadTimes) \div Step + 1) * Step > MaxOf(ReadTimes)
          /\ (MaxOf(ReadTimes) \div Step + 1) * Step \in Nat
      BY <3>5, StepOf, EndsType
    <3>7. LastB \in Nat /\ LastB > e.ts + Window
      <4>. DEFINE x == (MaxOf(ReadTimes) \div Step + 1) * Step
      <4>1. x \in Nat /\ x > e.ts /\ LastB = x + Window
        BY <3>5, <3>6, <2>4 DEF LastB
      <4>. HIDE DEF x
      <4>. QED BY <4>1, <2>4, <1>1
    <3>. QED BY <3>1, <3>4, <3>7, <2>4, <1>1
  <2>. QED BY <2>1, <2>2, <2>6, <1>0 DEF Table
<1>4. ASSUME NEW r \in rows
      PROVE  /\ r.ent \in Entities \ {NoOne} /\ r.a \in WindowStarts
             /\ EventsIn(Evs, r.ent, r.a) # {}
             /\ r.evs = {e.at : e \in EventsIn(Evs, r.ent, r.a)}
             /\ r.label = LabelWindow(r.ent, r.a, r.a + Window, EventsIn(Evs, r.ent, r.a))
  <2>1. PICK b \in Ends : Fits(r, b)
    BY <1>0 DEF Table
  <2>2. b \in Nat /\ r.a = b - Window /\ r.a + Window = b
    <3>1. b \in Nat
      BY EndsType
    <3>2. r.a = b - Window
      BY <2>1 DEF Fits
    <3>. QED BY <3>1, <3>2, <1>1
  <2>3. PICK e \in Evs : b - Window <= e.ts
    BY <2>1 DEF Fits, Seen, EventsIn
  <2>4. r.a \in WindowStarts
    BY <2>2, <2>3, <1>1, EndStarts
  <2>. QED BY <2>1, <2>2, <2>4 DEF Fits, Seen
<1>. QED BY <1>3, <1>4

\* The table of a sorted chunk is the reference table.
LEMMA IsExact ==
    ASSUME IInv
    PROVE  RowsExact
<1>. SUFFICES ASSUME phase = "closed", Sorted(files)
              PROVE  {<<r.ent, r.a, r.evs>> : r \in rows} =
                     {<<x[1], x[2], {e.at : e \in EventsIn(Evs, x[1], x[2])}>> : x \in Windows(Evs)}
  BY DEF RowsExact, Evs
<1>. DEFINE Of(x) == <<x[1], x[2], {e.at : e \in EventsIn(Evs, x[1], x[2])}>>
<1>0. Evs \subseteq EventType
  BY Places DEF IInv
<1>1. ASSUME NEW r \in rows PROVE \E x \in Windows(Evs) : <<r.ent, r.a, r.evs>> = Of(x)
  <2>1. /\ r.ent # NoOne /\ r.a \in WindowStarts /\ EventsIn(Evs, r.ent, r.a) # {}
        /\ r.evs = {e.at : e \in EventsIn(Evs, r.ent, r.a)}
    BY ClosedRows
  <2>2. PICK e \in Evs : e.ent = r.ent
    BY <2>1 DEF EventsIn
  <2>3. <<r.ent, r.a>> \in {<<d.ent, a>> : d \in Evs, a \in WindowStarts}
    BY <2>1, <2>2
  <2>4. <<r.ent, r.a>> \in Windows(Evs)
    BY <2>1, <2>3 DEF Windows
  <2>5. <<r.ent, r.a, r.evs>> = Of(<<r.ent, r.a>>)
    BY <2>1
  <2>. QED BY <2>4, <2>5
<1>2. ASSUME NEW x \in Windows(Evs) PROVE \E r \in rows : <<r.ent, r.a, r.evs>> = Of(x)
  <2>1. /\ x \in {<<d.ent, a>> : d \in Evs, a \in WindowStarts}
        /\ x[1] # NoOne /\ EventsIn(Evs, x[1], x[2]) # {}
    BY DEF Windows
  <2>2. PICK d \in Evs, a \in WindowStarts : x = <<d.ent, a>>
    BY <2>1
  <2>3. x[1] \in Entities \ {NoOne} /\ x[2] \in WindowStarts
    BY <2>1, <2>2, <1>0, EventFields
  <2>4. PICK r \in rows : r.ent = x[1] /\ r.a = x[2]
    BY <2>1, <2>3, ClosedRows
  <2>. QED BY <2>4, ClosedRows
<1>. HIDE DEF Of
<1>3. {<<r.ent, r.a, r.evs>> : r \in rows} = {Of(x) : x \in Windows(Evs)}
  BY <1>1, <1>2
<1>. QED BY <1>3 DEF Of

-----------------------------------------------------------------------------
(* The labels.                                                               *)

\* No run is longer than max_len.
LEMMA MaxLenIs ==
    ASSUME NEW r \in Runs
    PROVE  r.t1 - r.t0 <= MaxLen /\ MaxLen \in Int
<1>. DEFINE L(q) == q.t1 - q.t0
            longer == [q \in Runs |-> {p \in Runs : L(p) > L(q)}]
            ranks == {Cardinality(longer[q]) : q \in Runs}
<1>1. IsFiniteSet(Runs) /\ \A q \in Runs : q.t0 \in Nat /\ q.t1 \in Nat
  BY RunsAssumption DEF RunsAssumption
<1>2. \A q \in Runs : L(q) \in Int
  BY <1>1
<1>. HIDE DEF L
<1>3. \A q \in Runs : longer[q] \in SUBSET Runs /\ IsFiniteSet(longer[q]) /\ Cardinality(longer[q]) \in Nat
  <2>. TAKE q \in Runs
  <2>1. longer[q] \in SUBSET Runs
    OBVIOUS
  <2>2. IsFiniteSet(longer[q])
    BY <2>1, <1>1, FS_Subset
  <2>. QED BY <2>1, <2>2, FS_CardinalityType
<1>4. ranks \in SUBSET Nat /\ ranks # {}
  BY <1>3
<1>5. PICK q \in Runs : \A p \in Runs : Cardinality(longer[q]) <= Cardinality(longer[p])
  <2>1. MinOf(ranks) \in ranks /\ \A y \in ranks : MinOf(ranks) <= y
    <3>. HIDE DEF ranks
    <3>. QED BY <1>4, Least
  <2>. QED BY <2>1
<1>6. \A p \in Runs : L(q) >= L(p)
  <2>. SUFFICES ASSUME NEW p \in Runs, ~ (L(q) >= L(p)) PROVE FALSE
    OBVIOUS
  <2>1. L(p) > L(q)
    BY <1>2
  <2>2. p \in longer[q] /\ p \notin longer[p] /\ longer[p] \in SUBSET longer[q]
    BY <2>1, <1>2
  <2>. HIDE DEF longer
  <2>3. Cardinality(longer[p]) <= Cardinality(longer[q])
    BY <2>2, <1>3, FS_Subset
  <2>4. Cardinality(longer[p]) = Cardinality(longer[q])
    BY <2>3, <1>3, <1>5
  <2>. QED BY <2>2, <2>4, <1>3, FS_Subset
<1>7. MaxLen = MaxOf({L(p) : p \in Runs})
  BY DEF MaxLen, L
<1>8. L(q) \in {L(p) : p \in Runs} /\ \A y \in {L(p) : p \in Runs} : L(q) >= y
  BY <1>6
<1>9. MaxOf({L(p) : p \in Runs}) \in {L(p) : p \in Runs}
      /\ \A y \in {L(p) : p \in Runs} : MaxOf({L(p) : p \in Runs}) >= y
  BY <1>8 DEF MaxOf
<1>. QED BY <1>2, <1>7, <1>9 DEF L

\* A window is an attack if an attacker's call lies in it, and only then.
LEMMA LabelIs ==
    ASSUME NEW ent, NEW a \in Int, NEW evs \in SUBSET EventType,
           \A e \in evs : a <= e.ts /\ e.ts < a + Window
    PROVE  LabelWindow(ent, a, a + Window, evs) = "attack" <=>
              \E r \in Runs : r.class = "attack" /\ r.entity = ent /\ HasCall(r, evs)
<1>. DEFINE over == Overlapping(ent, a, a + Window)
            attacks == {r \in over : r.class = "attack"}
<1>1. LabelWindow(ent, a, a + Window, evs) = "attack" <=> \E r \in attacks : HasCall(r, evs)
  BY DEF LabelWindow
<1>2. ASSUME NEW r \in Runs, r.entity = ent, HasCall(r, evs) PROVE r \in over
  <2>1. PICK e \in evs : r.t0 <= e.ts /\ e.ts <= r.t1
    BY <1>2 DEF HasCall
  <2>2. e.ts \in Nat /\ a <= e.ts /\ e.ts < a + Window
    BY EventFields
  <2>3. r.t0 \in Nat /\ r.t1 \in Nat
    BY RunsAssumption DEF RunsAssumption
  <2>4. r.t1 - r.t0 <= MaxLen /\ MaxLen \in Int
    BY MaxLenIs
  <2>5. Window \in Nat
    BY WindowsAssumption DEF WindowsAssumption
  <2>6. r.t0 < a + Window /\ r.t0 >= a - MaxLen - 1 /\ r.t1 >= a
    BY <2>1, <2>2, <2>3, <2>4, <2>5
  <2>. QED BY <2>6, <1>2 DEF Overlapping
<1>3. \A r \in over : r \in Runs /\ r.entity = ent
  BY DEF Overlapping
<1>. HIDE DEF over
<1>. QED BY <1>1, <1>2, <1>3

\* The calls of a run in a window are the calls the label looks for.
LEMMA CallsAre ==
    ASSUME Typed, NEW r \in Runs, r.entity \in Users \ Blind(files), NEW a \in WindowStarts
    PROVE  CallsOf(r, a) # {} <=> HasCall(r, EventsIn(Evs, r.entity, a))
<1>1. ASSUME NEW l \in CallsOf(r, a) PROVE HasCall(r, EventsIn(Evs, r.entity, a))
  <2>1. /\ l \in UNION {LinesOf(files, s) : s \in StreamSet}
        /\ l.kind.user = r.entity /\ IsAttackEvent(l.kind, r)
        /\ r.t0 <= l.ts /\ l.ts <= r.t1 /\ a <= l.ts /\ l.ts < a + Window
    BY DEF CallsOf
  <2>2. PICK s \in StreamSet : l \in LinesOf(files, s)
    BY <2>1
  <2>3. PICK i \in DOMAIN files[s] : l = files[s][i]
    BY <2>2 DEF LinesOf
  <2>4. Event(files, s, i).ent = r.entity
    BY <2>1, <2>3, Recognised
  <2>5. PICK e \in Evs : /\ e.ent = r.entity /\ e.ts = l.ts
                         /\ e.obj = l.kind.obj /\ e.signs = l.kind.signs
    BY <2>3, <2>4, LineEvent
  <2>6. IsAttackEvent(e, r)
    BY <2>1, <2>5 DEF IsAttackEvent
  <2>7. e \in EventsIn(Evs, r.entity, a) /\ r.t0 <= e.ts /\ e.ts <= r.t1
    BY <2>1, <2>5 DEF EventsIn
  <2>. QED BY <2>6, <2>7 DEF HasCall
<1>2. ASSUME HasCall(r, EventsIn(Evs, r.entity, a)) PROVE CallsOf(r, a) # {}
  <2>1. PICK e \in EventsIn(Evs, r.entity, a) :
           r.t0 <= e.ts /\ e.ts <= r.t1 /\ IsAttackEvent(e, r)
    BY <1>2 DEF HasCall
  <2>2. e \in Evs /\ e.ent = r.entity /\ a <= e.ts /\ e.ts < a + Window
    BY DEF EventsIn
  <2>3. PICK s \in StreamSet : \E i \in DOMAIN files[s] : e = Event(files, s, i)
    BY <2>2, EventLine
  <2>4. PICK i \in DOMAIN files[s] : e = Event(files, s, i)
    BY <2>3
  <2> DEFINE l == files[s][i]
  <2>5. l.kind.user = r.entity /\ l.ts = e.ts /\ l.kind.obj = e.obj /\ l.kind.signs = e.signs
    BY <2>2, <2>4, Recognised, LineEvent
  <2>6. IsAttackEvent(l.kind, r)
    BY <2>1, <2>5 DEF IsAttackEvent
  <2>7. l \in UNION {LinesOf(files, q) : q \in StreamSet}
    <3>1. l \in LinesOf(files, s)
      BY DEF LinesOf
    <3>. QED BY <3>1
  <2>. HIDE DEF l
  <2>8. l \in CallsOf(r, a)
    BY <2>1, <2>2, <2>5, <2>6, <2>7 DEF CallsOf
  <2>. QED BY <2>8
<1>. QED BY <1>1, <1>2

\* label_window over the rows, against the calls of the runs.
LEMMA IsLabelled ==
    ASSUME IInv
    PROVE  AttackLabelled
<1>. SUFFICES ASSUME phase = "closed", Sorted(files), NEW u \in Users \ Blind(files), NEW a \in WindowStarts
              PROVE  (\E r \in Runs : r.class = "attack" /\ r.entity = u /\ CallsOf(r, a) # {})
                     <=> (\E row \in rows : row.ent = u /\ row.a = a /\ row.label = "attack")
  BY DEF AttackLabelled
<1>. DEFINE evs == EventsIn(Evs, u, a)
<1>1. Typed /\ Evs \subseteq EventType
  BY Places DEF IInv
<1>2. a \in Int /\ evs \in SUBSET EventType /\ \A e \in evs : a <= e.ts /\ e.ts < a + Window
  BY <1>1, StartEnds DEF EventsIn
<1>3. u \in Entities \ {NoOne}
  BY DEF Users, Entities
<1>4. LabelWindow(u, a, a + Window, evs) = "attack" <=>
         \E r \in Runs : r.class = "attack" /\ r.entity = u /\ HasCall(r, evs)
  <2>. HIDE DEF evs
  <2>. QED BY <1>2, LabelIs
<1>5. \A r \in Runs : r.entity = u => (CallsOf(r, a) # {} <=> HasCall(r, evs))
  BY <1>1, CallsAre
<1>6. \A r \in Runs : HasCall(r, evs) => evs # {}
  BY DEF HasCall
<1>7. \A row \in rows : row.ent = u /\ row.a = a => row.label = LabelWindow(u, a, a + Window, evs)
  BY ClosedRows
<1>8. evs # {} => \E row \in rows : row.ent = u /\ row.a = a
  BY <1>3, ClosedRows
<1>. HIDE DEF evs
<1>. QED BY <1>4, <1>5, <1>6, <1>7, <1>8

-----------------------------------------------------------------------------
(* The older pipeline of the detector.                                       *)

\* The window is a number of steps.
LEMMA Rounded ==
    /\ Window \in Nat \ {0} /\ Step \in Nat \ {0} /\ Window >= Step
    /\ \E k \in Nat \ {0} : Window = k * Step
<1>1. Window \in Nat \ {0} /\ Step \in Nat \ {0}
  BY WindowsAssumption DEF WindowsAssumption
<1>2. PICK k \in 1..Window : Window = k * Step
  BY RoundedAssumption DEF RoundedAssumption
<1>3. k \in Nat \ {0}
  BY <1>1, <1>2
<1>4. k * Step >= Step
  BY <1>1, <1>3
<1>. QED BY <1>1, <1>2, <1>3, <1>4

\* A step that begins in the hours of the log begins a window.
LEMMA FloorStarts ==
    ASSUME NEW n \in Nat, n * Step <= Chunks * ChunkLen
    PROVE  n * Step \in WindowStarts
<1>0. Window \in Nat \ {0} /\ Step \in Nat \ {0} /\ Chunks * ChunkLen \in Nat
  BY WindowsAssumption DEF WindowsAssumption
<1>1. PICK k \in Nat \ {0} : Window = k * Step
  BY Rounded
<1>2. (n + k) * Step = n * Step + k * Step /\ n * Step \in Nat /\ k * Step \in Nat
  BY <1>0
<1>3. n + k \in Nat \ {0} /\ (n + k) * Step <= Chunks * ChunkLen + Window
      /\ Chunks * ChunkLen + Window \in Nat
  BY <1>0, <1>1, <1>2
<1>4. n + k <= (Chunks * ChunkLen + Window) \div Step /\ (Chunks * ChunkLen + Window) \div Step \in Nat
  BY <1>3, StepsBelow, StepOf
<1>5. n + k \in 1..((Chunks * ChunkLen + Window) \div Step + 1)
  BY <1>3, <1>4
<1>6. n * Step = (n + k) * Step - Window
  BY <1>1, <1>2
<1>. QED BY <1>5, <1>6 DEF WindowStarts

\* A request is a line of the opa stream.
LEMMA RequestType ==
    ASSUME Typed, NEW q \in Requests(files)
    PROVE  /\ q.ts \in Nat /\ q.ts >= 1 /\ q.ts <= Chunks * ChunkLen
           /\ \E i \in DOMAIN files["opa"] :
                 q = [ts |-> files["opa"][i].ts, at |-> <<"opa", i>>,
                      ent |-> BuildEntityId(files["opa"][i].kind),
                      session |-> files["opa"][i].kind.sid, pair |-> files["opa"][i].kind.pair]
<1>1. PICK i \in DOMAIN files["opa"] :
         q = [ts |-> files["opa"][i].ts, at |-> <<"opa", i>>,
              ent |-> BuildEntityId(files["opa"][i].kind),
              session |-> files["opa"][i].kind.sid, pair |-> files["opa"][i].kind.pair]
  BY DEF Requests
<1>2. "opa" \in StreamSet
  BY DEF StreamSet
<1>3. Event(files, "opa", i) \in EventType /\ Event(files, "opa", i).ts = q.ts
  BY <1>1, <1>2, LineEvent
<1>. QED BY <1>1, <1>3, EventFields

\* What is in the labelled table.
LEMMA TableRow ==
    ASSUME NEW reqs, NEW w \in LabeledTable(reqs)
    PROVE  /\ w.ent \in {r.ent : r \in reqs}
           /\ w.ws \in Starts({r.ts : r \in {q \in reqs : q.ent = w.ent}})
           /\ w.reqs = {r \in reqs : r.ent = w.ent /\ w.ws <= r.ts /\ r.ts < w.ws + Window}
           /\ w.reqs # {}
           /\ w.label = LabelOf(w.ws)
<1>. DEFINE Of(ent) == {r \in reqs : r.ent = ent}
            Within(ent, ws) == {r \in Of(ent) : ws <= r.ts /\ r.ts < ws + Window}
            Row(ent, ws) == [ent |-> ent, ws |-> ws, reqs |-> Within(ent, ws),
                             dropped |-> Cardinality({r.session : r \in Within(ent, ws)} \ {NoOne}) > 1]
            Rows(ent) == {Row(ent, ws) : ws \in {x \in Starts({r.ts : r \in Of(ent)}) : Within(ent, x) # {}}}
<1>1. PICK v \in MakeWindows(reqs) : w.ent = v.ent /\ w.ws = v.ws /\ w.reqs = v.reqs /\ w.label = LabelOf(v.ws)
  BY DEF LabeledTable
<1>2. MakeWindows(reqs) = UNION {Rows(ent) : ent \in {r.ent : r \in reqs}}
  BY DEF MakeWindows
<1>3. PICK ent \in {r.ent : r \in reqs} : v \in Rows(ent)
  <2>. HIDE DEF Rows
  <2>. QED BY <1>2
<1>4. PICK ws \in Starts({r.ts : r \in Of(ent)}) : Within(ent, ws) # {} /\ v = Row(ent, ws)
  BY <1>3
<1>5. v.ent = ent /\ v.ws = ws /\ v.reqs = Within(ent, ws)
  BY <1>4
<1>6. Within(ent, ws) = {r \in reqs : r.ent = ent /\ ws <= r.ts /\ r.ts < ws + Window}
  OBVIOUS
<1>. QED BY <1>1, <1>3, <1>4, <1>5, <1>6

\* The converse: a start with at most one named session in its window has its row.
LEMMA RowOfTable ==
    ASSUME NEW reqs, NEW ent \in {r.ent : r \in reqs},
           NEW ws \in Starts({r.ts : r \in {q \in reqs : q.ent = ent}}),
           NEW within, within = {r \in reqs : r.ent = ent /\ ws <= r.ts /\ r.ts < ws + Window},
           within # {}, NEW c \in {0, 1},
           Cardinality({r.session : r \in within} \ {NoOne}) = c
    PROVE  \E w \in LabeledTable(reqs) : w.reqs = within
<1>. DEFINE Of(e) == {r \in reqs : r.ent = e}
            Within(e, x) == {r \in Of(e) : x <= r.ts /\ r.ts < x + Window}
            Row(e, x) == [ent |-> e, ws |-> x, reqs |-> Within(e, x),
                          dropped |-> Cardinality({r.session : r \in Within(e, x)} \ {NoOne}) > 1]
            Rows(e) == {Row(e, x) : x \in {y \in Starts({r.ts : r \in Of(e)}) : Within(e, y) # {}}}
<1>1. MakeWindows(reqs) = UNION {Rows(e) : e \in {r.ent : r \in reqs}}
  BY DEF MakeWindows
<1>2. Within(ent, ws) = within
  OBVIOUS
<1>3. Row(ent, ws) \in Rows(ent)
  BY <1>2
<1>4. Row(ent, ws) \in MakeWindows(reqs)
  <2>. HIDE DEF Rows, Row
  <2>. QED BY <1>1, <1>3
<1>5. /\ Row(ent, ws).reqs = within
      /\ Row(ent, ws).dropped = (Cardinality({r.session : r \in Within(ent, ws)} \ {NoOne}) > 1)
  BY <1>2
<1>6. ~ Row(ent, ws).dropped
  <2>1. ~ (c > 1)
    OBVIOUS
  <2>. HIDE DEF Row, Within
  <2>. QED BY <1>2, <1>5, <2>1
<1>. DEFINE v == Row(ent, ws)
            w == [ent |-> v.ent, ws |-> v.ws, reqs |-> v.reqs, label |-> LabelOf(v.ws),
                  unseen |-> {r.pair : r \in v.reqs} \ KnownPairs(reqs, v.ws)]
<1>. HIDE DEF Row
<1>7. w.reqs = within
  BY <1>5
<1>8. v \in {x \in MakeWindows(reqs) : ~ x.dropped}
  BY <1>4, <1>6
<1>. HIDE DEF v
<1>9. w \in LabeledTable(reqs)
  BY <1>8 DEF LabeledTable
<1>. HIDE DEF w
<1>. QED BY <1>7, <1>9

\* The starts are steps, from the one of the first request to the last request.
LEMMA StartsType ==
    ASSUME NEW times \in SUBSET Nat, times # {}, \A t \in times : t <= Chunks * ChunkLen
    PROVE  /\ \A x \in Starts(times) : \E n \in Nat : x = n * Step
           /\ \A x \in Starts(times) : x \in Nat
           /\ \A t \in times : (t \div Step) * Step \in Starts(times)
<1>0. Step \in Nat \ {0} /\ Chunks * ChunkLen \in Nat
  BY WindowsAssumption DEF WindowsAssumption
<1>1. MinOf(times) \in times /\ \A y \in times : MinOf(times) <= y
  BY Least
<1>2. MaxOf(times) \in times /\ \A y \in times : MaxOf(times) >= y
  <2>1. times \in SUBSET Int
    OBVIOUS
  <2>. QED BY <2>1, <1>0, Greatest
<1>3. MinOf(times) \in Nat /\ MaxOf(times) \in Nat
  BY <1>1, <1>2
<1>4. ASSUME NEW x \in Starts(times) PROVE \E n \in Nat : x = n * Step
  <2>1. PICK n \in 0..MaxOf(times) : x = n * Step
    BY <1>4 DEF Starts
  <2>. QED BY <2>1, <1>3
<1>5. ASSUME NEW x \in Starts(times) PROVE x \in Nat
  BY <1>0, <1>4
<1>6. ASSUME NEW t \in times PROVE (t \div Step) * Step \in Starts(times)
  <2>. DEFINE n == t \div Step
              m == MinOf(times) \div Step
  <2>1. n \in Nat /\ n * Step <= t /\ n * Step \in Nat
    BY <1>0, StepOf
  <2>2. m \in Nat /\ m * Step <= MinOf(times) /\ m * Step \in Nat
    BY <1>0, <1>3, StepOf
  <2>3. m * Step <= t /\ t \in Nat /\ t <= MaxOf(times)
    BY <1>1, <1>2, <1>3, <2>2
  <2>4. m <= n
    BY <2>2, <2>3, StepsBelow
  <2>. HIDE DEF n, m
  <2>5. m * Step <= n * Step
    BY <2>1, <2>2, <2>4, <1>0
  <2>6. n <= n * Step
    BY <2>1, <1>0
  <2>7. n \in 0..MaxOf(times)
    BY <1>3, <2>1, <2>3, <2>6
  <2>8. Floor(MinOf(times)) = m * Step
    BY DEF Floor, m
  <2>9. n * Step \in Floor(MinOf(times))..MaxOf(times)
    BY <1>3, <2>1, <2>2, <2>3, <2>5, <2>8
  <2>10. n * Step \in Starts(times)
    BY <2>7, <2>9 DEF Starts
  <2>. QED BY <2>10 DEF n
<1>. QED BY <1>4, <1>5, <1>6

\* Whatever the cut, training and test windows are more than a window apart.
LEMMA IsSealed ==
    ASSUME IInv
    PROVE  SplitSealed
<1>. DEFINE reqs == Requests(files)
            table == LabeledTable(reqs)
<1>1. Typed /\ Window \in Nat
  BY WindowsAssumption DEF IInv, WindowsAssumption
<1>2. ASSUME NEW cutoff \in 0..(Chunks * ChunkLen),
             NEW v \in TimeSessionSplit(table, cutoff).train,
             NEW w \in TimeSessionSplit(table, cutoff).test,
             NEW q \in v.reqs \intersect w.reqs
      PROVE  FALSE
  <2>1. v \in table /\ w \in table /\ v.ws < cutoff - Window /\ w.ws > cutoff + Window
    BY DEF TimeSessionSplit
  <2>2. q \in reqs /\ q.ts < v.ws + Window /\ w.ws <= q.ts
    <3>. HIDE DEF reqs
    <3>1. /\ v.reqs = {r \in reqs : r.ent = v.ent /\ v.ws <= r.ts /\ r.ts < v.ws + Window}
          /\ w.reqs = {r \in reqs : r.ent = w.ent /\ w.ws <= r.ts /\ r.ts < w.ws + Window}
      BY <2>1, TableRow
    <3>. QED BY <3>1
  <2>3. q.ts \in Nat /\ cutoff \in Int
    BY <2>2, <1>1, RequestType
  <2>4. \A x \in table : x.ws \in Nat
    <3>. TAKE x \in table
    <3>1. x.ent \in {r.ent : r \in reqs} /\ x.ws \in Starts({r.ts : r \in {p \in reqs : p.ent = x.ent}})
      <4>. HIDE DEF reqs
      <4>1. /\ x.ent \in {r.ent : r \in reqs}
            /\ x.ws \in Starts({r.ts : r \in {p \in reqs : p.ent = x.ent}})
            /\ x.reqs = {r \in reqs : r.ent = x.ent /\ x.ws <= r.ts /\ r.ts < x.ws + Window}
            /\ x.reqs # {} /\ x.label = LabelOf(x.ws)
        BY TableRow
      <4>. QED BY <4>1
    <3>2. {r.ts : r \in {p \in reqs : p.ent = x.ent}} # {}
      BY <3>1
    <3>3. \A t \in {r.ts : r \in {p \in reqs : p.ent = x.ent}} : t \in Nat /\ t <= Chunks * ChunkLen
      BY <1>1, RequestType
    <3>. HIDE DEF reqs
    <3>. QED BY <3>1, <3>2, <3>3, StartsType
  <2>. QED BY <2>1, <2>2, <2>3, <2>4, <1>1
<1>3. \A cutoff \in 0..(Chunks * ChunkLen) :
         LET s == TimeSessionSplit(table, cutoff)
         IN  \A v \in s.train, w \in s.test : v.reqs \intersect w.reqs = {}
  BY <1>2
<1>. QED BY <1>3 DEF SplitSealed

\* When every user is recognised, a request is the event of its line.
LEMMA RequestEvent ==
    ASSUME Typed, Hours, Blind(files) = {}, NEW i \in DOMAIN files["opa"]
    PROVE  /\ Event(files, "opa", i) \in Evs
           /\ Event(files, "opa", i).ts = files["opa"][i].ts
           /\ Event(files, "opa", i).at = <<"opa", i>>
           /\ Event(files, "opa", i).ent = BuildEntityId(files["opa"][i].kind)
           /\ Event(files, "opa", i).ent \in Entities \ {NoOne}
<1>. DEFINE l == files["opa"][i]
<1>0. "opa" \in StreamSet
  BY DEF StreamSet
<1>1. /\ l \in Line /\ l.kind \in Kinds /\ l.kind.stream = "opa"
      /\ Event(files, "opa", i) \in Evs /\ Event(files, "opa", i).ts = l.ts
      /\ Event(files, "opa", i).at = <<"opa", i>>
      /\ Event(files, "opa", i).ent = EntityOf(files, l.kind)
  BY <1>0, LineEvent DEF Line, Hours
<1>2. l \in UNION {LinesOf(files, r) : r \in StreamSet}
  <2>1. l \in LinesOf(files, "opa")
    BY DEF LinesOf
  <2>. HIDE DEF l
  <2>. QED BY <2>1, <1>0
<1>. HIDE DEF l
<1>3. UserOf(files, l.kind) = l.kind.user
  <2>1. UserOf(files, l.kind) # l.kind.user => l.kind.user \in Blind(files)
    BY <1>2 DEF Blind
  <2>. QED BY <2>1
<1>4. /\ EntityOf(files, l.kind) \in Entities
      /\ EntityOf(files, l.kind) = IF UserOf(files, l.kind) # NoOne THEN l.kind.user ELSE l.kind.svc
  BY <1>1, EntityType
<1>5. EntityOf(files, l.kind) = BuildEntityId(l.kind)
  BY <1>3, <1>4 DEF BuildEntityId
<1>6. EntityOf(files, l.kind) # NoOne
  BY <1>1, <1>3, <1>4, CallerAssumption DEF CallerAssumption
<1>. QED BY <1>1, <1>4, <1>5, <1>6 DEF l

\* A window of the older table is a window of the newer one, with the same requests.
LEMMA IsBatch ==
    ASSUME IInv
    PROVE  BatchExact
<1>. DEFINE reqs == Requests(files)
            table == LabeledTable(reqs)
<1>0. Typed /\ Hours /\ Evs \subseteq EventType /\ Window \in Nat \ {0} /\ Step \in Nat \ {0}
  BY Places DEF IInv
<1>1. ASSUME NEW ent \in {r.ent : r \in reqs}
      PROVE  /\ {r.ts : r \in {p \in reqs : p.ent = ent}} \in SUBSET Nat
             /\ {r.ts : r \in {p \in reqs : p.ent = ent}} # {}
             /\ \A t \in {r.ts : r \in {p \in reqs : p.ent = ent}} : t <= Chunks * ChunkLen
  BY <1>0, RequestType
<1>2. ASSUME phase = "closed", Sorted(files), Blind(files) = {}, NEW w \in table
      PROVE  \E r \in rows :
                 /\ r.ent = w.ent /\ r.a = w.ws
                 /\ {q.at : q \in w.reqs} = {at \in r.evs : at[1] = "opa"}
                 /\ r.label = "attack" => w.label \/ \E run \in Runs : run.t1 = w.ws
  <2>1. /\ w.ent \in {r.ent : r \in reqs}
        /\ w.ws \in Starts({r.ts : r \in {q \in reqs : q.ent = w.ent}})
        /\ w.reqs = {r \in reqs : r.ent = w.ent /\ w.ws <= r.ts /\ r.ts < w.ws + Window}
        /\ w.reqs # {} /\ w.label = LabelOf(w.ws)
    BY TableRow
  <2>2. PICK n \in Nat : w.ws = n * Step
    <3>. HIDE DEF reqs
    <3>. QED BY <2>1, <1>1, StartsType
  <2>3. PICK q \in w.reqs : TRUE
    BY <2>1
  <2>4. PICK i \in DOMAIN files["opa"] :
           q = [ts |-> files["opa"][i].ts, at |-> <<"opa", i>>,
                ent |-> BuildEntityId(files["opa"][i].kind),
                session |-> files["opa"][i].kind.sid, pair |-> files["opa"][i].kind.pair]
    BY <2>1, <1>0, RequestType
  <2>5. w.ent \in Entities \ {NoOne}
    BY <2>1, <2>4, <1>0, <1>2, RequestEvent
  <2>6. q.ts \in Nat /\ q.ts <= Chunks * ChunkLen /\ w.ws <= q.ts /\ w.ws \in Nat
        /\ Chunks * ChunkLen \in Nat
    BY <2>1, <2>2, <1>0, RequestType, WindowsAssumption DEF WindowsAssumption
  <2>7. w.ws \in WindowStarts
    BY <2>2, <2>6, FloorStarts
  <2>8. \A d \in Evs : d \in EventsIn(Evs, w.ent, w.ws) <=>
                          d.ent = w.ent /\ w.ws <= d.ts /\ d.ts < w.ws + Window
    BY DEF EventsIn
  <2>9. EventsIn(Evs, w.ent, w.ws) # {}
    <3>1. /\ Event(files, "opa", i) \in Evs /\ Event(files, "opa", i).ent = w.ent
          /\ Event(files, "opa", i).ts = q.ts
      BY <2>1, <2>4, <1>0, <1>2, RequestEvent
    <3>. QED BY <3>1, <2>1, <2>8
  <2>10. PICK r \in rows : r.ent = w.ent /\ r.a = w.ws
    BY <2>5, <2>7, <2>9, <1>2, ClosedRows
  <2>11. /\ r.evs = {e.at : e \in EventsIn(Evs, w.ent, w.ws)}
         /\ r.label = LabelWindow(w.ent, w.ws, w.ws + Window, EventsIn(Evs, w.ent, w.ws))
    BY <2>10, <1>2, ClosedRows
  <2>12. ASSUME NEW p \in w.reqs PROVE p.at \in r.evs /\ p.at[1] = "opa"
    <3>1. PICK j \in DOMAIN files["opa"] :
             p = [ts |-> files["opa"][j].ts, at |-> <<"opa", j>>,
                  ent |-> BuildEntityId(files["opa"][j].kind),
                  session |-> files["opa"][j].kind.sid, pair |-> files["opa"][j].kind.pair]
      BY <2>1, <1>0, RequestType
    <3>2. /\ Event(files, "opa", j) \in Evs /\ Event(files, "opa", j).ent = p.ent
          /\ Event(files, "opa", j).ts = p.ts /\ Event(files, "opa", j).at = p.at /\ p.at = <<"opa", j>>
      BY <3>1, <1>0, <1>2, RequestEvent
    <3>3. Event(files, "opa", j) \in EventsIn(Evs, w.ent, w.ws)
      BY <3>2, <2>1, <2>8
    <3>. QED BY <3>2, <3>3, <2>11
  <2>13. ASSUME NEW at \in r.evs, at[1] = "opa" PROVE \E p \in w.reqs : p.at = at
    <3>1. PICK e \in EventsIn(Evs, w.ent, w.ws) : at = e.at
      BY <2>11
    <3>2. e \in Evs /\ e.ent = w.ent /\ w.ws <= e.ts /\ e.ts < w.ws + Window
      BY DEF EventsIn
    <3>3. PICK s \in StreamSet : \E j \in DOMAIN files[s] : e = Event(files, s, j)
      BY <3>2, <1>0, EventLine
    <3>4. PICK j \in DOMAIN files[s] : e = Event(files, s, j)
      BY <3>3
    <3>5. s = "opa" /\ at = <<"opa", j>>
      BY <2>13, <3>1, <3>4, <1>0, LineEvent
    <3>6. e.ts = files["opa"][j].ts /\ e.ent = BuildEntityId(files["opa"][j].kind)
      BY <3>4, <3>5, <1>0, <1>2, RequestEvent
    <3>. DEFINE p == [ts |-> files["opa"][j].ts, at |-> <<"opa", j>>,
                      ent |-> BuildEntityId(files["opa"][j].kind),
                      session |-> files["opa"][j].kind.sid, pair |-> files["opa"][j].kind.pair]
    <3>7. p \in reqs
      BY <3>4, <3>5 DEF Requests
    <3>8. p.at = at /\ p.ts = e.ts /\ p.ent = e.ent
      BY <3>5, <3>6
    <3>. HIDE DEF p, reqs
    <3>9. p \in w.reqs
      BY <3>2, <3>7, <3>8, <2>1
    <3>. QED BY <3>8, <3>9
  <2>14. ASSUME r.label = "attack" PROVE w.label \/ \E run \in Runs : run.t1 = w.ws
    <3>1. PICK run \in Overlapping(w.ent, w.ws, w.ws + Window) :
             run.class = "attack" /\ HasCall(run, EventsIn(Evs, w.ent, w.ws))
      BY <2>11, <2>14 DEF LabelWindow
    <3>2. run \in Runs /\ run.t0 < w.ws + Window /\ run.t1 >= w.ws
      BY DEF Overlapping
    <3>3. run.t0 \in Nat /\ run.t1 \in Nat
      BY <3>2, RunsAssumption DEF RunsAssumption
    <3>4. run.t1 = w.ws \/ w.ws < run.t1
      BY <3>2, <3>3, <2>6
    <3>5. w.ws + Window > run.t0
      BY <3>2, <3>3, <2>6, <1>0
    <3>. QED BY <3>1, <3>2, <3>4, <3>5, <2>1 DEF LabelOf, InScope
  <2>. QED BY <2>10, <2>12, <2>13, <2>14
<1>3. ASSUME NEW q \in reqs, NEW sid,
             \A p \in reqs : p.ent = q.ent => p.session \in {sid, NoOne}
      PROVE  \E w \in table : q \in w.reqs
  <2>. DEFINE ws == (q.ts \div Step) * Step
              within == {r \in reqs : r.ent = q.ent /\ ws <= r.ts /\ r.ts < ws + Window}
  <2>1. q.ts \in Nat
    BY <1>0, RequestType
  <2>2. q.ent \in {r.ent : r \in reqs} /\ q.ts \in {r.ts : r \in {p \in reqs : p.ent = q.ent}}
    OBVIOUS
  <2>3. ws \in Starts({r.ts : r \in {p \in reqs : p.ent = q.ent}})
    <3>. HIDE DEF reqs
    <3>. QED BY <2>2, <1>1, StartsType
  <2>4. ws <= q.ts /\ q.ts < ws + Window
    <3>1. q.ts \div Step \in Nat /\ ws <= q.ts /\ q.ts < ws + Step
      <4>1. q.ts < (q.ts \div Step + 1) * Step /\ (q.ts \div Step + 1) * Step = ws + Step
        BY <2>1, StepOf
      <4>. HIDE DEF ws
      <4>. QED BY <4>1, <2>1, StepOf DEF ws
    <3>2. ws \in Nat
      BY <3>1, <1>0
    <3>. HIDE DEF ws
    <3>. QED BY <3>1, <3>2, <2>1, <1>0, Rounded
  <2>. HIDE DEF ws
  <2>5. q \in within
    BY <2>4
  <2>6. \/ {r.session : r \in within} \ {NoOne} = {}
        \/ {r.session : r \in within} \ {NoOne} = {sid}
    BY <1>3
  <2>7. PICK c \in {0, 1} : Cardinality({r.session : r \in within} \ {NoOne}) = c
    BY <2>6, FS_Singleton, FS_EmptySet
  <2>8. \E w \in table : w.reqs = within
    <3>. HIDE DEF reqs
    <3>1. within = {r \in reqs : r.ent = q.ent /\ ws <= r.ts /\ r.ts < ws + Window} /\ within # {}
      BY <2>5
    <3>. HIDE DEF within
    <3>. QED BY <3>1, <2>2, <2>3, <2>7, RowOfTable
  <2>. QED BY <2>5, <2>8
<1>. QED BY <1>2, <1>3 DEF BatchExact

-----------------------------------------------------------------------------
(* The scoring service.                                                      *)

\* Counting up to an element numbers the elements of a set.
LEMMA RankOnto ==
    ASSUME NEW n \in Nat, NEW S \in SUBSET (1..n), NEW j \in 1..Cardinality(S)
    PROVE  \E i \in S : Cardinality({h \in S : h <= i}) = j
<1>. DEFINE upTo(i) == {h \in S : h <= i}
            f == [i \in S |-> Cardinality(upTo(i))]
<1>1. IsFiniteSet(S) /\ Cardinality(S) \in Nat
  <2>1. n \in Int /\ 1 \in Int
    OBVIOUS
  <2>2. IsFiniteSet(1..n)
    BY <2>1, FS_Interval
  <2>3. IsFiniteSet(S)
    BY <2>2, FS_Subset
  <2>. QED BY <2>3, FS_CardinalityType
<1>2. \A i \in S : /\ IsFiniteSet(upTo(i)) /\ Cardinality(upTo(i)) \in 1..Cardinality(S)
                   /\ upTo(i) \in SUBSET S
  <2>. TAKE i \in S
  <2>1. upTo(i) \in SUBSET S /\ i \in upTo(i)
    OBVIOUS
  <2>. HIDE DEF upTo
  <2>2. IsFiniteSet(upTo(i)) /\ Cardinality(upTo(i)) <= Cardinality(S)
    BY <1>1, <2>1, FS_Subset
  <2>3. Cardinality(upTo(i)) \in Nat /\ Cardinality(upTo(i)) # 0
    BY <2>1, <2>2, FS_CardinalityType, FS_EmptySet
  <2>. QED BY <1>1, <2>1, <2>2, <2>3
<1>3. ASSUME NEW i \in S, NEW k \in S, i < k PROVE Cardinality(upTo(i)) # Cardinality(upTo(k))
  <2>1. upTo(i) \in SUBSET upTo(k) /\ k \in upTo(k) /\ k \notin upTo(i)
    <3>1. i \in Int /\ k \in Int /\ \A h \in S : h \in Int
      OBVIOUS
    <3>2. \A h \in S : h <= i => h <= k
      BY <3>1, <1>3
    <3>3. k <= k /\ ~(k <= i)
      BY <3>1, <1>3
    <3>. QED BY <3>2, <3>3
  <2>. HIDE DEF upTo
  <2>. QED BY <2>1, <1>2, FS_Subset
<1>. HIDE DEF upTo
<1>4. f \in [S -> 1..Cardinality(S)]
  BY <1>2
<1>5. \A i, k \in S : f[i] = f[k] => i = k
  <2>. TAKE i, k \in S
  <2>1. i < k \/ k < i \/ i = k
    OBVIOUS
  <2>. QED BY <2>1, <1>3
<1>6. f \in Injection(S, 1..Cardinality(S))
  BY <1>4, <1>5 DEF Injection, IsInjective
<1>7. IsFiniteSet(1..Cardinality(S)) /\ Cardinality(1..Cardinality(S)) = Cardinality(S)
  BY <1>1, FS_Interval
<1>8. f \in Surjection(S, 1..Cardinality(S))
  BY <1>6, <1>7, FS_Injection
<1>9. PICK i \in S : f[i] = j
  BY <1>8 DEF Surjection
<1>. QED BY <1>9 DEF upTo

\* What Loki returns are lines.
LEMMA BetweenType ==
    ASSUME NEW q \in Seq(Line), NEW from, NEW to
    PROVE  Between(q, from, to) \in Seq(Line)
<1>. DEFINE kept == {i \in DOMAIN q : from <= q[i].ts /\ q[i].ts < to}
            place(j) == CHOOSE i \in kept : Cardinality({h \in kept : h <= i}) = j
<1>1. kept \in SUBSET (1..Len(q)) /\ Len(q) \in Nat /\ \A i \in kept : q[i] \in Line
  OBVIOUS
<1>2. Between(q, from, to) = [j \in 1..Cardinality(kept) |-> q[place(j)]]
  BY DEF Between
<1>. HIDE DEF kept
<1>3. Cardinality(kept) \in Nat
  <2>1. Len(q) \in Int /\ 1 \in Int
    BY <1>1
  <2>2. IsFiniteSet(1..Len(q))
    BY <2>1, FS_Interval
  <2>3. IsFiniteSet(kept)
    BY <1>1, <2>2, FS_Subset
  <2>. QED BY <2>3, FS_CardinalityType
<1>4. \A j \in 1..Cardinality(kept) : place(j) \in kept
  <2>. TAKE j \in 1..Cardinality(kept)
  <2>1. \E i \in kept : Cardinality({h \in kept : h <= i}) = j
    BY <1>1, RankOnto
  <2>. QED BY <2>1
<1>. HIDE DEF place
<1>5. \A j \in 1..Cardinality(kept) : q[place(j)] \in Line
  BY <1>1, <1>4
<1>. QED BY <1>2, <1>3, <1>5

\* When an entity was last seen.
NewestOf(evs, ent) == MaxOf({e.ts : e \in {d \in evs : d.ent = ent}})

\* The last window of an entity begins with the step of its newest event.
LEMMA TailStart ==
    ASSUME NEW evs \in SUBSET EventType, NEW ent, ent # NoOne, \E e \in evs : e.ent = ent
    PROVE  /\ NewestOf(evs, ent) \in Nat
           /\ \E e \in evs : e.ent = ent /\ e.ts = NewestOf(evs, ent)
           /\ \A e \in evs : e.ent = ent => e.ts <= NewestOf(evs, ent)
           /\ LastStart(evs, ent) = (NewestOf(evs, ent) \div Step) * Step
           /\ \A e \in evs : e.ent = ent =>
                 (e.ts >= LastStart(evs, ent) <=> e \in EventsIn(evs, ent, LastStart(evs, ent)))
           /\ LastStart(evs, ent) \in Nat /\ LastStart(evs, ent) <= NewestOf(evs, ent)
<1>. DEFINE newest == NewestOf(evs, ent)
<1>. DEFINE times == {e.ts : e \in {d \in evs : d.ent = ent}}
            F == (newest \div Step) * Step
<1>9. newest = MaxOf(times)
  BY DEF NewestOf
<1>. HIDE DEF newest
<1>0. /\ Window \in Nat \ {0} /\ Step \in Nat \ {0} /\ Window >= Step
      /\ Chunks * ChunkLen \in Nat
  BY Rounded, WindowsAssumption DEF WindowsAssumption
<1>1. /\ newest \in Nat /\ newest <= Chunks * ChunkLen
      /\ \E e \in evs : e.ent = ent /\ e.ts = newest
      /\ \A e \in evs : e.ent = ent => e.ts <= newest
  <2>1. times \in SUBSET Int /\ \A t \in times : t <= Chunks * ChunkLen
    BY EventFields
  <2>2. times # {}
    OBVIOUS
  <2>3. newest = MaxOf(times)
    BY <1>9
  <2>4. newest \in times /\ \A t \in times : newest >= t
    <3>. HIDE DEF times
    <3>. QED BY <2>1, <2>2, <2>3, <1>0, Greatest
  <2>5. PICK e \in evs : e.ent = ent /\ e.ts = newest
    BY <2>4
  <2>6. newest \in Nat /\ newest <= Chunks * ChunkLen
    BY <2>5, EventFields
  <2>7. \A d \in evs : d.ent = ent => d.ts <= newest
    <3>. TAKE d \in evs
    <3>. HAVE d.ent = ent
    <3>1. newest >= d.ts /\ d.ts \in Nat
      BY <2>4, EventFields
    <3>. QED BY <3>1, <2>6
  <2>. QED BY <2>5, <2>6, <2>7
<1>2. newest \div Step \in Nat /\ F \in Nat /\ F <= newest /\ newest < F + Step
  <2>1. newest \div Step \in Nat
    BY <1>1, StepOf
  <2>2. F \in Nat
    BY <2>1, <1>0
  <2>3. newest < (newest \div Step + 1) * Step /\ (newest \div Step + 1) * Step = F + Step
    BY <1>1, StepOf
  <2>4. F <= newest
    BY <1>1, StepOf
  <2>. HIDE DEF F
  <2>. QED BY <2>1, <2>2, <2>3, <2>4
<1>3. F \in WindowStarts
  <2>1. F <= Chunks * ChunkLen
    <3>. HIDE DEF F
    <3>. QED BY <1>0, <1>1, <1>2
  <2>. QED BY <2>1, <1>2, FloorStarts
<1>4. \A e \in evs : e.ent = ent => (e.ts >= F <=> e \in EventsIn(evs, ent, F))
  <2>. TAKE e \in evs
  <2>. HAVE e.ent = ent
  <2>1. e.ts \in Nat /\ e.ts <= newest
    BY <1>1, EventFields
  <2>. HIDE DEF F
  <2>2. e.ts < F + Window
    BY <2>1, <1>0, <1>1, <1>2
  <2>. QED BY <2>1, <2>2, <1>2 DEF EventsIn
<1>. DEFINE starts == {x[2] : x \in {y \in Windows(evs) : y[1] = ent}}
<1>5. F \in starts
  <2>1. PICK e \in evs : e.ent = ent /\ e.ts = newest
    BY <1>1
  <2>. HIDE DEF F
  <2>2. e \in EventsIn(evs, ent, F)
    BY <2>1, <1>1, <1>2, <1>4
  <2>3. <<ent, F>> \in {<<d.ent, a>> : d \in evs, a \in WindowStarts}
    BY <2>1, <1>3
  <2>4. <<ent, F>> \in Windows(evs)
    BY <2>2, <2>3 DEF Windows
  <2>. QED BY <2>4
<1>6. \A a \in starts : a \in Int /\ a <= F
  <2>. TAKE a \in starts
  <2>1. PICK x \in Windows(evs) : x[1] = ent /\ a = x[2]
    OBVIOUS
  <2>2. a \in WindowStarts /\ EventsIn(evs, ent, a) # {}
    BY <2>1 DEF Windows
  <2>3. PICK e \in evs : e.ent = ent /\ a <= e.ts
    BY <2>2 DEF EventsIn
  <2>4. e.ts <= newest /\ e.ts \in Nat
    BY <2>3, <1>1, EventFields
  <2>5. a \in Int /\ a <= newest
    BY <2>2, <2>3, <2>4, <1>1, StartEnds
  <2>6. PICK n \in 1..((Chunks * ChunkLen + Window) \div Step + 1) : a = n * Step - Window
    BY <2>2 DEF WindowStarts
  <2>7. PICK k \in Nat \ {0} : Window = k * Step
    BY Rounded
  <2>8. n \in Nat
    <3>1. (Chunks * ChunkLen + Window) \div Step \in Nat
      BY <1>0, StepOf
    <3>. QED BY <3>1, <2>6
  <2>9. CASE a < 0
    <3>. HIDE DEF F
    <3>. QED BY <2>5, <2>9, <1>2
  <2>10. CASE ~ (a < 0)
    <3>1. n >= k
      <4>. SUFFICES ASSUME n < k PROVE FALSE
        BY <2>7, <2>8
      <4>1. k = n + (k - n) /\ k - n \in Nat /\ k - n >= 1
        BY <2>7, <2>8
      <4>2. k * Step = n * Step + (k - n) * Step /\ (k - n) * Step >= Step /\ n * Step \in Nat
        BY <4>1, <2>7, <2>8, <1>0
      <4>. QED BY <4>2, <2>6, <2>7, <2>10, <1>0
    <3>2. n - k \in Nat /\ (n - k) * Step = n * Step - k * Step
      BY <3>1, <2>7, <2>8, <1>0
    <3>3. a = (n - k) * Step
      BY <3>2, <2>6, <2>7
    <3>4. n - k <= newest \div Step
      BY <3>2, <3>3, <2>5, <1>1, StepsBelow
    <3>5. (n - k) * Step <= F
      BY <3>2, <3>4, <1>0, <1>2
    <3>. QED BY <3>3, <3>5, <2>5
  <2>. QED BY <2>5, <2>9, <2>10
<1>7. LastStart(evs, ent) = F
  <2>1. LastStart(evs, ent) = MaxOf(starts)
    BY DEF LastStart
  <2>. HIDE DEF F, starts
  <2>2. MaxOf(starts) \in starts /\ \A y \in starts : MaxOf(starts) >= y
    BY <1>2, <1>5, <1>6 DEF MaxOf
  <2>3. MaxOf(starts) <= F /\ MaxOf(starts) >= F
    BY <2>2, <1>5, <1>6
  <2>4. MaxOf(starts) \in Int
    BY <2>2, <1>6
  <2>. QED BY <2>1, <2>3, <2>4, <1>2
<1>. HIDE DEF F
<1>8. LastStart(evs, ent) \in Nat /\ LastStart(evs, ent) <= newest
  BY <1>2, <1>7
<1>. QED BY <1>1, <1>4, <1>7, <1>8 DEF F, newest

\* What a record of a cycle holds.
LEMMA RecordOf ==
    ASSUME NEW evs
    PROVE  /\ \A r \in Scored(evs) : /\ r.ent # NoOne
                                     /\ \E e \in evs : e.ent = r.ent
                                     /\ r.a = LastStart(evs, r.ent)
                                     /\ r.evs = EventsIn(evs, r.ent, r.a)
           /\ \A e \in evs : e.ent # NoOne => \E r \in Scored(evs) : r.ent = e.ent
           /\ \A r, q \in Scored(evs) : r.ent = q.ent => r = q
<1>. DEFINE objs(ent) == {e.obj : e \in EventsIn(evs, ent, LastStart(evs, ent))} \ {NoOne}
            new(ent) == {o \in objs(ent) : IsNew(FreshFirst(evs, ent, o), LastStart(evs, ent))}
            Rec(ent) == [ent |-> ent, a |-> LastStart(evs, ent), objs |-> objs(ent),
                         newObjs |-> new(ent), evs |-> EventsIn(evs, ent, LastStart(evs, ent)),
                         alert |-> Cardinality(new(ent)) >= Threshold]
<1>1. Scored(evs) = {Rec(ent) : ent \in {e.ent : e \in evs} \ {NoOne}}
  BY DEF Scored
<1>. HIDE DEF objs, new
<1>2. \A ent : /\ Rec(ent).ent = ent /\ Rec(ent).a = LastStart(evs, ent)
               /\ Rec(ent).evs = EventsIn(evs, ent, LastStart(evs, ent))
  OBVIOUS
<1>. HIDE DEF Rec
<1>3. \A r \in Scored(evs) : \E ent \in {e.ent : e \in evs} \ {NoOne} : r = Rec(ent)
  BY <1>1
<1>4. \A r \in Scored(evs) : \E e \in evs : e.ent # NoOne /\ r = Rec(e.ent)
  BY <1>3
<1>5. \A e \in evs : e.ent # NoOne => Rec(e.ent) \in Scored(evs)
  BY <1>1
<1>. QED BY <1>2, <1>4, <1>5

\* Whatever Loki returned, the records of a cycle judge the tail.
LEMMA RecordsTail ==
    cycle.events \in SUBSET EventType /\ cycle.records = Scored(cycle.events) => ScoresTheTail
<1>. SUFFICES ASSUME cycle.events \in SUBSET EventType, cycle.records = Scored(cycle.events)
              PROVE  ScoresTheTail
  OBVIOUS
<1>. DEFINE evs == cycle.events
<1>0. evs \in SUBSET EventType /\ cycle.events = evs
  OBVIOUS
<1>. HIDE DEF evs
<1>1. ASSUME NEW r \in cycle.records
      PROVE  /\ r.ent # NoOne /\ \E e \in evs : e.ent = r.ent
             /\ r.a = LastStart(evs, r.ent)
             /\ r.evs = EventsIn(evs, r.ent, r.a)
  BY <1>0, RecordOf
<1>2. \A e \in evs : e.ent # NoOne => \E r \in cycle.records : r.ent = e.ent
  BY <1>0, RecordOf
<1>3. \A r, q \in cycle.records : r.ent = q.ent => r = q
  BY <1>0, RecordOf
<1>4. ASSUME NEW e \in evs, e.ent # NoOne
      PROVE  \E r \in cycle.records : r.ent = e.ent /\ (e.ts >= r.a => e \in r.evs)
  <2>1. PICK r \in cycle.records : r.ent = e.ent
    BY <1>2, <1>4
  <2>3. \A c \in evs : c.ent = r.ent =>
           (c.ts >= LastStart(evs, r.ent) <=> c \in EventsIn(evs, r.ent, LastStart(evs, r.ent)))
    BY <1>0, <1>1, TailStart
  <2>. QED BY <2>1, <2>3, <1>1
<1>5. ASSUME NEW r \in cycle.records, NEW e \in evs, e.ent = r.ent
      PROVE  LET newest == MaxOf({d.ts : d \in r.evs})
             IN  e.ts <= newest /\ (e.ts >= (newest \div Step) * Step <=> e \in r.evs)
  <2>. DEFINE top == NewestOf(evs, r.ent)
  <2>1. /\ r.ent # NoOne /\ \E c \in evs : c.ent = r.ent
        /\ r.a = LastStart(evs, r.ent) /\ r.evs = EventsIn(evs, r.ent, r.a)
    BY <1>1
  <2>2. /\ top \in Nat
        /\ \E c \in evs : c.ent = r.ent /\ c.ts = top
        /\ \A c \in evs : c.ent = r.ent => c.ts <= top
        /\ LastStart(evs, r.ent) = (top \div Step) * Step
        /\ \A c \in evs : c.ent = r.ent =>
              (c.ts >= LastStart(evs, r.ent) <=> c \in EventsIn(evs, r.ent, LastStart(evs, r.ent)))
        /\ LastStart(evs, r.ent) \in Nat /\ LastStart(evs, r.ent) <= top
    BY <1>0, <2>1, TailStart
  <2>. HIDE DEF top
  <2>3. MaxOf({d.ts : d \in r.evs}) = top
    <3>1. PICK c \in evs : c.ent = r.ent /\ c.ts = top
      BY <2>2
    <3>2. c \in r.evs
      BY <3>1, <2>1, <2>2
    <3>3. \A d \in r.evs : d \in evs /\ d.ent = r.ent
      BY <2>1 DEF EventsIn
    <3>. DEFINE S == {d.ts : d \in r.evs}
    <3>4. top \in S /\ \A t \in S : t <= top /\ t \in Nat
      BY <1>0, <3>1, <3>2, <3>3, <2>2, EventFields
    <3>. HIDE DEF S
    <3>5. MaxOf(S) \in S /\ \A y \in S : MaxOf(S) >= y
      BY <3>4, <2>2 DEF MaxOf
    <3>6. MaxOf(S) <= top /\ MaxOf(S) >= top /\ MaxOf(S) \in Nat
      BY <3>4, <3>5
    <3>7. MaxOf(S) = top
      BY <3>6, <2>2
    <3>. QED BY <3>7 DEF S
  <2>. QED BY <2>1, <2>2, <2>3, <1>5
<1>6. \A r \in cycle.records :
          LET newest == MaxOf({e.ts : e \in r.evs})
          IN  \A e \in cycle.events : e.ent = r.ent =>
                 e.ts <= newest /\ (e.ts >= (newest \div Step) * Step <=> e \in r.evs)
  BY <1>0, <1>5
<1>. QED BY <1>0, <1>3, <1>4, <1>6 DEF ScoresTheTail

\* Loki holds lines, and what a cycle leaves judges the tail.
ScoreInv ==
    /\ archive \in [StreamSet -> Seq(Line)]
    /\ ScoresTheTail

\* Every step of the scoring service keeps what its cycles promise.
LEMMA ScoreInvStep ==
    ASSUME Typed, ScoreInv, [ScoreNext]_scoreVars
    PROVE  ScoreInv'
<1>0. archive \in [StreamSet -> Seq(Line)] /\ files \in [StreamSet -> Seq(Line)]
  BY Places DEF ScoreInv
<1>1. CASE Collect
  <2>1. archive' \in [StreamSet -> Seq(Line)]
    BY <1>0, <1>1 DEF Collect
  <2>. QED BY <2>1, <1>1 DEF Collect, ScoreInv, ScoresTheTail
<1>2. ASSUME NEW now \in Ticks, NEW cut \in StreamSet, NEW n \in 0..MaxLines, RunOnce(now, cut, n)
      PROVE  ScoreInv'
  <2>. DEFINE fs == LokiExport(now, cut, n)
  <2>1. archive' = archive /\ cycle' = [events |-> Events(fs), records |-> Scored(Events(fs))]
    BY <1>2 DEF RunOnce
  <2>2. fs \in [StreamSet -> Seq(Line)]
    <3>. DEFINE all(s) == Between(InLoki(s), now - Window - Margin, now)
    <3>1. fs = [s \in StreamSet |-> IF s = cut /\ n < Len(all(s)) THEN SubSeq(all(s), 1, n) ELSE all(s)]
      BY DEF LokiExport
    <3>2. ASSUME NEW s \in StreamSet
          PROVE  all(s) \in Seq(Line) /\ (n < Len(all(s)) => SubSeq(all(s), 1, n) \in Seq(Line))
      <4>1. InLoki(s) \in Seq(Line)
        BY <1>0 DEF InLoki
      <4>2. all(s) \in Seq(Line)
        BY <4>1, BetweenType
      <4>. HIDE DEF all
      <4>3. n \in Int /\ MaxLines \in Nat
        BY WindowsAssumption DEF WindowsAssumption
      <4>4. ASSUME n < Len(all(s)) PROVE SubSeq(all(s), 1, n) \in Seq(Line)
        <5>1. \A i \in 1..n : all(s)[i] \in Line
          BY <4>2, <4>3, <4>4
        <5>. QED BY <5>1, <4>3, SubSeqProperties
      <4>. QED BY <4>2, <4>4
    <3>. HIDE DEF all, fs
    <3>. QED BY <3>1, <3>2
  <2>. HIDE DEF fs
  <2>3. Events(fs) \in SUBSET EventType
    BY <2>2, EventsTyped
  <2>4. (cycle.events \in SUBSET EventType /\ cycle.records = Scored(cycle.events) => ScoresTheTail)'
    BY RecordsTail, PTL
  <2>5. cycle'.events = Events(fs) /\ cycle'.records = Scored(Events(fs))
    BY <2>1
  <2>6. ScoresTheTail'
    BY <2>3, <2>4, <2>5
  <2>. QED BY <2>1, <2>6, <1>0 DEF ScoreInv
<1>3. CASE Sleep
  <2>1. archive' = archive /\ cycle' = Idle
    BY <1>3 DEF Sleep
  <2>. QED BY <2>1, <1>0 DEF ScoreInv, ScoresTheTail, Idle
<1>4. CASE UNCHANGED scoreVars
  BY <1>4 DEF scoreVars, ScoreInv, ScoresTheTail
<1>. QED BY <1>1, <1>2, <1>3, <1>4 DEF ScoreNext

-----------------------------------------------------------------------------
(* The theorems.                                                             *)

\* Whatever the order in which lines reach the files of a chunk, within the lag that
\* _resort_bounded undoes, build_chunk's table of the chunk is the reference table: one
\* row per entity and window with an event, holding exactly the window's events.
THEOREM RowsExactHolds == ScoreSpec => []RowsExact
<1>1. IInv => RowsExact
  BY IsExact
<1>. QED BY <1>1, Inductive, PTL

\* History.see and _emit_row: "never seen before" looks back over all chunks and never ahead.
THEOREM NewnessCausalHolds == ScoreSpec => []NewnessCausal
<1>1. IInv => NewnessCausal
  BY DEF IInv
<1>. QED BY <1>1, Inductive, PTL

\* label_window: the "attack" rows of a recognised user are those of the windows in which one of
\* the user's attacking runs made a call.
THEOREM AttackLabelledHolds == ScoreSpec => []AttackLabelled
<1>1. IInv => AttackLabelled
  BY IsLabelled
<1>. QED BY <1>1, Inductive, PTL

\* time_session_split: the buffer around the cut is wide enough, wherever the cut falls.
THEOREM SplitSealedHolds == ScoreSpec => []SplitSealed
<1>1. IInv => SplitSealed
  BY IsSealed
<1>. QED BY <1>1, Inductive, PTL

\* make_windows and label_windows of the first pipeline against build_chunk of the second.
THEOREM BatchExactHolds == ScoreSpec => []BatchExact
<1>1. IInv => BatchExact
  BY IsBatch
<1>. QED BY <1>1, Inductive, PTL

\* run_once: whichever stream loki_export cut short, the record of an entity judges the
\* tail of what was returned, if that came in order within the lag.
THEOREM ScoresTheTailHolds == ScoreSpec => []ScoresTheTail
<1>1. ScoreInit => ScoreInv
  <2>. SUFFICES ASSUME ScoreInit PROVE ScoreInv
    OBVIOUS
  <2>1. archive = [s \in StreamSet |-> <<>>] /\ <<>> \in Seq(Line)
    BY DEF ScoreInit, NoFiles
  <2>2. cycle.events = {} /\ cycle.records = {}
    BY DEF ScoreInit, Idle
  <2>3. ScoresTheTail
    BY <2>2 DEF ScoresTheTail
  <2>. QED BY <2>1, <2>3 DEF ScoreInv
<1>2. Typed /\ ScoreInv /\ [ScoreNext]_scoreVars => ScoreInv'
  BY ScoreInvStep
<1>3. IInv => Typed
  BY DEF IInv
<1>4. ScoreInv => ScoresTheTail
  BY DEF ScoreInv
<1>. QED BY <1>1, <1>2, <1>3, <1>4, Inductive, PTL DEF ScoreSpec
=============================================================================
