--------------------------- MODULE ChunkProbe_proofs ---------------------------
(***************************************************************************)
(* That the two gap criteria of the collector catch what they are for, and *)
(* nothing else, for chunks of any length and any windows.                 *)
(*                                                                         *)
(* The properties speak of a closed chunk; what makes them inductive is    *)
(* what an open stretch says before: it covers only ticks in which nothing *)
(* came through or nobody answered (OnlyOutages), and an outage whose      *)
(* probe a window into it was answered is inside it (OutagesSeen).         *)
(***************************************************************************)
EXTENDS ChunkProbe, WellFoundedInduction, TLAPS

-----------------------------------------------------------------------------
(* The bucket check.                                                       *)

\* A set of numbers has a least one.
LEMMA Least ==
    ASSUME NEW S \in SUBSET Nat, S # {}
    PROVE  \E x \in S : \A y \in S : x <= y
<1>1. PICK x \in S : \A y \in S : <<y, x>> \notin OpToRel(<, Nat)
  <2>1. IsWellFoundedOn(OpToRel(<, Nat), Nat)
        BY NatLessThanWellFounded
  <2>. QED
        BY <2>1, WFMin
<1>2. \A y \in S : x <= y
  <2>. TAKE y \in S
  <2>1. ~ (y < x)
        BY <1>1 DEF OpToRel
  <2>. QED
        BY <2>1
<1>. QED
      BY <1>2

\* covered_until is the last time stamp before ts, or the start.
LEMMA CoveredIs ==
    ASSUME NEW S \in SUBSET Ticks, NEW ts \in Nat \ {0}
    PROVE  /\ CoveredUntil(S, ts) \in {0} \cup {x \in S : x < ts}
           /\ \A y \in {0} \cup {x \in S : x < ts} : y <= CoveredUntil(S, ts)
<1>. DEFINE before == {0} \cup {x \in S : x < ts}
            T == {n \in Nat : \A y \in before : y <= n}
<1>1. before \subseteq Nat /\ \A y \in before : y < ts
  <2>1. 0 \in Nat /\ 0 < ts
        OBVIOUS
  <2>2. Length \in Nat /\ 1 \in Nat
        BY ProbeAssumption DEF ProbeAssumption
  <2>3. \A x \in S : x \in Nat
        BY <2>2 DEF Ticks
  <2>. QED
        BY <2>1, <2>3
<1>2. ts \in T
      BY <1>1
<1>3. PICK m \in T : \A n \in T : m <= n
  <2>1. T \subseteq Nat /\ T # {}
        BY <1>2
  <2>. HIDE DEF T
  <2>. QED
        BY <2>1, Least
<1>4. m \in before
  <2>. SUFFICES ASSUME m \notin before PROVE FALSE
        OBVIOUS
  <2>1. 0 \in before /\ m \in Nat
        OBVIOUS
  <2>. HIDE DEF before
  <2>2. m # 0 /\ m - 1 \in Nat /\ \A y \in before : y <= m - 1
    <3>1. m # 0
          BY <2>1
    <3>2. ASSUME NEW y \in before PROVE y <= m - 1
      <4>1. y <= m /\ y # m /\ y \in Nat
            BY <1>1
      <4>. QED
            BY <2>1, <4>1
    <3>. QED
          BY <2>1, <3>1, <3>2
  <2>3. m - 1 \in T
        BY <2>2
  <2>. QED
        BY <1>3, <2>1, <2>3
<1>5. \E x \in before : \A y \in before : y <= x
      BY <1>4
<1>6. CoveredUntil(S, ts) = CHOOSE x \in before : \A y \in before : y <= x
      BY DEF CoveredUntil
<1>. HIDE DEF before
<1>7. CoveredUntil(S, ts) \in before /\ \A y \in before : y <= CoveredUntil(S, ts)
      BY <1>5, <1>6
<1>. QED
      BY <1>7 DEF before

\* bucket_gaps() finds every stretch of more than max_gap without a line.
LEMMA RunIsGap ==
    ASSUME NEW S \in SUBSET Ticks, NEW from \in 0 .. Length - (MaxGap + 1),
           \A i \in 1 .. MaxGap + 1 : from + i \notin S
    PROVE  BucketGaps(S) # {}
<1>0. Length \in Nat \ {0} /\ MaxGap \in Nat \ {0} /\ from \in Nat /\ from + MaxGap + 1 <= Length
      BY ProbeAssumption DEF ProbeAssumption
<1>. DEFINE later == {x \in S \cup {Sentinel} : x > from}
<1>1. S \subseteq Nat /\ Sentinel \in Nat /\ Sentinel > from + MaxGap + 1
      BY <1>0 DEF Ticks, Sentinel
<1>2. PICK ts \in later : \A y \in later : ts <= y
  <2>1. later \subseteq Nat
        BY <1>1
  <2>2. Sentinel > from
        BY <1>0, <1>1
  <2>3. later # {}
        BY <2>2
  <2>. HIDE DEF later
  <2>. QED
        BY <2>1, <2>3, Least
<1>3. ts \in S \cup {Sentinel} /\ ts \in Nat \ {0} /\ ts > from + MaxGap + 1
  <2>1. ts \in S \cup {Sentinel} /\ ts > from /\ ts \in Nat
        BY <1>1
  <2>2. CASE ts = Sentinel
        BY <2>1, <2>2, <1>0, <1>1
  <2>3. CASE ts \in S
    <3>. SUFFICES ASSUME ts <= from + MaxGap + 1 PROVE FALSE
          BY <1>0, <2>1
    <3>1. ts - from \in 1 .. MaxGap + 1 /\ from + (ts - from) = ts
          BY <1>0, <2>1
    <3>. QED
          BY <2>3, <3>1
  <2>. QED
        BY <2>1, <2>2, <2>3
<1>. DEFINE c == CoveredUntil(S, ts)
<1>4. c \in Nat /\ c <= from
  <2>1. c \in {0} \cup {x \in S : x < ts}
        BY <1>3, CoveredIs
  <2>. HIDE DEF c
  <2>2. CASE c \in S /\ c < ts /\ c > from
    <3>1. c \in later /\ c \in Nat
          BY <2>2, <1>1
    <3>. QED
          BY <1>2, <1>3, <2>2, <3>1
  <2>. QED
        BY <1>0, <1>1, <2>1, <2>2
<1>. HIDE DEF c
<1>5. (ts - 1) - c > MaxGap
      BY <1>0, <1>3, <1>4
<1>. DEFINE end == IF ts - 1 < Length THEN ts - 1 ELSE Length
            gap == <<c, end>>
<1>6. end - c > MaxGap
      BY <1>0, <1>3, <1>4
<1>7. gap = Uncovered(S, ts)
      BY DEF Uncovered, c
<1>8. gap[1] = c /\ gap[2] = end
      OBVIOUS
<1>. HIDE DEF gap, end
<1>9. gap \in BucketGaps(S)
      BY <1>3, <1>5, <1>6, <1>7, <1>8 DEF BucketGaps, c
<1>. QED
      BY <1>9

\* And what it finds is one.
LEMMA GapIsRun ==
    ASSUME NEW S \in SUBSET Ticks, BucketGaps(S) # {}
    PROVE  HasRun(Ticks \ S, MaxGap + 1)
<1>0. Length \in Nat \ {0} /\ MaxGap \in Nat \ {0}
      BY ProbeAssumption DEF ProbeAssumption
<1>1. PICK g \in BucketGaps(S) : TRUE
      OBVIOUS
<1>2. PICK ts \in S \cup {Sentinel} : g = Uncovered(S, ts) /\ g[2] - g[1] > MaxGap
      BY <1>1 DEF BucketGaps
<1>. DEFINE c == CoveredUntil(S, ts)
            end == IF ts - 1 < Length THEN ts - 1 ELSE Length
<1>3. g[1] = c /\ g[2] = end
      BY <1>2 DEF Uncovered
<1>4. ts \in Nat \ {0}
      BY <1>0 DEF Sentinel, Ticks
<1>5. c \in {0} \cup {x \in S : x < ts} /\ \A y \in {0} \cup {x \in S : x < ts} : y <= c
      BY <1>4, CoveredIs
<1>. HIDE DEF c
<1>6. c \in Nat
      BY <1>5 DEF Ticks
<1>7. c + MaxGap + 1 <= Length /\ c + MaxGap + 1 < ts
      BY <1>0, <1>2, <1>3, <1>4, <1>6
<1>8. ASSUME NEW i \in 1 .. MaxGap + 1 PROVE c + i \in Ticks \ S
  <2>1. c + i \in Nat /\ c + i >= 1 /\ c + i <= Length /\ c + i < ts /\ c + i > c
        BY <1>0, <1>4, <1>6, <1>7
  <2>2. c + i \notin S
        BY <1>5, <1>6, <2>1
  <2>. QED
        BY <2>1, <2>2 DEF Ticks
<1>9. c \in 0 .. Length - (MaxGap + 1)
      BY <1>0, <1>6, <1>7
<1>. QED
      BY <1>8, <1>9 DEF HasRun

-----------------------------------------------------------------------------
(* The probes.                                                             *)

\* An open stretch began at a probe before now, a window back.
StaleSince ==
    /\ stale # None => stale <= MaxOf(0, t - FreshWindow)
    /\ verdict # "running" => t = Length

\* What got through is in Loki, and a stretch covers only ticks in which nothing did or whose probe
\* went unanswered.
OnlyOutages ==
    /\ \A k \in 1 .. t : k \in down \/ k \in stored
    /\ stale # None => \A k \in 1 .. t : k > stale => k \in down \cup blind
    /\ violations # {} => HasRun(down \cup blind, MaxGap)

\* All ticks after f and up to now were down.
DownSince(f) == \A k \in 1 .. t : k > f => k \in down

\* Nothing arrives during an outage, and one that lasts is inside the open stretch, or was counted,
\* if the probe a window after its start was answered.
OutagesSeen ==
    /\ verdict = "running" =>
          \A f \in 0 .. t : DownSince(f) => \A x \in stored : x <= f
    /\ verdict = "running" =>
          \A f \in 0 .. t :
             DownSince(f) /\ t - f >= FreshWindow /\ f + FreshWindow \notin blind =>
                 stale # None /\ stale <= f
    /\ \A f \in 0 .. t :
          /\ f + MaxGap + 1 <= t /\ f + FreshWindow \notin blind
          /\ \A i \in 1 .. MaxGap + 1 : f + i \in down
          => violations # {} \/ (verdict = "running" /\ stale # None /\ stale <= f)

\* The verdict is what the two criteria say.
Judged ==
    /\ verdict = "clean" => violations = {} /\ BucketGaps(stored) = {}
    /\ verdict = "gap" => violations # {} \/ BucketGaps(stored) # {}

IInv == TypeOK /\ StaleSince /\ OnlyOutages /\ OutagesSeen /\ Judged

\* The stretch a probe adds is over max_gap, and is there if it is.
LEMMA OverIs ==
    ASSUME NEW s \in Nat, NEW n
    PROVE  /\ n - s > MaxGap /\ s # None => Over(s, n) = {<<s, n>>}
           /\ ~ (n - s > MaxGap) => Over(s, n) = {}
           /\ Over(None, n) = {}
BY DEF Over

\* Before the first tick nothing is known.
LEMMA InitStep == Init => IInv
<1>. SUFFICES ASSUME Init PROVE IInv
      OBVIOUS
<1>. USE DEF Init
<1>1. Length \in Nat \ {0} /\ FreshWindow \in Nat \ {0} /\ MaxGap \in Nat \ {0}
      BY ProbeAssumption DEF ProbeAssumption
<1>2. TypeOK
      BY <1>1 DEF TypeOK
<1>3. StaleSince /\ OnlyOutages /\ Judged
      BY DEF StaleSince, OnlyOutages, Judged
<1>4. OutagesSeen
      BY <1>1 DEF OutagesSeen
<1>. QED
      BY <1>2, <1>3, <1>4 DEF IInv

\* A tick, answered or not.
LEMMA TickStep == IInv /\ Tick => IInv'
<1>. SUFFICES ASSUME IInv, Tick PROVE IInv'
      OBVIOUS
<1>. DEFINE n == t + 1
<1>0. /\ Length \in Nat \ {0} /\ FreshWindow \in Nat \ {0} /\ MaxGap \in Nat \ {0}
      /\ FreshWindow <= MaxGap /\ None \notin 0 .. Length
      BY ProbeAssumption DEF ProbeAssumption
<1>1. /\ t \in Nat /\ t < Length /\ t' = n /\ verdict' = verdict
      /\ n \in Nat \ {0} /\ n <= Length
      /\ stored \subseteq 1 .. t /\ held \subseteq (1 .. t) \ stored
      /\ stale \in (0 .. t) \cup {None} /\ violations \subseteq (0 .. t) \X (0 .. t)
      /\ down \subseteq 1 .. t /\ blind \subseteq 1 .. t
      /\ verdict = "running"
      BY <1>0 DEF IInv, TypeOK, StaleSince, Tick
<1>2. /\ stored' \subseteq 1 .. n /\ held' \subseteq (1 .. n) \ stored' /\ down' \subseteq 1 .. n
      /\ stored \subseteq stored' /\ down \subseteq down'
      /\ n \in down' \/ n \in stored'
      /\ n \in down' => stored' = stored
      /\ \A k \in 1 .. t : k \in down' => k \in down
  <2>1. CASE Flows(n)
        BY <1>1, <2>1 DEF Flows
  <2>2. CASE Holds(n)
        BY <1>1, <2>2 DEF Holds
  <2>3. CASE Loses(n)
        BY <1>1, <2>3 DEF Loses
  <2>. QED
        BY <2>1, <2>2, <2>3 DEF Tick
<1>3. Answered(n) \/ Unanswered(n)
      BY DEF Tick
<1>. HIDE DEF n
<1>4. MaxOf(0, n - FreshWindow) \in 0 .. t
      /\ MaxOf(0, t - FreshWindow) <= MaxOf(0, n - FreshWindow)
      /\ n - FreshWindow <= MaxOf(0, n - FreshWindow)
      BY <1>0, <1>1 DEF MaxOf, n
\* What the probe does to the stretch, by what it finds.
<1>5. \/ UNCHANGED <<stale, violations>> /\ blind' = blind \cup {n}
      \/ /\ \E x \in stored' : n - FreshWindow < x /\ x <= n
         /\ stale' = None /\ violations' = violations \cup Over(stale, n) /\ blind' = blind
      \/ /\ \A x \in stored' : ~ (n - FreshWindow < x /\ x <= n)
         /\ stale' = IF stale = None THEN MaxOf(0, n - FreshWindow) ELSE stale
         /\ violations' = violations /\ blind' = blind
      BY <1>3 DEF Answered, Unanswered, IsFresh, StretchBegins
<1>6. stale' \in (0 .. n) \cup {None}
  <2>1. 0 .. t \subseteq 0 .. n
        BY <1>1 DEF n
  <2>. QED
        BY <1>1, <1>4, <1>5, <2>1
<1>7. violations \subseteq violations' /\ violations' \subseteq (0 .. n) \X (0 .. n)
  <2>1. violations \subseteq (0 .. n) \X (0 .. n)
        BY <1>1 DEF n
  <2>2. Over(stale, n) \subseteq (0 .. n) \X (0 .. n)
        BY <1>1 DEF Over, n
  <2>. QED
        BY <1>5, <2>1, <2>2
<1>8. TypeOK'
  <2>1. blind' \subseteq 1 .. n
    <3>1. 1 .. t \subseteq 1 .. n /\ n \in 1 .. n
          BY <1>1 DEF n
    <3>. QED
          BY <1>1, <1>5, <3>1
  <2>. QED
        BY <1>1, <1>2, <1>6, <1>7, <2>1 DEF TypeOK
<1>9. StaleSince'
  <2>1. stale' # None => stale' <= MaxOf(0, n - FreshWindow)
    <3>1. CASE stale = None
          BY <1>4, <1>5, <3>1
    <3>2. CASE stale # None
      <4>1. stale <= MaxOf(0, t - FreshWindow) /\ stale \in Nat
            BY <1>1, <3>2 DEF IInv, StaleSince
      <4>2. MaxOf(0, t - FreshWindow) \in Int
            BY <1>0, <1>1 DEF MaxOf
      <4>3. stale <= MaxOf(0, n - FreshWindow)
            BY <1>4, <4>1, <4>2
      <4>. QED
            BY <1>5, <3>2, <4>3
    <3>. QED
          BY <3>1, <3>2
  <2>. QED
        BY <1>1, <2>1 DEF StaleSince
<1>10. OnlyOutages'
  <2>1. \A k \in 1 .. n : k \in down' \/ k \in stored'
    <3>. TAKE k \in 1 .. n
    <3>1. k \in 1 .. t \/ k = n
          BY <1>1 DEF n
    <3>. QED
          BY <1>2, <3>1 DEF IInv, OnlyOutages
  <2>2. ASSUME stale' # None, NEW k \in 1 .. n, k > stale'
        PROVE  k \in down' \cup blind'
    <3>1. k \in Nat /\ k <= n /\ blind \subseteq blind'
          BY <1>1, <1>5
    <3>2. ASSUME stale # None, k > stale, k # n PROVE k \in down' \cup blind'
      <4>1. k \in 1 .. t
            BY <1>1, <3>1, <3>2 DEF n
      <4>. QED
            BY <1>2, <3>1, <3>2, <4>1 DEF IInv, OnlyOutages
    <3>3. CASE UNCHANGED <<stale, violations>> /\ blind' = blind \cup {n}
          BY <2>2, <3>2, <3>3
    <3>4. CASE /\ \A x \in stored' : ~ (n - FreshWindow < x /\ x <= n)
               /\ stale' = IF stale = None THEN MaxOf(0, n - FreshWindow) ELSE stale
      <4>1. CASE stale = None \/ k = n
        <5>1. n - FreshWindow < k
              BY <1>0, <1>1, <1>4, <2>2, <3>1, <3>4, <4>1
        <5>. QED
              BY <2>1, <3>1, <3>4, <5>1
      <4>2. CASE stale # None /\ k # n
            BY <2>2, <3>2, <3>4, <4>2
      <4>. QED
            BY <4>1, <4>2
    <3>. QED
          BY <1>5, <2>2, <3>3, <3>4
  <2>3. ASSUME violations' # {}
        PROVE  HasRun(down' \cup blind', MaxGap)
    <3>0. blind \subseteq blind'
          BY <1>5
    <3>1. CASE violations # {}
      <4>1. HasRun(down \cup blind, MaxGap)
            BY <3>1 DEF IInv, OnlyOutages
      <4>. QED
            BY <1>2, <3>0, <4>1 DEF HasRun
    <3>2. CASE violations = {}
      <4>1. Over(stale, n) # {}
            BY <1>5, <2>3, <3>2
      <4>2. stale # None /\ n - stale > MaxGap
            BY <4>1 DEF Over
      <4>3. stale \in Nat /\ stale + MaxGap <= t
            BY <1>0, <1>1, <4>2 DEF n
      <4>4. stale \in 0 .. Length - MaxGap
            BY <1>0, <1>1, <4>3
      <4>5. ASSUME NEW i \in 1 .. MaxGap PROVE stale + i \in down' \cup blind'
        <5>1. stale + i \in 1 .. t /\ stale + i > stale
              BY <1>0, <1>1, <4>3
        <5>. QED
              BY <1>2, <3>0, <4>2, <5>1 DEF IInv, OnlyOutages
      <4>. QED
            BY <4>4, <4>5 DEF HasRun
    <3>. QED
          BY <3>1, <3>2
  <2>. QED
        BY <1>1, <2>1, <2>2, <2>3 DEF OnlyOutages
<1>11. OutagesSeen'
  <2>. DEFINE Down(f) == \A k \in 1 .. n : k > f => k \in down'
  <2>1. ASSUME NEW f \in 0 .. n, Down(f), f # n
        PROVE  /\ f \in 0 .. t /\ DownSince(f) /\ n \in down' /\ stored' = stored
               /\ \A x \in stored' : x <= f
    <3>1. f \in 0 .. t /\ n > f /\ n \in 1 .. n
          BY <1>1, <2>1 DEF n
    <3>2. n \in down' /\ stored' = stored
          BY <1>2, <2>1, <3>1
    <3>3. DownSince(f)
      <4>1. \A k \in 1 .. t : k \in 1 .. n
            BY <1>1 DEF n
      <4>. QED
            BY <1>2, <2>1, <4>1 DEF DownSince
    <3>. QED
          BY <1>1, <3>1, <3>2, <3>3 DEF IInv, OutagesSeen
  <2>2. ASSUME NEW f \in 0 .. n, Down(f) PROVE \A x \in stored' : x <= f
    <3>1. CASE f = n
          BY <1>1, <1>2, <3>1
    <3>. QED
          BY <2>1, <2>2, <3>1
  <2>3. ASSUME NEW f \in 0 .. n, Down(f), n - f >= FreshWindow, f + FreshWindow \notin blind'
        PROVE  stale' # None /\ stale' <= f
    <3>1. f # n
          BY <1>0, <1>1, <2>3
    <3>2. /\ f \in 0 .. t /\ DownSince(f) /\ \A x \in stored' : x <= f
          BY <2>1, <2>3, <3>1
    <3>3. \A x \in stored' : ~ (n - FreshWindow < x /\ x <= n)
      <4>1. \A x \in stored' : x \in Nat
            BY <1>1, <1>2
      <4>. QED
            BY <1>0, <1>1, <2>3, <3>2, <4>1
    <3>4. /\ blind \subseteq blind'
          /\ \/ stale' = stale /\ n \in blind'
             \/ stale' = IF stale = None THEN MaxOf(0, n - FreshWindow) ELSE stale
      <4>1. CASE UNCHANGED <<stale, violations>> /\ blind' = blind \cup {n}
            BY <4>1
      <4>. QED
            BY <1>5, <3>3, <4>1
    <3>5. CASE t - f >= FreshWindow
      <4>1. stale # None /\ stale <= f
            BY <1>1, <2>3, <3>2, <3>4, <3>5 DEF IInv, OutagesSeen
      <4>. QED
            BY <3>4, <4>1
    <3>6. CASE ~ (t - f >= FreshWindow)
      <4>1. f = n - FreshWindow /\ f >= 0 /\ f \in Int /\ f + FreshWindow = n
            BY <1>0, <1>1, <2>3, <3>2, <3>6 DEF n
      <4>2. MaxOf(0, n - FreshWindow) = f /\ f # None
            BY <1>0, <1>1, <3>2, <4>1 DEF MaxOf
      <4>3. stale' = IF stale = None THEN MaxOf(0, n - FreshWindow) ELSE stale
            BY <2>3, <3>4, <4>1
      <4>4. stale' # None
            BY <4>2, <4>3
      <4>5. stale' <= f
        <5>1. CASE stale = None
              BY <4>1, <4>2, <4>3, <5>1
        <5>2. CASE stale # None
          <6>1. stale' <= MaxOf(0, n - FreshWindow)
                BY <1>1, <1>9, <4>4 DEF StaleSince
          <6>. QED
                BY <4>2, <6>1
        <5>. QED
              BY <5>1, <5>2
      <4>. QED
            BY <4>4, <4>5
    <3>. QED
          BY <3>5, <3>6
  <2>4. ASSUME NEW f \in 0 .. n, f + MaxGap + 1 <= n, f + FreshWindow \notin blind',
               \A i \in 1 .. MaxGap + 1 : f + i \in down'
        PROVE  violations' # {} \/ (stale' # None /\ stale' <= f)
    <3>0. f + FreshWindow \notin blind
      <4>1. blind \subseteq blind'
            BY <1>5
      <4>. QED
            BY <2>4, <4>1
    <3>1. CASE f + MaxGap + 1 <= t
      <4>1. f \in 0 .. t
            BY <1>0, <1>1, <3>1
      <4>2. \A i \in 1 .. MaxGap + 1 : f + i \in down
        <5>. TAKE i \in 1 .. MaxGap + 1
        <5>1. f + i \in 1 .. t
              BY <1>0, <1>1, <3>1
        <5>. QED
              BY <1>2, <2>4, <5>1
      <4>3. violations # {} \/ (stale # None /\ stale <= f)
            BY <1>1, <3>0, <3>1, <4>1, <4>2 DEF IInv, OutagesSeen
      <4>4. CASE violations # {}
            BY <1>7, <4>4
      <4>5. CASE stale # None /\ stale <= f
        <5>1. stale \in Nat /\ n - stale > MaxGap
              BY <1>0, <1>1, <2>4, <4>5
        <5>2. Over(stale, n) # {}
              BY <4>5, <5>1 DEF Over
        <5>. QED
              BY <1>5, <2>4, <4>5, <5>2
      <4>. QED
            BY <4>3, <4>4, <4>5
    <3>2. CASE ~ (f + MaxGap + 1 <= t)
      <4>1. f + MaxGap + 1 = n
            BY <1>0, <1>1, <2>4, <3>2 DEF n
      <4>2. Down(f)
        <5>. SUFFICES ASSUME NEW k \in 1 .. n, k > f PROVE k \in down'
              OBVIOUS
        <5>1. k - f \in 1 .. MaxGap + 1 /\ f + (k - f) = k
              BY <1>0, <1>1, <4>1
        <5>. QED
              BY <2>4, <5>1
      <4>3. n - f >= FreshWindow
            BY <1>0, <1>1, <4>1
      <4>. QED
            BY <2>3, <2>4, <4>2, <4>3
    <3>. QED
          BY <3>1, <3>2
  <2>. QED
        BY <1>1, <2>2, <2>3, <2>4 DEF OutagesSeen, DownSince
<1>12. Judged'
      BY <1>1 DEF Judged
<1>. QED
      BY <1>8, <1>9, <1>10, <1>11, <1>12 DEF IInv

\* The chunk is closed and judged.
LEMMA CloseStep == IInv /\ Close => IInv'
<1>. SUFFICES ASSUME IInv, Close PROVE IInv'
      OBVIOUS
<1>0. /\ Length \in Nat \ {0} /\ FreshWindow \in Nat \ {0} /\ MaxGap \in Nat \ {0}
      /\ None \notin 0 .. Length
      BY ProbeAssumption DEF ProbeAssumption
<1>1. /\ t = Length /\ verdict = "running" /\ UNCHANGED <<t, stale, down, blind>>
      /\ violations' = violations \cup Over(stale, t)
      /\ verdict' = IF violations' # {} \/ BucketGaps(stored') # {} THEN "gap" ELSE "clean"
      BY DEF Close
<1>2. /\ t \in Nat /\ stored \subseteq 1 .. t /\ held \subseteq (1 .. t) \ stored
      /\ stale \in (0 .. t) \cup {None} /\ violations \subseteq (0 .. t) \X (0 .. t)
      /\ down \subseteq 1 .. t /\ blind \subseteq 1 .. t
      BY <1>0 DEF IInv, TypeOK
<1>3. stored \subseteq stored' /\ stored' \subseteq 1 .. t /\ held' \subseteq (1 .. t) \ stored'
      BY <1>2 DEF Close
<1>4. TypeOK'
  <2>1. Over(stale, t) \subseteq (0 .. t) \X (0 .. t)
        BY <1>2 DEF Over
  <2>. QED
        BY <1>0, <1>1, <1>2, <1>3, <2>1 DEF TypeOK
<1>5. StaleSince' /\ Judged'
      BY <1>1 DEF IInv, StaleSince, Judged
<1>6. OnlyOutages'
  <2>1. ASSUME violations' # {} PROVE HasRun(down \cup blind, MaxGap)
    <3>1. CASE violations # {}
          BY <2>1, <3>1 DEF IInv, OnlyOutages
    <3>2. CASE violations = {}
      <4>1. stale # None /\ t - stale > MaxGap
            BY <1>1, <2>1, <3>2 DEF Over
      <4>2. stale \in 0 .. Length - MaxGap
            BY <1>0, <1>1, <1>2, <4>1
      <4>3. ASSUME NEW i \in 1 .. MaxGap PROVE stale + i \in down \cup blind
        <5>1. stale + i \in 1 .. t /\ stale + i > stale
              BY <1>0, <1>1, <1>2, <4>1
        <5>. QED
              BY <2>1, <4>1, <5>1 DEF IInv, OnlyOutages
      <4>. QED
            BY <4>2, <4>3 DEF HasRun
    <3>. QED
          BY <3>1, <3>2
  <2>. QED
        BY <1>1, <1>3, <2>1 DEF IInv, OnlyOutages
<1>7. OutagesSeen'
  <2>1. verdict' # "running"
        BY <1>1
  <2>2. ASSUME NEW f \in 0 .. t, f + MaxGap + 1 <= t, f + FreshWindow \notin blind,
               \A i \in 1 .. MaxGap + 1 : f + i \in down
        PROVE  violations' # {}
    <3>1. violations # {} \/ (stale # None /\ stale <= f)
          BY <2>2 DEF IInv, OutagesSeen
    <3>2. CASE stale # None /\ stale <= f
      <4>1. stale \in Nat /\ t - stale > MaxGap
            BY <1>0, <1>2, <2>2, <3>2
      <4>. QED
            BY <1>1, <3>2, <4>1 DEF Over
    <3>. QED
          BY <1>1, <3>1, <3>2
  <2>. QED
        BY <1>1, <2>1, <2>2 DEF OutagesSeen
<1>. QED
      BY <1>4, <1>5, <1>6, <1>7 DEF IInv

\* What the probes have seen of a chunk, at every moment.
THEOREM Inductive == Spec => []IInv
<1>1. IInv /\ UNCHANGED vars => IInv'
      BY DEF vars, IInv, TypeOK, StaleSince, OnlyOutages, OutagesSeen, DownSince, Judged
<1>2. IInv /\ [Next]_vars => IInv'
      BY <1>1, TickStep, CloseStep DEF Next
<1>. QED
      BY <1>2, InitStep, PTL DEF Spec

\* collect_chunked.py:18-26: lost lines are caught by the buckets, outages that Promtail makes good
\* by the probes, unless the one a window into the outage goes unanswered; so a chunk called clean is
\* one, whatever its length and the two windows.
THEOREM FaultsCaught == Spec => []FaultsAreCaught
<1>1. IInv => FaultsAreCaught
  <2>. SUFFICES ASSUME IInv, verdict = "clean"
                PROVE  /\ ~ HasRun(Lost, MaxGap + 1)
                       /\ \A f \in 0 .. Length - (MaxGap + 1) :
                             (\A i \in 1 .. MaxGap + 1 : f + i \in down) => f + FreshWindow \in blind
        BY DEF FaultsAreCaught
  <2>0. Length \in Nat \ {0} /\ MaxGap \in Nat \ {0} /\ t = Length
        /\ violations = {} /\ BucketGaps(stored) = {} /\ stored \in SUBSET Ticks
        BY ProbeAssumption DEF ProbeAssumption, IInv, TypeOK, StaleSince, Judged, Ticks
  <2>1. ASSUME HasRun(Lost, MaxGap + 1) PROVE FALSE
    <3>1. PICK from \in 0 .. Length - (MaxGap + 1) :
             \A i \in 1 .. MaxGap + 1 : from + i \in Lost
          BY <2>1 DEF HasRun
    <3>2. \A i \in 1 .. MaxGap + 1 : from + i \notin stored
          BY <3>1 DEF Lost
    <3>. QED
          BY <2>0, <3>2, RunIsGap
  <2>2. ASSUME NEW f \in 0 .. Length - (MaxGap + 1), \A i \in 1 .. MaxGap + 1 : f + i \in down
        PROVE  f + FreshWindow \in blind
    <3>1. f \in 0 .. t /\ f + MaxGap + 1 <= t
          BY <2>0
    <3>. QED
          BY <2>0, <2>2, <3>1 DEF IInv, OutagesSeen
  <2>. QED
        BY <2>1, <2>2
<1>. QED
      BY <1>1, Inductive, PTL

\* collect_chunked.py:276-285: nothing is thrown away for an outage, or a silence of
\* the probes, shorter than max_gap.
THEOREM GapReal == Spec => []GapIsReal
<1>1. IInv => GapIsReal
  <2>. SUFFICES ASSUME IInv, verdict = "gap"
                PROVE  HasRun(down \cup blind, MaxGap) \/ HasRun(Ticks \ stored, MaxGap + 1)
        BY DEF GapIsReal
  <2>1. violations # {} \/ BucketGaps(stored) # {}
        BY DEF IInv, Judged
  <2>2. stored \in SUBSET Ticks
        BY ProbeAssumption DEF ProbeAssumption, IInv, TypeOK, StaleSince, Ticks
  <2>3. violations # {} => HasRun(down \cup blind, MaxGap)
        BY DEF IInv, OnlyOutages
  <2>. QED
        BY <2>1, <2>2, <2>3, GapIsRun
<1>. QED
      BY <1>1, Inductive, PTL
=============================================================================
