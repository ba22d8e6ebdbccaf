-------------------------- MODULE ChunkLedger_proofs --------------------------
(***************************************************************************)
(* Proofs about the ledger: what an append does to what is read, that no   *)
(* fault invents an hour, and, for whole writes and one writer, that a     *)
(* chunk ends at its last probe and that the ledger is the book of chunks. *)
(* The inductive invariant has a part for each way an hour could be wrong: *)
(* miscounted chunks, a verdict that forgot a flaw, a line about a chunk   *)
(* that is not over, a second chunk without an end.                        *)
(***************************************************************************)
EXTENDS ChunkLedger, FiniteSetTheorems, SequenceTheorems,
        WellFoundedInduction, TLAPS

Line == Record \cup {Torn}

IsFile(f) == f \in File /\ (f.open => f.lines # << >>)

Typed == TypeOK /\ IsFile(file)

\* Where the collector is in the count of chunks: nothing is known of one that
\* has not been opened.
Numbered ==
    /\ \A i \in Readable(file) : file.lines[i].chunk \in 1 .. opened
    /\ todo \subseteq 1 .. opened /\ rtodo \subseteq 1 .. opened
    /\ progress.chunk <= opened
    /\ pc \in InChunk => opened \in Chunks /\ done < opened
    /\ pc = "waiting" => opened < MaxChunks
    /\ done <= opened
    /\ \A d \in Chunks : d > opened => ran[d] = 0 /\ flaws[d] = {}
    /\ opened \in Chunks => LastProgress(opened) = ran[opened]

\* What the collector knows of the chunk it is recording is what there is to
\* know: the verdict it has reached takes every flaw into account.
Measured ==
    /\ pc \in InChunk => ran[opened] = probe
    /\ pc = "touching" => probe = 0
    /\ pc \in {"touching", "running"} => attempt = 0
    /\ pc \in {"touching", "running", "settling", "quality"} /\ flaws[opened] # {} => violated
    /\ pc \in {"settling", "quality"} => probe = Probes
    /\ pc = "settling" => attempt < PosthocRetries
    /\ pc = "quality" => status = "valid" /\ flaws[opened] = {}
    /\ pc = "ending" => status \in Statuses
    /\ pc = "ending" /\ status = "valid" => probe = Probes /\ flaws[opened] = {}

Clean(c, hours) == ran[c] = Probes /\ flaws[c] = {} /\ hours = Probes

\* A line that says valid is about a chunk that is over and was clean.
CleanEnds ==
    \A i \in Readable(file) :
        LET r == file.lines[i]
        IN  r.event = "end" /\ r.status = "valid" =>
                Clean(r.chunk, r.hours) /\ (r.chunk = opened => pc \notin InChunk)

\* With whole writes and one writer only the chunk opened last may be without
\* its end, and what the collector is about to close is just that.
OneOpen ==
    OneWholeWriter =>
        /\ ~ file.open /\ rtodo = {}
        /\ Orphans(file) \subseteq {opened}
        /\ pc \in InChunk => Orphans(file) = {opened}
        /\ pc = "recover" => Orphans(file) = todo
        /\ pc \in {"loop", "waiting"} => Orphans(file) = {}

\* There, every end record names the last probe.
EndsMeasured ==
    OneWholeWriter =>
        \A i \in Readable(file) :
            file.lines[i].event = "end" => file.lines[i].t_end = ran[file.lines[i].chunk]

IInv == Typed /\ Numbered /\ Measured /\ CleanEnds /\ OneOpen /\ EndsMeasured

-----------------------------------------------------------------------------
(* The file.                                                               *)

\* A nonempty set of line numbers has a largest one: the least element of
\* the distances to the end.
LEMMA LastOfLines ==
    ASSUME NEW n \in Nat, NEW S \in SUBSET (1 .. n), S # {}
    PROVE  Max(S) \in S /\ \A x \in S : Max(S) >= x
<1>. DEFINE away == { n - x : x \in S }
<1>1. away \subseteq Nat /\ away # {}
  <2>1. \A x \in S : n - x \in Nat /\ n - x \in away
        OBVIOUS
  <2>2. away \subseteq Nat
        BY <2>1
  <2>. QED
        BY <2>1, <2>2
<1>2. PICK t \in away : \A y \in away : <<y, t>> \notin OpToRel(<, Nat)
  <2>1. IsWellFoundedOn(OpToRel(<, Nat), Nat)
        BY NatLessThanWellFounded
  <2>. QED
        BY <1>1, <2>1, WFMin
<1>3. \A y \in away : ~ (y < t)
      BY <1>1, <1>2 DEF OpToRel
<1>4. PICK m \in S : t = n - m
      OBVIOUS
<1>5. \A x \in S : m >= x
  <2>. TAKE x \in S
  <2>1. ~ (n - x < n - m)
        BY <1>3, <1>4
  <2>2. m \in Nat /\ x \in Nat
        OBVIOUS
  <2>. QED
        BY <2>1, <2>2
<1>. QED
      BY <1>5 DEF Max

\* A reader finds the line that was put, or what was there, or nothing new.
LEMMA PutLines ==
    ASSUME NEW f, IsFile(f), NEW r \in Line, NEW open \in BOOLEAN
    PROVE  /\ IsFile(Put(f, r, open))
           /\ \A i \in Readable(Put(f, r, open)) :
                \/ Put(f, r, open).lines[i] = r
                \/ /\ i \in Readable(f)
                   /\ Put(f, r, open).lines[i] = f.lines[i]
<1>. DEFINE g == Put(f, r, open)
<1>0. f.lines \in Seq(Line) /\ Torn \in Line /\ f.open \in BOOLEAN
      BY DEF IsFile, File, Line
<1>1. CASE f.open
  <2>1. g.lines = [f.lines EXCEPT ![Len(f.lines)] = Torn] /\ g.open = open
        BY <1>1 DEF Put
  <2>2. g.lines \in Seq(Line) /\ g.lines # << >>
    <3>1. Len(f.lines) \in 1 .. Len(f.lines)
          BY <1>0, <1>1, EmptySeq, LenProperties DEF IsFile
    <3>2. g.lines \in Seq(Line) /\ Len(g.lines) = Len(f.lines)
          BY <1>0, <2>1, <3>1, ExceptSeq
    <3>. QED
          BY <3>1, <3>2
  <2>3. g \in File
        BY <2>1, <2>2 DEF Put, File, Line
  <2>4. \A i \in Readable(g) : i \in Readable(f) /\ g.lines[i] = f.lines[i]
        BY <1>0, <2>1 DEF Readable
  <2>. QED
        BY <2>1, <2>2, <2>3, <2>4 DEF IsFile
<1>2. CASE ~ f.open
  <2>1. g.lines = Append(f.lines, r) /\ g.open = open
        BY <1>2 DEF Put
  <2>2. g.lines \in Seq(Line) /\ g.lines # << >>
        BY <1>0, <2>1
  <2>3. g \in File
        BY <2>1, <2>2 DEF Put, File, Line
  <2>4. \A i \in DOMAIN g.lines :
          \/ g.lines[i] = r
          \/ i \in DOMAIN f.lines /\ g.lines[i] = f.lines[i]
        BY <1>0, <2>1
  <2>. QED
        BY <2>1, <2>2, <2>3, <2>4 DEF IsFile, Readable
<1>. QED
      BY <1>1, <1>2

\* What the write of a record may leave, be it whole or cut.
Written(f, r) == {AppendRec(f, r)} \cup Damaged(f, r)

LEMMA WrittenLines ==
    ASSUME NEW f, IsFile(f), NEW r \in Record, NEW g \in Written(f, r)
    PROVE  /\ IsFile(g)
           /\ \A i \in Readable(g) :
                g.lines[i] = r \/ (i \in Readable(f) /\ g.lines[i] = f.lines[i])
<1>1. r \in Line /\ Torn \in Line
      BY DEF Line
<1>2. \/ g = Put(f, r, FALSE)
      \/ g = Put(f, r, TRUE)
      \/ g = Put(f, Torn, TRUE)
      BY DEF Written, AppendRec, Damaged
<1>3. CASE g = Put(f, r, FALSE)
      BY <1>1, <1>3, PutLines
<1>4. CASE g = Put(f, r, TRUE)
      BY <1>1, <1>4, PutLines
<1>5. CASE g = Put(f, Torn, TRUE)
  <2>1. \A i \in Readable(g) : g.lines[i] # Torn
        BY DEF Readable
  <2>. QED
        BY <1>1, <1>5, <2>1, PutLines
<1>. QED
      BY <1>2, <1>3, <1>4, <1>5

\* What a whole append after a newline does to what is read.
LEMMA Appended ==
    ASSUME NEW f, IsFile(f), ~ f.open, NEW r \in Record, NEW g, g = AppendRec(f, r)
    PROVE  /\ IsFile(g) /\ ~ g.open
           /\ Readable(g) = Readable(f) \cup {Len(f.lines) + 1}
           /\ Len(f.lines) + 1 \notin Readable(f)
           /\ Len(f.lines) \in Nat
           /\ Readable(f) \subseteq 1 .. Len(f.lines)
           /\ g.lines[Len(f.lines) + 1] = r
           /\ \A i \in Readable(f) : g.lines[i] = f.lines[i]
<1>1. g.lines = Append(f.lines, r) /\ g.open = FALSE
      BY DEF AppendRec, Put
<1>2. f.lines \in Seq(Line) /\ r \in Line /\ r # Torn
      BY TornAssumption DEF IsFile, File, Line
<1>3. IsFile(g)
      BY <1>2, PutLines DEF AppendRec
<1>. QED
      BY <1>1, <1>2, <1>3 DEF Readable

\* A start record opens its chunk and says nothing of the others.
LEMMA StartAppended ==
    ASSUME NEW f, IsFile(f), ~ f.open, NEW c \in Chunks, NEW g, g = AppendRec(f, StartRec(c))
    PROVE  /\ Known(g) = Known(f) \cup {c}
           /\ \A d \in Chunks : EndsAt(g, d) = EndsAt(f, d)
           /\ Closed(g) = Closed(f)
           /\ \A d \in Closed(f) : LastEnd(g, d) = LastEnd(f, d)
<1>. DEFINE r == StartRec(c)
            n == Len(f.lines) + 1
<1>1. r \in Record /\ r.chunk = c /\ r.event = "start"
      BY DEF StartRec, Record
<1>. HIDE DEF r
<1>2. /\ Readable(g) = Readable(f) \cup {n} /\ n \notin Readable(f)
      /\ g.lines[n] = r
      /\ \A i \in Readable(f) : g.lines[i] = f.lines[i]
      BY <1>1, Appended DEF r
<1>. HIDE DEF n
<1>3. \A d \in Chunks : At(g, d) = IF d = c THEN At(f, d) \cup {n} ELSE At(f, d)
      BY <1>1, <1>2 DEF At
<1>4. \A d \in Chunks : EndsAt(g, d) = EndsAt(f, d)
      BY <1>1, <1>2, <1>3 DEF EndsAt, At
<1>5. Known(g) = Known(f) \cup {c} /\ Closed(g) = Closed(f)
      BY <1>3, <1>4 DEF Known, Closed
<1>6. ASSUME NEW d \in Closed(f)
      PROVE  LastEnd(g, d) = LastEnd(f, d)
  <2>1. EndsAt(f, d) \subseteq Readable(f) /\ EndsAt(f, d) # {} /\ d \in Chunks
        BY <1>6 DEF Closed, EndsAt, At
  <2>2. Max(EndsAt(f, d)) \in Readable(f)
        BY <2>1, Appended, <1>1, LastOfLines DEF r
  <2>. QED
        BY <1>2, <1>4, <2>1, <2>2 DEF LastEnd
<1>. QED
      BY <1>4, <1>5, <1>6

\* An end record closes its chunk with what it says, and no other.
LEMMA EndAppended ==
    ASSUME NEW f, IsFile(f), ~ f.open, NEW r \in Record, r.event = "end",
           NEW g, g = AppendRec(f, r)
    PROVE  /\ Known(g) = Known(f) \cup {r.chunk}
           /\ Closed(g) = Closed(f) \cup {r.chunk}
           /\ LastEnd(g, r.chunk) = r
           /\ \A d \in Closed(f) \ {r.chunk} : LastEnd(g, d) = LastEnd(f, d)
<1>. DEFINE n == Len(f.lines) + 1
<1>1. r.chunk \in Chunks
      BY DEF Record, StartRec, ExportRec
<1>2. /\ Readable(g) = Readable(f) \cup {n} /\ n \notin Readable(f)
      /\ g.lines[n] = r
      /\ Len(f.lines) \in Nat /\ Readable(f) \subseteq 1 .. Len(f.lines)
      /\ \A i \in Readable(f) : g.lines[i] = f.lines[i]
      BY Appended
<1>3. \A d \in Chunks : At(g, d) = IF d = r.chunk THEN At(f, d) \cup {n} ELSE At(f, d)
      BY <1>2 DEF At
<1>4. \A d \in Chunks : EndsAt(g, d) = IF d = r.chunk THEN EndsAt(f, d) \cup {n} ELSE EndsAt(f, d)
      BY <1>2, <1>3 DEF EndsAt, At
<1>5. Known(g) = Known(f) \cup {r.chunk} /\ Closed(g) = Closed(f) \cup {r.chunk}
      BY <1>1, <1>3, <1>4 DEF Known, Closed
<1>6. \A d \in Chunks : EndsAt(f, d) \subseteq 1 .. Len(f.lines) /\ EndsAt(f, d) \subseteq Readable(f)
      BY <1>2 DEF EndsAt, At
<1>7. LastEnd(g, r.chunk) = r
  <2>. DEFINE S == EndsAt(g, r.chunk)
  <2>1. S \subseteq 1 .. n /\ n \in S /\ n \in Nat
        BY <1>1, <1>2, <1>4, <1>6
  <2>. HIDE DEF S, n
  <2>2. Max(S) \in S /\ Max(S) >= n
        BY <2>1, LastOfLines
  <2>3. Max(S) \in 1 .. n
        BY <2>1, <2>2
  <2>4. Max(S) = n
        BY <2>1, <2>2, <2>3
  <2>. QED
        BY <1>2, <2>4 DEF LastEnd, S, n
<1>8. ASSUME NEW d \in Closed(f) \ {r.chunk}
      PROVE  LastEnd(g, d) = LastEnd(f, d)
  <2>1. d \in Chunks /\ EndsAt(f, d) # {}
        BY <1>8 DEF Closed
  <2>2. Max(EndsAt(f, d)) \in EndsAt(f, d)
        BY <1>2, <1>6, <2>1, LastOfLines
  <2>. QED
        BY <1>2, <1>4, <1>6, <1>8, <2>1, <2>2 DEF LastEnd
<1>. QED
      BY <1>5, <1>7, <1>8

\* The line that counts for a closed chunk.
LEMMA LastEndLine ==
    ASSUME NEW f, IsFile(f), NEW c \in Closed(f)
    PROVE  \E i \in Readable(f) :
              /\ f.lines[i] = LastEnd(f, c)
              /\ f.lines[i].chunk = c /\ f.lines[i].event = "end"
              /\ f.lines[i] \in Record
<1>1. f.lines \in Seq(Line) /\ Len(f.lines) \in Nat
      BY DEF IsFile, File, Line
<1>2. EndsAt(f, c) \subseteq 1 .. Len(f.lines) /\ EndsAt(f, c) # {}
      BY <1>1 DEF Closed, EndsAt, At, Readable
<1>3. Max(EndsAt(f, c)) \in EndsAt(f, c)
      BY <1>1, <1>2, LastOfLines
<1>4. \A i \in EndsAt(f, c) : /\ i \in Readable(f) /\ f.lines[i] \in Record
                              /\ f.lines[i].chunk = c /\ f.lines[i].event = "end"
      BY <1>1 DEF EndsAt, At, Readable, Line
<1>. QED
      BY <1>3, <1>4 DEF LastEnd

-----------------------------------------------------------------------------
(* The records that are written.                                           *)

LEMMA Recorded ==
    ASSUME Typed
    PROVE  /\ \A c \in Chunks :
                /\ StartRec(c) \in Record
                /\ StartRec(c).chunk = c /\ StartRec(c).event = "start"
                /\ RecoveredEnd(c) \in Record
                /\ RecoveredEnd(c).chunk = c /\ RecoveredEnd(c).event = "end"
                /\ RecoveredEnd(c).status = "aborted"
                /\ RecoveredEnd(c).t_end = LastProgress(c)
           /\ opened \in Chunks /\ status \in Statuses =>
                /\ EndOfChunk \in Record
                /\ EndOfChunk.chunk = opened /\ EndOfChunk.event = "end"
                /\ EndOfChunk.status = status
                /\ EndOfChunk.t_end = probe
                /\ status = "valid" => EndOfChunk.hours = probe
<1>1. \A c \in Chunks : StartRec(c) \in Record /\ StartRec(c).chunk = c /\ StartRec(c).event = "start"
      BY DEF StartRec, Record
<1>2. \A c \in Chunks : LastProgress(c) \in Nat
      BY ParameterAssumption DEF Typed, TypeOK, LastProgress
<1>3. \A c \in Chunks, s \in Statuses, t \in Nat, h \in Nat :
        LET r == EndRec(c, s, t, h)
        IN  /\ r \in Record /\ r.chunk = c /\ r.event = "end"
            /\ r.status = s /\ r.t_end = t /\ r.hours = h
      BY DEF EndRec, Record
<1>4. "aborted" \in Statuses /\ probe \in Nat /\ Hours \in Nat /\ (status = "valid" => Hours = probe)
      BY ParameterAssumption DEF Statuses, Typed, TypeOK, Hours
<1>. QED
      BY <1>1, <1>2, <1>3, <1>4 DEF RecoveredEnd, EndOfChunk

\* What a dying process was about to append.
LEMMA PendingRecords ==
    ASSUME Typed, Numbered, Measured, NEW r \in Pending
    PROVE  /\ r \in Record
           /\ \/ pc = "recover" /\ \E c \in todo : r = RecoveredEnd(c)
              \/ pc = "waiting" /\ opened + 1 \in Chunks /\ r = StartRec(opened + 1)
              \/ pc = "ending" /\ opened \in Chunks /\ status \in Statuses /\ r = EndOfChunk
<1>1. /\ \/ pc = "recover" /\ \E c \in todo : r = RecoveredEnd(c)
         \/ pc = "waiting" /\ opened < MaxChunks /\ r = StartRec(opened + 1)
         \/ pc = "ending" /\ r = EndOfChunk
      BY DEF Pending
<1>2. todo \subseteq Chunks
      BY DEF Typed, TypeOK
<1>3. opened < MaxChunks => opened + 1 \in Chunks
      BY MaxChunksAssumption DEF Typed, TypeOK, Chunks
<1>4. pc = "ending" => opened \in Chunks /\ status \in Statuses
      BY DEF Numbered, Measured, InChunk
<1>. QED
      BY <1>1, <1>2, <1>3, <1>4, Recorded

\* How a process dies.
LEMMA DeathStep ==
    ASSUME Typed, DiesAround \/ KillInWrite
    PROVE  /\ \/ file' = file /\ opened' = opened
              \/ \E r \in Pending :
                    /\ file' \in Written(file, r)
                    /\ ~ KillInWrite => file' = AppendRec(file, r)
                    /\ opened' = IF pc = "waiting" THEN opened + 1 ELSE opened
           /\ pc' = "down" /\ todo' = {}
           /\ UNCHANGED <<progress, done, probe, violated, attempt, status, rtodo>>
<1>1. CASE DiesAround
      BY <1>1 DEF DiesAround, Dies, Written
<1>2. CASE KillInWrite
      BY <1>2 DEF KillInWrite, Dies, Written
<1>. QED
      BY <1>1, <1>2

\* A death leaves what was measured alone.
LEMMA DeathKeeps ==
    ASSUME Kill \/ KillInWrite \/ StopElsewhere
    PROVE  /\ DiesAround \/ KillInWrite
           /\ UNCHANGED <<ran, flaws, stopped, plan>>
           /\ faults' = faults + 1 /\ faults < MaxFaults
           /\ KillInWrite => "tear" \in plan
<1>. QED
      BY DEF Kill, KillInWrite, StopElsewhere, Inject, history

-----------------------------------------------------------------------------
(* Types.                                                                  *)

LEMMA TypedInit == Init => Typed
<1>. SUFFICES ASSUME Init PROVE Typed
      OBVIOUS
<1>1. file \in File /\ IsFile(file)
      BY DEF Init, EmptyFile, File, IsFile
<1>2. /\ 0 \in 0 .. MaxChunks /\ 0 \in 0 .. Probes /\ 0 \in 0 .. PosthocRetries
      /\ 0 \in 0 .. MaxFaults
      BY MaxChunksAssumption, ParameterAssumption
<1>3. /\ progress \in [chunk : Chunks \cup {0}, t : 0 .. Probes]
      /\ ran \in [Chunks -> 0 .. Probes]
      BY <1>2 DEF Init
<1>4. flaws \in [Chunks -> SUBSET Flaws] /\ stopped \in [Chunks -> BOOLEAN]
      BY DEF Init
<1>. QED
      BY <1>1, <1>2, <1>3, <1>4 DEF Init, Typed, TypeOK

\* The part of the types that has to do with the file.
LEMMA FileTyped ==
    ASSUME Typed, Numbered, Measured, [Next]_vars
    PROVE  IsFile(file')
<1>0. IsFile(file) /\ todo \subseteq Chunks /\ rtodo \subseteq Chunks
      BY DEF Typed, TypeOK
<1>1. ASSUME NEW r \in Record, file' = AppendRec(file, r)
      PROVE  IsFile(file')
      BY <1>0, <1>1, WrittenLines DEF Written
<1>2. CASE \E c \in Chunks : RecoverOne(c) \/ ReportCloses(c)
      BY <1>1, <1>2, Recorded DEF RecoverOne, ReportCloses
<1>3. CASE OpenChunk
  <2>1. opened + 1 \in Chunks
        BY <1>3, MaxChunksAssumption DEF OpenChunk, Numbered, Typed, TypeOK, Chunks
  <2>. QED
        BY <1>1, <1>3, <2>1, Recorded DEF OpenChunk
<1>4. CASE CloseChunk
  <2>1. opened \in Chunks /\ status \in Statuses
        BY <1>4 DEF CloseChunk, Numbered, Measured, InChunk
  <2>. QED
        BY <1>1, <1>4, <2>1, Recorded DEF CloseChunk
<1>5. CASE Kill \/ KillInWrite \/ StopElsewhere
      BY <1>0, <1>5, DeathStep, DeathKeeps, PendingRecords, WrittenLines
<1>6. CASE UNCHANGED file
      BY <1>0, <1>6
<1>7. ASSUME ~ UNCHANGED file
      PROVE  \/ \E c \in Chunks : RecoverOne(c) \/ ReportCloses(c)
             \/ OpenChunk \/ CloseChunk
             \/ Kill \/ KillInWrite \/ StopElsewhere
  <2>1. CASE Collector
        BY <1>7, <2>1 DEF Collector, Start, Recovered, LoopEnds, LoopOpens, PreconditionTimeout,
           Moves, TouchStart, BlindProbe, WorkloadDies, Probe, PeriodEnds, PosthocAnswers,
           PosthocFails, QualityGate, ledger
  <2>2. CASE Environment
        BY <1>7, <2>2 DEF Environment, StopInChunk, StopSwallowed, StopSwallowedAfter,
           ReportReads, ledger
  <2>. QED
        BY <1>7, <2>1, <2>2 DEF Next, vars, ledger
<1>. QED
      BY <1>2, <1>3, <1>4, <1>5, <1>6, <1>7

\* The chunk that is being recorded is one of the chunks.
LEMMA Counting ==
    ASSUME Typed, Numbered
    PROVE  /\ opened \in Nat /\ MaxChunks \in Nat /\ opened <= MaxChunks
           /\ Chunks = 1 .. MaxChunks
           /\ Probes \in Nat /\ Probes > 0
           /\ pc \in InChunk => opened \in Chunks
<1>. QED
      BY MaxChunksAssumption, ParameterAssumption DEF Typed, TypeOK, Numbered, Chunks

LEMMA TypedNext ==
    ASSUME Typed, Numbered, Measured, [Next]_vars
    PROVE  Typed'
<1>0. /\ IsFile(file')
      /\ file' \in File
      BY FileTyped DEF IsFile
<1>1. /\ opened \in Nat /\ MaxChunks \in Nat /\ opened <= MaxChunks
      /\ Probes \in Nat /\ Probes > 0
      /\ Chunks = 1 .. MaxChunks
      /\ pc \in InChunk => opened \in Chunks
      BY Counting
<1>2. PosthocRetries \in Nat /\ PosthocRetries > 0 /\ MaxFaults \in Nat
      BY ParameterAssumption
<1>3. TypeOK
      BY DEF Typed
<1>4. Orphans(file) \subseteq Chunks
      BY DEF Orphans, Known
<1>. SUFFICES TypeOK'
      BY <1>0 DEF Typed
<1>5. CASE Start
      BY <1>0, <1>1, <1>3, <1>4, <1>5 DEF TypeOK, Start, others, ledger, history
<1>6. CASE Recovered \/ LoopEnds \/ LoopOpens \/ PreconditionTimeout
      BY <1>0, <1>3, <1>6 DEF TypeOK, Recovered, LoopEnds, LoopOpens, PreconditionTimeout, Moves,
         others, ledger, history
<1>7. ASSUME NEW c \in Chunks, RecoverOne(c)
      PROVE  TypeOK'
      BY <1>0, <1>3, <1>7 DEF TypeOK, RecoverOne, others, history
<1>8. CASE OpenChunk
  <2>1. opened' \in 0 .. MaxChunks
        BY <1>1, <1>8 DEF OpenChunk, Numbered
  <2>2. probe' \in 0 .. Probes /\ attempt' \in 0 .. PosthocRetries
        BY <1>1, <1>2, <1>8 DEF OpenChunk
  <2>. QED
        BY <1>0, <1>3, <1>8, <2>1, <2>2 DEF TypeOK, OpenChunk, others, history, InChunk
<1>9. CASE TouchStart
      BY <1>0, <1>1, <1>3, <1>9 DEF TypeOK, TouchStart, others, history, InChunk
<1>10. ASSUME Touch, UNCHANGED <<file, todo, done, opened, attempt, rtodo>>,
              pc' \in {"running", "ending"}, violated' \in BOOLEAN, plan' = plan,
              faults' \in 0 .. MaxFaults,
              status' \in Statuses \cup {"none"}, flaws' \in [Chunks -> SUBSET Flaws],
              stopped' \in [Chunks -> BOOLEAN]
       PROVE  TypeOK'
       BY <1>0, <1>1, <1>3, <1>10 DEF TypeOK, Touch, InChunk
<1>11. ASSUME NEW why \in SUBSET Flaws, Finds(why)
       PROVE  flaws' \in [Chunks -> SUBSET Flaws]
       BY <1>3, <1>11 DEF TypeOK, Finds
<1>12. ASSUME NEW long \in BOOLEAN, Probe(long)
       PROVE  TypeOK'
  <2>1. flaws' \in [Chunks -> SUBSET Flaws]
        BY <1>11, <1>12 DEF Probe, Flaws
  <2>. QED
        BY <1>3, <1>10, <1>12, <2>1 DEF TypeOK, Probe, Touch, others
<1>13. CASE BlindProbe
       BY <1>3, <1>10, <1>13 DEF TypeOK, BlindProbe, Touch, others
<1>14. CASE WorkloadDies
  <2>1. flaws' \in [Chunks -> SUBSET Flaws]
        BY <1>11, <1>14 DEF WorkloadDies, Flaws
  <2>. QED
        BY <1>3, <1>10, <1>14, <2>1 DEF TypeOK, WorkloadDies, others, Statuses, Touch
<1>15. ASSUME NEW long \in BOOLEAN, PeriodEnds(long)
       PROVE  TypeOK'
  <2>1. flaws' \in [Chunks -> SUBSET Flaws]
        BY <1>11, <1>15 DEF PeriodEnds, Flaws
  <2>. QED
        BY <1>0, <1>3, <1>15, <2>1 DEF TypeOK, PeriodEnds, others, ledger, InChunk
<1>16. ASSUME NEW gaps \in BOOLEAN, PosthocAnswers(gaps)
       PROVE  TypeOK'
  <2>1. flaws' \in [Chunks -> SUBSET Flaws]
        BY <1>11, <1>16 DEF PosthocAnswers, Flaws
  <2>. QED
        BY <1>0, <1>3, <1>16, <2>1 DEF TypeOK, PosthocAnswers, others, ledger, InChunk, Verdict, Statuses
<1>17. CASE PosthocFails
  <2>1. flaws' \in [Chunks -> SUBSET Flaws]
        BY <1>3, <1>11, <1>17 DEF PosthocFails, Flaws, TypeOK
  <2>2. attempt < PosthocRetries
        BY <1>17 DEF PosthocFails, Measured
  <2>. QED
        BY <1>0, <1>2, <1>3, <1>17, <2>1, <2>2 DEF TypeOK, PosthocFails, others, ledger, InChunk, Statuses
<1>18. ASSUME NEW bad \in BOOLEAN, QualityGate(bad)
       PROVE  TypeOK'
  <2>1. flaws' \in [Chunks -> SUBSET Flaws]
        BY <1>11, <1>18 DEF QualityGate, Flaws
  <2>. QED
        BY <1>0, <1>3, <1>18, <2>1 DEF TypeOK, QualityGate, others, ledger, InChunk, Statuses
<1>19. CASE CloseChunk
  <2>1. done < opened
        BY <1>19 DEF CloseChunk, Numbered, InChunk
  <2>. QED
        BY <1>0, <1>1, <1>3, <1>19, <2>1 DEF TypeOK, CloseChunk, others, history
<1>20. CASE Kill \/ KillInWrite \/ StopElsewhere
  <2>1. opened' \in 0 .. MaxChunks
    <3>1. opened' = opened \/ (pc = "waiting" /\ opened' = opened + 1)
          BY <1>20, DeathStep, DeathKeeps
    <3>2. pc = "waiting" => opened < MaxChunks
          BY DEF Numbered
    <3>. QED
          BY <1>1, <3>1, <3>2
  <2>2. pc' = "down" /\ todo' = {} /\ UNCHANGED <<progress, done, probe, violated, attempt, status, rtodo>>
        BY <1>20, DeathStep, DeathKeeps
  <2>3. faults' \in 0 .. MaxFaults /\ UNCHANGED <<ran, flaws, stopped, plan>>
        BY <1>2, <1>3, <1>20, DeathKeeps DEF TypeOK
  <2>. QED
        BY <1>0, <1>3, <2>1, <2>2, <2>3 DEF TypeOK
<1>21. CASE StopInChunk
  <2>1. flaws' \in [Chunks -> SUBSET Flaws]
        BY <1>11, <1>21 DEF StopInChunk, Flaws
  <2>2. faults' \in 0 .. MaxFaults /\ plan' = plan
        BY <1>2, <1>3, <1>21 DEF StopInChunk, Inject, TypeOK
  <2>3. stopped' \in [Chunks -> BOOLEAN]
        BY <1>3, <1>21 DEF StopInChunk, TypeOK
  <2>. QED
        BY <1>0, <1>3, <1>21, <2>1, <2>2, <2>3 DEF TypeOK, StopInChunk, ledger, InChunk, Statuses
<1>22. CASE StopSwallowed
  <2>1. faults' \in 0 .. MaxFaults /\ plan' = plan
        BY <1>2, <1>3, <1>22 DEF StopSwallowed, Inject, TypeOK
  <2>. QED
        BY <1>3, <1>10, <1>22, <2>1 DEF TypeOK, StopSwallowed, Touch
<1>23. CASE StopSwallowedAfter
       BY <1>0, <1>2, <1>3, <1>23 DEF TypeOK, StopSwallowedAfter, Inject, ledger, history
<1>24. CASE ReportReads
       BY <1>0, <1>2, <1>3, <1>4, <1>24 DEF TypeOK, ReportReads, Inject, ledger, locals, history
<1>25. ASSUME NEW c \in Chunks, ReportCloses(c)
       PROVE  TypeOK'
       BY <1>0, <1>3, <1>25 DEF TypeOK, ReportCloses, locals, history
<1>26. CASE UNCHANGED vars
       BY <1>3, <1>26 DEF TypeOK, vars, ledger, locals, others, history
<1>. QED
      BY <1>5, <1>6, <1>7, <1>8, <1>9, <1>12, <1>13, <1>14, <1>15, <1>16, <1>17, <1>18, <1>19,
         <1>20, <1>21, <1>22, <1>23, <1>24, <1>25, <1>26
         DEF Next, Collector, Environment

-----------------------------------------------------------------------------
(* Where the collector is in the count of chunks.                          *)

\* Reading and deciding leaves the file and the count alone.
LEMMA NumberedFrame ==
    ASSUME Typed, Numbered,
           UNCHANGED <<file, progress, opened, rtodo, ran>>,
           todo' = todo, done' = done,
           flaws' = flaws \/ (opened \in Chunks /\ \E why : flaws' = [flaws EXCEPT ![opened] = @ \cup why]),
           pc' \in InChunk => pc \in InChunk,
           pc' # "waiting"
    PROVE  Numbered'
<1>1. \A d \in Chunks : d > opened => flaws'[d] = {}
      BY DEF Numbered, Typed, TypeOK
<1>. QED
      BY <1>1 DEF Numbered, LastProgress, Readable

\* A record about a known chunk, whole or cut.
LEMMA NumberedWrite ==
    ASSUME Typed, NEW n \in Nat, \A i \in Readable(file) : file.lines[i].chunk \in 1 .. n,
           NEW m \in Nat, n <= m, NEW r \in Record, r.chunk \in 1 .. m, file' \in Written(file, r)
    PROVE  \A i \in Readable(file') : file'.lines[i].chunk \in 1 .. m
<1>1. IsFile(file)
      BY DEF Typed
<1>2. \A i \in Readable(file') :
         file'.lines[i] = r \/ (i \in Readable(file) /\ file'.lines[i] = file.lines[i])
      BY <1>1, WrittenLines
<1>. QED
      BY <1>2

LEMMA NumberedNext ==
    ASSUME Typed, Numbered, Measured, Typed', [Next]_vars
    PROVE  Numbered'
<1>0. /\ opened \in Nat /\ MaxChunks \in Nat /\ opened <= MaxChunks
      /\ Chunks = 1 .. MaxChunks
      /\ pc \in InChunk => opened \in Chunks
      /\ todo \subseteq 1 .. opened /\ rtodo \subseteq 1 .. opened
      BY Counting DEF Numbered
<1>1. TypeOK /\ TypeOK'
      BY DEF Typed
<1>2. Orphans(file) \subseteq 1 .. opened
      BY DEF Orphans, Known, At, Numbered
<1>3. CASE Start
      BY <1>0, <1>2, <1>3 DEF Start, others, ledger, history, Numbered, InChunk, Readable, LastProgress
<1>4. CASE Recovered \/ LoopEnds \/ PreconditionTimeout
      BY <1>4, NumberedFrame DEF Recovered, LoopEnds, PreconditionTimeout, Moves, others, ledger,
         history, InChunk
<1>5. CASE LoopOpens
      BY <1>0, <1>5 DEF LoopOpens, Enough, Moves, others, ledger, history, InChunk, Numbered,
         Readable, LastProgress
<1>6. ASSUME NEW c \in 1 .. opened, file' = AppendRec(file, RecoveredEnd(c)),
             UNCHANGED <<progress, pc, done, opened, history>>,
             todo' \subseteq todo, rtodo' \subseteq rtodo
      PROVE  Numbered'
  <2>1. \A i \in Readable(file') : file'.lines[i].chunk \in 1 .. opened
        BY <1>0, <1>6, NumberedWrite, Recorded DEF Written, Numbered
  <2>. QED
        BY <1>6, <2>1 DEF history, Numbered, LastProgress
<1>7. ASSUME NEW c \in Chunks, RecoverOne(c)
      PROVE  Numbered'
      BY <1>0, <1>6, <1>7 DEF RecoverOne, others
<1>8. CASE OpenChunk
  <2>1. opened' = opened + 1 /\ opened' \in Chunks
        BY <1>0, <1>8 DEF OpenChunk, Numbered
  <2>2. \A i \in Readable(file') : file'.lines[i].chunk \in 1 .. opened'
        BY <1>0, <1>8, <2>1, NumberedWrite, Recorded DEF Written, Numbered, OpenChunk
  <2>3. progress' = progress /\ progress.chunk <= opened /\ progress.chunk \in Nat
        BY <1>0, <1>1, <1>8 DEF OpenChunk, Numbered, TypeOK
  <2>4. LastProgress(opened)' = 0 /\ ran'[opened'] = 0
        BY <1>0, <1>8, <2>1, <2>3 DEF OpenChunk, LastProgress, history, Numbered
  <2>5. UNCHANGED <<todo, done, rtodo, ran, flaws>> /\ pc' = "touching"
        BY <1>8 DEF OpenChunk, history, others
  <2>6. done <= opened /\ done \in Nat
        BY <1>1 DEF Numbered, TypeOK
  <2>. QED
        BY <1>0, <2>1, <2>2, <2>3, <2>4, <2>5, <2>6 DEF Numbered
<1>9. CASE TouchStart
  <2>1. ran[opened] = 0 /\ opened \in Chunks
        BY <1>0, <1>9 DEF TouchStart, Measured, InChunk
  <2>2. progress' = [chunk |-> opened, t |-> 0]
        BY <1>9 DEF TouchStart
  <2>3. LastProgress(opened)' = 0
        BY <1>9, <2>2 DEF TouchStart, LastProgress
  <2>. QED
        BY <1>0, <1>9, <2>1, <2>2, <2>3 DEF TouchStart, Numbered, InChunk, Readable, others, history
<1>10. ASSUME Touch, UNCHANGED <<file, todo, done, opened, rtodo>>, pc' # "waiting",
              flaws' = flaws \/ \E why : flaws' = [flaws EXCEPT ![opened] = @ \cup why]
       PROVE  Numbered'
  <2>1. opened \in Chunks /\ pc \in InChunk
        BY <1>0, <1>10 DEF Touch, InChunk
  <2>2. /\ progress' = [chunk |-> opened, t |-> probe + 1]
        /\ ran' = [ran EXCEPT ![opened] = probe + 1]
        BY <1>10 DEF Touch
  <2>3. LastProgress(opened)' = ran'[opened]
        BY <1>1, <1>10, <2>1, <2>2 DEF LastProgress, TypeOK
  <2>4. \A d \in Chunks : d > opened => ran'[d] = 0 /\ flaws'[d] = {}
    <3>. TAKE d \in Chunks
    <3>. HAVE d > opened
    <3>1. d # opened /\ ran[d] = 0 /\ flaws[d] = {}
          BY <1>0 DEF Numbered
    <3>2. ran'[d] = 0
          BY <1>1, <2>2, <3>1 DEF TypeOK
    <3>3. flaws'[d] = flaws[d]
          BY <1>1, <1>10, <3>1 DEF TypeOK
    <3>. QED
          BY <3>1, <3>2, <3>3
  <2>. QED
        BY <1>0, <1>10, <2>1, <2>2, <2>3, <2>4 DEF Numbered, Readable
<1>11. ASSUME NEW long \in BOOLEAN, Probe(long)
       PROVE  Numbered'
       BY <1>10, <1>11 DEF Probe, Finds, others, Touch
<1>12. CASE BlindProbe
       BY <1>10, <1>12 DEF BlindProbe, others, Touch
<1>13. CASE WorkloadDies
       BY <1>10, <1>13 DEF WorkloadDies, Finds, others
<1>14. ASSUME NEW long \in BOOLEAN, PeriodEnds(long)
       PROVE  Numbered'
       BY <1>0, <1>14, NumberedFrame DEF PeriodEnds, Finds, others, ledger, InChunk
<1>15. ASSUME NEW gaps \in BOOLEAN, PosthocAnswers(gaps)
       PROVE  Numbered'
       BY <1>0, <1>15, NumberedFrame DEF PosthocAnswers, Finds, others, ledger, InChunk
<1>16. CASE PosthocFails
       BY <1>0, <1>16, NumberedFrame DEF PosthocFails, Finds, others, ledger, InChunk
<1>17. ASSUME NEW bad \in BOOLEAN, QualityGate(bad)
       PROVE  Numbered'
       BY <1>0, <1>17, NumberedFrame DEF QualityGate, Finds, others, ledger, InChunk
<1>18. CASE CloseChunk
  <2>1. opened \in Chunks /\ done < opened /\ status \in Statuses
        BY <1>18 DEF CloseChunk, Numbered, InChunk, Measured
  <2>2. EndOfChunk \in Record /\ EndOfChunk.chunk \in 1 .. opened
        BY <1>0, <2>1, Recorded
  <2>3. \A i \in Readable(file') : file'.lines[i].chunk \in 1 .. opened
        BY <1>0, <1>18, <2>2, NumberedWrite DEF Written, Numbered, CloseChunk
  <2>4. done + 1 <= opened
        BY <1>0, <1>1, <2>1 DEF TypeOK
  <2>. QED
        BY <1>18, <2>3, <2>4 DEF CloseChunk, Numbered, LastProgress, others, history, InChunk
<1>19. CASE Kill \/ KillInWrite \/ StopElsewhere
  <2>1. UNCHANGED <<ran, flaws, progress, done, rtodo>> /\ pc' = "down" /\ todo' = {}
        BY <1>19, DeathStep, DeathKeeps
  <2>2. CASE file' = file /\ opened' = opened
        BY <2>1, <2>2 DEF Numbered, Readable, LastProgress, InChunk
  <2>3. ASSUME NEW r \in Pending, file' \in Written(file, r),
               opened' = IF pc = "waiting" THEN opened + 1 ELSE opened
        PROVE  Numbered'
    <3>0. /\ progress.chunk \in Nat /\ progress.chunk <= opened
          /\ done \in Nat /\ done <= opened
      <4>1. progress.chunk \in Chunks \cup {0} /\ done \in 0 .. MaxChunks
            BY <1>1 DEF TypeOK
      <4>2. progress.chunk <= opened /\ done <= opened
            BY DEF Numbered
      <4>. QED
            BY <1>0, <4>1, <4>2
    <3>1. r \in Record /\ r.chunk \in 1 .. opened' /\ opened' >= opened /\ opened' \in Nat
      <4>1. CASE pc = "recover"
        <5>1. PICK c \in todo : r = RecoveredEnd(c)
              BY <4>1, PendingRecords
        <5>2. c \in 1 .. opened /\ c \in Chunks
              BY <1>0
        <5>. QED
              BY <1>0, <2>3, <4>1, <5>1, <5>2, Recorded
      <4>2. CASE pc = "waiting"
            BY <1>0, <2>3, <4>2, PendingRecords, Recorded
      <4>3. CASE pc = "ending"
            BY <1>0, <2>3, <4>3, PendingRecords, Recorded
      <4>. QED
            BY <4>1, <4>2, <4>3, PendingRecords
    <3>2. \A i \in Readable(file') : file'.lines[i].chunk \in 1 .. opened'
          BY <1>0, <2>3, <3>1, NumberedWrite DEF Numbered
    <3>3. opened' \in Chunks => LastProgress(opened)' = ran'[opened']
      <4>1. CASE opened' = opened
            BY <2>1, <4>1 DEF Numbered, LastProgress
      <4>2. ASSUME opened' = opened + 1, opened' \in Chunks
            PROVE  LastProgress(opened)' = ran'[opened']
        <5>1. opened' > opened /\ progress.chunk # opened'
              BY <1>0, <3>0, <4>2
        <5>2. ran'[opened'] = 0
              BY <2>1, <4>2, <5>1 DEF Numbered
        <5>. QED
              BY <2>1, <5>1, <5>2 DEF LastProgress
      <4>. QED
            BY <2>3, <4>1, <4>2
    <3>4. \A d \in Chunks : d > opened' => ran'[d] = 0 /\ flaws'[d] = {}
          BY <1>0, <2>1, <3>1 DEF Numbered
    <3>5. progress'.chunk <= opened' /\ done' <= opened' /\ rtodo' \subseteq 1 .. opened'
          BY <1>0, <2>1, <3>0, <3>1
    <3>. QED
          BY <2>1, <3>2, <3>3, <3>4, <3>5 DEF Numbered, InChunk
  <2>. QED
        BY <1>19, <2>2, <2>3, DeathStep, DeathKeeps
<1>20. CASE StopInChunk
       BY <1>0, <1>20, NumberedFrame DEF StopInChunk, Finds, ledger, InChunk
<1>21. CASE StopSwallowed
       BY <1>10, <1>21 DEF StopSwallowed, Touch
<1>22. CASE StopSwallowedAfter
       BY <1>22, NumberedFrame DEF StopSwallowedAfter, ledger, history, InChunk
<1>23. CASE ReportReads
       BY <1>0, <1>2, <1>23 DEF ReportReads, ledger, locals, history, Numbered, Readable, LastProgress
<1>24. ASSUME NEW c \in Chunks, ReportCloses(c)
       PROVE  Numbered'
       BY <1>0, <1>6, <1>24 DEF ReportCloses, locals
<1>25. CASE UNCHANGED vars
       BY <1>25 DEF vars, ledger, locals, others, history, Numbered, Readable, LastProgress
<1>. QED
      BY <1>3, <1>4, <1>5, <1>7, <1>8, <1>9, <1>11, <1>12, <1>13, <1>14, <1>15, <1>16, <1>17, <1>18,
         <1>19, <1>20, <1>21, <1>22, <1>23, <1>24, <1>25
         DEF Next, Collector, Environment

-----------------------------------------------------------------------------
(* What the collector knows of its chunk.                                  *)

LEMMA MeasuredNext ==
    ASSUME Typed, Numbered, Measured, [Next]_vars
    PROVE  Measured'
<1>0. /\ opened \in Nat /\ MaxChunks \in Nat /\ opened <= MaxChunks
      /\ Chunks = 1 .. MaxChunks
      /\ Probes \in Nat /\ Probes > 0
      /\ pc \in InChunk => opened \in Chunks
      BY Counting
<1>1. /\ TypeOK
      /\ PosthocRetries \in Nat /\ PosthocRetries > 0
      BY ParameterAssumption DEF Typed
<1>2. CASE pc' \notin InChunk
      BY <1>2 DEF Measured, InChunk
<1>3. CASE OpenChunk
  <2>1. opened' = opened + 1 /\ opened' \in Chunks /\ ran'[opened'] = 0 /\ flaws'[opened'] = {}
        BY <1>0, <1>3 DEF OpenChunk, Numbered, history
  <2>. QED
        BY <1>3, <2>1 DEF OpenChunk, Measured, InChunk
<1>4. CASE TouchStart
      BY <1>0, <1>4 DEF TouchStart, Measured, InChunk, others, history
<1>5. ASSUME Touch
      PROVE  /\ ran'[opened] = probe' /\ opened \in Chunks
             /\ attempt = 0 /\ (flaws[opened] # {} => violated)
      BY <1>0, <1>1, <1>5 DEF Touch, Measured, InChunk, TypeOK
<1>6. ASSUME NEW long \in BOOLEAN, Probe(long)
      PROVE  Measured'
  <2>1. flaws'[opened] = flaws[opened] \cup (IF long THEN {"stale"} ELSE {})
        BY <1>1, <1>5, <1>6 DEF Probe, Finds, TypeOK
  <2>2. flaws'[opened] # {} => violated'
        BY <1>5, <1>6, <2>1 DEF Probe
  <2>. QED
        BY <1>5, <1>6, <2>2 DEF Probe, Touch, Measured, InChunk, others
<1>7. CASE BlindProbe
      BY <1>5, <1>7 DEF BlindProbe, Touch, Measured, InChunk, others
<1>8. CASE WorkloadDies
      BY <1>5, <1>8 DEF WorkloadDies, Measured, InChunk, others, Statuses
<1>9. ASSUME NEW long \in BOOLEAN, PeriodEnds(long)
      PROVE  Measured'
  <2>1. opened \in Chunks /\ (flaws[opened] # {} => violated) /\ attempt = 0 /\ ran[opened] = probe
        BY <1>0, <1>9 DEF PeriodEnds, Measured, InChunk
  <2>2. flaws'[opened] = flaws[opened] \cup (IF long THEN {"stale"} ELSE {})
        BY <1>1, <1>9, <2>1 DEF PeriodEnds, Finds, TypeOK
  <2>3. flaws'[opened] # {} => violated'
        BY <1>9, <2>1, <2>2 DEF PeriodEnds
  <2>. QED
        BY <1>1, <1>9, <2>1, <2>3 DEF PeriodEnds, Measured, InChunk
<1>10. ASSUME NEW gaps \in BOOLEAN, PosthocAnswers(gaps)
       PROVE  Measured'
  <2>1. /\ opened \in Chunks /\ (flaws[opened] # {} => violated)
        /\ ran[opened] = probe /\ probe = Probes
        BY <1>0, <1>10 DEF PosthocAnswers, Measured, InChunk
  <2>2. flaws'[opened] = flaws[opened] \cup (IF gaps THEN {"gaps"} ELSE {})
        BY <1>1, <1>10, <2>1 DEF PosthocAnswers, Finds, TypeOK
  <2>3. Verdict(gaps) = "valid" => ~ violated /\ flaws'[opened] = {}
        BY <2>1, <2>2 DEF Verdict
  <2>4. Verdict(gaps) \in Statuses
        BY DEF Verdict, Statuses
  <2>. QED
        BY <1>10, <2>1, <2>3, <2>4 DEF PosthocAnswers, Measured, InChunk
<1>11. CASE PosthocFails
       BY <1>1, <1>11 DEF PosthocFails, Measured, InChunk, Statuses, TypeOK
<1>12. ASSUME NEW bad \in BOOLEAN, QualityGate(bad)
       PROVE  Measured'
  <2>1. /\ opened \in Chunks /\ ran[opened] = probe /\ probe = Probes
        /\ status = "valid" /\ flaws[opened] = {}
        BY <1>0, <1>12 DEF QualityGate, Measured, InChunk
  <2>2. ~ bad => flaws'[opened] = {}
        BY <1>1, <1>12, <2>1 DEF QualityGate, Finds, TypeOK
  <2>. QED
        BY <1>12, <2>1, <2>2 DEF QualityGate, Measured, InChunk, Statuses
<1>13. CASE StopInChunk
       BY <1>13 DEF StopInChunk, Measured, InChunk, Statuses
<1>14. CASE StopSwallowed
       BY <1>5, <1>14 DEF StopSwallowed, Touch, Measured, InChunk
<1>15. CASE StopSwallowedAfter
       BY <1>1, <1>15 DEF StopSwallowedAfter, Measured, InChunk, TypeOK, history
<1>16. CASE UNCHANGED <<opened, ran, flaws, pc, probe, attempt, violated, status>>
       BY <1>16 DEF Measured
<1>17. ASSUME NEW c \in Chunks, RecoverOne(c) \/ ReportCloses(c)
       PROVE  UNCHANGED <<opened, ran, flaws, pc, probe, attempt, violated, status>>
       BY <1>17 DEF RecoverOne, ReportCloses, history, locals
<1>18. CASE ReportReads \/ UNCHANGED vars
       BY <1>16, <1>18 DEF ReportReads, vars, history, locals
<1>19. CASE Start \/ Recovered \/ LoopEnds \/ LoopOpens \/ PreconditionTimeout \/ CloseChunk
       BY <1>2, <1>19 DEF Start, Recovered, LoopEnds, LoopOpens, PreconditionTimeout, CloseChunk,
          Moves, InChunk
<1>20. CASE Kill \/ KillInWrite \/ StopElsewhere
       BY <1>2, <1>20, DeathStep, DeathKeeps DEF InChunk
<1>. QED
      BY <1>3, <1>4, <1>6, <1>7, <1>8, <1>9, <1>10, <1>11, <1>12, <1>13, <1>14, <1>15, <1>16, <1>17,
         <1>18, <1>19, <1>20
         DEF Next, Collector, Environment

-----------------------------------------------------------------------------
(* No invented hours.                                                      *)

\* What is measured of a chunk stays once the chunk is over.
LEMMA Frozen ==
    ASSUME Typed, Numbered, [Next]_vars, NEW c \in 1 .. opened, c = opened => pc \notin InChunk
    PROVE  /\ ran'[c] = ran[c] /\ flaws'[c] = flaws[c]
           /\ c = opened' => pc' \notin InChunk
<1>0. /\ opened \in Nat /\ opened <= MaxChunks /\ MaxChunks \in Nat
      /\ c \in Chunks /\ TypeOK
      BY Counting DEF Typed
<1>1. ASSUME c # opened, NEW why, Finds(why)
      PROVE  flaws'[c] = flaws[c]
      BY <1>0, <1>1 DEF Finds, TypeOK
<1>2. CASE Touch
  <2>1. c # opened
        BY <1>2 DEF Touch, InChunk
  <2>2. ran'[c] = ran[c]
        BY <1>0, <1>2, <2>1 DEF Touch, TypeOK
  <2>3. flaws'[c] = flaws[c] /\ opened' = opened
    <3>1. \/ (\E long \in BOOLEAN : Probe(long)) \/ BlindProbe \/ WorkloadDies \/ StopSwallowed
          \/ UNCHANGED <<flaws, opened>>
      <4>1. CASE Collector
            BY <1>2, <4>1 DEF Touch, Collector, Start, Recovered, RecoverOne, LoopEnds, LoopOpens,
               PreconditionTimeout, Moves, OpenChunk, TouchStart, PeriodEnds, PosthocAnswers,
               PosthocFails, QualityGate, CloseChunk
      <4>2. CASE Environment
        <5>1. CASE Kill \/ KillInWrite \/ StopElsewhere
              BY <1>2, <5>1, DeathStep, DeathKeeps DEF Touch
        <5>. QED
              BY <1>2, <4>2, <5>1 DEF Touch, Environment, StopInChunk, StopSwallowedAfter,
                 ReportReads, ReportCloses, locals, history
      <4>. QED
            BY <4>1, <4>2 DEF Next, vars, locals, history
    <3>2. ASSUME NEW long \in BOOLEAN, Probe(long) \/ WorkloadDies
          PROVE  flaws'[c] = flaws[c] /\ opened' = opened
          BY <1>1, <2>1, <3>2 DEF Probe, WorkloadDies
    <3>3. CASE BlindProbe \/ StopSwallowed
          BY <3>3 DEF BlindProbe, StopSwallowed
    <3>. QED
          BY <3>1, <3>2, <3>3
  <2>. QED
        BY <2>1, <2>2, <2>3
<1>3. ASSUME NEW b \in BOOLEAN, PeriodEnds(b) \/ PosthocAnswers(b) \/ QualityGate(b)
      PROVE  /\ ran'[c] = ran[c] /\ flaws'[c] = flaws[c]
             /\ c # opened /\ opened' = opened
  <2>1. c # opened
        BY <1>3 DEF PeriodEnds, PosthocAnswers, QualityGate, InChunk
  <2>. QED
        BY <1>1, <1>3, <2>1 DEF PeriodEnds, PosthocAnswers, QualityGate
<1>4. CASE PosthocFails \/ StopInChunk
  <2>1. c # opened
        BY <1>4 DEF PosthocFails, StopInChunk, InChunk
  <2>. QED
        BY <1>1, <1>4, <2>1 DEF PosthocFails, StopInChunk
<1>5. CASE Start \/ Recovered \/ LoopEnds \/ LoopOpens \/ PreconditionTimeout \/ CloseChunk
      BY <1>0, <1>5 DEF Start, Recovered, LoopEnds, LoopOpens, PreconditionTimeout, CloseChunk,
         Moves, history, InChunk
<1>6. CASE OpenChunk
      BY <1>0, <1>6 DEF OpenChunk, history
<1>7. CASE TouchStart
      BY <1>7 DEF TouchStart, history, InChunk
<1>8. ASSUME NEW d \in Chunks, RecoverOne(d) \/ ReportCloses(d)
      PROVE  UNCHANGED <<ran, flaws, pc, opened>>
      BY <1>8 DEF RecoverOne, ReportCloses, history, locals
<1>9. CASE Kill \/ KillInWrite \/ StopElsewhere
      BY <1>9, DeathStep, DeathKeeps DEF InChunk
<1>10. CASE StopSwallowedAfter \/ ReportReads \/ UNCHANGED vars
       BY <1>10 DEF StopSwallowedAfter, ReportReads, vars, locals, history
<1>11. ASSUME NEW long \in BOOLEAN, Probe(long) \/ BlindProbe \/ WorkloadDies \/ StopSwallowed
       PROVE  Touch
       BY <1>11 DEF Probe, BlindProbe, WorkloadDies, StopSwallowed
<1>. QED
      BY <1>2, <1>3, <1>4, <1>5, <1>6, <1>7, <1>8, <1>9, <1>10, <1>11
         DEF Next, Collector, Environment

LEMMA PlanStays == Typed /\ [Next]_vars => plan' = plan
<1>. SUFFICES ASSUME Typed, [Next]_vars PROVE plan' = plan
      OBVIOUS
<1>1. CASE Collector
      BY <1>1 DEF Collector, Start, Recovered, RecoverOne, LoopEnds, LoopOpens, PreconditionTimeout,
         Moves, OpenChunk, TouchStart, Probe, BlindProbe, WorkloadDies, PeriodEnds, PosthocAnswers,
         PosthocFails, QualityGate, CloseChunk, others
<1>2. CASE Environment
      BY <1>2 DEF Environment, Kill, KillInWrite, StopInChunk, StopElsewhere, StopSwallowed,
         StopSwallowedAfter, ReportReads, ReportCloses, Inject
<1>. QED
      BY <1>1, <1>2 DEF Next, vars, others

\* Every record that is written, and when.
LEMMA FileStep ==
    ASSUME Typed, Numbered, Measured, [Next]_vars
    PROVE  \/ file' = file
           \/ \E r \in Record :
                 /\ file' \in Written(file, r)
                 /\ OneWholeWriter => file' = AppendRec(file, r)
                 /\ \/ r.event = "start"
                    \/ r.event = "end" /\ \E c \in 1 .. opened : r = RecoveredEnd(c)
                    \/ pc = "ending" /\ r = EndOfChunk /\ opened' = opened /\ pc' \notin InChunk
<1>0. /\ opened \in Nat /\ opened <= MaxChunks /\ MaxChunks \in Nat /\ Chunks = 1 .. MaxChunks
      /\ todo \subseteq 1 .. opened /\ rtodo \subseteq 1 .. opened
      BY Counting DEF Numbered
<1>. DEFINE Goal(r) == \/ r.event = "start"
                       \/ r.event = "end" /\ \E c \in 1 .. opened : r = RecoveredEnd(c)
                       \/ pc = "ending" /\ r = EndOfChunk /\ opened' = opened /\ pc' \notin InChunk
            Did(r) == file' \in Written(file, r) /\ (OneWholeWriter => file' = AppendRec(file, r))
<1>1. \A c \in 1 .. opened : RecoveredEnd(c) \in Record /\ Goal(RecoveredEnd(c))
      BY <1>0, Recorded
<1>2. CASE \E c \in Chunks : RecoverOne(c) \/ ReportCloses(c)
  <2>1. PICK c \in 1 .. opened : file' = AppendRec(file, RecoveredEnd(c))
        BY <1>0, <1>2 DEF RecoverOne, ReportCloses
  <2>2. Did(RecoveredEnd(c))
        BY <2>1 DEF Written
  <2>. QED
        BY <1>1, <2>2
<1>3. CASE OpenChunk
  <2>1. opened + 1 \in Chunks /\ file' = AppendRec(file, StartRec(opened + 1))
        BY <1>0, <1>3 DEF OpenChunk, Numbered
  <2>2. StartRec(opened + 1) \in Record /\ Goal(StartRec(opened + 1)) /\ Did(StartRec(opened + 1))
        BY <2>1, Recorded DEF Written
  <2>. QED
        BY <2>2
<1>4. CASE CloseChunk
  <2>1. opened \in Chunks /\ status \in Statuses
        BY <1>4 DEF CloseChunk, Numbered, InChunk, Measured
  <2>2. EndOfChunk \in Record /\ Goal(EndOfChunk) /\ Did(EndOfChunk)
        BY <1>4, <2>1, Recorded DEF CloseChunk, Written, InChunk
  <2>. QED
        BY <2>2
<1>5. CASE Kill \/ KillInWrite \/ StopElsewhere
  <2>1. CASE file' = file
        BY <2>1
  <2>2. ASSUME NEW r \in Pending, file' \in Written(file, r),
               ~ KillInWrite => file' = AppendRec(file, r),
               opened' = IF pc = "waiting" THEN opened + 1 ELSE opened
        PROVE  \E q \in Record : Did(q) /\ Goal(q)
    <3>1. r \in Record
          BY <2>2, PendingRecords
    <3>2. Did(r)
          BY <1>5, <2>2, DeathKeeps DEF OneWholeWriter
    <3>3. Goal(r)
      <4>1. CASE pc = "recover"
            BY <1>0, <1>1, <4>1, PendingRecords
      <4>2. CASE pc = "waiting"
            BY <4>2, PendingRecords, Recorded
      <4>3. CASE pc = "ending"
            BY <1>5, <2>2, <4>3, PendingRecords, DeathStep, DeathKeeps DEF InChunk
      <4>. QED
            BY <4>1, <4>2, <4>3, PendingRecords
    <3>. QED
          BY <3>1, <3>2, <3>3
  <2>. QED
        BY <1>5, <2>1, <2>2, DeathStep, DeathKeeps
<1>6. CASE ~ UNCHANGED file
  <2>1. CASE Collector
        BY <1>2, <1>3, <1>4, <1>6, <2>1 DEF Collector, Start, Recovered, LoopEnds, LoopOpens, PreconditionTimeout,
           Moves, TouchStart, BlindProbe, WorkloadDies, Probe, PeriodEnds, PosthocAnswers,
           PosthocFails, QualityGate, ledger
  <2>2. CASE Environment
        BY <1>2, <1>5, <1>6, <2>2 DEF Environment, StopInChunk, StopSwallowed, StopSwallowedAfter,
           ReportReads, ledger
  <2>. QED
        BY <1>6, <2>1, <2>2 DEF Next, vars, ledger
<1>. QED
      BY <1>6

LEMMA CleanNext ==
    ASSUME Typed, Numbered, Measured, CleanEnds, [Next]_vars
    PROVE  CleanEnds'
<1>. DEFINE Says(r) == r.event = "end" /\ r.status = "valid"
            Holds(r) == /\ ran'[r.chunk] = Probes /\ flaws'[r.chunk] = {} /\ r.hours = Probes
                        /\ r.chunk = opened' => pc' \notin InChunk
<1>1. ASSUME NEW i \in Readable(file), Says(file.lines[i])
      PROVE  Holds(file.lines[i])
  <2>1. /\ file.lines[i].chunk \in 1 .. opened
        /\ Clean(file.lines[i].chunk, file.lines[i].hours)
        /\ file.lines[i].chunk = opened => pc \notin InChunk
        BY <1>1 DEF CleanEnds, Numbered
  <2>. QED
        BY <2>1, Frozen DEF Clean
<1>2. CASE file' = file
      BY <1>1, <1>2 DEF CleanEnds, Clean, Readable
<1>3. ASSUME NEW r \in Record, file' \in Written(file, r), Says(r) => Holds(r)
      PROVE  CleanEnds'
  <2>1. \A i \in Readable(file') :
           file'.lines[i] = r \/ (i \in Readable(file) /\ file'.lines[i] = file.lines[i])
        BY <1>3, WrittenLines DEF Typed
  <2>2. \A i \in Readable(file') : Says(file'.lines[i]) => Holds(file'.lines[i])
        BY <1>1, <1>3, <2>1
  <2>. QED
        BY <2>2 DEF CleanEnds, Clean
<1>4. ASSUME NEW r \in Record, Says(r),
             \/ r.event = "start"
             \/ r.event = "end" /\ \E c \in 1 .. opened : r = RecoveredEnd(c)
             \/ pc = "ending" /\ r = EndOfChunk /\ opened' = opened /\ pc' \notin InChunk
      PROVE  Holds(r)
  <2>1. \A c \in 1 .. opened : RecoveredEnd(c).status = "aborted"
        BY DEF RecoveredEnd, EndRec
  <2>2. pc = "ending" /\ r = EndOfChunk /\ opened' = opened /\ pc' \notin InChunk
        BY <1>4, <2>1
  <2>3. opened \in Chunks /\ status \in Statuses
        BY <2>2 DEF Numbered, Measured, InChunk
  <2>4. status = "valid" /\ r.chunk = opened /\ r.hours = probe
        BY <1>4, <2>2, <2>3, Recorded
  <2>5. ran[opened] = Probes /\ probe = Probes /\ flaws[opened] = {}
        BY <2>2, <2>4 DEF Measured, InChunk
  <2>6. UNCHANGED <<ran, flaws>>
    <3>1. CASE Kill \/ KillInWrite \/ StopElsewhere
          BY <3>1, DeathKeeps
    <3>2. CASE Collector
          BY <2>2, <3>2 DEF Collector, Start, Recovered, RecoverOne, LoopEnds, LoopOpens,
             PreconditionTimeout, Moves, OpenChunk, TouchStart, Probe, BlindProbe, WorkloadDies, Touch,
             PeriodEnds, PosthocAnswers, PosthocFails, QualityGate, CloseChunk, history
    <3>3. CASE Environment
          BY <2>2, <3>1, <3>3 DEF Environment, StopInChunk, StopSwallowed, Touch, StopSwallowedAfter,
             ReportReads, ReportCloses, history
    <3>. QED
          BY <3>2, <3>3 DEF Next, vars, history
  <2>. QED
        BY <2>2, <2>4, <2>5, <2>6 DEF Clean
<1>. QED
      BY <1>2, <1>3, <1>4, FileStep

\* What counts is the last line about a chunk, and no line was wrong.
LEMMA CleanMeansBacked == Typed /\ CleanEnds => NoInventedHours
<1>. SUFFICES ASSUME Typed, CleanEnds, NEW c \in ValidChunks(file)
              PROVE  /\ ran[c] = Probes /\ flaws[c] = {}
                     /\ LastEnd(file, c).hours = Probes
      BY DEF NoInventedHours
<1>1. c \in Closed(file) /\ LastEnd(file, c).status = "valid"
      BY DEF ValidChunks
<1>2. PICK i \in Readable(file) : /\ file.lines[i] = LastEnd(file, c)
                                  /\ file.lines[i].chunk = c /\ file.lines[i].event = "end"
      BY <1>1, LastEndLine DEF Typed
<1>. QED
      BY <1>1, <1>2 DEF CleanEnds, Clean

-----------------------------------------------------------------------------
(* Whole writes and one writer.                                            *)

LEMMA StartOrphans ==
    ASSUME NEW f, IsFile(f), ~ f.open, NEW c \in Chunks, c \notin Closed(f)
    PROVE  Orphans(AppendRec(f, StartRec(c))) = Orphans(f) \cup {c}
<1>. QED
      BY StartAppended DEF Orphans

LEMMA EndOrphans ==
    ASSUME NEW f, IsFile(f), ~ f.open, NEW r \in Record, r.event = "end"
    PROVE  Orphans(AppendRec(f, r)) = Orphans(f) \ {r.chunk}
<1>. QED
      BY EndAppended DEF Orphans

\* Of a chunk that has not been opened there is nothing to read.
LEMMA NotYetKnown ==
    ASSUME Typed, Numbered, NEW c \in Chunks, c > opened
    PROVE  c \notin Known(file) /\ c \notin Closed(file) /\ EndsAt(file, c) = {} /\ At(file, c) = {}
<1>1. At(file, c) = {}
      BY Counting DEF Numbered, At
<1>. QED
      BY <1>1 DEF Known, Closed, EndsAt

\* The chunk opened next, and the chunk opened last closed.
Opens ==
    /\ opened' = opened + 1 /\ opened + 1 \in Chunks
    /\ file' = AppendRec(file, StartRec(opened + 1))
    /\ Orphans(file) = {}
    /\ ran' = ran

Closes ==
    /\ opened' = opened /\ opened \in Chunks
    /\ Orphans(file) = {opened}
    /\ ran' = ran
    /\ \E r \in Record : /\ r.event = "end" /\ r.chunk = opened /\ r.t_end = ran[opened]
                         /\ r.status \in Statuses
                         /\ file' = AppendRec(file, r)

LEMMA RecoveryCloses ==
    ASSUME Typed, Numbered, OneOpen, OneWholeWriter, pc = "recover", NEW c \in todo,
           file' = AppendRec(file, RecoveredEnd(c)), opened' = opened, ran' = ran
    PROVE  Closes /\ todo = {c}
<1>1. Orphans(file) = {opened} /\ c = opened /\ todo = {c}
      BY DEF OneOpen
<1>2. opened \in Chunks
      BY <1>1 DEF Orphans, Known
<1>3. LastProgress(opened) = ran[opened]
      BY <1>2 DEF Numbered
<1>4. /\ RecoveredEnd(c) \in Record
      /\ RecoveredEnd(c).chunk = c /\ RecoveredEnd(c).event = "end"
      /\ RecoveredEnd(c).status \in Statuses
      /\ RecoveredEnd(c).t_end = LastProgress(c)
      BY <1>1, <1>2, Recorded DEF Statuses
<1>. QED
      BY <1>1, <1>2, <1>3, <1>4 DEF Closes

LEMMA EndingCloses ==
    ASSUME Typed, Numbered, Measured, OneOpen, OneWholeWriter, pc = "ending",
           file' = AppendRec(file, EndOfChunk), opened' = opened, ran' = ran
    PROVE  Closes
<1>1. Orphans(file) = {opened} /\ opened \in Chunks /\ status \in Statuses /\ ran[opened] = probe
      BY DEF OneOpen, Numbered, Measured, InChunk
<1>2. /\ EndOfChunk \in Record
      /\ EndOfChunk.chunk = opened /\ EndOfChunk.event = "end"
      /\ EndOfChunk.status = status
      /\ EndOfChunk.t_end = probe
      BY <1>1, Recorded
<1>. QED
      BY <1>1, <1>2 DEF Closes

\* A step opens a chunk, closes the open one, or writes nothing.
LEMMA WholeStep ==
    ASSUME Typed, Numbered, Measured, OneOpen, OneWholeWriter, [Next]_vars
    PROVE  /\ rtodo' = {}
           /\ \/ file' = file /\ opened' = opened
              \/ Opens
              \/ Closes
<1>0. ~ file.open /\ rtodo = {} /\ "report" \notin plan /\ "tear" \notin plan
      BY DEF OneOpen, OneWholeWriter
<1>1. rtodo' = {}
  <2>1. CASE Collector
        BY <1>0, <2>1 DEF Collector, Start, Recovered, RecoverOne, LoopEnds, LoopOpens,
           PreconditionTimeout, Moves, OpenChunk, TouchStart, Probe, BlindProbe, WorkloadDies,
           PeriodEnds, PosthocAnswers, PosthocFails, QualityGate, CloseChunk, others
  <2>2. CASE Environment
        BY <1>0, <2>2, DeathStep, DeathKeeps DEF Environment, StopInChunk, StopSwallowed,
           StopSwallowedAfter, ReportReads, ReportCloses, Inject
  <2>. QED
        BY <1>0, <2>1, <2>2 DEF Next, vars, others
<1>2. ASSUME NEW c \in Chunks, RecoverOne(c)
      PROVE  Closes
      BY <1>2, RecoveryCloses DEF RecoverOne, history
<1>3. CASE OpenChunk
  <2>1. opened + 1 \in Chunks
        BY <1>3, Counting DEF OpenChunk, Numbered
  <2>. QED
        BY <1>1, <1>3, <2>1 DEF OpenChunk, Opens, OneOpen, history
<1>4. CASE CloseChunk
      BY <1>1, <1>4, EndingCloses DEF CloseChunk, history
<1>5. CASE Kill \/ KillInWrite \/ StopElsewhere
  <2>1. ran' = ran /\ ~ KillInWrite
        BY <1>0, <1>5, DeathKeeps
  <2>2. ASSUME NEW r \in Pending, file' = AppendRec(file, r),
               opened' = IF pc = "waiting" THEN opened + 1 ELSE opened
        PROVE  Opens \/ Closes
    <3>1. CASE pc = "recover"
          BY <2>1, <2>2, <3>1, PendingRecords, RecoveryCloses
    <3>2. CASE pc = "waiting"
          BY <2>1, <2>2, <3>2, PendingRecords DEF Opens, OneOpen
    <3>3. CASE pc = "ending"
          BY <2>1, <2>2, <3>3, PendingRecords, EndingCloses
    <3>. QED
          BY <3>1, <3>2, <3>3, PendingRecords
  <2>. QED
        BY <1>1, <1>5, <2>1, <2>2, DeathStep, DeathKeeps
<1>6. CASE Collector
      BY <1>1, <1>2, <1>3, <1>4, <1>6 DEF Collector, Start, Recovered, LoopEnds, LoopOpens, PreconditionTimeout,
         Moves, TouchStart, Touch, BlindProbe, WorkloadDies, Probe, PeriodEnds, PosthocAnswers,
         PosthocFails, QualityGate, ledger
<1>7. CASE Environment
      BY <1>0, <1>1, <1>5, <1>7 DEF Environment, StopInChunk, StopSwallowed, Touch, StopSwallowedAfter,
         ReportReads, ReportCloses, ledger, locals
<1>. QED
      BY <1>1, <1>5, <1>6, <1>7 DEF Next, vars, ledger, locals

\* What opening and closing does to the orphans.
LEMMA OpensOrphans ==
    ASSUME Typed, Numbered, OneOpen, OneWholeWriter, Opens
    PROVE  ~ file'.open /\ Orphans(file') = {opened'}
<1>1. IsFile(file) /\ ~ file.open /\ opened + 1 > opened
      BY Counting DEF Typed, OneOpen
<1>2. opened + 1 \notin Closed(file) /\ opened + 1 \in Chunks
      BY <1>1, NotYetKnown DEF Opens
<1>3. Orphans(file') = {opened + 1}
      BY <1>1, <1>2, StartOrphans DEF Opens
<1>. QED
      BY <1>1, <1>3 DEF Opens, AppendRec, Put

LEMMA ClosesOrphans ==
    ASSUME Typed, Numbered, OneOpen, OneWholeWriter, Closes
    PROVE  ~ file'.open /\ Orphans(file') = {}
<1>1. IsFile(file) /\ ~ file.open
      BY DEF Typed, OneOpen
<1>2. PICK r \in Record : r.event = "end" /\ r.chunk = opened /\ file' = AppendRec(file, r)
      BY DEF Closes
<1>. QED
      BY <1>1, <1>2, EndOrphans DEF Closes, AppendRec, Put

LEMMA OrphansAfter == Orphans(file)' = Orphans(file')
<1>. QED
      BY DEF Orphans, Known, Closed, EndsAt, At, Readable

LEMMA OneOpenNext ==
    ASSUME Typed, Numbered, Measured, OneOpen, [Next]_vars
    PROVE  OneOpen'
<1>. DEFINE Goal == /\ ~ file'.open
                    /\ Orphans(file') \subseteq {opened'}
                    /\ pc' \in InChunk => Orphans(file') = {opened'}
                    /\ pc' = "recover" => Orphans(file') = todo'
                    /\ pc' \in {"loop", "waiting"} => Orphans(file') = {}
<1>0. SUFFICES ASSUME OneWholeWriter
               PROVE  rtodo' = {} /\ Goal
      BY PlanStays, OrphansAfter DEF OneOpen, OneWholeWriter, InChunk
<1>1. rtodo' = {}
      BY <1>0, WholeStep
<1>2. /\ ~ file.open
      /\ Orphans(file) \subseteq {opened}
      /\ pc \in InChunk => Orphans(file) = {opened}
      /\ pc = "recover" => Orphans(file) = todo
      /\ pc \in {"loop", "waiting"} => Orphans(file) = {}
      BY <1>0 DEF OneOpen
<1>3. ASSUME Start
      PROVE  Goal
      BY <1>2, <1>3 DEF Start, ledger, InChunk
<1>4. ASSUME Recovered \/ LoopEnds \/ LoopOpens \/ PreconditionTimeout
      PROVE  Goal
      BY <1>2, <1>4 DEF Recovered, LoopEnds, LoopOpens, PreconditionTimeout, Moves, ledger, InChunk
<1>5. ASSUME NEW c \in Chunks, RecoverOne(c)
      PROVE  Goal
  <2>1. Closes /\ todo = {c}
        BY <1>0, <1>5, RecoveryCloses DEF RecoverOne, history
  <2>2. ~ file'.open /\ Orphans(file') = {}
        BY <1>0, <2>1, ClosesOrphans
  <2>. QED
        BY <1>5, <2>1, <2>2 DEF RecoverOne, InChunk
<1>6. ASSUME OpenChunk
      PROVE  Goal
  <2>1. opened + 1 \in Chunks
        BY <1>6, Counting DEF OpenChunk, Numbered
  <2>2. Opens
        BY <1>2, <1>6, <2>1 DEF OpenChunk, Opens, history
  <2>. QED
        BY <1>0, <1>6, <2>2, OpensOrphans DEF OpenChunk
<1>7. ASSUME pc \in InChunk, pc' \in InChunk, UNCHANGED <<file, opened>>
      PROVE  Goal
      BY <1>2, <1>7 DEF InChunk
<1>8. ASSUME CloseChunk
      PROVE  Goal
  <2>1. Closes
        BY <1>0, <1>8, EndingCloses DEF CloseChunk, history
  <2>. QED
        BY <1>0, <1>8, <2>1, ClosesOrphans DEF CloseChunk, InChunk
<1>9. ASSUME Kill \/ KillInWrite \/ StopElsewhere
      PROVE  Goal
  <2>1. pc' = "down"
        BY <1>9, DeathStep, DeathKeeps
  <2>2. CASE Opens \/ Closes
        BY <1>0, <2>1, <2>2, OpensOrphans, ClosesOrphans DEF InChunk
  <2>3. CASE file' = file /\ opened' = opened
        BY <1>2, <2>1, <2>3 DEF InChunk
  <2>. QED
        BY <1>0, <2>2, <2>3, WholeStep
<1>10. ASSUME \/ TouchStart \/ BlindProbe \/ WorkloadDies \/ PosthocFails
            \/ StopInChunk \/ StopSwallowed \/ StopSwallowedAfter
      PROVE  Goal
       BY <1>7, <1>10 DEF TouchStart, BlindProbe, WorkloadDies, PosthocFails, StopInChunk,
          StopSwallowed, StopSwallowedAfter, Touch, InChunk, ledger
<1>11. ASSUME NEW b \in BOOLEAN, Probe(b) \/ PeriodEnds(b) \/ PosthocAnswers(b) \/ QualityGate(b)
       PROVE  Goal
       BY <1>7, <1>11 DEF Probe, PeriodEnds, PosthocAnswers, QualityGate, Touch, InChunk, ledger
<1>12. ASSUME UNCHANGED vars
      PROVE  Goal
       BY <1>2, <1>12 DEF vars, ledger, locals
<1>13. ~ ReportReads /\ \A c \in Chunks : ~ ReportCloses(c)
       BY <1>0 DEF ReportReads, ReportCloses, Inject, OneWholeWriter, OneOpen
<1>14. Goal
       BY <1>3, <1>4, <1>5, <1>6, <1>8, <1>9, <1>10, <1>11, <1>12, <1>13
          DEF Next, Collector, Environment
<1>. QED
      BY <1>1, <1>14

LEMMA EndsMeasuredNext ==
    ASSUME Typed, Numbered, Measured, OneOpen, EndsMeasured, [Next]_vars
    PROVE  EndsMeasured'
<1>. SUFFICES ASSUME OneWholeWriter, NEW i \in Readable(file'), file'.lines[i].event = "end"
              PROVE  file'.lines[i].t_end = ran'[file'.lines[i].chunk]
  <2>1. Readable(file)' = Readable(file')
        BY DEF Readable
  <2>. QED
        BY <2>1, PlanStays DEF EndsMeasured, OneWholeWriter
<1>0. IsFile(file) /\ ~ file.open
      BY DEF Typed, OneOpen
\* A line that was there is about a chunk that is over.
<1>1. ASSUME i \in Readable(file), file'.lines[i] = file.lines[i]
      PROVE  file'.lines[i].t_end = ran'[file'.lines[i].chunk]
  <2>. DEFINE c == file.lines[i].chunk
  <2>1. c \in 1 .. opened /\ file.lines[i].t_end = ran[c]
        BY <1>1 DEF EndsMeasured, Numbered
  <2>2. c \in Chunks
        BY <2>1, Counting
  <2>3. c \in Closed(file)
        BY <1>1, <2>2 DEF Closed, EndsAt, At
  <2>4. c = opened => pc \notin InChunk
        BY <2>3 DEF OneOpen, Orphans
  <2>5. ran'[c] = ran[c]
        BY <2>1, <2>4, Frozen
  <2>. QED
        BY <1>1, <2>1, <2>5
<1>2. CASE file' = file
      BY <1>1, <1>2
<1>3. CASE Opens
  <2>1. opened + 1 \in Chunks /\ file' = AppendRec(file, StartRec(opened + 1))
        BY <1>3 DEF Opens
  <2>2. StartRec(opened + 1) \in Record /\ StartRec(opened + 1).event = "start"
        BY <2>1, Recorded
  <2>3. file'.lines[i] # StartRec(opened + 1)
        BY <2>2
  <2>4. i \in Readable(file) /\ file'.lines[i] = file.lines[i]
        BY <1>0, <2>1, <2>2, <2>3, WrittenLines DEF Written
  <2>. QED
        BY <1>1, <2>4
<1>4. CASE Closes
  <2>1. PICK r \in Record : /\ r.chunk = opened /\ r.t_end = ran[opened]
                            /\ file' = AppendRec(file, r)
        BY <1>4 DEF Closes
  <2>2. file'.lines[i] = r \/ (i \in Readable(file) /\ file'.lines[i] = file.lines[i])
        BY <1>0, <2>1, WrittenLines DEF Written
  <2>3. CASE file'.lines[i] = r
        BY <1>4, <2>1, <2>3 DEF Closes
  <2>. QED
        BY <1>1, <2>2, <2>3
<1>. QED
      BY <1>2, <1>3, <1>4, WholeStep

-----------------------------------------------------------------------------
(* The invariant, and what follows from it.                                *)

LEMMA IInvInit == Init => IInv
<1>. SUFFICES ASSUME Init PROVE IInv
      OBVIOUS
<1>1. Readable(file) = {}
      BY DEF Init, EmptyFile, Readable
<1>2. Orphans(file) = {}
      BY <1>1 DEF Orphans, Known, At
<1>3. Numbered
      BY <1>1, MaxChunksAssumption DEF Init, Numbered, InChunk, Chunks, LastProgress
<1>4. Measured
      BY DEF Init, Measured, InChunk
<1>5. CleanEnds /\ EndsMeasured
      BY <1>1 DEF CleanEnds, EndsMeasured
<1>6. OneOpen
      BY <1>2 DEF Init, OneOpen, EmptyFile, InChunk
<1>. QED
      BY <1>3, <1>4, <1>5, <1>6, TypedInit DEF IInv

LEMMA IInvNext == IInv /\ [Next]_vars => IInv'
<1>. QED
      BY TypedNext, NumberedNext, MeasuredNext, CleanNext, OneOpenNext, EndsMeasuredNext DEF IInv

LEMMA Invariance == Spec => []IInv
<1>. QED
      BY IInvInit, IInvNext, PTL DEF Spec

\* Every variable keeps its type: the counters stay within their bounds, and
\* the file holds records and cut lines only (collect_chunked.py:83-107).
THEOREM TypeCorrect == Spec => []TypeOK
<1>1. IInv => TypeOK
      BY DEF IInv, Typed
<1>. QED
      BY <1>1, Invariance, PTL

\* However kills, torn writes, swallowed signals and concurrent reports are
\* mixed, and however many chunks and probes there are, the ledger counts no
\* hour the collector did not measure clean (collect_chunked.py:10-15,
\* 301-370).
THEOREM NothingInvented == Spec => []NoInventedHours
<1>1. IInv => NoInventedHours
      BY CleanMeansBacked DEF IInv
<1>. QED
      BY <1>1, Invariance, PTL

\* With whole writes and no concurrent report, a chunk ends at its last probe,
\* whoever closes it (collect_chunked.py:95-107, 122-124).
THEOREM LastProbe == Spec => []EndsAtLastProbe
<1>1. ASSUME IInv, OneWholeWriter, NEW c \in Closed(file)
      PROVE  LastEnd(file, c).t_end = ran[c]
  <2>1. PICK i \in Readable(file) : /\ file.lines[i] = LastEnd(file, c)
                                    /\ file.lines[i].chunk = c /\ file.lines[i].event = "end"
        BY <1>1, LastEndLine DEF IInv, Typed
  <2>. QED
        BY <1>1, <2>1 DEF IInv, EndsMeasured
<1>2. IInv => EndsAtLastProbe
      BY <1>1 DEF EndsAtLastProbe
<1>. QED
      BY <1>2, Invariance, PTL

-----------------------------------------------------------------------------
(* The book of chunks.                                                     *)

\* What the book says of a chunk.
LEMMA BookOf ==
    ASSUME Typed, OneWholeWriter, NEW c \in Chunks
    PROVE  /\ c \notin Known(file) => book[c] = "none"
           /\ c \in Orphans(file) => book[c] = "open"
           /\ c \in Closed(file) => book[c] = LastEnd(file, c).status /\ book[c] \in Statuses
<1>1. c \in Closed(file) <=> EndsAt(file, c) # {}
      BY DEF Closed
<1>2. c \in Known(file) <=> At(file, c) # {}
      BY DEF Known
<1>3. c \notin Known(file) => c \notin Closed(file)
      BY DEF Known, Closed, EndsAt
<1>4. c \in Closed(file) => LastEnd(file, c).status \in Statuses
      BY LastEndLine DEF Typed, Record, StartRec, ExportRec
<1>. QED
      BY <1>1, <1>2, <1>3, <1>4 DEF book, Orphans

\* The book of the next state, read from the next file.
LEMMA BookAfter ==
    book' = [c \in Chunks |->
               IF ~ OneWholeWriter' THEN "none"
               ELSE IF c \in Closed(file') THEN LastEnd(file', c).status
               ELSE IF c \in Known(file') THEN "open" ELSE "none"]
<1>. QED
      BY DEF book, Closed, Known, LastEnd, EndsAt, At, Readable

LEMMA BookNow ==
    book = [c \in Chunks |->
               IF ~ OneWholeWriter THEN "none"
               ELSE IF c \in Closed(file) THEN LastEnd(file, c).status
               ELSE IF c \in Known(file) THEN "open" ELSE "none"]
<1>. QED
      BY DEF book, Closed, Known

\* Each step opens a chunk in the book, closes one, or leaves it as it is.
LEMMA BookStep ==
    ASSUME IInv, [Next]_vars
    PROVE  [Book!Next]_book
<1>0. Typed /\ Numbered /\ Measured /\ OneOpen /\ IsFile(file)
      BY DEF IInv, Typed
<1>1. OneWholeWriter' = OneWholeWriter
      BY <1>0, PlanStays DEF OneWholeWriter
<1>2. CASE ~ OneWholeWriter
      BY <1>1, <1>2, BookNow, BookAfter
<1>3. CASE OneWholeWriter /\ file' = file
      BY <1>1, <1>3, BookNow, BookAfter
<1>4. CASE OneWholeWriter /\ Opens
  <2>. DEFINE c == opened + 1
  <2>1. /\ ~ file.open /\ c \in Chunks /\ Orphans(file) = {}
        /\ file' = AppendRec(file, StartRec(c))
        BY <1>0, <1>4 DEF Opens, OneOpen
  <2>2. opened \in Nat /\ Chunks \subseteq Nat
        BY <1>0, Counting
  <2>3. \A d \in Chunks : d >= c => d \notin Known(file) /\ d \notin Closed(file)
        BY <1>0, <2>2, NotYetKnown
  <2>4. \A d \in Chunks : d >= c => book[d] = "none"
        BY <1>0, <1>4, <2>3, BookOf
  <2>5. \A d \in Chunks : book[d] # "open"
    <3>. TAKE d \in Chunks
    <3>1. d \notin Known(file) \/ d \in Closed(file)
          BY <2>1 DEF Orphans
    <3>. QED
          BY <1>0, <1>4, <3>1, BookOf DEF Statuses
  <2>. HIDE DEF c
  <2>6. /\ Known(file') = Known(file) \cup {c}
        /\ Closed(file') = Closed(file)
        /\ \A d \in Closed(file) : LastEnd(file', d) = LastEnd(file, d)
        BY <1>0, <2>1, StartAppended
  <2>7. c \notin Closed(file) /\ c \in Nat
        BY <2>1, <2>2, <2>3
  <2>8. book' = [book EXCEPT ![c] = "open"]
        BY <1>1, <1>4, <2>1, <2>6, <2>7, BookNow, BookAfter
  <2>. QED
        BY <2>1, <2>4, <2>5, <2>8 DEF Book!Next, Book!Open
<1>5. CASE OneWholeWriter /\ Closes
  <2>1. PICK r \in Record : /\ r.event = "end" /\ r.chunk = opened
                            /\ r.status \in Statuses
                            /\ file' = AppendRec(file, r)
        BY <1>5 DEF Closes
  <2>2. ~ file.open /\ opened \in Chunks /\ opened \in Orphans(file)
        BY <1>0, <1>5 DEF Closes, OneOpen
  <2>3. book[opened] = "open"
        BY <1>0, <1>5, <2>2, BookOf
  <2>4. /\ Known(file') = Known(file) \cup {opened}
        /\ Closed(file') = Closed(file) \cup {opened}
        /\ LastEnd(file', opened) = r
        /\ \A d \in Closed(file) \ {opened} : LastEnd(file', d) = LastEnd(file, d)
        BY <1>0, <2>1, <2>2, EndAppended
  <2>5. book' = [book EXCEPT ![opened] = r.status]
        BY <1>1, <1>5, <2>2, <2>4, BookNow, BookAfter
  <2>. QED
        BY <2>1, <2>2, <2>3, <2>5 DEF Book!Next, Book!Close
<1>. QED
      BY <1>0, <1>2, <1>3, <1>4, <1>5, WholeStep

\* Read as chunks() reads it, the ledger of one writer whose writes are whole
\* is the book: chunks are opened one at a time and closed once, also when the
\* writer is killed and another recovers (collect_chunked.py:7-31).
THEOREM Implements == Spec => BookSpec
<1>1. Init => Book!Init
  <2>. SUFFICES ASSUME Init PROVE book = [c \in Chunks |-> "none"]
        BY DEF Book!Init
  <2>1. \A c \in Chunks : At(file, c) = {} /\ EndsAt(file, c) = {}
        BY DEF Init, EmptyFile, At, EndsAt, Readable
  <2>. QED
        BY <2>1 DEF book
<1>. QED
      BY <1>1, BookStep, Invariance, PTL DEF Spec, BookSpec, Book!Spec
=============================================================================
