---------------------------- MODULE ChunkLedger -----------------------------
(***************************************************************************)
(* The chunk collector tests/collect_chunked.py: main(), run_chunk() and   *)
(* recover() over the ledger file, killed at any step, signalled at any    *)
(* step, and read by a concurrent --report.                                *)
(*                                                                         *)
(* Time inside a chunk is counted in probes: a full chunk makes Probes of  *)
(* them, and its hours are their number.  What a probe sees of Loki is     *)
(* left to the environment (fresh, unanswered, or a stale stretch longer   *)
(* than max_gap); so are the answers of the post-hoc and quality queries.  *)
(***************************************************************************)
EXTENDS LedgerFile

CONSTANTS Target,          \* --target-hours
          ChunksPerRun,    \* --chunks; 0: until Target
          Probes,          \* probes in a full chunk
          PosthocRetries,  \* --posthoc-retries
          Plans,           \* which faults the environment may mix
          MaxFaults        \* bound: how many of them in a behaviour

FaultKinds == {"kill", "tear", "signal", "report"}

ASSUME ParameterAssumption ==
    /\ Target \in Nat /\ ChunksPerRun \in Nat /\ Probes \in Nat \ {0}
    /\ PosthocRetries \in Nat \ {0} /\ MaxFaults \in Nat
    /\ \A p \in Plans : p \subseteq FaultKinds

VARIABLES
    file,      \* the ledger
    progress,  \* <ledger>.progress: the chunk and the probe it names
    pc,        \* where the collector is
    todo,      \* recover(): the orphans it has yet to close
    done,      \* main(): chunks closed by this process
    opened,    \* the last chunk opened, by any process
    probe,     \* probes made in the current chunk
    violated,  \* fresh_violations is not empty
    attempt,   \* post-hoc attempts that failed
    status,    \* the verdict so far; "none" is Python's None
    rtodo,     \* the orphans a concurrent --report has yet to close
    plan,      \* which faults this behaviour has
    faults,    \* faults injected
    ran,       \* history: probes the chunk really made
    flaws,     \* history: what was really wrong with the chunk
    stopped    \* history: the chunk was being recorded when a signal came

ledger == <<file, progress>>
locals == <<pc, todo, done, opened, probe, violated, attempt, status>>
others == <<rtodo, plan, faults>>
history == <<ran, flaws, stopped>>
vars == <<ledger, locals, others, history>>

InChunk == {"touching", "running", "settling", "quality", "ending"}

Init ==
    /\ file = EmptyFile
    /\ progress = [chunk |-> 0, t |-> 0]
    /\ pc = "down"
    /\ todo = {} /\ done = 0 /\ opened = 0 /\ probe = 0
    /\ violated = FALSE /\ attempt = 0 /\ status = "none"
    /\ rtodo = {} /\ faults = 0 /\ plan \in Plans
    /\ ran = [c \in Chunks |-> 0]
    /\ flaws = [c \in Chunks |-> {}]
    /\ stopped = [c \in Chunks |-> FALSE]

\* The current chunk turns out to have the flaws why.
Finds(why) == flaws' = [flaws EXCEPT ![opened] = @ \cup why]

-----------------------------------------------------------------------------
(* recover(): the orphans are read once, then closed one append at a time. *)
(* last_progress() knows the probe only if the file still names the chunk. *)

\* Mutant: the progress file is taken to be about this chunk.
LastProgressOfAny(c) == progress.t

LastProgress(c) == IF progress.chunk = c THEN progress.t ELSE 0

RecoveredEnd(c) == EndRec(c, "aborted", LastProgress(c), 0)

\* Mutant: goes to work without recovering.
StartUnrecovered ==
    /\ pc = "down"
    /\ pc' = "recover" /\ todo' = {} /\ done' = 0
    /\ UNCHANGED <<ledger, opened, probe, violated, attempt, status,
                   others, history>>

\* Mutant: closes every chunk it reads.
StartClosingAll ==
    /\ pc = "down"
    /\ pc' = "recover" /\ todo' = Known(file) /\ done' = 0
    /\ UNCHANGED <<ledger, opened, probe, violated, attempt, status,
                   others, history>>

Start ==
    /\ pc = "down"
    /\ pc' = "recover" /\ todo' = Orphans(file) /\ done' = 0
    /\ UNCHANGED <<ledger, opened, probe, violated, attempt, status,
                   others, history>>

RecoverOne(c) ==
    /\ pc = "recover" /\ c \in todo
    /\ file' = AppendRec(file, RecoveredEnd(c))
    /\ todo' = todo \ {c}
    /\ UNCHANGED <<progress, pc, done, opened, probe, violated, attempt,
                   status, others, history>>

Recovered ==
    /\ pc = "recover" /\ todo = {}
    /\ pc' = "loop"
    /\ UNCHANGED <<ledger, todo, done, opened, probe, violated, attempt,
                   status, others, history>>

-----------------------------------------------------------------------------
(* main()'s loop and wait_preconditions().                                 *)

Enough ==
    \/ IF ChunksPerRun > 0 THEN done >= ChunksPerRun
                           ELSE ValidHours(file) >= Target
    \/ opened = MaxChunks        \* bound

Moves(next) ==
    /\ pc' = next
    /\ UNCHANGED <<ledger, todo, done, opened, probe, violated, attempt,
                   status, others, history>>

LoopEnds == pc = "loop" /\ Enough /\ Moves("down")

LoopOpens == pc = "loop" /\ ~Enough /\ Moves("waiting")

PreconditionTimeout == pc = "waiting" /\ Moves("down")

\* wait_preconditions() returns; run_chunk() appends the start record.
OpenChunk ==
    /\ pc = "waiting"
    /\ pc' = "touching"
    /\ opened' = opened + 1
    /\ file' = AppendRec(file, StartRec(opened + 1))
    /\ probe' = 0 /\ violated' = FALSE /\ attempt' = 0 /\ status' = "none"
    /\ UNCHANGED <<progress, todo, done, others, history>>

TouchStart ==
    /\ pc = "touching"
    /\ pc' = "running"
    /\ progress' = [chunk |-> opened, t |-> 0]
    /\ UNCHANGED <<file, todo, done, opened, probe, violated, attempt,
                   status, others, history>>

-----------------------------------------------------------------------------
(* The probing loop of run_chunk().                                        *)

Touch ==
    /\ pc = "running" /\ probe < Probes
    /\ probe' = probe + 1
    /\ progress' = [chunk |-> opened, t |-> probe + 1]
    /\ ran' = [ran EXCEPT ![opened] = probe + 1]

\* The probe is answered; long: it ends or finds a stretch over max_gap.
Probe(long) ==
    /\ Touch
    /\ violated' = (violated \/ long)
    /\ Finds(IF long THEN {"stale"} ELSE {})
    /\ UNCHANGED <<file, pc, todo, done, opened, attempt, status, others,
                   stopped>>

\* fresh_counts() returns None.
BlindProbe ==
    /\ Touch
    /\ UNCHANGED <<file, pc, todo, done, opened, violated, attempt, status,
                   others, flaws, stopped>>

WorkloadDies ==
    /\ Touch
    /\ pc' = "ending" /\ status' = "aborted"
    /\ Finds({"workload"})
    /\ UNCHANGED <<file, todo, done, opened, violated, attempt, others,
                   stopped>>

\* The deadline; a stretch still open may be over max_gap by now.
PeriodEnds(long) ==
    /\ pc = "running" /\ probe = Probes
    /\ pc' = "settling"
    /\ violated' = (violated \/ long)
    /\ Finds(IF long THEN {"stale"} ELSE {})
    /\ UNCHANGED <<ledger, todo, done, opened, probe, attempt, status,
                   others, ran, stopped>>

-----------------------------------------------------------------------------
(* After the chunk: post-hoc check with retries, quality gate, end record. *)

\* Mutant: judges by the post-hoc check alone.
VerdictOfPosthoc(gaps) == IF gaps THEN "gap" ELSE "valid"

Verdict(gaps) == IF violated \/ gaps THEN "gap" ELSE "valid"

PosthocAnswers(gaps) ==
    /\ pc = "settling"
    /\ status' = Verdict(gaps)
    /\ pc' = IF Verdict(gaps) = "valid" THEN "quality" ELSE "ending"
    /\ Finds(IF gaps THEN {"gaps"} ELSE {})
    /\ UNCHANGED <<ledger, todo, done, opened, probe, violated, attempt,
                   others, ran, stopped>>

PosthocFails ==
    /\ pc = "settling"
    /\ attempt' = attempt + 1
    /\ IF attempt + 1 < PosthocRetries
       THEN UNCHANGED <<pc, status, flaws>>
       ELSE pc' = "ending" /\ status' = "gap" /\ Finds({"unchecked"})
    /\ UNCHANGED <<ledger, todo, done, opened, probe, violated, others, ran,
                   stopped>>

\* bad: the counts answered are too low or too dirty.  A count that is not
\* answered is not held against the chunk.
QualityGate(bad) ==
    /\ pc = "quality"
    /\ pc' = "ending"
    /\ status' = IF bad THEN "low_quality" ELSE status
    /\ Finds(IF bad THEN {"quality"} ELSE {})
    /\ UNCHANGED <<ledger, todo, done, opened, probe, violated, attempt,
                   others, ran, stopped>>

Hours == IF status = "valid" THEN probe ELSE 0

EndOfChunk == EndRec(opened, status, probe, Hours)

CloseChunk ==
    /\ pc = "ending"
    /\ file' = AppendRec(file, EndOfChunk)
    /\ pc' = "loop" /\ done' = done + 1
    /\ UNCHANGED <<progress, todo, opened, probe, violated, attempt, status,
                   others, history>>

Collector ==
    \/ Start \/ Recovered \/ (\E c \in Chunks : RecoverOne(c))
    \/ LoopEnds \/ LoopOpens \/ PreconditionTimeout \/ OpenChunk \/ TouchStart
    \/ BlindProbe \/ WorkloadDies
    \/ \E long \in BOOLEAN : Probe(long) \/ PeriodEnds(long)
    \/ \E gaps \in BOOLEAN : PosthocAnswers(gaps)
    \/ PosthocFails
    \/ \E bad \in BOOLEAN : QualityGate(bad)
    \/ CloseChunk

-----------------------------------------------------------------------------
(* Faults.                                                                 *)

Inject(kind) ==
    /\ kind \in plan /\ faults < MaxFaults
    /\ faults' = faults + 1 /\ plan' = plan

\* The record the collector is about to append, if it is about to.
Pending ==
    CASE pc = "recover" -> { RecoveredEnd(c) : c \in todo }
      [] pc = "waiting" /\ opened < MaxChunks -> { StartRec(opened + 1) }
      [] pc = "ending"  -> { EndOfChunk }
      [] OTHER          -> {}

Dies == pc' = "down" /\ todo' = {}

\* The process ends with its next append not begun, or whole.  The number
\* of a chunk is its time stamp: it is used up with its start record.
DiesAround ==
    /\ Dies
    /\ file' \in {file} \cup { AppendRec(file, r) : r \in Pending }
    /\ opened' = IF pc = "waiting" /\ file' # file THEN opened + 1 ELSE opened
    /\ UNCHANGED <<progress, done, probe, violated, attempt, status, rtodo>>

\* SIGKILL, the OOM killer, an exception, the machine.
Kill ==
    /\ Inject("kill")
    /\ pc # "down"
    /\ DiesAround
    /\ UNCHANGED history

\* The same, in the middle of append()'s write.
KillInWrite ==
    /\ Inject("tear")
    /\ \E r \in Pending : file' \in Damaged(file, r)
    /\ Dies
    /\ opened' = IF pc = "waiting" THEN opened + 1 ELSE opened
    /\ UNCHANGED <<progress, done, probe, violated, attempt, status, rtodo,
                   history>>

\* SIGTERM, SIGINT or SIGHUP: on_signal() raises Stop.  The probing loop
\* catches it and closes the chunk; elsewhere it ends the process, and the
\* chunk being closed stays an orphan.
StopInChunk ==
    /\ Inject("signal")
    /\ pc = "running"
    /\ pc' = "ending" /\ status' = "aborted"
    /\ Finds({"stopped"})
    /\ stopped' = [stopped EXCEPT ![opened] = TRUE]
    /\ UNCHANGED <<ledger, todo, done, opened, probe, violated, attempt,
                   rtodo, ran>>

StopElsewhere ==
    /\ Inject("signal")
    /\ pc \in {"loop", "waiting", "touching", "settling", "quality", "ending"}
    /\ DiesAround
    /\ UNCHANGED history

\* Stop raised under fresh_counts(), which catches every Exception and
\* returns None: the probe counts as blind, the signal is gone.
StopSwallowed ==
    /\ Inject("signal")
    /\ Touch
    /\ stopped' = [stopped EXCEPT ![opened] = TRUE]
    /\ UNCHANGED <<file, pc, todo, done, opened, violated, attempt, status,
                   rtodo, flaws>>

\* The same under bucket_gaps(): an attempt that failed.  (Under count() it
\* is an unanswered quality query: QualityGate(FALSE).)
StopSwallowedAfter ==
    /\ Inject("signal")
    /\ pc = "settling"
    /\ attempt + 1 < PosthocRetries
    /\ attempt' = attempt + 1
    /\ UNCHANGED <<ledger, pc, todo, done, opened, probe, violated, status,
                   rtodo, history>>

\* A second process runs --report: it recovers first, like any other run.
ReportReads ==
    /\ Inject("report")
    /\ rtodo = {}
    /\ rtodo' = Orphans(file)
    /\ UNCHANGED <<ledger, locals, history>>

ReportCloses(c) ==
    /\ c \in rtodo
    /\ file' = AppendRec(file, RecoveredEnd(c))
    /\ rtodo' = rtodo \ {c}
    /\ UNCHANGED <<progress, locals, plan, faults, history>>

Environment ==
    \/ Kill \/ KillInWrite
    \/ StopInChunk \/ StopElsewhere \/ StopSwallowed \/ StopSwallowedAfter
    \/ ReportReads
    \/ \E c \in Chunks : ReportCloses(c)

Next == Collector \/ Environment

\* The collector is restarted after it stops: tests/phaseb_collect_loop.sh
\* runs it again for every chunk, and faults are bounded.
Spec == Init /\ [][Next]_vars /\ WF_vars(Collector)

-----------------------------------------------------------------------------
(* Properties.                                                             *)

\* No write is torn and nobody asks for a report: the process may still be
\* killed and signalled anywhere.
OneWholeWriter == plan \cap {"tear", "report"} = {}

Flaws == {"stale", "workload", "stopped", "gaps", "unchecked", "quality"}

\* Every variable keeps its type.
TypeOK ==
    /\ file \in File
    /\ progress \in [chunk : Chunks \cup {0}, t : 0 .. Probes]
    /\ pc \in InChunk \cup {"down", "recover", "loop", "waiting"}
    /\ todo \subseteq Chunks /\ rtodo \subseteq Chunks
    /\ done \in 0 .. MaxChunks /\ opened \in 0 .. MaxChunks
    /\ probe \in 0 .. Probes /\ ran \in [Chunks -> 0 .. Probes]
    /\ violated \in BOOLEAN /\ attempt \in 0 .. PosthocRetries
    /\ status \in Statuses \cup {"none"}
    /\ plan \in Plans /\ faults \in 0 .. MaxFaults
    /\ flaws \in [Chunks -> SUBSET Flaws]
    /\ stopped \in [Chunks -> BOOLEAN]

\* Whatever is killed, torn, signalled or reported at the same time, the
\* ledger counts no hour the collector did not measure clean: a chunk that
\* reads as valid ran its whole period, with no stretch over max_gap, a live
\* workload, a post-hoc check that was answered, and good counts
\* (collect_chunked.py:10-15, 301-370).
NoInventedHours ==
    \A c \in ValidChunks(file) :
        /\ ran[c] = Probes /\ flaws[c] = {}
        /\ LastEnd(file, c).hours = Probes

\* A chunk that is closed, by its collector or by a later process that finds
\* it orphaned, ends at its last probe (recover() and the progress file,
\* which names one chunk only: collect_chunked.py:95-107, 122-124) -- as long
\* as each write is whole and no report closes the chunk early.
EndsAtLastProbe ==
    OneWholeWriter => \A c \in Closed(file) : LastEnd(file, c).t_end = ran[c]

\* recover() closes every orphan it finds (collect_chunked.py:29-31): none
\* is left when the collector goes on.
RecoverCloses == pc = "loop" => Orphans(file) = {}

\* A chunk interrupted by SIGTERM or Ctrl-C is never valid
\* (collect_chunked.py:12).
StoppedIsNotValid == \A c \in ValidChunks(file) : ~stopped[c]

\* A chunk whose start is in the ledger does not stay without an end, even
\* when the end recover() appends is itself swallowed by a torn line
\* (collect_chunked.py:29-31).
OrphansGetClosed ==
    \A c \in Chunks : c \in Orphans(file) ~> c \notin Orphans(file)

\* The ledger, read as chunks() reads it, is the book of ChunkBook: one chunk
\* open at a time, one verdict each that never changes -- as long as each write
\* is whole and the collector is the only one that writes.
book == [c \in Chunks |->
            IF ~OneWholeWriter THEN "none"
            ELSE IF EndsAt(file, c) # {} THEN LastEnd(file, c).status
            ELSE IF At(file, c) # {} THEN "open" ELSE "none"]

Book == INSTANCE ChunkBook

BookSpec == Book!Spec

=============================================================================
