---------------------------- MODULE CollectLoop -----------------------------
(***************************************************************************)
(* The outer loop tests/phaseb_collect_loop.sh: count the hours, preflight,*)
(* run the collector for one chunk, read the newest chunk of the ledger,   *)
(* export it (tests/phaseb_chunk_postprocess.sh), until the target is met  *)
(* or a rule stops it.                                                     *)
(*                                                                         *)
(* Every valid chunk is worth one hour.  Of the ledger the loop only looks *)
(* at the total of hours and at the newest chunk, so the model keeps these *)
(* two, and the loop may run for ever in finitely many states.  What the   *)
(* collector and the ledger do inside one chunk is ChunkLedger's subject.  *)
(***************************************************************************)
EXTENDS Naturals, Sequences

CONSTANTS Target,     \* TARGET_HOURS, in chunks
          GapMax,     \* GAP_STREAK_MAX
          LowqMax,    \* LOWQ_STREAK_MAX
          AbortMax    \* ABORT_STREAK_MAX

Verdicts == {"valid", "gap", "aborted", "low_quality"}

ASSUME LoopAssumption ==
    /\ Target \in Nat /\ GapMax \in Nat \ {0}
    /\ LowqMax \in Nat \ {0} /\ AbortMax \in Nat \ {0}

VARIABLES
    pc,
    hours,       \* valid_hours of the ledger
    last,        \* the newest chunk: its status, and whether it was exported
    gapStreak, lowqStreak, abortedStreak,
    stop,        \* why the loop exited
    fresh,       \* history: this round's collector closed the newest chunk
    recent,      \* history: the verdicts of the newest chunks
    unbacked,    \* history: valid chunks that were never exported
    timeouts,    \* history: collectors that ended without opening a chunk, up to GapMax
    restarts     \* history: times the loop was started again, up to Target + 1

streaks == <<gapStreak, lowqStreak, abortedStreak>>
upsets == <<timeouts, restarts>>
vars == <<pc, hours, last, streaks, stop, fresh, recent, unbacked, upsets>>

NoChunk == [status |-> "none", exported |-> FALSE]

Init ==
    /\ pc = "head" /\ hours = 0 /\ last = NoChunk
    /\ gapStreak = 0 /\ lowqStreak = 0 /\ abortedStreak = 0
    /\ stop = "no" /\ fresh = FALSE /\ recent = << >> /\ unbacked = 0
    /\ timeouts = 0 /\ restarts = 0

StopsFor(why) == pc' = "stopped" /\ stop' = why
GoesOn(next) == pc' = next /\ UNCHANGED stop

\* The history counters stop where a higher count says no more.
UpTo(max, n) == IF n <= max THEN n ELSE max

Newest(seq, v) ==
    LET all == Append(seq, v)
    IN  IF Len(all) > GapMax THEN Tail(all) ELSE all

-----------------------------------------------------------------------------
\* valid_hours(): nothing printed counts as 0 hours.  Bound: that befalls a loop that has its hours
\* only until it has one hour more.
Counted == {hours} \cup {n \in {0} : hours <= Target}

\* It runs --report, which closes an orphaned chunk first.
CountHours ==
    /\ pc = "head"
    /\ \E hrs \in Counted : GoesOn(IF hrs >= Target THEN "finished" ELSE "preflight")
    /\ last' = IF last.status = "open" THEN [last EXCEPT !.status = "aborted"]
                                       ELSE last
    /\ recent' = IF last.status = "open" THEN Newest(recent, "aborted")
                                         ELSE recent
    /\ fresh' = FALSE
    /\ UNCHANGED <<hours, streaks, unbacked, upsets>>

PreflightPasses ==
    /\ pc = "preflight" /\ GoesOn("collect")
    /\ UNCHANGED <<hours, last, streaks, fresh, recent, unbacked, upsets>>

PreflightFails ==
    /\ pc = "preflight" /\ StopsFor("preflight")
    /\ UNCHANGED <<hours, last, streaks, fresh, recent, unbacked, upsets>>

\* Mutant: the chunk read back is the first of the ledger.
CollectedReadsFirst(v) ==
    /\ pc = "collect" /\ GoesOn("read")
    /\ last' = IF last = NoChunk THEN [status |-> v, exported |-> FALSE] ELSE last
    /\ fresh' = TRUE
    /\ recent' = Newest(recent, v)
    /\ hours' = IF v = "valid" THEN hours + 1 ELSE hours
    /\ unbacked' = IF v = "valid" THEN unbacked + 1 ELSE unbacked
    /\ UNCHANGED <<streaks, upsets>>

\* collect_chunked.py --chunks 1 opens a chunk and closes it with verdict v.
Collected(v) ==
    /\ pc = "collect" /\ GoesOn("read")
    /\ last' = [status |-> v, exported |-> FALSE]
    /\ fresh' = TRUE
    /\ recent' = Newest(recent, v)
    /\ hours' = IF v = "valid" THEN hours + 1 ELSE hours
    /\ unbacked' = IF v = "valid" THEN unbacked + 1 ELSE unbacked
    /\ UNCHANGED <<streaks, upsets>>

\* It dies inside the chunk, and leaves it open.
CollectorDies ==
    /\ pc = "collect" /\ GoesOn("read")
    /\ last' = [status |-> "open", exported |-> FALSE]
    /\ fresh' = TRUE
    /\ UNCHANGED <<hours, streaks, recent, unbacked, upsets>>

\* wait_preconditions() gives up: no chunk is opened.  The loop does not
\* look at the exit status.
CollectorTimesOut ==
    /\ pc = "collect" /\ GoesOn("read")
    /\ timeouts' = UpTo(GapMax, timeouts + 1) /\ restarts' = restarts
    /\ UNCHANGED <<hours, last, streaks, fresh, recent, unbacked>>

-----------------------------------------------------------------------------
(* The stopping rules, by the status of the newest chunk.                  *)

ReadsGap ==
    /\ pc = "read" /\ last.status = "gap"
    /\ gapStreak' = gapStreak + 1
    /\ IF gapStreak' >= GapMax THEN StopsFor("gap") ELSE GoesOn("head")
    /\ UNCHANGED <<hours, last, lowqStreak, abortedStreak, fresh, recent,
                   unbacked, upsets>>

\* Mutant: low_quality is left to the export.
ReadsLowQualityUncounted ==
    /\ pc = "read" /\ last.status = "low_quality"
    /\ gapStreak' = 0
    /\ GoesOn("head")
    /\ UNCHANGED <<hours, last, lowqStreak, abortedStreak, fresh, recent,
                   unbacked, upsets>>

ReadsLowQuality ==
    /\ pc = "read" /\ last.status = "low_quality"
    /\ gapStreak' = 0
    /\ lowqStreak' = lowqStreak + 1
    /\ IF lowqStreak' >= LowqMax THEN StopsFor("low_quality") ELSE GoesOn("head")
    /\ UNCHANGED <<hours, last, abortedStreak, fresh, recent, unbacked, upsets>>

\* Mutant: the gap streak is never reset.
ReadsOtherKeepingStreak ==
    /\ pc = "read" /\ last.status \notin {"gap", "low_quality"}
    /\ lowqStreak' = 0
    /\ GoesOn("post")
    /\ UNCHANGED <<hours, last, gapStreak, abortedStreak, fresh, recent,
                   unbacked, upsets>>

\* valid, but also aborted, a chunk left open, and no chunk at all.
ReadsOther ==
    /\ pc = "read" /\ last.status \notin {"gap", "low_quality"}
    /\ gapStreak' = 0 /\ lowqStreak' = 0
    /\ GoesOn("post")
    /\ UNCHANGED <<hours, last, abortedStreak, fresh, recent, unbacked, upsets>>

-----------------------------------------------------------------------------
(* phaseb_chunk_postprocess.sh: the export record changes no verdict; an   *)
(* export with an empty stream demotes the chunk to aborted.  A chunk left *)
(* open has no t_end: its export covers [t_start, 0] and is empty.         *)

Exports ==
    /\ pc = "post"
    /\ last.status \notin {"open", "none"}
    /\ last' = [last EXCEPT !.exported = TRUE]
    /\ unbacked' = IF last.status = "valid" /\ ~last.exported
                   THEN unbacked - 1 ELSE unbacked
    /\ abortedStreak' = 0
    /\ GoesOn("ratio")
    /\ UNCHANGED <<hours, gapStreak, lowqStreak, fresh, recent, upsets>>

\* The newest entry becomes, or for a chunk left open is, an aborted one.
Demoted(seq) ==
    IF last.status = "open" THEN Newest(seq, "aborted")
    ELSE IF seq = << >> THEN seq
    ELSE [seq EXCEPT ![Len(seq)] = "aborted"]

Demotion ==
    IF last.status = "none" THEN UNCHANGED last
    ELSE last' = [status |-> "aborted", exported |-> FALSE]

\* Mutant: an empty export is logged, the chunk keeps its verdict.
ExportEmptyIgnored ==
    /\ pc = "post"
    /\ abortedStreak' = abortedStreak + 1
    /\ IF abortedStreak' >= AbortMax THEN StopsFor("export") ELSE GoesOn("head")
    /\ UNCHANGED <<hours, last, gapStreak, lowqStreak, fresh, recent, unbacked, upsets>>

ExportEmpty ==
    /\ pc = "post"
    /\ Demotion
    /\ recent' = Demoted(recent)
    /\ hours' = IF last.status = "valid" THEN hours - 1 ELSE hours
    /\ unbacked' = IF last.status = "valid" /\ ~last.exported
                   THEN unbacked - 1 ELSE unbacked
    /\ abortedStreak' = abortedStreak + 1
    /\ IF abortedStreak' >= AbortMax THEN StopsFor("export") ELSE GoesOn("head")
    /\ UNCHANGED <<gapStreak, lowqStreak, fresh, upsets>>

\* Too many aborted campaign runs in the chunk stop the loop.
RatioTooHigh ==
    /\ pc = "ratio" /\ StopsFor("ratio")
    /\ UNCHANGED <<hours, last, streaks, fresh, recent, unbacked, upsets>>

RatioFine ==
    /\ pc = "ratio" /\ GoesOn("head")
    /\ UNCHANGED <<hours, last, streaks, fresh, recent, unbacked, upsets>>

\* Somebody stops the loop, or starts it again after it stopped.
Restart ==
    /\ pc # "finished"
    /\ pc' = "head" /\ stop' = "no"
    /\ gapStreak' = 0 /\ lowqStreak' = 0 /\ abortedStreak' = 0
    /\ restarts' = UpTo(Target + 1, restarts + 1)
    /\ UNCHANGED <<hours, last, fresh, recent, unbacked, timeouts>>

Loop ==
    \/ CountHours \/ PreflightPasses \/ PreflightFails
    \/ \E v \in Verdicts : Collected(v)
    \/ CollectorDies \/ CollectorTimesOut
    \/ ReadsGap \/ ReadsLowQuality \/ ReadsOther
    \/ Exports \/ ExportEmpty \/ RatioTooHigh \/ RatioFine

Next == Loop \/ Restart

\* A shell script: as long as it can go on, it does.
Spec == Init /\ [][Next]_vars /\ WF_vars(Loop)

-----------------------------------------------------------------------------
(* Properties.                                                             *)

\* Every variable keeps its type.
TypeOK ==
    /\ pc \in {"head", "preflight", "collect", "read", "post", "ratio",
               "stopped", "finished"}
    /\ hours \in 0 .. Target + 1
    /\ last \in [status : Verdicts \cup {"open", "none"}, exported : BOOLEAN]
    /\ gapStreak \in 0 .. GapMax /\ lowqStreak \in 0 .. LowqMax
    /\ abortedStreak \in 0 .. AbortMax
    /\ stop \in {"no", "preflight", "gap", "low_quality", "export", "ratio"}
    /\ fresh \in BOOLEAN
    /\ recent \in Seq(Verdicts) /\ Len(recent) <= GapMax
    /\ unbacked \in 0 .. Target + 1
    /\ timeouts \in 0 .. GapMax /\ restarts \in 0 .. Target + 1

\* When the loop counts its hours, and when it ends with enough of them, each counted hour has its
\* export -- "one chunk = opened and closed by collect_chunked.py + export + checked not empty"
\* (phaseb_collect_loop.sh:4-5) -- but for one at most each time the loop was killed between the two
\* and started again.
HoursBacked == pc \in {"head", "finished"} => unbacked <= restarts

\* It stops over gaps only after GAP_STREAK_MAX chunks in a row had one, less one at most for each
\* collector that ended without opening its chunk: the loop then judges an old chunk again
\* (phaseb_collect_loop.sh:136-144).
GapStopIsReal ==
    stop = "gap" =>
        \A i \in 1 .. GapMax - timeouts :
           i <= Len(recent) /\ recent[Len(recent) + 1 - i] = "gap"

\* An hour that was exported is never taken back, except in a round whose collector opened no chunk
\* (phaseb_chunk_postprocess.sh:6-10 demotes a chunk whose export is empty; in such a round that is
\* an older one).
ExportedHoursKept == [][hours' < hours => ~fresh \/ ~last.exported]_vars

\* The loop reaches its hours or a rule stops it
\* (phaseb_collect_loop.sh:25-28), unless it is restarted for ever or its
\* chunks abort or fail to open for ever: those count for no rule.
Terminates ==
    \/ <>(pc \in {"stopped", "finished"})
    \/ []<><<Restart>>_vars
    \/ []<><<CollectorTimesOut>>_vars
    \/ []<>(pc = "read" /\ last.status = "aborted")
=============================================================================
