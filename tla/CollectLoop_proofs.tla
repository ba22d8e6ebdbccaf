------------------------- MODULE CollectLoop_proofs -------------------------
(***************************************************************************)
(* The properties of CollectLoop for every target and every streak limit.  *)
(***************************************************************************)
EXTENDS CollectLoop, SequenceTheorems, TLAPS

-----------------------------------------------------------------------------
(* Type correctness.                                                       *)

\* What the types rest on: the loop only goes on up to its target and below
\* its limits, and a chunk it may take back was counted.
Typed ==
    /\ TypeOK
    /\ pc \in {"preflight", "collect"} => hours <= Target
    /\ pc # "stopped" => /\ gapStreak < GapMax
                         /\ lowqStreak < LowqMax
                         /\ abortedStreak < AbortMax
    /\ last.status = "valid" =>
         IF last.exported THEN unbacked < hours ELSE 0 < unbacked
    /\ unbacked <= hours

LEMMA NewestType ==
    ASSUME NEW seq \in Seq(Verdicts), Len(seq) <= GapMax, NEW v \in Verdicts
    PROVE  Newest(seq, v) \in Seq(Verdicts) /\ Len(Newest(seq, v)) <= GapMax
<1>1. Append(seq, v) \in Seq(Verdicts) /\ Len(Append(seq, v)) = Len(seq) + 1
  BY AppendProperties
<1>2. CASE Len(seq) + 1 > GapMax
  <2>1. Append(seq, v) # << >> /\ Newest(seq, v) = Tail(Append(seq, v))
    BY <1>1, <1>2, EmptySeq, LenProperties DEF Newest
  <2>. QED
    BY <2>1, <1>1, HeadTailProperties, LoopAssumption, LenProperties
<1>3. CASE ~ (Len(seq) + 1 > GapMax)
  BY <1>1, <1>3, LoopAssumption, LenProperties DEF Newest
<1>. QED
  BY <1>2, <1>3

LEMMA DemotedType ==
    ASSUME Typed
    PROVE  Demoted(recent) \in Seq(Verdicts) /\ Len(Demoted(recent)) <= GapMax
<1>0. "aborted" \in Verdicts /\ recent \in Seq(Verdicts) /\ Len(recent) <= GapMax
  BY DEF Typed, TypeOK, Verdicts
<1>1. CASE last.status = "open"
  BY <1>0, <1>1, NewestType DEF Demoted
<1>2. CASE last.status # "open" /\ recent = << >>
  BY <1>0, <1>2 DEF Demoted
<1>3. CASE last.status # "open" /\ recent # << >>
  <2>1. Demoted(recent) = [recent EXCEPT ![Len(recent)] = "aborted"]
    BY <1>3 DEF Demoted
  <2>2. Demoted(recent) \in Seq(Verdicts) /\ Len(Demoted(recent)) = Len(recent)
    <3>1. Len(recent) \in 1 .. Len(recent)
      BY <1>0, <1>3, EmptySeq, LenProperties
    <3>. QED
      BY <1>0, <2>1, <3>1, ExceptSeq
  <2>. QED
    BY <1>0, <2>2
<1>. QED
  BY <1>1, <1>2, <1>3

LEMMA TypedInit == Init => Typed
<1> SUFFICES ASSUME Init PROVE Typed
  OBVIOUS
<1>1. << >> \in Seq(Verdicts) /\ Len(<< >>) = 0
  BY EmptySeq
<1>2. /\ NoChunk \in [status : Verdicts \cup {"open", "none"}, exported : BOOLEAN]
      /\ NoChunk.status # "valid"
  BY DEF NoChunk
<1>3. recent \in Seq(Verdicts) /\ Len(recent) <= GapMax
  BY <1>1, LoopAssumption DEF Init
<1>4. /\ last \in [status : Verdicts \cup {"open", "none"}, exported : BOOLEAN]
      /\ last.status # "valid"
  BY <1>2 DEF Init
<1>5. /\ pc = "head" /\ stop = "no" /\ fresh = FALSE
      /\ hours = 0 /\ unbacked = 0
      /\ gapStreak = 0 /\ lowqStreak = 0 /\ abortedStreak = 0
      /\ timeouts = 0 /\ restarts = 0
  BY DEF Init
<1>6. TypeOK
  <2>1. /\ hours \in 0 .. Target + 1 /\ unbacked \in 0 .. Target + 1
        /\ gapStreak \in 0 .. GapMax /\ lowqStreak \in 0 .. LowqMax
        /\ abortedStreak \in 0 .. AbortMax
        /\ timeouts \in 0 .. GapMax /\ restarts \in 0 .. Target + 1
    BY <1>5, LoopAssumption
  <2>2. fresh \in BOOLEAN
        /\ stop \in {"no", "preflight", "gap", "low_quality", "export", "ratio"}
        /\ pc \in {"head", "preflight", "collect", "read", "post", "ratio",
                    "stopped", "finished"}
    BY <1>5
  <2>. QED
    BY <1>3, <1>4, <2>1, <2>2 DEF TypeOK
<1> QED
  BY <1>4, <1>5, <1>6, LoopAssumption DEF Typed

LEMMA TypedStep == Typed /\ [Next]_vars => Typed'
<1> SUFFICES ASSUME Typed, [Next]_vars PROVE Typed'
  OBVIOUS
<1>0. recent \in Seq(Verdicts) /\ Len(recent) <= GapMax /\ "aborted" \in Verdicts
  BY DEF Typed, TypeOK, Verdicts
<1> USE LoopAssumption DEF Typed, TypeOK, streaks, upsets
<1>1. CASE CountHours
  <2>1. recent' \in Seq(Verdicts) /\ Len(recent') <= GapMax
    BY <1>0, <1>1, NewestType DEF CountHours
  <2>2. last' \in [status : Verdicts \cup {"open", "none"}, exported : BOOLEAN]
    BY <1>0, <1>1 DEF CountHours
  <2>3. last'.status = "valid" => last' = last
    BY <1>1 DEF CountHours
  <2>4. last'.status = "valid" => last'.exported = last.exported
                                  /\ last.status = "valid"
    BY <2>3
  <2>5. /\ pc # "stopped" /\ pc' \in {"finished", "preflight"}
        /\ pc' = "preflight" => hours <= Target
        /\ fresh' = FALSE
        /\ UNCHANGED <<hours, gapStreak, lowqStreak, abortedStreak, unbacked,
                       stop, timeouts, restarts>>
    BY <1>1 DEF CountHours, Counted, GoesOn
  <2>6. TypeOK'
    BY <2>1, <2>2, <2>5
  <2>7. pc' \in {"preflight", "collect"} => hours' <= Target
    BY <2>5
  <2>. QED
    BY <2>4, <2>5, <2>6, <2>7
<1>2. CASE PreflightPasses
  BY <1>2 DEF PreflightPasses, GoesOn
<1>3. CASE PreflightFails
  BY <1>3 DEF PreflightFails, StopsFor
<1>4. ASSUME NEW v \in Verdicts, Collected(v) PROVE Typed'
  <2>1. recent' \in Seq(Verdicts) /\ Len(recent') <= GapMax
    BY <1>0, <1>4, NewestType DEF Collected
  <2>. QED
    BY <1>4, <2>1 DEF Collected, GoesOn
<1>5. CASE CollectorDies
  BY <1>5 DEF CollectorDies, GoesOn
<1>6. CASE CollectorTimesOut
  BY <1>6 DEF CollectorTimesOut, UpTo, GoesOn
<1>7. CASE ReadsGap
  BY <1>7 DEF ReadsGap, GoesOn, StopsFor
<1>8. CASE ReadsLowQuality
  BY <1>8 DEF ReadsLowQuality, GoesOn, StopsFor
<1>9. CASE ReadsOther
  BY <1>9 DEF ReadsOther, GoesOn
<1>10. CASE Exports
  <2>1. last' = [last EXCEPT !.exported = TRUE]
    BY <1>10 DEF Exports
  <2>2. /\ last' \in [status : Verdicts \cup {"open", "none"}, exported : BOOLEAN]
        /\ last'.status = last.status /\ last'.exported = TRUE
    BY <2>1
  <2>3. /\ pc = "post" /\ pc' = "ratio" /\ stop' = stop
        /\ unbacked' = IF last.status = "valid" /\ ~last.exported
                       THEN unbacked - 1 ELSE unbacked
        /\ abortedStreak' = 0
        /\ UNCHANGED <<hours, gapStreak, lowqStreak, fresh, recent, timeouts,
                       restarts>>
    BY <1>10 DEF Exports, GoesOn
  <2>4. /\ unbacked' \in 0 .. Target + 1 /\ unbacked' <= hours'
        /\ last'.status = "valid" => unbacked' < hours'
    BY <2>2, <2>3
  <2>. QED
    BY <2>2, <2>3, <2>4
<1>11. CASE ExportEmpty
  <2>1. recent' \in Seq(Verdicts) /\ Len(recent') <= GapMax
    BY <1>11, DemotedType DEF ExportEmpty
  <2>2. /\ last' \in [status : Verdicts \cup {"open", "none"}, exported : BOOLEAN]
        /\ last'.status # "valid"
    <3>1. CASE last.status = "none"
      BY <1>11, <3>1 DEF ExportEmpty, Demotion
    <3>2. CASE last.status # "none"
      <4>1. last' = [status |-> "aborted", exported |-> FALSE]
        BY <1>11, <3>2 DEF ExportEmpty, Demotion
      <4>. QED
        BY <1>0, <4>1
    <3>. QED
      BY <3>1, <3>2
  <2>3. hours' \in 0 .. Target + 1 /\ unbacked' \in 0 .. Target + 1 /\ unbacked' <= hours'
    BY <1>11 DEF ExportEmpty
  <2>. QED
    BY <1>11, <2>1, <2>2, <2>3 DEF ExportEmpty, GoesOn, StopsFor
<1>12. CASE RatioTooHigh
  BY <1>12 DEF RatioTooHigh, StopsFor
<1>13. CASE RatioFine
  BY <1>13 DEF RatioFine, GoesOn
<1>14. CASE Restart
  BY <1>14 DEF Restart, UpTo
<1>15. CASE UNCHANGED vars
  BY <1>15 DEF vars
<1> QED
  BY <1>1, <1>2, <1>3, <1>4, <1>5, <1>6, <1>7, <1>8, <1>9, <1>10, <1>11,
     <1>12, <1>13, <1>14, <1>15 DEF Next, Loop

\* Every variable of the loop keeps its type; its hours pass the target
\* by one at most and its streaks never pass their limits (phaseb_collect_loop.sh).
THEOREM TypeCorrect == Spec => []TypeOK
<1>1. Typed => TypeOK
  BY DEF Typed
<1> QED
  BY <1>1, TypedInit, TypedStep, PTL DEF Spec

-----------------------------------------------------------------------------
(* Counted hours are exported, but for one each time the loop is started   *)
(* again.                                                                  *)

Unexported == last.status = "valid" /\ ~last.exported

\* On its way to its export the newest valid chunk is one more.
BackedInv ==
    unbacked <= IF Unexported /\ pc \in {"read", "post"} THEN restarts + 1 ELSE restarts

LEMMA BackedInit == Init => BackedInv
BY DEF Init, BackedInv, Unexported, NoChunk

LEMMA BackedStep == Typed /\ BackedInv /\ [Next]_vars => BackedInv'
<1> SUFFICES ASSUME Typed, BackedInv, [Next]_vars PROVE BackedInv'
  OBVIOUS
<1>0. /\ last \in [status : Verdicts \cup {"open", "none"}, exported : BOOLEAN]
      /\ unbacked \in 0 .. Target + 1 /\ unbacked \in Nat /\ restarts \in 0 .. Target + 1
      /\ restarts \in Nat /\ Target \in Nat
  BY LoopAssumption DEF Typed, TypeOK
<1> USE DEF BackedInv
<1>1. CASE CountHours
  BY <1>0, <1>1 DEF CountHours, GoesOn, upsets
<1>2. CASE PreflightPasses
  BY <1>2 DEF PreflightPasses, GoesOn, upsets
<1>3. CASE PreflightFails
  BY <1>3 DEF PreflightFails, StopsFor, upsets
<1>4. ASSUME NEW v \in Verdicts, Collected(v) PROVE BackedInv'
  <2>1. last' = [status |-> v, exported |-> FALSE] /\ pc' = "read" /\ restarts' = restarts
    BY <1>4 DEF Collected, GoesOn, upsets
  <2>2. unbacked <= restarts /\ unbacked' = IF v = "valid" THEN unbacked + 1 ELSE unbacked
    BY <1>4 DEF Collected
  <2>3. Unexported' <=> v = "valid"
    BY <2>1 DEF Unexported
  <2>. QED
    BY <1>0, <2>1, <2>2, <2>3
<1>5. CASE CollectorDies
  BY <1>0, <1>5 DEF CollectorDies, GoesOn, upsets
<1>6. CASE CollectorTimesOut
  BY <1>0, <1>6 DEF CollectorTimesOut, GoesOn
<1>7. CASE ReadsGap
  BY <1>7 DEF ReadsGap, GoesOn, StopsFor, Unexported, upsets
<1>8. CASE ReadsLowQuality
  BY <1>8 DEF ReadsLowQuality, GoesOn, StopsFor, Unexported, upsets
<1>9. CASE ReadsOther
  BY <1>9 DEF ReadsOther, GoesOn, Unexported, upsets
<1>10. CASE Exports
  <2>1. /\ pc' = "ratio" /\ restarts' = restarts
        /\ unbacked' = IF Unexported THEN unbacked - 1 ELSE unbacked
    BY <1>10 DEF Exports, GoesOn, Unexported, upsets
  <2>. QED
    BY <1>0, <2>1
<1>11. CASE ExportEmpty
  <2>1. /\ pc' \notin {"read", "post"} /\ restarts' = restarts
        /\ unbacked' = IF Unexported THEN unbacked - 1 ELSE unbacked
    BY <1>11 DEF ExportEmpty, GoesOn, StopsFor, Unexported, upsets
  <2>. QED
    BY <1>0, <2>1
<1>12. CASE RatioTooHigh
  BY <1>12 DEF RatioTooHigh, StopsFor, upsets
<1>13. CASE RatioFine
  BY <1>13 DEF RatioFine, GoesOn, upsets
<1>14. CASE Restart
  BY <1>0, <1>14 DEF Restart, UpTo
<1>15. CASE UNCHANGED vars
  BY <1>15 DEF vars, upsets, Unexported
<1> QED
  BY <1>1, <1>2, <1>3, <1>4, <1>5, <1>6, <1>7, <1>8, <1>9, <1>10, <1>11,
     <1>12, <1>13, <1>14, <1>15 DEF Next, Loop

\* At the head of every round and when it ends, the loop counts no more hours without their export
\* than it was started again (phaseb_collect_loop.sh:4-5).
THEOREM Backed == Spec => []HoursBacked
<1>1. BackedInv => HoursBacked
  BY DEF BackedInv, HoursBacked
<1>2. Typed /\ BackedInv /\ [Next]_vars => BackedInv'
  BY BackedStep
<1> QED
  BY <1>1, <1>2, TypedInit, TypedStep, BackedInit, PTL DEF Spec

-----------------------------------------------------------------------------
(* What a collector that opens its chunk guarantees.                       *)

\* From its end to its judgement, a chunk of this round is not exported.
FreshInv ==
    /\ fresh /\ pc \in {"read", "post"} => ~last.exported
    /\ pc \in {"preflight", "collect"} => ~fresh

LEMMA FreshInit == Init => FreshInv
BY DEF Init, FreshInv

LEMMA FreshStep == FreshInv /\ [Next]_vars => FreshInv'
<1> SUFFICES ASSUME FreshInv, [Next]_vars PROVE FreshInv'
  OBVIOUS
<1> USE DEF FreshInv
<1>1. CASE CountHours
  BY <1>1 DEF CountHours, GoesOn
<1>2. CASE PreflightPasses \/ PreflightFails
  BY <1>2 DEF PreflightPasses, PreflightFails, GoesOn, StopsFor
<1>3. ASSUME NEW v \in Verdicts, Collected(v) PROVE FreshInv'
  <2>1. pc' = "read" /\ last' = [status |-> v, exported |-> FALSE]
    BY <1>3 DEF Collected, GoesOn
  <2>. QED
    BY <2>1
<1>4. CASE CollectorDies
  BY <1>4 DEF CollectorDies, GoesOn
<1>5. CASE CollectorTimesOut
  BY <1>5 DEF CollectorTimesOut, GoesOn
<1>6. CASE ReadsGap \/ ReadsLowQuality
  BY <1>6 DEF ReadsGap, ReadsLowQuality, GoesOn, StopsFor
<1>7. CASE ReadsOther
  BY <1>7 DEF ReadsOther, GoesOn
<1>8. CASE Exports
  BY <1>8 DEF Exports, GoesOn
<1>9. CASE ExportEmpty
  BY <1>9 DEF ExportEmpty, GoesOn, StopsFor
<1>10. CASE RatioTooHigh \/ RatioFine
  BY <1>10 DEF RatioTooHigh, RatioFine, GoesOn, StopsFor
<1>11. CASE Restart
  BY <1>11 DEF Restart
<1>12. CASE UNCHANGED vars
  BY <1>12 DEF vars
<1> QED
  BY <1>1, <1>2, <1>3, <1>4, <1>5, <1>6, <1>7, <1>8, <1>9, <1>10, <1>11,
     <1>12 DEF Next, Loop

\* In a round whose collector opens its chunk, no hour that was exported is taken back
\* (phaseb_chunk_postprocess.sh:95-104).
THEOREM ExportedKept == Spec => ExportedHoursKept
<1>1. ASSUME Typed, FreshInv, [Next]_vars
      PROVE  [hours' < hours => ~fresh \/ ~last.exported]_vars
  <2> SUFFICES ASSUME hours' < hours, fresh PROVE ~last.exported
    OBVIOUS
  <2>1. hours \in Nat
    BY <1>1, LoopAssumption DEF Typed, TypeOK
  <2>2. hours' # hours
    BY <2>1
  <2>3. ExportEmpty
    <3>1. \A v \in Verdicts : ~ Collected(v)
      BY <2>1 DEF Collected
    <3>2. ~ CountHours /\ ~ CollectorTimesOut /\ ~ CollectorDies
      BY <2>2 DEF CountHours, CollectorTimesOut, CollectorDies
    <3>3. /\ ~ PreflightPasses /\ ~ PreflightFails /\ ~ ReadsGap /\ ~ ReadsLowQuality
          /\ ~ ReadsOther /\ ~ Exports
      BY <2>2 DEF PreflightPasses, PreflightFails, ReadsGap, ReadsLowQuality, ReadsOther, Exports
    <3>4. ~ RatioTooHigh /\ ~ RatioFine /\ ~ Restart /\ ~ UNCHANGED vars
      BY <2>2 DEF RatioTooHigh, RatioFine, Restart, vars
    <3>. QED
      BY <1>1, <3>1, <3>2, <3>3, <3>4 DEF Next, Loop
  <2>. QED
    BY <1>1, <2>3 DEF ExportEmpty, FreshInv
<1>2. FreshInv /\ [Next]_vars => FreshInv'
  BY FreshStep
<1> QED
  BY <1>1, <1>2, TypedInit, TypedStep, FreshInit, PTL
     DEF Spec, ExportedHoursKept

-----------------------------------------------------------------------------
(* The gap rule counts chunks.                                             *)

\* What Newest appends is last, and it keeps the n entries before.
LEMMA NewestKeeps ==
    ASSUME NEW seq \in Seq(Verdicts), Len(seq) <= GapMax, NEW v \in Verdicts,
           NEW n \in Nat, n < GapMax, n <= Len(seq)
    PROVE  LET new == Newest(seq, v)
           IN  /\ n + 1 <= Len(new) /\ new[Len(new)] = v
               /\ \A i \in 1 .. n : new[Len(new) - i] = seq[Len(seq) + 1 - i]
<1> DEFINE all == Append(seq, v)
<1>0. GapMax \in Nat \ {0} /\ Len(seq) \in Nat
  BY LoopAssumption, LenProperties
<1>1. /\ all \in Seq(Verdicts) /\ Len(all) = Len(seq) + 1
      /\ all[Len(seq) + 1] = v
      /\ \A i \in 1 .. Len(seq) : all[i] = seq[i]
  BY AppendProperties
<1>2. CASE Len(all) > GapMax
  <2>1. Newest(seq, v) = Tail(all) /\ Len(seq) = GapMax
    BY <1>0, <1>1, <1>2 DEF Newest
  <2>2. all # << >>
    BY <1>0, <1>1, EmptySeq
  <2>3. Len(Tail(all)) = Len(seq) /\ \A i \in 1 .. Len(seq) : Tail(all)[i] = all[i + 1]
    <3>. HIDE DEF all
    <3>. QED
      BY <1>0, <1>1, <2>2, HeadTailProperties
  <2>. HIDE DEF all
  <2>4. Tail(all)[Len(seq)] = v
    BY <1>0, <1>1, <2>1, <2>3
  <2>5. ASSUME NEW i \in 1 .. n
        PROVE  Tail(all)[Len(seq) - i] = seq[Len(seq) + 1 - i]
    BY <1>0, <1>1, <2>1, <2>3
  <2>. QED
    BY <1>0, <2>1, <2>3, <2>4, <2>5
<1>3. CASE ~ (Len(all) > GapMax)
  <2>1. Newest(seq, v) = all
    BY <1>3 DEF Newest
  <2>. HIDE DEF all
  <2>. QED
    BY <1>0, <1>1, <2>1
<1> QED
  BY <1>2, <1>3

\* The newest n chunks had gaps.
GapTail(n) ==
    n <= Len(recent) /\ \A i \in 1 .. n : recent[Len(recent) + 1 - i] = "gap"

\* The chunks before the newest: n of them had gaps.
GapTailBefore(n) ==
    /\ n + 1 <= Len(recent) /\ recent[Len(recent)] = last.status
    /\ \A i \in 1 .. n : recent[Len(recent) - i] = "gap"

\* Of a streak of n at least so many were chunks, whatever the time-outs counted twice.
Real(n) == IF n > timeouts THEN n - timeouts ELSE 0

GapCounted ==
    /\ pc # "read" => GapTail(Real(gapStreak))
    /\ pc = "read" /\ fresh /\ last.status # "open" => GapTailBefore(Real(gapStreak))
    /\ pc = "read" /\ ~fresh => GapTail(Real(gapStreak + 1))
    /\ pc \in {"preflight", "collect"} => ~fresh
    /\ pc \in {"post", "ratio"} => gapStreak = 0
    /\ last.status = "open" /\ pc # "read" => gapStreak = 0
    /\ pc # "stopped" => stop = "no"
    /\ stop = "gap" => GapTail(Real(GapMax))

LEMMA GapInit == Init => GapCounted
<1> SUFFICES ASSUME Init PROVE GapCounted
  OBVIOUS
<1>1. Real(gapStreak) = 0 /\ GapTail(0)
  BY EmptySeq DEF Init, Real, GapTail
<1> QED
  BY <1>1 DEF Init, GapCounted, NoChunk

\* A shorter tail of gaps is one too.
LEMMA Shorter ==
    ASSUME Typed, NEW m \in Nat, NEW n \in Nat, n <= m, GapTail(m)
    PROVE  GapTail(n)
<1>1. Len(recent) \in Nat
  BY LenProperties DEF Typed, TypeOK
<1> QED
  BY <1>1 DEF GapTail

LEMMA GapStep == Typed /\ Typed' /\ GapCounted /\ [Next]_vars => GapCounted'
<1> SUFFICES ASSUME Typed, Typed', GapCounted, [Next]_vars
             PROVE  GapCounted'
  OBVIOUS
<1>0. /\ recent \in Seq(Verdicts) /\ Len(recent) <= GapMax /\ Len(recent) \in Nat
      /\ gapStreak \in Nat /\ gapStreak <= GapMax /\ GapMax \in Nat \ {0}
      /\ timeouts \in Nat /\ timeouts' \in Nat /\ timeouts <= GapMax
      /\ pc # "stopped" => gapStreak < GapMax
  BY LoopAssumption, LenProperties DEF Typed, TypeOK
<1>z. gapStreak' = 0 => GapTail(Real(gapStreak))'
  <2>1. Len(recent') \in Nat
    BY LenProperties DEF Typed, TypeOK
  <2>2. ASSUME gapStreak' = 0 PROVE Real(gapStreak)' = 0
    <3>1. timeouts' \in Nat /\ ~ (0 > timeouts')
      BY <1>0
    <3>. QED
      BY <2>2, <3>1 DEF Real
  <2>. QED
    BY <2>1, <2>2 DEF GapTail
<1>k. UNCHANGED <<gapStreak, recent, timeouts>> =>
         GapTail(Real(gapStreak))' = GapTail(Real(gapStreak))
  BY DEF GapTail, Real
<1>n. \A n \in Nat : Real(n) \in Nat /\ Real(n) <= n /\ Real(n + 1) <= Real(n) + 1
  BY <1>0 DEF Real
<1>1. CASE CountHours
  <2>1. /\ pc = "head" /\ pc' \in {"finished", "preflight"}
        /\ UNCHANGED <<gapStreak, stop, timeouts>> /\ ~fresh'
    BY <1>1 DEF CountHours, GoesOn, streaks, upsets
  <2>2. CASE last.status = "open"
    <3>1. gapStreak' = 0
      BY <2>1, <2>2 DEF GapCounted
    <3>. QED
      BY <1>z, <2>1, <3>1 DEF GapCounted
  <2>3. CASE last.status # "open"
    <3>1. UNCHANGED <<last, recent>>
      BY <1>1, <2>3 DEF CountHours
    <3>. QED
      BY <1>k, <2>1, <2>3, <3>1 DEF GapCounted
  <2>. QED
    BY <2>2, <2>3
<1>2. CASE PreflightPasses \/ PreflightFails \/ RatioTooHigh \/ RatioFine
  <2>1. /\ UNCHANGED <<gapStreak, recent, last, timeouts, fresh>>
        /\ pc \in {"preflight", "ratio"} /\ pc' \in {"collect", "stopped", "head"}
        /\ stop' \in {stop, "preflight", "ratio"}
        /\ pc' # "stopped" => stop' = stop
        /\ pc' = "collect" => pc = "preflight"
    BY <1>2 DEF PreflightPasses, PreflightFails, RatioTooHigh, RatioFine,
                GoesOn, StopsFor, streaks, upsets
  <2>2. /\ stop = "no" /\ GapTail(Real(gapStreak))
        /\ last.status = "open" => gapStreak = 0
        /\ pc = "preflight" => ~fresh
    BY <2>1 DEF GapCounted
  <2>3. GapTail(Real(gapStreak))'
    BY <1>k, <2>1, <2>2
  <2>4. /\ stop' # "gap"
        /\ pc' # "stopped" => stop' = "no"
        /\ pc' \notin {"read", "post", "ratio"}
        /\ last'.status = "open" => gapStreak' = 0
        /\ pc' \in {"preflight", "collect"} => ~fresh'
    BY <2>1, <2>2
  <2>. QED
    BY <2>3, <2>4 DEF GapCounted
<1>3. ASSUME NEW v \in Verdicts, Collected(v) PROVE GapCounted'
  <2>. DEFINE n == Real(gapStreak)
  <2>1. /\ pc = "collect" /\ pc' = "read" /\ UNCHANGED <<gapStreak, stop, timeouts>>
        /\ last' = [status |-> v, exported |-> FALSE] /\ fresh'
        /\ recent' = Newest(recent, v)
    BY <1>3 DEF Collected, GoesOn, streaks, upsets
  <2>2. v \in Verdicts /\ n \in Nat /\ n' = n
    BY <1>0, <1>n, <2>1 DEF Real
  <2>3. GapTail(n) /\ n < GapMax /\ n <= Len(recent)
    BY <1>0, <1>n, <2>1 DEF GapCounted, GapTail
  <2>. HIDE DEF n
  <2>4. /\ n + 1 <= Len(recent') /\ recent'[Len(recent')] = v
        /\ \A i \in 1 .. n : recent'[Len(recent') - i] = recent[Len(recent) + 1 - i]
    <3>1. LET new == Newest(recent, v)
          IN  /\ n + 1 <= Len(new) /\ new[Len(new)] = v
              /\ \A i \in 1 .. n : new[Len(new) - i] = recent[Len(recent) + 1 - i]
      BY <1>0, <2>2, <2>3, NewestKeeps
    <3>. QED
      BY <2>1, <3>1
  <2>5. last'.status = v
    BY <2>1
  <2>6. GapTailBefore(Real(gapStreak))'
    BY <2>2, <2>3, <2>4, <2>5 DEF GapTail, GapTailBefore, n
  <2>. QED
    BY <2>1, <2>6 DEF GapCounted
<1>4. CASE CollectorDies
  <2>1. /\ pc = "collect" /\ pc' = "read" /\ UNCHANGED <<gapStreak, stop, recent>>
        /\ last' = [status |-> "open", exported |-> FALSE] /\ fresh'
    BY <1>4 DEF CollectorDies, GoesOn, streaks
  <2>. QED
    BY <2>1 DEF GapCounted
<1>5. CASE CollectorTimesOut
  <2>1. /\ pc = "collect" /\ pc' = "read" /\ UNCHANGED <<gapStreak, stop, recent, last, fresh>>
        /\ timeouts' = IF timeouts + 1 <= GapMax THEN timeouts + 1 ELSE GapMax
    BY <1>5 DEF CollectorTimesOut, GoesOn, UpTo, streaks
  <2>2. GapTail(Real(gapStreak)) /\ ~fresh /\ gapStreak < GapMax /\ stop = "no"
    BY <1>0, <2>1 DEF GapCounted
  <2>3. Real(gapStreak + 1)' = Real(gapStreak)
    BY <1>0, <2>1, <2>2 DEF Real
  <2>4. GapTail(Real(gapStreak + 1))'
    BY <2>1, <2>2, <2>3 DEF GapTail
  <2>. QED
    BY <2>1, <2>2, <2>4 DEF GapCounted
<1>6. CASE ReadsGap
  <2>1. /\ pc = "read" /\ last.status = "gap" /\ gapStreak' = gapStreak + 1
        /\ UNCHANGED <<last, recent, timeouts, fresh>>
        /\ IF gapStreak' >= GapMax THEN pc' = "stopped" /\ stop' = "gap"
                                   ELSE pc' = "head" /\ UNCHANGED stop
    BY <1>6 DEF ReadsGap, GoesOn, StopsFor, upsets
  <2>2. GapTail(Real(gapStreak + 1))
    <3>. DEFINE n == Real(gapStreak)
    <3>1. CASE fresh
      <4>1. GapTailBefore(n) /\ n \in Nat
        BY <1>0, <1>n, <2>1, <3>1 DEF GapCounted
      <4>. HIDE DEF n
      <4>2. ASSUME NEW i \in 1 .. n + 1
            PROVE  recent[Len(recent) + 1 - i] = "gap"
        <5>1. CASE i = 1
          BY <1>0, <2>1, <4>1, <5>1 DEF GapTailBefore
        <5>2. CASE i # 1
          <6>1. i - 1 \in 1 .. n /\ Len(recent) - (i - 1) = Len(recent) + 1 - i
            BY <1>0, <4>1, <5>2
          <6>. QED
            BY <4>1, <6>1 DEF GapTailBefore
        <5>. QED
          BY <5>1, <5>2
      <4>3. GapTail(n + 1) /\ n + 1 \in Nat
        BY <4>1, <4>2 DEF GapTail, GapTailBefore
      <4>4. Real(gapStreak + 1) \in Nat /\ Real(gapStreak + 1) <= n + 1
        <5>1. gapStreak \in Nat
          BY <1>0
        <5>2. gapStreak + 1 \in Nat
          BY <5>1
        <5>. QED
          BY <5>1, <5>2, <1>n DEF n
      <4>. QED
        BY <4>3, <4>4, Shorter
    <3>2. CASE ~fresh
      BY <2>1, <3>2 DEF GapCounted
    <3>. QED
      BY <3>1, <3>2
  <2>3. GapTail(Real(gapStreak))'
    BY <2>1, <2>2 DEF GapTail, Real
  <2>4. gapStreak' >= GapMax => gapStreak' = GapMax
    BY <1>0, <2>1
  <2>. QED
    BY <2>1, <2>3, <2>4 DEF GapCounted, GapTail, Real
<1>7. CASE ReadsLowQuality \/ ReadsOther
  <2>1. /\ pc = "read" /\ gapStreak' = 0 /\ UNCHANGED <<last, recent>>
        /\ pc' \in {"stopped", "head", "post"}
        /\ stop' \in {stop, "low_quality"}
        /\ pc' # "stopped" => stop' = stop
    BY <1>7 DEF ReadsLowQuality, ReadsOther, GoesOn, StopsFor
  <2>2. stop = "no"
    BY <2>1 DEF GapCounted
  <2>3. /\ stop' # "gap"
        /\ pc' # "stopped" => stop' = "no"
        /\ pc' \notin {"read", "preflight", "collect"} /\ gapStreak' = 0
    BY <2>1, <2>2
  <2>. QED
    BY <1>z, <2>3 DEF GapCounted
<1>8. CASE Exports
  <2>1. /\ pc = "post" /\ pc' = "ratio" /\ UNCHANGED <<gapStreak, recent, stop>>
        /\ gapStreak' = 0
    BY <1>8 DEF Exports, GoesOn, GapCounted
  <2>. QED
    BY <1>z, <2>1 DEF GapCounted
<1>9. CASE ExportEmpty
  <2>1. /\ pc = "post" /\ pc' \in {"stopped", "head"} /\ UNCHANGED gapStreak
        /\ stop' \in {stop, "export"}
        /\ pc' # "stopped" => stop' = stop
        /\ gapStreak' = 0
    BY <1>9 DEF ExportEmpty, GoesOn, StopsFor, GapCounted
  <2>2. stop = "no"
    BY <2>1 DEF GapCounted
  <2>3. /\ stop' # "gap"
        /\ pc' # "stopped" => stop' = "no"
        /\ pc' \notin {"read", "preflight", "collect"} /\ gapStreak' = 0
    BY <2>1, <2>2
  <2>. QED
    BY <1>z, <2>3 DEF GapCounted
<1>10. CASE Restart
  <2>1. pc' = "head" /\ stop' = "no" /\ gapStreak' = 0
    BY <1>10 DEF Restart
  <2>. QED
    BY <1>z, <2>1 DEF GapCounted
<1>11. CASE UNCHANGED vars
  BY <1>11 DEF vars, streaks, upsets, GapCounted, GapTail, GapTailBefore, Real
<1> QED
  BY <1>1, <1>2, <1>3, <1>4, <1>5, <1>6, <1>7, <1>8, <1>9, <1>10, <1>11
     DEF Next, Loop

\* The loop stops over gaps only after GAP_STREAK_MAX chunks in a row had one, less one at most for
\* each collector that opened none (phaseb_collect_loop.sh:136-144).
THEOREM GapStop == Spec => []GapStopIsReal
<1>1. Typed /\ GapCounted => GapStopIsReal
  <2> SUFFICES ASSUME Typed, GapCounted, stop = "gap", NEW i \in 1 .. GapMax - timeouts
               PROVE  i <= Len(recent) /\ recent[Len(recent) + 1 - i] = "gap"
    BY DEF GapStopIsReal
  <2>1. timeouts \in Nat /\ GapMax \in Nat /\ Len(recent) \in Nat
    BY LoopAssumption, LenProperties DEF Typed, TypeOK
  <2>2. GapTail(Real(GapMax)) /\ i \in 1 .. Real(GapMax) /\ Real(GapMax) \in Nat
    BY <2>1 DEF GapCounted, Real
  <2>. QED
    BY <2>1, <2>2 DEF GapTail
<1>2. Typed /\ Typed' /\ GapCounted /\ [Next]_vars => GapCounted'
  BY GapStep
<1> QED
  BY <1>1, <1>2, TypedInit, TypedStep, GapInit, PTL DEF Spec
=============================================================================
