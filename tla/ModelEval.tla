------------------------------ MODULE ModelEval ------------------------------
(***************************************************************************)
(* ml/evaluate.py: feature tables of the chunks collected so far become a  *)
(* report and, for one scope, the model that ml/score.py loads.  Each      *)
(* scope filters the rows, splits what is left by chunk in time order      *)
(* (train, validation, buffer, test), fits, takes the threshold from the   *)
(* validation chunk and measures on the test chunks.  A scope with too few *)
(* chunks ends the program, one with too few rows is skipped; the report   *)
(* is written after the last scope, the model inside its own.              *)
(*                                                                         *)
(* Rows are what the filters tell apart; a fitted model is the set of rows *)
(* it was fitted on.                                                       *)
(***************************************************************************)
EXTENDS Integers, Sequences, FiniteSets

CONSTANTS Tables,          \* what a chunk's table may hold: sets of rows
                           \* [label, target, holdout, etype, entity, warm]
          MaxChunks,       \* bound: chunks collected
          MaxEvals,        \* bound: evaluations started
          TestChunks, BufferChunks,   \* --test-chunks, --buffer-chunks
          MinPos, MinNeg,  \* rows of each class an evaluation needs
          Scopes,          \* --scopes, in order
          SaveScope,       \* --save-scope
          None             \* no model, no report, no evaluation

EvalAssumption ==
    /\ {MaxChunks, MaxEvals, TestChunks, BufferChunks} \subseteq Nat \ {0}
    /\ {MinPos, MinNeg} \subseteq Nat
    /\ Scopes \in Seq({"all", "user", "same-user"})

ASSUME EvalAssumption

VARIABLES table,   \* the rows of each chunk, in time order
          eval,    \* the evaluation under way: its copy of the table, scopes left, results
          model,   \* bola_detector.joblib
          report,  \* eval_result.json
          count,   \* evaluations started
          killed   \* ghost: the last of them that was killed, 0 if none was

evalVars == <<table, eval, model, report, count, killed>>

EvalInit ==
    table = <<>> /\ eval = None /\ model = None /\ report = None /\ count = 0 /\ killed = 0

\* The table of one more chunk is built.
Collect(rows) ==
    /\ Len(table) < MaxChunks
    /\ table' = Append(table, rows)
    /\ UNCHANGED <<eval, model, report, count, killed>>

\* load: the tables there are when the program starts
Start ==
    /\ eval = None /\ table # <<>> /\ count < MaxEvals
    /\ eval' = [df |-> UNION {{[chunk |-> c, kind |-> k] : k \in table[c]} : c \in DOMAIN table},
                next |-> 1, results |-> <<>>, id |-> count + 1]
    /\ count' = count + 1
    /\ UNCHANGED <<table, model, report, killed>>

-----------------------------------------------------------------------------
\* prepare: no idle windows, no other attack families, no windows of a short history;
\* then the rows of the scope
Prepare(df, scope) ==
    LET kept == {r \in df : /\ r.kind.label # "attack_idle"
                            /\ r.kind.label = "attack" => r.kind.target
                            /\ r.kind.warm}
        attackers == {r.kind.entity : r \in {q \in kept : q.kind.label = "attack"}}
    IN  CASE scope = "all"       -> kept
          [] scope = "user"      -> {r \in kept : r.kind.etype = "user"}
          [] scope = "same-user" -> {r \in kept : r.kind.entity \in attackers}

\* y: the rows of an attack are the positives
Positives(rows) == {r \in rows : r.kind.label = "attack"}
Negatives(rows) == rows \ Positives(rows)

ChunksOf(rows) == {r.chunk : r \in rows}
Need == TestChunks + BufferChunks + 2

\* place of a chunk among those that still have rows, counted from the last
FromLast(rows, c) == Cardinality({d \in ChunksOf(rows) : d > c})

\* Mutant: the training chunks end one chunk later.
SplitIntoBuffer(rows) ==
    LET T == TestChunks
        B == BufferChunks
    IN  [train  |-> {r \in rows : FromLast(rows, r.chunk) > T + B - 1},
         val    |-> {r \in rows : FromLast(rows, r.chunk) = T + B - 1},
         buffer |-> {r \in rows : FromLast(rows, r.chunk) \in T..(T + B - 1)},
         test   |-> {r \in rows : FromLast(rows, r.chunk) < T}]

\* split_by_chunk: of the chunks left after the filters
SplitByChunk(rows) ==
    LET T == TestChunks
        B == BufferChunks
    IN  [train  |-> {r \in rows : FromLast(rows, r.chunk) > T + B},
         val    |-> {r \in rows : FromLast(rows, r.chunk) = T + B},
         buffer |-> {r \in rows : FromLast(rows, r.chunk) \in T..(T + B - 1)},
         test   |-> {r \in rows : FromLast(rows, r.chunk) < T}]

Enough(split) ==
    /\ Cardinality(Positives(split.train)) >= MinPos
    /\ Cardinality(Positives(split.test)) >= MinPos
    /\ Cardinality(Negatives(split.test)) >= MinNeg

\* the training set of the check on unseen variants, and its test set
SeenOnly(rows) == {r \in rows : ~(r.kind.label = "attack" /\ r.kind.holdout)}
UnseenTest(rows) == {r \in rows : r.kind.label = "attack" => r.kind.holdout}

\* thr_at_fpr of the validation chunk's negatives; without any, 1.0, which hardly any risk reaches
Threshold(rows) == IF Negatives(rows) = {} THEN "never" ELSE "chosen"

\* Mutant: fits once more on everything before packing.
FittedOnAll(split) == [fit |-> split.train \union split.test, val |-> split.val,
                       thr |-> Threshold(split.val)]

Fitted(split) == [fit |-> split.train, val |-> split.val, thr |-> Threshold(split.val)]

\* evaluate_scope, when there are chunks enough
Result(scope, split) ==
    [scope |-> scope, skipped |-> ~Enough(split), split |-> split, fitted |-> Fitted(split),
     unseen |-> IF /\ Cardinality(Positives(SeenOnly(split.train))) >= MinPos
                   /\ Cardinality(Positives(UnseenTest(split.test))) >= MinPos
                THEN [fit |-> SeenOnly(split.train), test |-> UnseenTest(split.test)]
                ELSE None]

\* Mutant: packs the model of every scope.
SavesEach(r) == ~r.skipped

Saves(r) == ~r.skipped /\ r.scope = SaveScope

EvaluateScope ==
    /\ eval # None /\ eval.next <= Len(Scopes)
    /\ LET d == Prepare(eval.df, Scopes[eval.next])
           r == Result(Scopes[eval.next], SplitByChunk(d))
       IN  /\ Cardinality(ChunksOf(d)) >= Need
           /\ eval' = [eval EXCEPT !.next = @ + 1, !.results = Append(@, r)]
           /\ model' = IF Saves(r) THEN [by |-> eval.id, fitted |-> r.fitted] ELSE model
    /\ UNCHANGED <<table, report, count, killed>>

\* sys.exit in split_by_chunk: what the scopes before found is not written
TooFewChunks ==
    /\ eval # None /\ eval.next <= Len(Scopes)
    /\ Cardinality(ChunksOf(Prepare(eval.df, Scopes[eval.next]))) < Need
    /\ eval' = None
    /\ UNCHANGED <<table, model, report, count, killed>>

WriteReport ==
    /\ eval # None /\ eval.next > Len(Scopes)
    /\ report' = [by |-> eval.id, results |-> eval.results]
    /\ eval' = None
    /\ UNCHANGED <<table, model, count, killed>>

\* The program is killed, or raises, with the model packed or not: no report of it is
\* written, and one half written when it dies can no more be read.
Killed ==
    /\ eval # None
    /\ report' \in {report} \union {r \in {None} : eval.next > Len(Scopes)}
    /\ eval' = None
    /\ killed' = eval.id
    /\ UNCHANGED <<table, model, count>>

EvalNext ==
    \/ \E rows \in Tables : Collect(rows)
    \/ Start
    \/ EvaluateScope
    \/ TooFewChunks
    \/ WriteReport
    \/ Killed

EvalSpec == EvalInit /\ [][EvalNext]_evalVars

-----------------------------------------------------------------------------
ResultsOf(x) == IF x = None THEN {} ELSE {x.results[i] : i \in DOMAIN x.results}

Earlier(rows, later) == \A r \in rows, q \in later : r.chunk < q.chunk

\* In every result, training, validation, buffer and test rows follow each other in time, the
\* last three with the wanted number of chunks that still have rows after the filters, and there is
\* something to train on; a variant measured as unseen is in no row fitted for it (evaluate.py:6-11,
\* 86-93 and 190-192; the filters may empty any chunk).
SplitInTime ==
    \A r \in ResultsOf(report) \union ResultsOf(eval) :
        LET s == r.split
        IN  /\ Earlier(s.train, s.val) /\ Earlier(s.val, s.buffer) /\ Earlier(s.buffer, s.test)
            /\ s.train # {}
            /\ Cardinality(ChunksOf(s.val)) = 1
            /\ Cardinality(ChunksOf(s.buffer)) = BufferChunks
            /\ Cardinality(ChunksOf(s.test)) = TestChunks
            /\ r.unseen # None =>
                  /\ Earlier(r.unseen.fit, r.unseen.test)
                  /\ \A p \in Positives(r.unseen.test) : \A q \in r.unseen.fit : q.kind # p.kind

\* No row that the model on disk was fitted on, or that chose its threshold, is among the
\* rows that any scope of the same report measures on: the scopes drop different chunks and each
\* splits anew.
SavedModelSealed ==
    model # None /\ report # None /\ report.by = model.by =>
        \A r \in ResultsOf(report) :
            r.split.test \intersect (model.fitted.fit \union model.fitted.val) = {}

\* Whenever no evaluation is under way, the model that the scorer would load is one that a
\* report on disk was written about, or after, unless that evaluation or one since was killed: a
\* scope that ends the program does so before the model is saved (evaluate.py:88, 205-206 and 288,
\* with the saving scope the last, as by default; in another order a scope may end it after).
ModelIsReported ==
    eval = None /\ model # None =>
        \/ model.by <= killed
        \/ report # None /\ report.by >= model.by
=============================================================================
