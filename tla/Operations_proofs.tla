---------------------------- MODULE Operations_proofs ----------------------------
(***************************************************************************)
(* About the three programs the operator runs by hand: what the gate of    *)
(* ensure-spire-entries.sh means, what ml/evaluate.py measures on, and     *)
(* what a finished deploy-crapi.sh has shut.                               *)
(***************************************************************************)
EXTENDS PolicyRollout, SpireEntries, ModelEval, FiniteSetTheorems, TLAPS

-----------------------------------------------------------------------------
(* scripts/ensure-spire-entries.sh.                                        *)

Cmds == {"alias", "create", "show", "update", "count", "exit"}

Calls == [cmd : Cmds, w : Listed \cup {AnyListed}, tries : Nat]

SpireTyped ==
    /\ entries \in [Workloads -> {"none", "other", "ttl"}]
    /\ alias \in BOOLEAN
    /\ todo \subseteq Listed
    /\ call \in Calls
    /\ passed \in BOOLEAN
    /\ lost \in {"no", "during", "since"}

\* Where the run is in the list.
Place ==
    /\ call.cmd = "alias" => todo = Listed
    /\ call.cmd \in {"create", "show", "update"} => call.w \in todo
    /\ call.cmd = "count" => todo = {}

\* As long as the datastore is what it was, what the run has left behind it is
\* there: the alias, and an entry with the TTL or one that could not be read.
Done(w) == entries[w] = "ttl" \/ (entries[w] = "other" /\ w \in unread)

Built ==
    lost = "no" =>
        /\ call.cmd \notin {"alias", "exit"} => alias
        /\ call.cmd # "exit" => \A w \in Listed \ todo : Done(w)
        /\ call.cmd \in {"show", "update"} => entries[call.w] # "none"

\* Of a datastore that was lost while the run went on, it has filled no more
\* than the list; otherwise the count could not mean the list is there.
OnlyListed == lost = "during" => Present \subseteq Listed

\* What the exit with 0 promised.
Promised ==
    passed =>
        /\ call.cmd = "exit"
        /\ lost = "no" => alias /\ \A w \in Listed : Done(w)
        /\ lost = "during" => Listed \subseteq Present

SpireIInv == SpireTyped /\ Place /\ Built /\ OnlyListed /\ Promised

-----------------------------------------------------------------------------
\* If no more than the list is there and the count reaches its length, the
\* whole list is there.
LEMMA CountMeansAll ==
    ASSUME Present \subseteq Listed, Cardinality(Present) >= Cardinality(Listed)
    PROVE  Listed \subseteq Present
<1>1. IsFiniteSet(Listed)
      BY ListedAssumption, FS_Subset
<1>2. IsFiniteSet(Present) /\ Cardinality(Present) <= Cardinality(Listed)
      BY <1>1, FS_Subset
<1>3. Cardinality(Present) \in Nat /\ Cardinality(Listed) \in Nat
      BY <1>1, <1>2, FS_CardinalityType
<1>4. Cardinality(Present) = Cardinality(Listed)
      BY <1>2, <1>3
<1>. QED
      BY <1>1, <1>4, FS_Subset

\* What a command leaves in the datastore, whether its answer is lost or not.
LEMMA Performed ==
    ASSUME SpireTyped, Place, Perform, call.cmd # "exit"
    PROVE  /\ entries' \in [Workloads -> {"none", "other", "ttl"}]
           /\ alias' \in BOOLEAN
           /\ alias => alias'
           /\ call.cmd = "alias" => alias'
           /\ \A w \in Workloads : entries[w] # "none" => entries'[w] # "none"
           /\ \A w \in Workloads : entries[w] = "ttl" => entries'[w] = "ttl"
           /\ \A w \in Workloads : w \notin todo => entries'[w] = entries[w]
           /\ call.cmd = "show" => entries' = entries
           /\ call.cmd = "create" => entries'[call.w] # "none"
           /\ call.cmd = "update" /\ entries[call.w] # "none" => entries'[call.w] = "ttl"
           /\ call.cmd = "create" /\ entries[call.w] = "none" => entries'[call.w] = "ttl"
           /\ {w \in Workloads : entries'[w] # "none"} \subseteq Present \cup Listed
<1>1. call.cmd \in {"create", "update"} => call.w \in Workloads /\ call.w \in todo
      BY ListedAssumption DEF SpireTyped, Place
<1>. QED
      BY <1>1, ListedAssumption DEF SpireTyped, Perform, Present

\* Where the run goes on, or ends: the next call is one of the list.
LEMMA GoneOn ==
    ASSUME SpireTyped, NEW rest \in SUBSET Listed, GoOn(rest)
    PROVE  /\ todo' = rest /\ call' \in Calls /\ passed' = passed
           /\ call'.cmd = IF rest = {} THEN "count" ELSE "create"
           /\ rest # {} => call'.w \in rest
BY DEF SpireTyped, GoOn, Call, Calls, Cmds

LEMMA Exited ==
    ASSUME SpireTyped, NEW ok \in BOOLEAN, Exit(ok)
    PROVE  todo' = todo /\ call' \in Calls /\ call'.cmd = "exit" /\ passed' = ok
BY DEF SpireTyped, Exit, Call, Calls, Cmds

-----------------------------------------------------------------------------
LEMMA SpireInitIInv == SpireInit => SpireIInv
<1>. SUFFICES ASSUME SpireInit PROVE SpireIInv
      OBVIOUS
<1>1. call \in Calls /\ call.cmd = "alias"
      BY DEF SpireInit, Call, Calls, Cmds
<1>2. SpireTyped /\ Place
      BY <1>1 DEF SpireInit, SpireTyped, Place
<1>3. Built /\ OnlyListed /\ Promised
      BY <1>1 DEF SpireInit, Built, OnlyListed, Promised
<1>. QED
      BY <1>2, <1>3 DEF SpireIInv

\* The run goes on with the list: what is registered so far stays so.
LEMMA NextOfList ==
    ASSUME SpireIInv, call.cmd # "exit", lost' = lost,
           entries' \in [Workloads -> {"none", "other", "ttl"}], alias' \in BOOLEAN,
           lost = "no" => alias',
           NEW rest \in SUBSET todo, GoOn(rest),
           unread \subseteq unread',
           lost = "no" => \A w \in Listed \ rest : Done(w)',
           lost = "during" => Present' \subseteq Listed
    PROVE  SpireIInv'
<1>1. /\ todo' = rest /\ call' \in Calls /\ passed' = passed
      /\ call'.cmd = IF rest = {} THEN "count" ELSE "create"
      /\ rest # {} => call'.w \in rest
      BY GoneOn DEF SpireIInv, SpireTyped
<1>2. passed = FALSE
      BY DEF SpireIInv, Promised, SpireTyped
<1>3. SpireTyped'
      BY <1>1 DEF SpireIInv, SpireTyped
<1>4. Place'
      BY <1>1 DEF Place
<1>5. Built'
      BY <1>1 DEF Built
<1>6. OnlyListed' /\ Promised'
      BY <1>1, <1>2 DEF OnlyListed, Promised
<1>. QED
      BY <1>3, <1>4, <1>5, <1>6 DEF SpireIInv

\* The run ends in failure.
LEMMA EndsFailed ==
    ASSUME SpireIInv, lost' = lost, Exit(FALSE),
           entries' \in [Workloads -> {"none", "other", "ttl"}], alias' \in BOOLEAN,
           lost = "during" => Present' \subseteq Listed
    PROVE  SpireIInv'
<1>1. todo' = todo /\ call' \in Calls /\ call'.cmd = "exit" /\ passed' = FALSE
      BY Exited DEF SpireIInv
<1>. QED
      BY <1>1 DEF SpireIInv, SpireTyped, Place, Built, OnlyListed, Promised

\* What a command whose answer is lost, carried out or not, leaves untouched.
Kept ==
    /\ entries' \in [Workloads -> {"none", "other", "ttl"}]
    /\ alias' \in BOOLEAN
    /\ lost = "no" /\ call.cmd \notin {"alias", "exit"} => alias'
    /\ lost = "no" => \A w \in Listed \ todo : entries'[w] = entries[w]
    /\ \A w \in Workloads : entries[w] # "none" => entries'[w] # "none"
    /\ call.cmd = "show" => entries' = entries
    /\ lost = "during" => Present' \subseteq Listed

LEMMA StaysBuilt ==
    ASSUME SpireIInv, call.cmd # "exit", Perform \/ UNCHANGED <<entries, alias>>
    PROVE  Kept
<1>1. CASE Perform
      BY <1>1, Performed, ListedAssumption DEF SpireIInv, Kept, Built, OnlyListed, Present
<1>2. CASE UNCHANGED <<entries, alias>>
      BY <1>2 DEF SpireIInv, SpireTyped, Kept, Built, OnlyListed, Present
<1>. QED
      BY <1>1, <1>2

\* A command that has failed for good: an entry that could not be read passes
\* for converged and is remembered, everything else ends the run.
LEMMA FailsSafely ==
    ASSUME SpireIInv, call.cmd # "exit", lost' = lost, Kept, Failed
    PROVE  SpireIInv'
<1>1. CASE call.cmd = "show"
  <2>1. /\ unread' = unread \cup {call.w} /\ GoOn(todo \ {call.w}) /\ entries' = entries
        /\ call.w \in todo
        BY <1>1 DEF Failed, Kept, SpireIInv, Place
  <2>2. lost = "no" => entries[call.w] \in {"ttl", "other"}
        BY <1>1, <2>1, ListedAssumption DEF SpireIInv, Built, SpireTyped
  <2>3. lost = "no" => alias' /\ \A w \in Listed \ (todo \ {call.w}) : Done(w)'
        BY <1>1, <2>1, <2>2 DEF SpireIInv, Built, Done, Kept
  <2>. QED
        BY <1>1, <2>1, <2>3, NextOfList DEF Kept
<1>2. CASE call.cmd # "show"
      BY <1>2, EndsFailed DEF Failed, Kept
<1>. QED
      BY <1>1, <1>2

\* One step per action.
LEMMA SpireNextIInv == SpireIInv /\ [SpireNext]_spireVars => SpireIInv'
<1>. SUFFICES ASSUME SpireIInv, [SpireNext]_spireVars PROVE SpireIInv'
      OBVIOUS
<1>. USE DEF SpireIInv
<1>1. CASE RegisterAlias
  <2>1. GoOn(Listed) /\ unread' = unread /\ lost' = lost /\ todo = Listed /\ call.cmd = "alias"
        BY <1>1 DEF RegisterAlias, Place
  <2>2. /\ entries' \in [Workloads -> {"none", "other", "ttl"}]
        /\ alias' \in BOOLEAN
        /\ alias'
        BY <1>1, <2>1, Performed DEF RegisterAlias
  <2>3. lost = "during" => Present' \subseteq Listed
        BY <1>1, <2>1, Performed DEF RegisterAlias, OnlyListed, Present
  <2>. QED
        BY <2>1, <2>2, <2>3, NextOfList
<1>2. CASE CreateEntry
  <2>1. Perform /\ unread' = unread /\ lost' = lost /\ call.cmd = "create" /\ call.w \in todo
        BY <1>2 DEF CreateEntry, Place
  <2>2. /\ entries' \in [Workloads -> {"none", "other", "ttl"}]
        /\ alias' \in BOOLEAN
        /\ alias => alias'
        /\ \A w \in Workloads : w \notin todo => entries'[w] = entries[w]
        /\ entries'[call.w] # "none"
        /\ entries[call.w] = "none" => entries'[call.w] = "ttl"
        /\ lost = "during" => Present' \subseteq Listed
        BY <2>1, Performed DEF OnlyListed, Present
  <2>3. lost = "no" => alias' /\ \A w \in Listed \ todo : Done(w)'
        BY <2>1, <2>2, ListedAssumption DEF Built, Done
  <2>4. CASE entries[call.w] = "none"
    <3>1. GoOn(todo \ {call.w})
          BY <1>2, <2>4 DEF CreateEntry
    <3>2. lost = "no" => \A w \in Listed \ (todo \ {call.w}) : Done(w)'
          BY <2>2, <2>3, <2>4 DEF Done
    <3>. QED
          BY <2>1, <2>2, <2>3, <3>1, <3>2, NextOfList
  <2>5. CASE entries[call.w] # "none"
    <3>1. call' = Call("show", call.w) /\ todo' = todo /\ passed' = passed
          BY <1>2, <2>5 DEF CreateEntry
    <3>2. call' \in Calls /\ call'.cmd = "show" /\ call'.w = call.w
          BY <2>1, <3>1 DEF Call, Calls, Cmds, SpireTyped
    <3>3. passed = FALSE
          BY <2>1 DEF Promised, SpireTyped
    <3>4. SpireTyped' /\ Place' /\ OnlyListed' /\ Promised'
          BY <2>1, <2>2, <3>1, <3>2, <3>3 DEF SpireTyped, Place, OnlyListed, Promised
    <3>5. Built'
          BY <2>1, <2>2, <2>3, <3>1, <3>2 DEF Built
    <3>. QED
          BY <3>4, <3>5
  <2>. QED
        BY <2>4, <2>5
<1>3. CASE ShowEntry
  <2>1. /\ call.cmd = "show" /\ call.w \in todo
        /\ UNCHANGED <<entries, alias, unread, lost>>
        BY <1>3 DEF ShowEntry, Place
  <2>2. Present' = Present
        BY <2>1 DEF Present
  <2>3. CASE entries[call.w] = "other"
    <3>1. call' = Call("update", call.w) /\ todo' = todo /\ passed' = passed
          BY <1>3, <2>3 DEF ShowEntry
    <3>2. call' \in Calls /\ call'.cmd = "update" /\ call'.w = call.w
          BY <2>1, <3>1 DEF Call, Calls, Cmds, SpireTyped
    <3>3. passed = FALSE
          BY <2>1 DEF Promised, SpireTyped
    <3>4. SpireTyped' /\ Place' /\ OnlyListed' /\ Promised'
          BY <2>1, <2>2, <3>1, <3>2, <3>3 DEF SpireTyped, Place, OnlyListed, Promised
    <3>5. Built'
          BY <2>1, <3>1, <3>2 DEF Built, Done
    <3>. QED
          BY <3>4, <3>5
  <2>4. CASE entries[call.w] # "other"
    <3>1. GoOn(todo \ {call.w})
          BY <1>3, <2>4 DEF ShowEntry
    <3>2. lost = "no" => entries[call.w] = "ttl"
          BY <2>1, <2>4, ListedAssumption DEF Built, SpireTyped
    <3>3. lost = "no" => alias' /\ \A w \in Listed \ (todo \ {call.w}) : Done(w)'
          BY <2>1, <3>2 DEF Built, Done
    <3>. QED
          BY <2>1, <2>2, <3>1, <3>3, NextOfList DEF SpireTyped, OnlyListed
  <2>. QED
        BY <2>3, <2>4
<1>4. CASE UpdateEntry
  <2>1. Perform /\ unread' = unread /\ lost' = lost /\ call.cmd = "update" /\ call.w \in todo
        BY <1>4 DEF UpdateEntry, Place
  <2>2. /\ entries' \in [Workloads -> {"none", "other", "ttl"}]
        /\ alias' \in BOOLEAN
        /\ alias => alias'
        /\ \A w \in Workloads : w \notin todo => entries'[w] = entries[w]
        /\ entries[call.w] # "none" => entries'[call.w] = "ttl"
        /\ lost = "during" => Present' \subseteq Listed
        BY <2>1, Performed DEF OnlyListed, Present
  <2>3. CASE entries[call.w] = "none"
        BY <1>4, <2>1, <2>2, <2>3, EndsFailed DEF UpdateEntry
  <2>4. CASE entries[call.w] # "none"
    <3>1. GoOn(todo \ {call.w})
          BY <1>4, <2>4 DEF UpdateEntry
    <3>2. lost = "no" => alias' /\ \A w \in Listed \ (todo \ {call.w}) : Done(w)'
          BY <2>1, <2>2, <2>4, ListedAssumption DEF Built, Done
    <3>. QED
          BY <2>1, <2>2, <3>1, <3>2, NextOfList
  <2>. QED
        BY <2>3, <2>4
<1>5. CASE CountEntries
  <2>1. /\ call.cmd = "count" /\ todo = {}
        /\ UNCHANGED <<entries, alias, unread, lost>>
        /\ Exit(Cardinality(Present) >= Cardinality(Listed))
        BY <1>5 DEF CountEntries, Place
  <2>2. /\ todo' = todo /\ call' \in Calls /\ call'.cmd = "exit"
        /\ passed' \in BOOLEAN
        /\ passed' => Cardinality(Present) >= Cardinality(Listed)
    <3>. DEFINE enough == Cardinality(Present) >= Cardinality(Listed)
    <3>1. Exit(enough)
          BY <2>1
    <3>2. enough \in BOOLEAN
          OBVIOUS
    <3>. HIDE DEF enough
    <3>3. todo' = todo /\ call' \in Calls /\ call'.cmd = "exit" /\ passed' = enough
          BY <3>1, <3>2, Exited
    <3>. QED
          BY <3>2, <3>3 DEF enough
  <2>3. Present' = Present
        BY <2>1 DEF Present
  <2>4. SpireTyped' /\ Place' /\ OnlyListed' /\ Built'
        BY <2>1, <2>2, <2>3 DEF SpireTyped, Place, OnlyListed, Built
  <2>5. passed' /\ lost = "no" => alias /\ \A w \in Listed : Done(w)'
        BY <2>1 DEF Built, Done
  <2>6. passed' /\ lost = "during" => Listed \subseteq Present
        BY <2>2, CountMeansAll DEF OnlyListed
  <2>7. Promised'
        BY <2>1, <2>2, <2>3, <2>5, <2>6 DEF Promised
  <2>. QED
        BY <2>4, <2>7
<1>6. CASE LoseAnswer
  <2>1. /\ call.cmd # "exit" /\ lost' = lost
        /\ Perform \/ UNCHANGED <<entries, alias>>
        BY <1>6 DEF LoseAnswer
  <2>2. passed = FALSE
        BY <2>1 DEF Promised, SpireTyped
  <2>3. Kept
        BY <2>1, StaysBuilt
  <2>4. CASE call.tries + 1 < ApiRetries
    <3>1. /\ call' = [call EXCEPT !.tries = @ + 1]
          /\ UNCHANGED <<todo, passed, unread>>
          BY <1>6, <2>4 DEF LoseAnswer
    <3>2. call' \in Calls /\ call'.cmd = call.cmd /\ call'.w = call.w
          BY <3>1 DEF SpireTyped, Calls
    <3>3. SpireTyped' /\ Place' /\ OnlyListed' /\ Promised'
          BY <2>1, <2>2, <2>3, <3>1, <3>2 DEF Kept, SpireTyped, Place, OnlyListed, Promised
    <3>4. call.cmd \in {"show", "update"} => call.w \in Workloads
          BY ListedAssumption DEF SpireTyped, Place
    <3>5. Built'
          BY <2>1, <2>3, <3>1, <3>2, <3>4 DEF Kept, Built, Done
    <3>. QED
          BY <3>3, <3>5
  <2>5. CASE ~ (call.tries + 1 < ApiRetries)
        BY <1>6, <2>1, <2>3, <2>5, FailsSafely DEF LoseAnswer
  <2>. QED
        BY <2>4, <2>5
<1>7. CASE RefuseCommand
  <2>1. /\ call.cmd # "exit" /\ lost' = lost /\ Failed
        /\ UNCHANGED <<entries, alias>>
        BY <1>7 DEF RefuseCommand
  <2>. QED
        BY <2>1, StaysBuilt, FailsSafely
<1>8. CASE LoseDatastore
  <2>1. /\ entries' = [w \in Workloads |-> "none"] /\ alias' = FALSE
        /\ lost' \in {"during", "since"} /\ (lost' = "during" => call.cmd # "exit")
        /\ UNCHANGED <<todo, call, passed, unread>>
        BY <1>8 DEF LoseDatastore
  <2>2. Present' = {}
        BY <2>1 DEF Present
  <2>. QED
        BY <2>1, <2>2 DEF SpireTyped, Place, Built, OnlyListed, Promised
<1>9. CASE UNCHANGED spireVars
      BY <1>9 DEF spireVars, SpireTyped, Place, Built, OnlyListed, Promised, Done, Present
<1>. QED
      BY <1>1, <1>2, <1>3, <1>4, <1>5, <1>6, <1>7, <1>8, <1>9 DEF SpireNext

-----------------------------------------------------------------------------
\* Every variable of the registration keeps its type, and the run only works
\* on what is on the list.
THEOREM SpireInvariance == SpireSpec => []SpireIInv
<1>1. SpireInit => SpireIInv
      BY SpireInitIInv
<1>2. SpireIInv /\ [SpireNext]_spireVars => SpireIInv'
      BY SpireNextIInv
<1>. QED
      BY <1>1, <1>2, PTL DEF SpireSpec

\* A registration that says it is verified leaves every workload of the list
\* with an entry, for any list, any datastore it starts on and any number of
\* retries (ensure-spire-entries.sh:160).
THEOREM Gate == SpireSpec => []GateMeansRegistered
<1>1. SpireIInv => GateMeansRegistered
      BY ListedAssumption DEF SpireIInv, SpireTyped, Promised, GateMeansRegistered, Present, Done
<1>. QED
      BY <1>1, SpireInvariance, PTL

-----------------------------------------------------------------------------
(* ml/evaluate.py.                                                         *)

Rows   == [chunk : Nat \ {0}, kind : UNION Tables]
Frames == {df \in SUBSET Rows : IsFiniteSet(ChunksOf(df))}

ScopeNames == {"all", "user", "same-user"}

SplitOf(df, scope)   == SplitByChunk(Prepare(df, scope))
ResultsFor(df)       == {Result(s, SplitOf(df, s)) : s \in ScopeNames}
AnyResult            == UNION {ResultsFor(df) : df \in Frames}
Reports              == [by : Nat, results : Seq(AnyResult)]
Evals                == [df : Frames, next : Nat \ {0}, results : Seq(AnyResult), id : Nat]

\* What the theorems assume of the constants, beside EvalAssumption: the scope
\* that packs the model is the default one and comes last (evaluate.py:255,
\* 263), and runs of attacks are made by users.
Setting ==
    /\ SaveScope = "same-user"
    /\ \A i \in DOMAIN Scopes : Scopes[i] = SaveScope => i = Len(Scopes)
    /\ \A k, l \in UNION Tables : k.label = "attack" /\ k.entity = l.entity => l.etype = "user"
    /\ None \notin Evals \cup Reports

-----------------------------------------------------------------------------
\* The rows of the attackers are among the rows of every scope.
LEMMA AttackersEverywhere ==
    ASSUME Setting, NEW df \in Frames, NEW s \in ScopeNames
    PROVE  Prepare(df, "same-user") \subseteq Prepare(df, s)
<1>. SUFFICES ASSUME NEW r \in Prepare(df, "same-user") PROVE r \in Prepare(df, s)
      OBVIOUS
<1>1. /\ r \in df
      /\ r.kind.label # "attack_idle"
      /\ r.kind.label = "attack" => r.kind.target
      /\ r.kind.warm
      /\ \E q \in df : q.kind.label = "attack" /\ q.kind.entity = r.kind.entity
      BY DEF Prepare
<1>2. r.kind.etype = "user"
      BY <1>1 DEF Setting, Frames, Rows
<1>. QED
      BY <1>1, <1>2 DEF Prepare, ScopeNames

\* Fewer chunks with rows: a chunk is no further from the last one.
LEMMA FewerChunks ==
    ASSUME NEW x, NEW y, x \subseteq y, IsFiniteSet(ChunksOf(y)), NEW c
    PROVE  FromLast(x, c) \in Nat /\ FromLast(y, c) \in Nat /\ FromLast(x, c) <= FromLast(y, c)
<1>1. {d \in ChunksOf(x) : d > c} \subseteq {d \in ChunksOf(y) : d > c}
      BY DEF ChunksOf
<1>2. IsFiniteSet({d \in ChunksOf(y) : d > c})
      BY FS_Subset
<1>3. /\ IsFiniteSet({d \in ChunksOf(x) : d > c})
      /\ Cardinality({d \in ChunksOf(x) : d > c}) <= Cardinality({d \in ChunksOf(y) : d > c})
      BY <1>1, <1>2, FS_Subset
<1>. QED
      BY <1>2, <1>3, FS_CardinalityType DEF FromLast

\* What the packed model was fitted on, or took its threshold from, no scope
\* of the same tables measures on.
LEMMA SealedInFrame ==
    ASSUME Setting, NEW df \in Frames, NEW s \in ScopeNames
    PROVE  SplitOf(df, s).test \cap
              (Fitted(SplitOf(df, SaveScope)).fit \cup Fitted(SplitOf(df, SaveScope)).val) = {}
<1>. DEFINE X == Prepare(df, "same-user")
            Y == Prepare(df, s)
<1>1. X \subseteq Y /\ Y \subseteq df
      BY AttackersEverywhere DEF Prepare, ScopeNames
<1>2. IsFiniteSet(ChunksOf(Y))
  <2>1. ChunksOf(Y) \subseteq ChunksOf(df)
        BY <1>1 DEF ChunksOf
  <2>. QED
        BY <2>1, FS_Subset DEF Frames
<1>3. TestChunks \in Nat /\ BufferChunks \in Nat
      BY EvalAssumption DEF EvalAssumption
<1>. SUFFICES ASSUME NEW r \in SplitByChunk(Y).test,
                     r \in SplitByChunk(X).train \cup SplitByChunk(X).val
              PROVE  FALSE
      BY DEF SplitOf, Fitted, Setting
<1>4. FromLast(Y, r.chunk) < TestChunks
      BY DEF SplitByChunk
<1>5. FromLast(X, r.chunk) >= TestChunks + BufferChunks
  <2>1. FromLast(X, r.chunk) > TestChunks + BufferChunks \/ FromLast(X, r.chunk) = TestChunks + BufferChunks
        BY DEF SplitByChunk
  <2>2. FromLast(X, r.chunk) \in Nat
        BY <1>1, <1>2, FewerChunks
  <2>. QED
        BY <1>3, <2>1, <2>2
<1>6. FromLast(X, r.chunk) <= FromLast(Y, r.chunk)
      /\ FromLast(X, r.chunk) \in Nat /\ FromLast(Y, r.chunk) \in Nat
      BY <1>1, <1>2, FewerChunks
<1>. QED
      BY <1>3, <1>4, <1>5, <1>6

-----------------------------------------------------------------------------
EvalTyped ==
    /\ table \in Seq(Tables)
    /\ count \in Nat
    /\ eval # None => eval \in Evals /\ eval.id = count
    /\ model # None => model.by \in 0..count
    /\ report # None => report.by \in 0..count
    /\ killed \in 0..count

\* The results of the evaluation under way are about its copy of the table.
OwnResults ==
    eval # None => \A i \in DOMAIN eval.results : eval.results[i] \in ResultsFor(eval.df)

\* The evaluation under way has packed its model: the last scope is behind it.
Packed == eval # None /\ model # None /\ model.by = count

PackedLast ==
    Packed => /\ eval.next > Len(Scopes)
              /\ model.fitted = Fitted(SplitOf(eval.df, SaveScope))

\* It has written no report, and every earlier model has one, or the kill that explains why not.
Unreported == eval # None /\ report # None => report.by < count

ReportedBefore ==
    model # None /\ ~ Packed => model.by <= killed \/ (report # None /\ report.by >= model.by)

EvalIInv == EvalTyped /\ OwnResults /\ PackedLast /\ Unreported /\ ReportedBefore /\ SavedModelSealed

-----------------------------------------------------------------------------
\* The copy of the table that an evaluation takes: each row of it has its chunk.
LEMMA Loaded ==
    ASSUME table \in Seq(Tables)
    PROVE  UNION {{[chunk |-> c, kind |-> k] : k \in table[c]} : c \in DOMAIN table} \in Frames
<1>. DEFINE df == UNION {{[chunk |-> c, kind |-> k] : k \in table[c]} : c \in DOMAIN table}
<1>1. \A r \in df : r \in Rows /\ r.chunk \in 1..Len(table)
  <2>. SUFFICES ASSUME NEW c \in DOMAIN table, NEW k \in table[c]
                PROVE  /\ [chunk |-> c, kind |-> k] \in Rows
                       /\ c \in 1..Len(table)
        OBVIOUS
  <2>1. c \in 1..Len(table) /\ table[c] \in Tables /\ c \in Nat \ {0}
        OBVIOUS
  <2>. QED
        BY <2>1 DEF Rows
<1>2. ChunksOf(df) \subseteq 1..Len(table)
      BY <1>1 DEF ChunksOf
<1>3. IsFiniteSet(1..Len(table))
      BY FS_Interval, 1 \in Int, Len(table) \in Int
<1>4. IsFiniteSet(ChunksOf(df))
      BY <1>2, <1>3, FS_Subset
<1>. QED
      BY <1>1, <1>4 DEF Frames

LEMMA EvalInitIInv == EvalInit => EvalIInv
<1>. SUFFICES ASSUME EvalInit PROVE EvalIInv
      OBVIOUS
<1>1. EvalTyped
      BY DEF EvalInit, EvalTyped
<1>2. OwnResults /\ PackedLast /\ Unreported /\ ReportedBefore /\ SavedModelSealed
      BY DEF EvalInit, OwnResults, Packed, PackedLast, Unreported, ReportedBefore, SavedModelSealed
<1>. QED
      BY <1>1, <1>2 DEF EvalIInv

\* One step per action.
LEMMA EvalNextIInv == Setting /\ EvalIInv /\ [EvalNext]_evalVars => EvalIInv'
<1>. SUFFICES ASSUME Setting, EvalIInv, [EvalNext]_evalVars PROVE EvalIInv'
      OBVIOUS
<1>. USE DEF EvalIInv
<1>1. ASSUME NEW rows \in Tables, Collect(rows) PROVE EvalIInv'
  <2>1. table' \in Seq(Tables) /\ UNCHANGED <<eval, model, report, count, killed>>
        BY <1>1 DEF Collect, EvalTyped
  <2>. QED
        BY <2>1 DEF EvalTyped, OwnResults, Packed, PackedLast, Unreported, ReportedBefore,
                    SavedModelSealed
<1>2. CASE Start
  <2>. DEFINE df == UNION {{[chunk |-> c, kind |-> k] : k \in table[c]} : c \in DOMAIN table}
  <2>1. /\ eval = None /\ count' = count + 1 /\ UNCHANGED <<table, model, report, killed>>
        /\ eval' = [df |-> df, next |-> 1, results |-> <<>>, id |-> count + 1]
        BY <1>2 DEF Start
  <2>2. df \in Frames
        BY Loaded DEF EvalTyped
  <2>. HIDE DEF df
  <2>3. eval' \in Evals /\ eval'.id = count' /\ eval'.results = <<>>
        BY <2>1, <2>2 DEF EvalTyped, Evals
  <2>4. EvalTyped'
        BY <2>1, <2>3 DEF EvalTyped
  <2>5. OwnResults'
        BY <2>3 DEF OwnResults
  <2>6. PackedLast' /\ Unreported'
        BY <2>1 DEF EvalTyped, Packed, PackedLast, Unreported
  <2>7. ReportedBefore' /\ SavedModelSealed'
        BY <2>1 DEF Packed, ReportedBefore, SavedModelSealed
  <2>. QED
        BY <2>4, <2>5, <2>6, <2>7
<1>3. CASE EvaluateScope
  <2>. DEFINE scope == Scopes[eval.next]
              r == Result(scope, SplitOf(eval.df, scope))
  <2>1. /\ eval # None /\ eval \in Evals /\ eval.id = count /\ eval.next \in 1..Len(Scopes)
        BY <1>3 DEF EvaluateScope, EvalTyped, Evals
  <2>2. /\ eval' = [eval EXCEPT !.next = @ + 1, !.results = Append(@, r)]
        /\ model' = IF Saves(r) THEN [by |-> eval.id, fitted |-> r.fitted] ELSE model
        /\ UNCHANGED <<table, report, count, killed>>
        BY <1>3 DEF EvaluateScope, SplitOf
  <2>3. scope \in ScopeNames
        BY <2>1, EvalAssumption DEF EvalAssumption, ScopeNames
  <2>4. /\ r \in ResultsFor(eval.df) /\ r \in AnyResult
        /\ r.scope = scope /\ r.fitted = Fitted(SplitOf(eval.df, scope))
        BY <2>1, <2>3 DEF ResultsFor, AnyResult, Evals, Result
  <2>. HIDE DEF r, scope
  <2>5. /\ eval' \in Evals /\ eval'.id = count /\ eval'.df = eval.df
        /\ eval'.next = eval.next + 1 /\ eval'.results = Append(eval.results, r)
    <3>1. eval.next \in Nat \ {0} /\ eval.results \in Seq(AnyResult)
          BY <2>1 DEF Evals
    <3>2. eval.next + 1 \in Nat \ {0} /\ Append(eval.results, r) \in Seq(AnyResult)
          BY <2>4, <3>1
    <3>. QED
          BY <2>1, <2>2, <3>1, <3>2 DEF Evals
  <2>6. EvalTyped'
        BY <2>1, <2>2, <2>5 DEF EvalTyped
  <2>7. OwnResults'
        BY <2>1, <2>4, <2>5 DEF OwnResults, Evals
  <2>8. ~ Packed
        BY <2>1, EvalAssumption DEF PackedLast, Packed, Evals, EvalAssumption
  <2>9. CASE Saves(r)
    <3>0. scope = SaveScope /\ eval.next \in DOMAIN Scopes
          BY <2>1, <2>4, <2>9, EvalAssumption DEF Saves, EvalAssumption
    <3>1. /\ eval.next = Len(Scopes)
          /\ model' = [by |-> count, fitted |-> Fitted(SplitOf(eval.df, SaveScope))]
          BY <2>1, <2>2, <2>4, <2>9, <3>0 DEF Setting, scope
    <3>2. PackedLast' /\ ReportedBefore'
          BY <2>1, <2>2, <2>5, <3>1 DEF Setting, Packed, PackedLast, ReportedBefore
    <3>3. SavedModelSealed'
          BY <2>1, <2>2, <3>1 DEF EvalTyped, Unreported, SavedModelSealed
    <3>. QED
          BY <2>1, <2>2, <2>6, <2>7, <3>2, <3>3 DEF Unreported
  <2>10. CASE ~ Saves(r)
    <3>1. model' = model
          BY <2>2, <2>10
    <3>2. ~ Packed'
          BY <2>1, <2>2, <2>8, <3>1 DEF Packed
    <3>. QED
          BY <2>1, <2>2, <2>6, <2>7, <2>8, <3>1, <3>2
             DEF PackedLast, Unreported, ReportedBefore, SavedModelSealed
  <2>. QED
        BY <2>9, <2>10
<1>4. CASE TooFewChunks
  <2>1. /\ eval # None /\ eval.next <= Len(Scopes) /\ eval' = None
        /\ UNCHANGED <<table, model, report, count, killed>>
        BY <1>4 DEF TooFewChunks
  <2>2. ~ Packed /\ ~ Packed'
        BY <2>1, EvalAssumption DEF PackedLast, Packed, EvalTyped, Evals, EvalAssumption
  <2>. QED
        BY <2>1, <2>2 DEF EvalTyped, OwnResults, PackedLast, Unreported, ReportedBefore,
                          SavedModelSealed
<1>5. CASE WriteReport
  <2>1. /\ eval # None /\ eval \in Evals /\ eval.id = count /\ eval' = None
        /\ report' = [by |-> count, results |-> eval.results]
        /\ UNCHANGED <<table, model, count, killed>>
        BY <1>5 DEF WriteReport, EvalTyped
  <2>2. EvalTyped' /\ OwnResults' /\ PackedLast' /\ Unreported'
        BY <2>1 DEF EvalTyped, OwnResults, Packed, PackedLast, Unreported
  <2>3. report' # None /\ (model # None => report'.by >= model.by)
    <3>1. report' \in Reports
          BY <2>1 DEF EvalTyped, Evals, Reports
    <3>. QED
          BY <2>1, <3>1 DEF EvalTyped, Setting
  <2>4. ReportedBefore'
        BY <2>1, <2>3 DEF ReportedBefore
  <2>5. SavedModelSealed'
    <3>. SUFFICES ASSUME model # None, model.by = count, NEW i \in DOMAIN eval.results
                  PROVE  eval.results[i].split.test
                            \cap (model.fitted.fit \cup model.fitted.val) = {}
          BY <2>1 DEF SavedModelSealed, ResultsOf
    <3>1. model.fitted = Fitted(SplitOf(eval.df, SaveScope))
          BY <2>1 DEF Packed, PackedLast
    <3>2. PICK s \in ScopeNames : eval.results[i] = Result(s, SplitOf(eval.df, s))
          BY <2>1 DEF OwnResults, ResultsFor
    <3>3. eval.results[i].split = SplitOf(eval.df, s)
          BY <3>2 DEF Result
    <3>4. eval.df \in Frames
          BY <2>1 DEF Evals
    <3>. QED
          BY <3>1, <3>3, <3>4, SealedInFrame
  <2>. QED
        BY <2>2, <2>4, <2>5
<1>6. CASE Killed
  <2>1. /\ eval # None /\ eval.id = count /\ eval' = None /\ killed' = count
        /\ report' = report \/ report' = None
        /\ UNCHANGED <<table, model, count>>
        BY <1>6 DEF Killed, EvalTyped
  <2>2. EvalTyped' /\ OwnResults' /\ PackedLast' /\ Unreported'
        BY <2>1 DEF EvalTyped, OwnResults, Packed, PackedLast, Unreported
  <2>3. ReportedBefore' /\ SavedModelSealed'
        BY <2>1 DEF EvalTyped, ReportedBefore, SavedModelSealed
  <2>. QED
        BY <2>2, <2>3
<1>7. CASE UNCHANGED evalVars
      BY <1>7 DEF evalVars, EvalTyped, OwnResults, Packed, PackedLast, Unreported, ReportedBefore,
                  SavedModelSealed
<1>. QED
      BY <1>1, <1>2, <1>3, <1>4, <1>5, <1>6, <1>7 DEF EvalNext

\* The evaluation's invariant, for any tables and any scopes that end with the
\* one that packs the model.
THEOREM EvalInvariance == Setting => (EvalSpec => []EvalIInv)
<1>. SUFFICES ASSUME Setting PROVE EvalSpec => []EvalIInv
      OBVIOUS
<1>1. EvalInit => EvalIInv
      BY EvalInitIInv
<1>2. EvalIInv /\ [EvalNext]_evalVars => EvalIInv'
      BY EvalNextIInv
<1>. QED
      BY <1>1, <1>2, PTL DEF EvalSpec

\* No row that the packed model was fitted on, or that chose its threshold, is
\* measured on by any scope of its report (evaluate.py:86-93).
THEOREM Sealed == Setting => (EvalSpec => []SavedModelSealed)
<1>. SUFFICES ASSUME Setting PROVE EvalSpec => []SavedModelSealed
      OBVIOUS
<1>1. EvalIInv => SavedModelSealed
      BY DEF EvalIInv
<1>2. EvalSpec => []EvalIInv
      BY EvalInvariance
<1>. QED
      BY <1>1, <1>2, PTL

\* Between two evaluations the packed model is one that a report was written about, or after,
\* or one since was killed, though a scope may end the program (evaluate.py:88, 206, 288).
THEOREM Reported == Setting => (EvalSpec => []ModelIsReported)
<1>. SUFFICES ASSUME Setting PROVE EvalSpec => []ModelIsReported
      OBVIOUS
<1>1. EvalIInv => ModelIsReported
      BY DEF EvalIInv, ReportedBefore, Packed, ModelIsReported
<1>2. EvalSpec => []EvalIInv
      BY EvalInvariance
<1>. QED
      BY <1>1, <1>2, PTL

-----------------------------------------------------------------------------
(* The split.                                                                *)

\* Of two chunks with rows the later one is nearer to the last.
LEMMA LaterIsNearer ==
    ASSUME NEW df \in Frames, NEW c \in ChunksOf(df), NEW d \in ChunksOf(df), c < d
    PROVE  FromLast(df, d) < FromLast(df, c)
<1>. DEFINE after(x) == {e \in ChunksOf(df) : e > x}
<1>1. ChunksOf(df) \subseteq Nat /\ IsFiniteSet(ChunksOf(df))
      BY DEF Frames, Rows, ChunksOf
<1>2. after(d) \subseteq after(c)
  <2>. SUFFICES ASSUME NEW e \in ChunksOf(df), e > d PROVE e > c
        OBVIOUS
  <2>. QED
        BY <1>1
<1>3. d \in after(c) /\ d \notin after(d)
      BY <1>1
<1>4. after(c) \subseteq ChunksOf(df) /\ FromLast(df, c) = Cardinality(after(c))
      /\ FromLast(df, d) = Cardinality(after(d))
      BY DEF FromLast
<1>. HIDE DEF after
<1>5. IsFiniteSet(after(c)) /\ IsFiniteSet(after(d))
      BY <1>1, <1>2, <1>4, FS_Subset
<1>6. Cardinality(after(d)) \in Nat /\ Cardinality(after(c)) \in Nat
      BY <1>5, FS_CardinalityType
<1>7. Cardinality(after(d)) <= Cardinality(after(c)) /\ Cardinality(after(d)) # Cardinality(after(c))
      BY <1>2, <1>3, <1>5, FS_Subset
<1>. QED
      BY <1>4, <1>6, <1>7

\* The chunks with rows are numbered from the last, without a gap.
LEMMA Numbered ==
    ASSUME NEW df \in Frames
    PROVE  /\ Cardinality(ChunksOf(df)) \in Nat
           /\ \A c \in ChunksOf(df) : FromLast(df, c) \in 0..(Cardinality(ChunksOf(df)) - 1)
           /\ \A c, d \in ChunksOf(df) : FromLast(df, c) = FromLast(df, d) => c = d
           /\ \A k \in 0..(Cardinality(ChunksOf(df)) - 1) :
                 \E c \in ChunksOf(df) : FromLast(df, c) = k
<1>. DEFINE C == ChunksOf(df)
            n == Cardinality(C)
            f == [c \in C |-> FromLast(df, c)]
<1>1. C \subseteq Nat /\ IsFiniteSet(C)
      BY DEF Frames, Rows, ChunksOf
<1>2. n \in Nat
      BY <1>1, FS_CardinalityType
<1>3. ASSUME NEW c \in C PROVE FromLast(df, c) \in 0..(n - 1)
  <2>. DEFINE after == {e \in C : e > c}
  <2>1. after \subseteq C /\ c \in C /\ c \notin after /\ FromLast(df, c) = Cardinality(after)
        BY <1>1 DEF FromLast
  <2>. HIDE DEF after, C
  <2>2. IsFiniteSet(after) /\ Cardinality(after) <= n /\ Cardinality(after) # n
        BY <1>1, <2>1, FS_Subset
  <2>3. Cardinality(after) \in Nat
        BY <2>2, FS_CardinalityType
  <2>. QED
        BY <1>2, <2>1, <2>2, <2>3
<1>4. \A c, d \in C : FromLast(df, c) = FromLast(df, d) => c = d
  <2>. SUFFICES ASSUME NEW c \in C, NEW d \in C, FromLast(df, c) = FromLast(df, d) PROVE c = d
        OBVIOUS
  <2>1. c < d \/ d < c \/ c = d
        BY <1>1
  <2>2. FromLast(df, c) \in Int /\ FromLast(df, d) \in Int
        BY <1>2, <1>3
  <2>3. ~ (c < d) /\ ~ (d < c)
        BY <2>2, LaterIsNearer
  <2>. QED
        BY <2>1, <2>3
<1>. HIDE DEF C, n
<1>5. f \in Injection(C, 0..(n - 1))
      BY <1>3, <1>4 DEF Injection, IsInjective
<1>6. IsFiniteSet(0..(n - 1)) /\ Cardinality(0..(n - 1)) = n
  <2>1. 0 \in Int /\ n - 1 \in Int
        BY <1>2
  <2>2. IsFiniteSet(0..(n - 1)) /\ Cardinality(0..(n - 1)) = IF 0 > n - 1 THEN 0 ELSE n - 1 - 0 + 1
        BY <2>1, FS_Interval
  <2>. QED
        BY <2>2, <1>2
<1>7. f \in Surjection(C, 0..(n - 1))
      BY <1>1, <1>5, <1>6, FS_Injection DEF n
<1>8. \A k \in 0..(n - 1) : \E c \in C : FromLast(df, c) = k
      BY <1>7 DEF Surjection
<1>. QED
      BY <1>2, <1>3, <1>4, <1>8 DEF C, n

\* A stretch of the numbering is held by as many chunks.
LEMMA Stretch ==
    ASSUME NEW df \in Frames, NEW lo \in Nat, NEW hi \in Nat, lo <= hi,
           hi < Cardinality(ChunksOf(df))
    PROVE  Cardinality(ChunksOf({r \in df : FromLast(df, r.chunk) \in lo..hi})) = hi - lo + 1
<1>. DEFINE n == Cardinality(ChunksOf(df))
            S == ChunksOf({r \in df : FromLast(df, r.chunk) \in lo..hi})
            f == [c \in S |-> FromLast(df, c)]
<1>1. S = {c \in ChunksOf(df) : FromLast(df, c) \in lo..hi}
      BY DEF ChunksOf
<1>2. \A k \in lo..hi : k \in 0..(n - 1)
      BY Numbered
<1>3. \A c, d \in S : FromLast(df, c) = FromLast(df, d) => c = d
      BY <1>1, Numbered
<1>4. \A k \in lo..hi : \E c \in S : FromLast(df, c) = k
      BY <1>1, <1>2, Numbered
<1>. HIDE DEF S
<1>5. f \in [S -> lo..hi]
      BY <1>1
<1>6. f \in Bijection(S, lo..hi)
      BY <1>3, <1>4, <1>5 DEF Bijection, Injection, Surjection, IsInjective
<1>7. IsFiniteSet(lo..hi) /\ Cardinality(lo..hi) = hi - lo + 1
  <2>1. lo \in Int /\ hi \in Int /\ ~ (lo > hi)
        OBVIOUS
  <2>. QED
        BY <2>1, FS_Interval
<1>8. IsFiniteSet(S)
  <2>1. IsFiniteSet(ChunksOf(df)) /\ S \subseteq ChunksOf(df)
        BY <1>1 DEF Frames
  <2>. QED
        BY <2>1, FS_Subset
<1>9. Cardinality(S) = Cardinality(lo..hi)
      BY <1>6, <1>8, FS_Bijection DEF ExistsBijection
<1>. QED
      BY <1>7, <1>9 DEF S

\* What SplitInTime asks of one result.
InTime(r) ==
    /\ Earlier(r.split.train, r.split.val)
    /\ Earlier(r.split.val, r.split.buffer)
    /\ Earlier(r.split.buffer, r.split.test)
    /\ r.split.train # {}
    /\ Cardinality(ChunksOf(r.split.val)) = 1
    /\ Cardinality(ChunksOf(r.split.buffer)) = BufferChunks
    /\ Cardinality(ChunksOf(r.split.test)) = TestChunks
    /\ r.unseen # None =>
          /\ Earlier(r.unseen.fit, r.unseen.test)
          /\ \A p \in Positives(r.unseen.test) : \A q \in r.unseen.fit : q.kind # p.kind

\* split_by_chunk of enough chunks, and what evaluate_scope makes of it.
LEMMA SplitIsInTime ==
    ASSUME NEW df \in Frames, NEW scope, Cardinality(ChunksOf(df)) >= Need
    PROVE  InTime(Result(scope, SplitByChunk(df)))
<1>. DEFINE T == TestChunks
            B == BufferChunks
            s == SplitByChunk(df)
            from(r) == FromLast(df, r.chunk)
<1>1. /\ T \in Nat \ {0} /\ B \in Nat \ {0}
      /\ Cardinality(ChunksOf(df)) \in Nat /\ Cardinality(ChunksOf(df)) >= T + B + 2
      BY EvalAssumption, Numbered DEF EvalAssumption, Need
<1>2. /\ s.train = {r \in df : from(r) > T + B}
      /\ s.val = {r \in df : from(r) = T + B}
      /\ s.buffer = {r \in df : from(r) \in T..(T + B - 1)}
      /\ s.test = {r \in df : from(r) < T}
      BY DEF SplitByChunk
<1>3. ASSUME NEW r \in df, NEW q \in df, from(r) > from(q) PROVE r.chunk < q.chunk
  <2>1. r.chunk \in ChunksOf(df) /\ q.chunk \in ChunksOf(df) /\ r.chunk \in Nat /\ q.chunk \in Nat
        BY DEF ChunksOf, Frames, Rows
  <2>2. from(r) \in Int /\ from(q) \in Int
        BY <1>1, <2>1, Numbered
  <2>. HIDE DEF from
  <2>3. r.chunk # q.chunk
        BY <1>3, <2>2 DEF from
  <2>4. ~ (q.chunk < r.chunk)
    <3>1. q.chunk < r.chunk => from(r) < from(q)
          BY <2>1, LaterIsNearer DEF from
    <3>. QED
          BY <1>3, <2>2, <3>1
  <2>. QED
        BY <2>1, <2>3, <2>4
<1>4. \A r \in df : from(r) \in Nat
  <2>. TAKE r \in df
  <2>1. r.chunk \in ChunksOf(df)
        BY DEF ChunksOf
  <2>. QED
        BY <1>1, <2>1, Numbered
<1>5. s.train # {}
  <2>. DEFINE n == Cardinality(ChunksOf(df))
  <2>1. n - 1 \in 0..(n - 1) /\ n - 1 > T + B
        BY <1>1
  <2>2. PICK c \in ChunksOf(df) : FromLast(df, c) = n - 1
        BY <2>1, Numbered
  <2>3. PICK r \in df : r.chunk = c
        BY DEF ChunksOf
  <2>. HIDE DEF s, n
  <2>. QED
        BY <1>2, <2>1, <2>2, <2>3
<1>6. Cardinality(ChunksOf(s.val)) = 1
  <2>1. {r \in df : from(r) = T + B} = {r \in df : from(r) \in (T + B)..(T + B)}
        BY <1>1, <1>4
  <2>2. T + B \in Nat /\ T + B < Cardinality(ChunksOf(df)) /\ (T + B) - (T + B) + 1 = 1
        /\ T + B <= T + B
        BY <1>1
  <2>3. Cardinality(ChunksOf({r \in df : FromLast(df, r.chunk) \in (T + B)..(T + B)}))
           = (T + B) - (T + B) + 1
        BY <2>2, Stretch
  <2>. QED
        BY <1>2, <2>1, <2>2, <2>3
<1>7. Cardinality(ChunksOf(s.buffer)) = B
  <2>1. /\ T \in Nat /\ T + B - 1 \in Nat /\ T <= T + B - 1 /\ (T + B - 1) - T + 1 = B
        /\ T + B - 1 < Cardinality(ChunksOf(df))
        BY <1>1
  <2>2. Cardinality(ChunksOf({r \in df : FromLast(df, r.chunk) \in T..(T + B - 1)}))
           = (T + B - 1) - T + 1
        BY <2>1, Stretch
  <2>. QED
        BY <1>2, <2>1, <2>2
<1>8. Cardinality(ChunksOf(s.test)) = T
  <2>1. {r \in df : from(r) < T} = {r \in df : from(r) \in 0..(T - 1)}
        BY <1>1, <1>4
  <2>2. 0 \in Nat /\ T - 1 \in Nat /\ 0 <= T - 1 /\ (T - 1) - 0 + 1 = T
        /\ T - 1 < Cardinality(ChunksOf(df))
        BY <1>1
  <2>3. Cardinality(ChunksOf({r \in df : FromLast(df, r.chunk) \in 0..(T - 1)})) = (T - 1) - 0 + 1
        BY <2>2, Stretch
  <2>. QED
        BY <1>2, <2>1, <2>2, <2>3
<1>. HIDE DEF from
<1>9. /\ Earlier(s.train, s.val) /\ Earlier(s.val, s.buffer) /\ Earlier(s.buffer, s.test)
      /\ Earlier(s.train, s.test)
  <2>. HIDE DEF s
  <2>. QED
        BY <1>1, <1>2, <1>3, <1>4 DEF Earlier
<1>. HIDE DEF s
<1>. DEFINE r == Result(scope, s)
<1>10. /\ r.split = s
       /\ r.unseen # None =>
             r.unseen = [fit |-> SeenOnly(s.train), test |-> UnseenTest(s.test)]
       BY DEF Result
<1>. HIDE DEF r
<1>11. r.unseen # None =>
          /\ Earlier(r.unseen.fit, r.unseen.test)
          /\ \A p \in Positives(r.unseen.test) : \A q \in r.unseen.fit : q.kind # p.kind
       BY <1>9, <1>10 DEF Earlier, SeenOnly, UnseenTest, Positives
<1>12. InTime(r)
       BY <1>5, <1>6, <1>7, <1>8, <1>9, <1>10, <1>11 DEF InTime
<1>. QED
       BY <1>12 DEF r, s

-----------------------------------------------------------------------------
\* Every result there is, in the report or on its way there, is in time.
TimeInv ==
    /\ table \in Seq(Tables) /\ count \in Nat
    /\ eval # None => /\ eval \in Evals
                      /\ \A i \in DOMAIN eval.results : InTime(eval.results[i])
    /\ report # None => \A i \in DOMAIN report.results : InTime(report.results[i])

\* Every step of the evaluation keeps it so.
LEMMA TimeStep == TimeInv /\ [EvalNext]_evalVars => TimeInv'
<1>. SUFFICES ASSUME TimeInv, [EvalNext]_evalVars PROVE TimeInv'
      OBVIOUS
<1>. USE DEF TimeInv
<1>1. ASSUME NEW rows \in Tables, Collect(rows) PROVE TimeInv'
  <2>1. table' \in Seq(Tables) /\ UNCHANGED <<eval, report, count>>
        BY <1>1 DEF Collect
  <2>. QED
        BY <2>1
<1>2. CASE Start
  <2>. DEFINE df == UNION {{[chunk |-> c, kind |-> k] : k \in table[c]} : c \in DOMAIN table}
  <2>1. /\ eval' = [df |-> df, next |-> 1, results |-> <<>>, id |-> count + 1]
        /\ UNCHANGED <<table, report>> /\ count' = count + 1
        BY <1>2 DEF Start
  <2>2. df \in Frames
        BY Loaded
  <2>. HIDE DEF df
  <2>3. \A i \in DOMAIN eval'.results : InTime(eval'.results[i])
        BY <2>1
  <2>4. eval'.df \in Frames /\ eval'.results = <<>> /\ eval'.next = 1
        BY <2>1, <2>2
  <2>5. eval' \in Evals
        BY <2>1, <2>2 DEF Evals
  <2>. QED
        BY <2>1, <2>3, <2>5
<1>3. CASE EvaluateScope
  <2>. DEFINE scope == Scopes[eval.next]
              d == Prepare(eval.df, scope)
              r == Result(scope, SplitByChunk(d))
  <2>1. /\ eval # None /\ eval \in Evals /\ eval.next \in 1..Len(Scopes)
        /\ Cardinality(ChunksOf(d)) >= Need
        /\ eval' = [eval EXCEPT !.next = @ + 1, !.results = Append(@, r)]
        /\ UNCHANGED <<table, report, count>>
        BY <1>3 DEF EvaluateScope, Evals
  <2>2. eval.df \in Frames /\ eval.next \in Nat \ {0} /\ eval.results \in Seq(AnyResult)
        BY <2>1 DEF Evals
  <2>3. scope \in ScopeNames
        BY <2>1, EvalAssumption DEF EvalAssumption, ScopeNames
  <2>4. r \in AnyResult
        BY <2>2, <2>3 DEF ResultsFor, AnyResult, SplitOf
  <2>5. d \in Frames
    <3>1. d \subseteq eval.df
          BY <2>3 DEF Prepare, ScopeNames
    <3>2. ChunksOf(d) \subseteq ChunksOf(eval.df) /\ IsFiniteSet(ChunksOf(eval.df))
          BY <2>2, <3>1 DEF ChunksOf, Frames
    <3>. HIDE DEF d
    <3>3. IsFiniteSet(ChunksOf(d))
          BY <3>2, FS_Subset
    <3>. QED
          BY <2>2, <3>1, <3>3 DEF Frames
  <2>. HIDE DEF d
  <2>6. InTime(r)
        BY <2>1, <2>5, SplitIsInTime
  <2>. HIDE DEF r, scope
  <2>7. eval' \in Evals /\ eval'.results = Append(eval.results, r)
    <3>1. eval.next + 1 \in Nat \ {0} /\ Append(eval.results, r) \in Seq(AnyResult)
          BY <2>2, <2>4
    <3>. QED
          BY <2>1, <2>2, <3>1 DEF Evals
  <2>8. \A i \in DOMAIN eval'.results : InTime(eval'.results[i])
    <3>. SUFFICES ASSUME NEW i \in DOMAIN eval'.results PROVE InTime(eval'.results[i])
          OBVIOUS
    <3>1. CASE i \in DOMAIN eval.results
      <4>1. eval'.results[i] = eval.results[i]
            BY <2>2, <2>7, <3>1
      <4>. QED
            BY <2>1, <3>1, <4>1
    <3>2. CASE i \notin DOMAIN eval.results
      <4>1. eval'.results[i] = r
            BY <2>2, <2>7, <3>2
      <4>. QED
            BY <2>6, <4>1
    <3>. QED
          BY <3>1, <3>2
  <2>. QED
        BY <2>1, <2>7, <2>8
<1>4. CASE TooFewChunks
      BY <1>4 DEF TooFewChunks
<1>5. CASE WriteReport
  <2>1. /\ eval # None /\ eval' = None /\ UNCHANGED <<table, count>>
        /\ report' = [by |-> eval.id, results |-> eval.results]
        BY <1>5 DEF WriteReport
  <2>2. report'.results = eval.results
        BY <2>1
  <2>. QED
        BY <2>1, <2>2
<1>6. CASE Killed
  <2>1. eval' = None /\ (report' = report \/ report' = None) /\ UNCHANGED <<table, count>>
        BY <1>6 DEF Killed
  <2>. QED
        BY <2>1
<1>7. CASE UNCHANGED evalVars
      BY <1>7 DEF evalVars
<1>. QED
      BY <1>1, <1>2, <1>3, <1>4, <1>5, <1>6, <1>7 DEF EvalNext

\* split_by_chunk (evaluate.py:86-93): whatever rows the filters leave of which chunk, training,
\* validation, buffer and test follow each other in time with the wanted numbers of chunks, and
\* no variant measured as unseen was fitted on.
THEOREM InTimeHolds == EvalSpec => []SplitInTime
<1>1. EvalInit => TimeInv
      BY DEF EvalInit, TimeInv
<1>2. TimeInv => SplitInTime
  <2>. SUFFICES ASSUME TimeInv, NEW r \in ResultsOf(report) \cup ResultsOf(eval) PROVE InTime(r)
        BY DEF SplitInTime, InTime
  <2>. QED
        BY DEF TimeInv, ResultsOf
<1>. QED
      BY <1>1, <1>2, TimeStep, PTL DEF EvalSpec

-----------------------------------------------------------------------------
(* scripts/deploy-crapi.sh.                                                *)

\* A policy that anything the generators write for a home namespace can be:
\* the baseline, which selects every pod, or one that bears its pod's label.
WellNamed(p) ==
    p.ns = Home => \/ p.app = Unset /\ p.name = "allow-baseline"
                   \/ p.app # Unset /\ p.app # "allow-baseline" /\ p.name = p.app

Policy ==
    {GenBaseline(g, c) : g \in Graphs, c \in CloudClusters}
        \cup UNION {GenForCluster(g, c) : g \in Graphs, c \in CloudClusters}

\* Two policies of the home namespace are told apart by their names.
NamesDiffer(policies) ==
    \A p, q \in policies : p.ns = Home /\ q.ns = Home /\ p.name = q.name => p = q

HasAcl(g, c)      == acl[c] = GenRegoAcl(g)
HasBaseline(g, c) == GenBaseline(g, c) \in net[c]
HasPods(g, c)     == GenForCluster(g, c) \subseteq net[c]

\* The steps of a deployment that come after one.
AfterAcl(c) ==
    {"baseline-aws", "baseline-openstack", "pods-aws", "pods-openstack", "done"}
        \cup (IF c = "aws" THEN {"opa-openstack"} ELSE {})
AfterBaseline(c) ==
    {"pods-aws", "pods-openstack", "done"} \cup (IF c = "aws" THEN {"baseline-openstack"} ELSE {})
AfterPods(c) == {"done"} \cup (IF c = "aws" THEN {"pods-openstack"} ELSE {})

RolloutTyped ==
    /\ graph \in Graphs
    /\ files \in [acl : Graphs, pods : Graphs, base : Graphs]
    /\ net \in [CloudClusters -> SUBSET Policy]
    /\ DOMAIN acl = CloudClusters

\* What a deployment has behind it is on the clusters as the files say.
Applying ==
    \A c \in CloudClusters :
        /\ step \in AfterAcl(c) => HasAcl(files.acl, c)
        /\ step \in AfterBaseline(c) => HasBaseline(files.base, c)
        /\ step \in AfterPods(c) => HasPods(files.pods, c)

UpToDate ==
    current => /\ step = "idle"
               /\ \A c \in CloudClusters :
                     HasAcl(graph, c) /\ HasBaseline(graph, c) /\ HasPods(graph, c)

RolloutIInv ==
    RolloutTyped /\ (\A c \in CloudClusters : NamesDiffer(net[c])) /\ Applying /\ UpToDate

-----------------------------------------------------------------------------
\* What the generators write.

LEMMA UnsetIsNoName == Unset # "pods"
BY Zenon DEF Unset

LEMMA LabelsAreNames ==
    ASSUME NEW g \in Graphs, NEW w \in DOMAIN g.workloads
    PROVE  /\ AppLabel(g, w) # Unset
           /\ NsOf(g, w) = Home => AppLabel(g, w) # "allow-baseline"
<1>1. g.workloads[w].label # Unset \/ g.workloads[w].account # Unset
      BY GraphsAssumption
<1>. QED
      BY <1>1, NamesOfPodsAssumption DEF AppLabel

\* Both ends of an edge the generator keeps are workloads of the cluster.
LEMMA IntraEnds ==
    ASSUME NEW g \in Graphs, NEW c, NEW e \in Intra(g, c)
    PROVE  /\ e.from \in DOMAIN g.workloads /\ e.to \in DOMAIN g.workloads
           /\ Cluster(g, e.from) = c /\ Cluster(g, e.to) = c
           /\ e \in g.edges /\ e.ports # {}
BY DEF Intra, Known

LEMMA PoliciesWellNamed ==
    ASSUME NEW p \in Policy
    PROVE  WellNamed(p)
<1>1. CASE \E g \in Graphs, c \in CloudClusters : p = GenBaseline(g, c)
      BY <1>1 DEF GenBaseline, WellNamed
<1>2. CASE \E g \in Graphs, c \in CloudClusters : p \in GenForCluster(g, c)
  <2>1. PICK g \in Graphs, c \in CloudClusters : p \in GenForCluster(g, c)
        BY <1>2
  <2>2. PICK e \in Intra(g, c) : p = PodPolicy(g, c, e.to)
        BY <2>1 DEF GenForCluster
  <2>3. e.to \in DOMAIN g.workloads
        BY <2>2, IntraEnds
  <2>4. p.ns = NsOf(g, e.to) /\ p.name = AppLabel(g, e.to) /\ p.app = AppLabel(g, e.to)
        BY <2>2 DEF PodPolicy
  <2>. QED
        BY <2>3, <2>4, LabelsAreNames DEF WellNamed
<1>. QED
      BY <1>1, <1>2 DEF Policy

LEMMA GeneratedPolicies ==
    ASSUME NEW g \in Graphs, NEW c \in CloudClusters
    PROVE  /\ {GenBaseline(g, c)} \subseteq Policy /\ NamesDiffer({GenBaseline(g, c)})
           /\ GenForCluster(g, c) \subseteq Policy /\ NamesDiffer(GenForCluster(g, c))
<1>1. {GenBaseline(g, c)} \subseteq Policy /\ GenForCluster(g, c) \subseteq Policy
      BY DEF Policy
<1>2. NamesDiffer({GenBaseline(g, c)})
      BY DEF NamesDiffer
<1>3. NamesDiffer(GenForCluster(g, c))
  <2>. SUFFICES ASSUME NEW d \in Intra(g, c), NEW e \in Intra(g, c),
                       NsOf(g, d.to) = Home, NsOf(g, e.to) = Home,
                       AppLabel(g, d.to) = AppLabel(g, e.to)
                PROVE  PodPolicy(g, c, d.to) = PodPolicy(g, c, e.to)
        BY DEF NamesDiffer, GenForCluster, PodPolicy
  <2>1. d.to = e.to
        BY IntraEnds, NamesOfPodsAssumption
  <2>. QED
        BY <2>1
<1>. QED
      BY <1>1, <1>2, <1>3

\* kubectl apply.
LEMMA AppliedPolicies ==
    ASSUME NEW old \in SUBSET Policy, NEW file \in SUBSET Policy,
           NamesDiffer(old), NamesDiffer(file)
    PROVE  /\ Applied(old, file) \in SUBSET Policy
           /\ NamesDiffer(Applied(old, file))
           /\ file \subseteq Applied(old, file)
<1>1. \A p \in Applied(old, file) :
         p \in file \/ (p \in old /\ \A q \in file : <<q.ns, q.name>> # <<p.ns, p.name>>)
      BY DEF Applied
<1>2. Applied(old, file) \in SUBSET Policy /\ file \subseteq Applied(old, file)
      BY DEF Applied
<1>3. NamesDiffer(Applied(old, file))
  <2>. SUFFICES ASSUME NEW p \in Applied(old, file), NEW q \in Applied(old, file),
                       p.ns = Home, q.ns = Home, p.name = q.name
                PROVE  p = q
        BY DEF NamesDiffer
  <2>1. (p \in file <=> q \in file) /\ (p \notin file => p \in old /\ q \in old)
        BY <1>1
  <2>. QED
        BY <2>1 DEF NamesDiffer
<1>. QED
      BY <1>2, <1>3

\* Policies of pods leave the baseline where it is.
LEMMA BaselineStays ==
    ASSUME NEW old \in SUBSET Policy, NEW g \in Graphs, NEW h \in Graphs,
           NEW c \in CloudClusters, GenBaseline(g, c) \in old
    PROVE  GenBaseline(g, c) \in Applied(old, GenForCluster(h, c))
<1>1. /\ GenBaseline(g, c).ns = Home /\ GenBaseline(g, c).name = "allow-baseline"
      BY DEF GenBaseline
<1>2. ASSUME NEW q \in GenForCluster(h, c), q.ns = Home PROVE q.name # "allow-baseline"
  <2>1. PICK e \in Intra(h, c) : q = PodPolicy(h, c, e.to)
        BY <1>2 DEF GenForCluster
  <2>2. q.ns = NsOf(h, e.to) /\ q.name = AppLabel(h, e.to)
        BY <2>1 DEF PodPolicy
  <2>. QED
        BY <1>2, <2>1, <2>2, IntraEnds, LabelsAreNames
<1>3. \A q \in GenForCluster(h, c) :
         <<q.ns, q.name>> # <<GenBaseline(g, c).ns, GenBaseline(g, c).name>>
      BY <1>1, <1>2
<1>. QED
      BY <1>3 DEF Applied

-----------------------------------------------------------------------------
LEMMA RolloutInitIInv == RolloutInit => RolloutIInv
<1>. SUFFICES ASSUME RolloutInit PROVE RolloutIInv
      OBVIOUS
<1>1. RolloutTyped /\ \A c \in CloudClusters : NamesDiffer(net[c])
      BY DEF RolloutInit, RolloutTyped, NamesDiffer
<1>2. Applying /\ UpToDate
      BY DEF RolloutInit, Applying, UpToDate, AfterAcl, AfterBaseline, AfterPods
<1>. QED
      BY <1>1, <1>2 DEF RolloutIInv

\* A cluster gets its data: nothing else moves.
LEMMA AclApplied ==
    ASSUME RolloutIInv, NEW c \in CloudClusters, NEW at, NEW next, ApplyAcl(c, at, next),
           at # "idle", next # "idle",
           \A d \in CloudClusters :
              /\ next \in AfterAcl(d) => d = c \/ at \in AfterAcl(d)
              /\ next \notin AfterBaseline(d) /\ next \notin AfterPods(d)
    PROVE  RolloutIInv'
<1>1. /\ step = at /\ step' = next
      /\ acl' = [acl EXCEPT ![c] = GenRegoAcl(files.acl)]
      /\ UNCHANGED <<graph, files, net, stable, current>>
      BY DEF ApplyAcl
<1>2. DOMAIN acl' = CloudClusters /\ acl'[c] = GenRegoAcl(files.acl)
      /\ \A d \in CloudClusters \ {c} : acl'[d] = acl[d]
      BY <1>1 DEF RolloutIInv, RolloutTyped
<1>3. ~ current
      BY <1>1 DEF RolloutIInv, UpToDate
<1>4. Applying'
      BY <1>1, <1>2 DEF RolloutIInv, Applying, HasAcl
<1>. QED
      BY <1>1, <1>2, <1>3, <1>4 DEF RolloutIInv, RolloutTyped, NamesDiffer, UpToDate

\* A cluster gets a file of policies.
LEMMA FileApplied ==
    ASSUME RolloutIInv, NEW c \in CloudClusters, NEW file \in SUBSET Policy, NamesDiffer(file),
           net' = [net EXCEPT ![c] = Applied(@, file)],
           step # "idle", UNCHANGED <<graph, files, acl, current>>
    PROVE  /\ RolloutTyped' /\ UpToDate'
           /\ \A d \in CloudClusters : NamesDiffer(net'[d])
           /\ file \subseteq net'[c] /\ net'[c] = Applied(net[c], file)
           /\ \A d \in CloudClusters \ {c} : net'[d] = net[d]
<1>1. net \in [CloudClusters -> SUBSET Policy] /\ NamesDiffer(net[c])
      BY DEF RolloutIInv, RolloutTyped
<1>2. /\ net'[c] = Applied(net[c], file)
      /\ \A d \in CloudClusters \ {c} : net'[d] = net[d]
      BY <1>1
<1>3. /\ net'[c] \in SUBSET Policy /\ NamesDiffer(net'[c]) /\ file \subseteq net'[c]
      BY <1>1, <1>2, AppliedPolicies
<1>4. net' \in [CloudClusters -> SUBSET Policy]
      BY <1>1, <1>2, <1>3
<1>5. RolloutTyped' /\ UpToDate'
      BY <1>4 DEF RolloutIInv, RolloutTyped, UpToDate
<1>6. \A d \in CloudClusters : NamesDiffer(net'[d])
      BY <1>2, <1>3 DEF RolloutIInv
<1>. QED
      BY <1>2, <1>3, <1>5, <1>6

LEMMA BaselineApplied ==
    ASSUME RolloutIInv, NEW c \in CloudClusters, NEW at, NEW next, ApplyBaseline(c, at, next),
           at # "idle", next # "idle",
           \A d \in CloudClusters :
              /\ next \in AfterAcl(d) => at \in AfterAcl(d)
              /\ next \in AfterBaseline(d) => d = c \/ at \in AfterBaseline(d)
              /\ next \notin AfterPods(d)
    PROVE  RolloutIInv'
<1>. DEFINE file == {GenBaseline(files.base, c)}
<1>1. /\ step = at /\ step' = next
      /\ net' = [net EXCEPT ![c] = Applied(@, file)]
      /\ UNCHANGED <<graph, files, acl, stable, current>>
      BY DEF ApplyBaseline
<1>2. file \in SUBSET Policy /\ NamesDiffer(file)
      BY GeneratedPolicies DEF RolloutIInv, RolloutTyped
<1>3. GenBaseline(files.base, c) \in file
      OBVIOUS
<1>. HIDE DEF file
<1>4. /\ RolloutTyped' /\ UpToDate'
      /\ \A d \in CloudClusters : NamesDiffer(net'[d])
      /\ file \subseteq net'[c]
      /\ \A d \in CloudClusters \ {c} : net'[d] = net[d]
      BY <1>1, <1>2, FileApplied
<1>5. Applying'
      BY <1>1, <1>3, <1>4 DEF RolloutIInv, Applying, HasAcl, HasBaseline
<1>. QED
      BY <1>4, <1>5 DEF RolloutIInv

LEMMA PodsApplied ==
    ASSUME RolloutIInv, NEW c \in CloudClusters, NEW at, NEW next, ApplyPods(c, at, next),
           at # "idle", next # "idle",
           \A d \in CloudClusters :
              /\ next \in AfterAcl(d) => at \in AfterAcl(d)
              /\ next \in AfterBaseline(d) => at \in AfterBaseline(d)
              /\ next \in AfterPods(d) => d = c \/ at \in AfterPods(d)
    PROVE  RolloutIInv'
<1>. DEFINE file == GenForCluster(files.pods, c)
<1>1. /\ step = at /\ step' = next
      /\ net' = [net EXCEPT ![c] = Applied(@, file)]
      /\ UNCHANGED <<graph, files, acl, stable, current>>
      BY DEF ApplyPods
<1>2. /\ file \in SUBSET Policy /\ NamesDiffer(file)
      /\ files.pods \in Graphs /\ files.base \in Graphs /\ net[c] \in SUBSET Policy
      BY GeneratedPolicies DEF RolloutIInv, RolloutTyped
<1>3. GenBaseline(files.base, c) \in net[c] => GenBaseline(files.base, c) \in Applied(net[c], file)
      BY <1>2, BaselineStays
<1>. HIDE DEF file
<1>4. /\ RolloutTyped' /\ UpToDate'
      /\ \A d \in CloudClusters : NamesDiffer(net'[d])
      /\ file \subseteq net'[c] /\ net'[c] = Applied(net[c], file)
      /\ \A d \in CloudClusters \ {c} : net'[d] = net[d]
      BY <1>1, <1>2, FileApplied
<1>5. Applying'
      BY <1>1, <1>3, <1>4 DEF RolloutIInv, Applying, HasAcl, HasBaseline, HasPods, file
<1>. QED
      BY <1>4, <1>5 DEF RolloutIInv

\* One step per action.
LEMMA RolloutNextIInv == RolloutIInv /\ [RolloutNext]_rolloutVars => RolloutIInv'
<1>. SUFFICES ASSUME RolloutIInv, [RolloutNext]_rolloutVars PROVE RolloutIInv'
      OBVIOUS
<1>. DEFINE steps == /\ AfterAcl("aws") = {"opa-openstack", "baseline-aws", "baseline-openstack",
                                          "pods-aws", "pods-openstack", "done"}
                    /\ AfterAcl("openstack") = {"baseline-aws", "baseline-openstack",
                                          "pods-aws", "pods-openstack", "done"}
                    /\ AfterBaseline("aws") = {"baseline-openstack", "pods-aws", "pods-openstack",
                                               "done"}
                    /\ AfterBaseline("openstack") = {"pods-aws", "pods-openstack", "done"}
                    /\ AfterPods("aws") = {"pods-openstack", "done"}
                    /\ AfterPods("openstack") = {"done"}
<1>1. CloudClusters = {"aws", "openstack"}
      BY DEF CloudClusters
<1>2. steps
      BY DEF AfterAcl, AfterBaseline, AfterPods
<1>3. CASE EditGraph
      BY <1>3 DEF EditGraph, RolloutIInv, RolloutTyped, NamesDiffer, Applying, UpToDate,
                  HasAcl, HasBaseline, HasPods
<1>4. CASE StartDeploy
  <2>1. /\ step' = "gen-rego-acl" /\ current' = FALSE
        /\ UNCHANGED <<graph, files, net, acl>>
        BY <1>4 DEF StartDeploy
  <2>2. Applying' /\ UpToDate'
        BY <1>1, <1>2, <2>1 DEF Applying, UpToDate
  <2>. QED
        BY <2>1, <2>2 DEF RolloutIInv, RolloutTyped, NamesDiffer
<1>5. CASE GenerateAcl
  <2>1. /\ step = "gen-rego-acl" /\ step' = "gen-networkpolicy"
        /\ files' = [files EXCEPT !.acl = graph]
        /\ UNCHANGED <<graph, net, acl, current>>
        BY <1>5 DEF GenerateAcl
  <2>2. Applying' /\ UpToDate'
        BY <1>1, <1>2, <2>1 DEF RolloutIInv, Applying, UpToDate
  <2>. QED
        BY <2>1, <2>2 DEF RolloutIInv, RolloutTyped, NamesDiffer
<1>6. CASE GenerateNetpol
  <2>1. /\ step = "gen-networkpolicy" /\ step' = "opa-aws"
        /\ files' \in [acl : Graphs, pods : Graphs, base : Graphs]
        /\ UNCHANGED <<graph, net, acl, current>>
        BY <1>6 DEF GenerateNetpol, RolloutIInv, RolloutTyped
  <2>2. Applying' /\ UpToDate'
        BY <1>1, <1>2, <2>1 DEF RolloutIInv, Applying, UpToDate
  <2>. QED
        BY <2>1, <2>2 DEF RolloutIInv, RolloutTyped, NamesDiffer
<1>7. CASE ApplyAcl("aws", "opa-aws", "opa-openstack")
      BY <1>1, <1>2, <1>7, AclApplied
<1>8. CASE ApplyAcl("openstack", "opa-openstack", "baseline-aws")
      BY <1>1, <1>2, <1>8, AclApplied
<1>9. CASE ApplyBaseline("aws", "baseline-aws", "baseline-openstack")
      BY <1>1, <1>2, <1>9, BaselineApplied
<1>10. CASE ApplyBaseline("openstack", "baseline-openstack", "pods-aws")
      BY <1>1, <1>2, <1>10, BaselineApplied
<1>11. CASE ApplyPods("aws", "pods-aws", "pods-openstack")
      BY <1>1, <1>2, <1>11, PodsApplied
<1>12. CASE ApplyPods("openstack", "pods-openstack", "done")
      BY <1>1, <1>2, <1>12, PodsApplied
<1>13. CASE FinishDeploy
  <2>1. /\ step = "done" /\ step' = "idle"
        /\ current' = ({files.acl, files.pods, files.base} = {graph})
        /\ UNCHANGED <<graph, files, net, acl>>
        BY <1>13 DEF FinishDeploy
  <2>2. \A c \in CloudClusters :
           HasAcl(files.acl, c) /\ HasBaseline(files.base, c) /\ HasPods(files.pods, c)
        BY <1>1, <1>2, <2>1 DEF RolloutIInv, Applying
  <2>3. current' => files.acl = graph /\ files.base = graph /\ files.pods = graph
        BY <2>1
  <2>4. UpToDate'
        BY <2>1, <2>2, <2>3 DEF UpToDate, HasAcl, HasBaseline, HasPods
  <2>5. Applying'
        BY <1>1, <1>2, <2>1 DEF Applying
  <2>. QED
        BY <2>1, <2>4, <2>5 DEF RolloutIInv, RolloutTyped, NamesDiffer
<1>14. CASE FailDeploy
  <2>1. /\ step # "idle" /\ step' = "idle"
        /\ UNCHANGED <<graph, files, net, acl, current>>
        BY <1>14 DEF FailDeploy
  <2>2. Applying' /\ UpToDate'
        BY <1>1, <1>2, <2>1 DEF RolloutIInv, Applying, UpToDate
  <2>. QED
        BY <2>1, <2>2 DEF RolloutIInv, RolloutTyped, NamesDiffer
<1>15. CASE UNCHANGED rolloutVars
      BY <1>15 DEF rolloutVars, RolloutIInv, RolloutTyped, NamesDiffer, Applying, UpToDate,
                   HasAcl, HasBaseline, HasPods
<1>. QED
      BY <1>3, <1>4, <1>5, <1>6, <1>7, <1>8, <1>9, <1>10, <1>11, <1>12, <1>13, <1>14, <1>15
         DEF RolloutNext

-----------------------------------------------------------------------------
\* What lets a pod of the home namespace in, once its cluster has the baseline
\* and the policies of the graph.
LEMMA WhoIsLetIn ==
    ASSUME RolloutIInv, NEW c \in CloudClusters, HasBaseline(graph, c), HasPods(graph, c),
           NEW src \in DOMAIN graph.workloads, NEW dst \in DOMAIN graph.workloads,
           Cluster(graph, src) = c, Cluster(graph, dst) = c,
           NsOf(graph, src) = Home, NsOf(graph, dst) = Home,
           NEW p, Reaches(graph, net, src, dst, p)
    PROVE  \/ \E e \in graph.edges : e.from = src /\ e.to = dst /\ p \in e.ports
           \/ \E e \in graph.edges : e.to = dst /\ e.cross
           \/ \E r \in graph.baseline[c].ingress : Covers(r, PodOf(graph, src), p)
           \/ LeftOver(graph, c, dst)
<1>. DEFINE base == GenBaseline(graph, c)
            to   == PodOf(graph, dst)
            seen == PodOf(graph, src)
<1>1. graph \in Graphs /\ net[c] \subseteq Policy /\ NamesDiffer(net[c])
      BY DEF RolloutIInv, RolloutTyped
<1>2. /\ base \in net[c] /\ base.ns = Home /\ base.app = Unset /\ base.name = "allow-baseline"
      /\ base.rules.ingress = graph.baseline[c].ingress /\ "ingress" \in DOMAIN base.rules
      BY DEF HasBaseline, GenBaseline
<1>3. /\ to.ns = Home /\ to.app \in {Unset, AppLabel(graph, dst)}
      /\ seen.ns = Home /\ seen.app \in {Unset, AppLabel(graph, src)} /\ seen.block = Unset
      BY <1>1, NamesOfPodsAssumption DEF PodOf, Pods
<1>4. Admits(net[c], to, "ingress", seen, p)
      BY DEF Reaches
<1>. HIDE DEF base, to, seen
<1>5. PICK q \in net[c] : /\ q.ns = Home /\ q.app \in {Unset, to.app}
                          /\ \E r \in q.rules["ingress"] : Covers(r, seen, p)
  <2>. DEFINE selecting == {q \in net[c] : /\ q.ns = to.ns /\ q.app \in {Unset, to.app}
                                           /\ "ingress" \in DOMAIN q.rules}
  <2>1. base \in selecting
        BY <1>2, <1>3
  <2>2. \E q \in selecting : \E r \in q.rules["ingress"] : Covers(r, seen, p)
        BY <1>4, <2>1 DEF Admits
  <2>. QED
        BY <1>3, <2>2
<1>6. WellNamed(q)
      BY <1>1, PoliciesWellNamed
<1>7. CASE q.app = Unset
  <2>1. q = base
        BY <1>1, <1>2, <1>5, <1>6, <1>7 DEF WellNamed, NamesDiffer
  <2>. QED
        BY <1>2, <1>5, <2>1 DEF seen
<1>8. CASE q.app # Unset
  <2>1. q.app = AppLabel(graph, dst) /\ q.name = AppLabel(graph, dst)
        BY <1>3, <1>5, <1>6, <1>8 DEF WellNamed
  <2>2. CASE \A e \in Intra(graph, c) : e.to # dst
        BY <1>5, <2>1, <2>2 DEF LeftOver
  <2>3. CASE \E e \in Intra(graph, c) : e.to = dst
    <3>. DEFINE own == PodPolicy(graph, c, dst)
    <3>1. own \in net[c]
          BY <2>3 DEF HasPods, GenForCluster
    <3>2. /\ own.ns = Home /\ own.name = AppLabel(graph, dst)
          /\ own.rules.ingress = Sources(graph, c, dst) \cup CrossSources(graph, c, dst)
          BY DEF PodPolicy
    <3>. HIDE DEF own
    <3>3. q = own
          BY <1>1, <1>5, <2>1, <3>1, <3>2 DEF NamesDiffer
    <3>4. PICK r \in Sources(graph, c, dst) \cup CrossSources(graph, c, dst) : Covers(r, seen, p)
          BY <1>5, <3>2, <3>3
    <3>5. CASE r \in CrossSources(graph, c, dst)
          BY <3>5 DEF CrossSources
    <3>6. CASE r \in Sources(graph, c, dst)
      <4>1. PICK e \in Intra(graph, c) :
               /\ e.to = dst
               /\ r = Rule({Pods(NsOf(graph, e.from), AppLabel(graph, e.from))}, e.ports)
            BY <3>6 DEF Sources
      <4>2. /\ e.from \in DOMAIN graph.workloads /\ Cluster(graph, e.from) = c
            /\ e \in graph.edges /\ e.ports # {}
            BY <1>1, IntraEnds
      <4>3. AppLabel(graph, e.from) # Unset
            BY <1>1, <4>2, LabelsAreNames
      <4>4. /\ p \in e.ports
            /\ Matches(Pods(NsOf(graph, e.from), AppLabel(graph, e.from)), seen)
            BY <3>4, <4>1, <4>2 DEF Covers, Rule
      <4>5. NsOf(graph, e.from) = Home /\ AppLabel(graph, e.from) = seen.app
            BY <1>3, <4>3, <4>4, UnsetIsNoName DEF Matches, Pods, Anywhere, Block
      <4>6. e.from = src
            BY <1>1, <1>3, <4>2, <4>3, <4>5, NamesOfPodsAssumption
      <4>. QED
            BY <4>1, <4>2, <4>4, <4>6
    <3>. QED
          BY <3>4, <3>5, <3>6
  <2>. QED
        BY <2>2, <2>3
<1>. QED
      BY <1>7, <1>8

\* An edge or a port taken out of the graph is shut in both clusters, and gone
\* from what OPA reads, when a deployment has gone through with the graph: for
\* any revisions of the graph, after any deployments that stopped half-way or
\* applied the files of another one (deploy-crapi.sh:250-259, 358-365).
THEOREM RemovedEdges == RolloutSpec => []RemovedEdgesRefused
<1>1. RolloutIInv => RemovedEdgesRefused
  <2>. SUFFICES ASSUME RolloutIInv, current, NEW c \in CloudClusters
                PROVE  /\ acl[c] = GenRegoAcl(graph)
                       /\ \A src, dst \in {w \in DOMAIN graph.workloads :
                                              Cluster(graph, w) = c /\ NsOf(graph, w) = Home},
                             p \in AllPorts :
                            Reaches(graph, net, src, dst, p) =>
                              \/ \E e \in graph.edges : e.from = src /\ e.to = dst /\ p \in e.ports
                              \/ \E e \in graph.edges : e.to = dst /\ e.cross
                              \/ \E r \in graph.baseline[c].ingress :
                                    Covers(r, PodOf(graph, src), p)
                              \/ LeftOver(graph, c, dst)
        BY DEF RemovedEdgesRefused
  <2>1. HasAcl(graph, c) /\ HasBaseline(graph, c) /\ HasPods(graph, c)
        BY DEF RolloutIInv, UpToDate
  <2>. QED
        BY <2>1, WhoIsLetIn DEF HasAcl
<1>. QED
      BY <1>1, RolloutInitIInv, RolloutNextIInv, PTL DEF RolloutSpec

-----------------------------------------------------------------------------
\* The edges that are to go on working.

\* The label a policy selects the destination by, in every revision that
\* declares the edge.
LabelOf(d) == IF d.dst.label # Unset THEN d.dst.label ELSE d.dst.account

KeepsAcl(d) == d.edge.l4only \/ <<d.edge.from, d.edge.to>> \in acl[d.dst.cluster]

\* Every cluster has the baseline of a revision that declares the edge.
KeepsBaseline(d) ==
    \A c \in CloudClusters :
        \E h \in Graphs : d \in Declared(h) /\ GenBaseline(h, c) \in net[c]

\* The destination has the policy of a revision that declares the edge and
\* calls it from its own cluster ...
Guarded(d) ==
    \E h \in Graphs :
        /\ d \in Declared(h)
        /\ \E i \in Intra(h, d.dst.cluster) : i.to = d.edge.to
        /\ PodPolicy(h, d.dst.cluster, d.edge.to) \in net[d.dst.cluster]

\* ... or nothing selects it.
Open(d) ==
    /\ d.edge.cross /\ d.dst.ns # Home
    /\ \A p \in net[d.dst.cluster] : ~ (p.ns = d.dst.ns /\ p.app = LabelOf(d))

StableInv ==
    \A d \in stable :
        /\ d \in Declared(graph) /\ d \in Declared(files.acl)
        /\ d \in Declared(files.pods) /\ d \in Declared(files.base)
        /\ KeepsAcl(d) /\ KeepsBaseline(d)
        /\ Guarded(d) \/ Open(d)

\* An edge belongs to its two ends as it was declared with them.
LEMMA DeclaredEnds ==
    ASSUME NEW g \in Graphs, NEW d \in Declared(g)
    PROVE  /\ d.edge \in g.edges /\ d.edge.ports # {} /\ Known(g, d.edge)
           /\ d.edge.from \in DOMAIN g.workloads /\ d.edge.to \in DOMAIN g.workloads
           /\ d.src = g.workloads[d.edge.from] /\ d.dst = g.workloads[d.edge.to]
           /\ d.src.cluster \in CloudClusters /\ d.dst.cluster \in CloudClusters
           /\ Cluster(g, d.edge.from) = d.src.cluster /\ Cluster(g, d.edge.to) = d.dst.cluster
           /\ NsOf(g, d.edge.from) = d.src.ns /\ NsOf(g, d.edge.to) = d.dst.ns
           /\ AppLabel(g, d.edge.to) = LabelOf(d)
           /\ d.edge.cross <=> d.src.cluster # d.dst.cluster
           /\ d.dst.pod = LabelOf(d)
<1>1. PICK e \in g.edges : d = [edge |-> e, src |-> g.workloads[e.from], dst |-> g.workloads[e.to]]
      BY DEF Declared
<1>2. Known(g, e) /\ e.ports # {} /\ e.from \in DOMAIN g.workloads /\ e.to \in DOMAIN g.workloads
      BY GraphsAssumption DEF Known
<1>3. Cluster(g, e.from) \in CloudClusters /\ Cluster(g, e.to) \in CloudClusters
      BY <1>2, GraphsAssumption
<1>4. /\ e.cross <=> Cluster(g, e.from) # Cluster(g, e.to)
      /\ g.workloads[e.to].pod = AppLabel(g, e.to)
      BY EdgesAssumption
<1>5. AppLabel(g, e.to) = LabelOf(d)
      BY <1>1 DEF AppLabel, LabelOf
<1>. QED
      BY <1>1, <1>2, <1>3, <1>4, <1>5 DEF Cluster, NsOf

\* An edge within a cluster is one the generator keeps.
LEMMA DeclaredIntra ==
    ASSUME NEW g \in Graphs, NEW d \in Declared(g), ~ d.edge.cross
    PROVE  d.edge \in Intra(g, d.dst.cluster)
BY DeclaredEnds DEF Intra

LEMMA OwnPolicy ==
    ASSUME NEW g \in Graphs, NEW d \in Declared(g),
           NEW q, q = PodPolicy(g, d.dst.cluster, d.edge.to)
    PROVE  /\ q.ns = d.dst.ns /\ q.name = LabelOf(d) /\ q.app = LabelOf(d)
           /\ d.dst.ns = Home => q.name # "allow-baseline"
           /\ "ingress" \in DOMAIN q.rules
           /\ q.rules["ingress"] = Sources(g, d.dst.cluster, d.edge.to)
                                      \cup CrossSources(g, d.dst.cluster, d.edge.to)
<1>1. /\ NsOf(g, d.edge.to) = d.dst.ns /\ AppLabel(g, d.edge.to) = LabelOf(d)
      /\ d.edge.to \in DOMAIN g.workloads
      BY DeclaredEnds
<1>. QED
      BY <1>1, LabelsAreNames DEF PodPolicy

\* Where two revisions are applied one after the other, the destination has
\* the later one's policy or none of its name comes with it.
LEMMA OwnPolicyInFile ==
    ASSUME NEW g \in Graphs, NEW d \in Declared(g),
           NEW q \in GenForCluster(g, d.dst.cluster), q.ns = d.dst.ns, q.app = LabelOf(d)
    PROVE  /\ q = PodPolicy(g, d.dst.cluster, d.edge.to)
           /\ \E i \in Intra(g, d.dst.cluster) : i.to = d.edge.to
<1>1. PICK i \in Intra(g, d.dst.cluster) : q = PodPolicy(g, d.dst.cluster, i.to)
      BY DEF GenForCluster
<1>2. /\ NsOf(g, i.to) = NsOf(g, d.edge.to) /\ AppLabel(g, i.to) = AppLabel(g, d.edge.to)
      /\ Cluster(g, i.to) = Cluster(g, d.edge.to)
      /\ i.to \in DOMAIN g.workloads /\ d.edge.to \in DOMAIN g.workloads
  <2>1. q.ns = NsOf(g, i.to) /\ q.app = AppLabel(g, i.to)
        BY <1>1 DEF PodPolicy
  <2>2. i.to \in DOMAIN g.workloads /\ Cluster(g, i.to) = d.dst.cluster
        BY IntraEnds
  <2>3. /\ d.edge.to \in DOMAIN g.workloads /\ Cluster(g, d.edge.to) = d.dst.cluster
        /\ NsOf(g, d.edge.to) = d.dst.ns /\ AppLabel(g, d.edge.to) = LabelOf(d)
        BY DeclaredEnds
  <2>. QED
        BY <2>1, <2>2, <2>3
<1>3. i.to = d.edge.to
      BY <1>2, NamesOfPodsAssumption
<1>. QED
      BY <1>1, <1>3

LEMMA BaselineOf ==
    ASSUME NEW h \in Graphs, NEW c, NEW b, b = GenBaseline(h, c)
    PROVE  /\ b.ns = Home /\ b.name = "allow-baseline" /\ b.app = Unset
           /\ DOMAIN b.rules = {"ingress", "egress"}
           /\ b.rules["ingress"] = h.baseline[c].ingress
           /\ b.rules["egress"] =
                 MergeIntraNsEgress(h.baseline[c].egress, IntraNsEgressPorts(h, c))
                    \cup CrossCloudEgress(h, c)
BY DEF GenBaseline

\* Only a baseline selects every pod, or is about egress.
LEMMA OnlyBaselines ==
    ASSUME NEW p \in Policy
    PROVE  p.app = Unset \/ "egress" \in DOMAIN p.rules => p.ns = Home
<1>1. CASE \E g \in Graphs, c \in CloudClusters : p = GenBaseline(g, c)
      BY <1>1, BaselineOf
<1>2. CASE \E g \in Graphs, c \in CloudClusters : p \in GenForCluster(g, c)
  <2>1. PICK g \in Graphs, c \in CloudClusters : p \in GenForCluster(g, c)
        BY <1>2
  <2>2. PICK e \in Intra(g, c) : p = PodPolicy(g, c, e.to)
        BY <2>1 DEF GenForCluster
  <2>3. p.app = AppLabel(g, e.to) /\ DOMAIN p.rules = {"ingress"}
        BY <2>2 DEF PodPolicy
  <2>4. AppLabel(g, e.to) # Unset
        BY IntraEnds, LabelsAreNames
  <2>. QED
        BY <2>3, <2>4
<1>. QED
      BY <1>1, <1>2 DEF Policy

-----------------------------------------------------------------------------
\* The egress of a baseline.

LEMMA MergedCovers ==
    ASSUME NEW rules, NEW derived, NEW r \in rules, NEW seen, NEW p, Covers(r, seen, p)
    PROVE  \E s \in MergeIntraNsEgress(rules, derived) : Covers(s, seen, p)
<1>. DEFINE own   == {s \in rules : Ns(Home) \in s.peers /\ s.ports # {}}
            first == CHOOSE s \in own : TRUE
<1>1. CASE own # {} /\ r = first
  <2>1. Rule(r.peers, r.ports \cup derived) \in MergeIntraNsEgress(rules, derived)
        BY <1>1 DEF MergeIntraNsEgress
  <2>2. r \in own
        BY <1>1
  <2>3. Covers(Rule(r.peers, r.ports \cup derived), seen, p)
        BY <2>2 DEF Covers, Rule
  <2>. QED
        BY <2>1, <2>3
<1>2. CASE ~ (own # {} /\ r = first)
      BY <1>2 DEF MergeIntraNsEgress
<1>. QED
      BY <1>1, <1>2

LEMMA MergedHome ==
    ASSUME NEW rules, NEW derived, NEW seen, NEW p \in derived,
           seen.ns = Home, seen.block = Unset
    PROVE  \E s \in MergeIntraNsEgress(rules, derived) : Covers(s, seen, p)
<1>. DEFINE own   == {s \in rules : Ns(Home) \in s.peers /\ s.ports # {}}
            first == CHOOSE s \in own : TRUE
<1>1. Matches(Ns(Home), seen)
      BY DEF Matches, Ns, Pods
<1>2. CASE own # {}
  <2>1. first \in own
        BY <1>2
  <2>2. Rule(first.peers, first.ports \cup derived) \in MergeIntraNsEgress(rules, derived)
        BY <1>2 DEF MergeIntraNsEgress
  <2>3. Covers(Rule(first.peers, first.ports \cup derived), seen, p)
        BY <1>1, <2>1 DEF Covers, Rule
  <2>. QED
        BY <2>2, <2>3
<1>3. CASE own = {}
  <2>1. Rule({Ns(Home)}, derived) \in MergeIntraNsEgress(rules, derived)
        BY <1>3 DEF MergeIntraNsEgress
  <2>2. Covers(Rule({Ns(Home)}, derived), seen, p)
        BY <1>1 DEF Covers, Rule
  <2>. QED
        BY <2>1, <2>2
<1>. QED
      BY <1>2, <1>3

\* How a pod is seen across the clouds.
LEMMA AcrossCovers ==
    ASSUME NEW h \in Graphs, NEW d \in Declared(h), d.edge.cross, NEW p \in d.edge.ports
    PROVE  \E r \in CrossCloudEgress(h, d.src.cluster) : Covers(r, Block(d.dst.cluster), p)
<1>. DEFINE c   == d.src.cluster
            to  == d.dst.cluster
            out == {e \in h.edges : e.cross /\ Known(h, e) /\ Cluster(h, e.from) = c}
            portsTo(x) == UNION {e.ports : e \in {e \in out : Cluster(h, e.to) = x}}
<1>1. d.edge \in out /\ Cluster(h, d.edge.to) = to
      BY DeclaredEnds
<1>2. p \in portsTo(to)
      BY <1>1
<1>3. Rule({Block(to)}, portsTo(to)) \in CrossCloudEgress(h, c)
  <2>1. CrossCloudEgress(h, c) =
           {Rule({Block(x)}, portsTo(x)) : x \in {Cluster(h, e.to) : e \in out}}
        BY DEF CrossCloudEgress
  <2>2. to \in {Cluster(h, e.to) : e \in out}
        BY <1>1
  <2>. HIDE DEF out, portsTo, to, c
  <2>. QED
        BY <2>1, <2>2
<1>4. to # Unset
  <2>1. Unset # "aws" /\ Unset # "openstack"
        BY Zenon DEF Unset
  <2>. QED
        BY <2>1, DeclaredEnds DEF CloudClusters
<1>. HIDE DEF portsTo, to
<1>5. Matches(Block(to), Block(to))
      BY <1>4 DEF Matches, Block
<1>6. Covers(Rule({Block(to)}, portsTo(to)), Block(to), p)
      BY <1>2, <1>5 DEF Covers, Rule
<1>. QED
      BY <1>3, <1>6 DEF to

-----------------------------------------------------------------------------
\* What a policy that stays or is replaced means for an edge that stays.

LEMMA Stays ==
    ASSUME NEW old, NEW file, NEW p \in old,
           \A q \in file : ~ (q.ns = p.ns /\ q.name = p.name)
    PROVE  p \in Applied(old, file)
BY DEF Applied

\* Another baseline leaves the destination's policy alone.
LEMMA GuardedByBaseline ==
    ASSUME NEW d, NEW h \in Graphs, d \in Declared(h), NEW g \in Graphs, NEW c,
           NEW old, NEW q, q = PodPolicy(h, d.dst.cluster, d.edge.to), q \in old
    PROVE  q \in Applied(old, {GenBaseline(g, c)})
<1>1. q.ns = d.dst.ns /\ (d.dst.ns = Home => q.name # "allow-baseline")
      BY OwnPolicy
<1>2. GenBaseline(g, c).ns = Home /\ GenBaseline(g, c).name = "allow-baseline"
      BY BaselineOf
<1>. QED
      BY <1>1, <1>2, Stays

\* A file of pod policies replaces it by its own or leaves it alone.
LEMMA GuardedByPods ==
    ASSUME NEW d, NEW h \in Graphs, d \in Declared(h), NEW g \in Graphs, d \in Declared(g),
           NEW old, PodPolicy(h, d.dst.cluster, d.edge.to) \in old
    PROVE  \/ PodPolicy(h, d.dst.cluster, d.edge.to)
                 \in Applied(old, GenForCluster(g, d.dst.cluster))
           \/ /\ \E i \in Intra(g, d.dst.cluster) : i.to = d.edge.to
              /\ PodPolicy(g, d.dst.cluster, d.edge.to)
                    \in Applied(old, GenForCluster(g, d.dst.cluster))
<1>. DEFINE c    == d.dst.cluster
            own  == PodPolicy(h, c, d.edge.to)
            file == GenForCluster(g, c)
<1>1. own.ns = d.dst.ns /\ own.name = LabelOf(d)
      BY OwnPolicy
<1>2. CASE \E q \in file : q.ns = own.ns /\ q.name = own.name
  <2>1. PICK q \in file : q.ns = own.ns /\ q.name = own.name
        BY <1>2
  <2>2. q.app = q.name
    <3>1. \E i \in Intra(g, c) : q = PodPolicy(g, c, i.to)
          BY DEF GenForCluster
    <3>. QED
          BY <3>1 DEF PodPolicy
  <2>3. /\ q = PodPolicy(g, c, d.edge.to)
        /\ \E i \in Intra(g, c) : i.to = d.edge.to
        BY <1>1, <2>1, <2>2, OwnPolicyInFile
  <2>4. q \in Applied(old, file)
        BY DEF Applied
  <2>. QED
        BY <2>3, <2>4
<1>3. CASE \A q \in file : ~ (q.ns = own.ns /\ q.name = own.name)
  <2>. HIDE DEF own, file
  <2>1. own \in Applied(old, file)
        BY <1>3, Stays DEF own
  <2>. QED
        BY <2>1 DEF own, file
<1>. QED
      BY <1>2, <1>3

\* An open destination stays open, or gets a policy that lets the edge in.
LEMMA OpenToPods ==
    ASSUME NEW d, NEW g \in Graphs, d \in Declared(g), NEW old,
           \A p \in old : ~ (p.ns = d.dst.ns /\ p.app = LabelOf(d))
    PROVE  \/ \A p \in Applied(old, GenForCluster(g, d.dst.cluster)) :
                 ~ (p.ns = d.dst.ns /\ p.app = LabelOf(d))
           \/ /\ \E i \in Intra(g, d.dst.cluster) : i.to = d.edge.to
              /\ PodPolicy(g, d.dst.cluster, d.edge.to)
                    \in Applied(old, GenForCluster(g, d.dst.cluster))
<1>. DEFINE file == GenForCluster(g, d.dst.cluster)
<1>1. \A p \in Applied(old, file) : p \in old \/ p \in file
      BY DEF Applied
<1>2. file \subseteq Applied(old, file)
      BY DEF Applied
<1>3. CASE \E q \in file : q.ns = d.dst.ns /\ q.app = LabelOf(d)
      BY <1>2, <1>3, OwnPolicyInFile
<1>4. CASE \A q \in file : ~ (q.ns = d.dst.ns /\ q.app = LabelOf(d))
      BY <1>1, <1>4
<1>. QED
      BY <1>3, <1>4

-----------------------------------------------------------------------------

LEMMA StableAclApplied ==
    ASSUME RolloutIInv, StableInv, NEW c \in CloudClusters, NEW at, NEW next,
           ApplyAcl(c, at, next)
    PROVE  StableInv'
<1>1. /\ acl' = [acl EXCEPT ![c] = GenRegoAcl(files.acl)]
      /\ UNCHANGED <<graph, files, net, stable>>
      BY DEF ApplyAcl
<1>2. acl'[c] = GenRegoAcl(files.acl) /\ \A x \in CloudClusters \ {c} : acl'[x] = acl[x]
      BY <1>1 DEF RolloutIInv, RolloutTyped
<1>. SUFFICES ASSUME NEW d \in stable
              PROVE  /\ d \in Declared(graph) /\ d \in Declared(files.acl)
                     /\ d \in Declared(files.pods) /\ d \in Declared(files.base)
                     /\ KeepsAcl(d)' /\ KeepsBaseline(d)' /\ (Guarded(d) \/ Open(d))'
      BY <1>1 DEF StableInv
<1>3. /\ d \in Declared(graph) /\ d \in Declared(files.acl)
      /\ d \in Declared(files.pods) /\ d \in Declared(files.base)
      /\ KeepsAcl(d) /\ KeepsBaseline(d) /\ (Guarded(d) \/ Open(d))
      BY DEF StableInv
<1>4. d.edge \in files.acl.edges /\ d.dst.cluster \in CloudClusters
      BY <1>3, DeclaredEnds DEF RolloutIInv, RolloutTyped
<1>5. d.edge.l4only \/ <<d.edge.from, d.edge.to>> \in GenRegoAcl(files.acl)
      BY <1>4 DEF GenRegoAcl
<1>6. KeepsAcl(d)'
      BY <1>2, <1>3, <1>4, <1>5 DEF KeepsAcl
<1>7. KeepsBaseline(d)' /\ (Guarded(d) \/ Open(d))'
      BY <1>1, <1>3 DEF KeepsBaseline, Guarded, Open
<1>. QED
      BY <1>3, <1>6, <1>7

LEMMA StableBaselineApplied ==
    ASSUME RolloutIInv, StableInv, NEW c \in CloudClusters, NEW at, NEW next,
           ApplyBaseline(c, at, next)
    PROVE  StableInv'
<1>1. /\ net' = [net EXCEPT ![c] = Applied(@, {GenBaseline(files.base, c)})]
      /\ UNCHANGED <<graph, files, acl, stable>>
      BY DEF ApplyBaseline
<1>2. /\ net'[c] = Applied(net[c], {GenBaseline(files.base, c)})
      /\ \A x \in CloudClusters \ {c} : net'[x] = net[x]
      BY <1>1 DEF RolloutIInv, RolloutTyped
<1>3. files.base \in Graphs
      BY DEF RolloutIInv, RolloutTyped
<1>. SUFFICES ASSUME NEW d \in stable
              PROVE  /\ d \in Declared(graph) /\ d \in Declared(files.acl)
                     /\ d \in Declared(files.pods) /\ d \in Declared(files.base)
                     /\ KeepsAcl(d)' /\ KeepsBaseline(d)' /\ (Guarded(d) \/ Open(d))'
      BY <1>1 DEF StableInv
<1>4. /\ d \in Declared(graph) /\ d \in Declared(files.acl)
      /\ d \in Declared(files.pods) /\ d \in Declared(files.base)
      /\ KeepsAcl(d) /\ KeepsBaseline(d) /\ (Guarded(d) \/ Open(d))
      BY DEF StableInv
<1>5. KeepsAcl(d)'
      BY <1>1, <1>4 DEF KeepsAcl
<1>6. KeepsBaseline(d)'
  <2>1. GenBaseline(files.base, c) \in net'[c]
        BY <1>2 DEF Applied
  <2>. QED
        BY <1>2, <1>3, <1>4, <2>1 DEF KeepsBaseline
<1>7. ASSUME Guarded(d) PROVE Guarded(d)'
  <2>1. PICK h \in Graphs :
           /\ d \in Declared(h)
           /\ \E i \in Intra(h, d.dst.cluster) : i.to = d.edge.to
           /\ PodPolicy(h, d.dst.cluster, d.edge.to) \in net[d.dst.cluster]
        BY <1>7 DEF Guarded
  <2>2. d.dst.cluster \in CloudClusters
        BY <2>1, DeclaredEnds
  <2>3. PodPolicy(h, d.dst.cluster, d.edge.to) \in net'[d.dst.cluster]
        BY <1>2, <1>3, <2>1, <2>2, GuardedByBaseline
  <2>. QED
        BY <2>1, <2>3 DEF Guarded
<1>8. ASSUME Open(d) PROVE Open(d)'
  <2>1. d.dst.cluster \in CloudClusters
        BY <1>4, DeclaredEnds DEF RolloutIInv, RolloutTyped
  <2>2. GenBaseline(files.base, c).ns = Home
        BY <1>3, BaselineOf
  <2>3. \A p \in Applied(net[c], {GenBaseline(files.base, c)}) : p \in net[c] \/ p.ns = Home
        BY <2>2 DEF Applied
  <2>. QED
        BY <1>2, <1>8, <2>1, <2>3 DEF Open
<1>. QED
      BY <1>4, <1>5, <1>6, <1>7, <1>8

LEMMA StablePodsApplied ==
    ASSUME RolloutIInv, StableInv, NEW c \in CloudClusters, NEW at, NEW next,
           ApplyPods(c, at, next)
    PROVE  StableInv'
<1>1. /\ net' = [net EXCEPT ![c] = Applied(@, GenForCluster(files.pods, c))]
      /\ UNCHANGED <<graph, files, acl, stable>>
      BY DEF ApplyPods
<1>2. /\ net'[c] = Applied(net[c], GenForCluster(files.pods, c))
      /\ \A x \in CloudClusters \ {c} : net'[x] = net[x]
      /\ \A x \in CloudClusters : net[x] \in SUBSET Policy
      BY <1>1 DEF RolloutIInv, RolloutTyped
<1>3. files.pods \in Graphs /\ graph \in Graphs
      BY DEF RolloutIInv, RolloutTyped
<1>. SUFFICES ASSUME NEW d \in stable
              PROVE  /\ d \in Declared(graph) /\ d \in Declared(files.acl)
                     /\ d \in Declared(files.pods) /\ d \in Declared(files.base)
                     /\ KeepsAcl(d)' /\ KeepsBaseline(d)' /\ (Guarded(d) \/ Open(d))'
      BY <1>1 DEF StableInv
<1>4. /\ d \in Declared(graph) /\ d \in Declared(files.acl)
      /\ d \in Declared(files.pods) /\ d \in Declared(files.base)
      /\ KeepsAcl(d) /\ KeepsBaseline(d) /\ (Guarded(d) \/ Open(d))
      BY DEF StableInv
<1>5. KeepsAcl(d)'
      BY <1>1, <1>4 DEF KeepsAcl
<1>6. KeepsBaseline(d)'
  <2>. SUFFICES ASSUME NEW x \in CloudClusters
                PROVE  \E h \in Graphs : d \in Declared(h) /\ GenBaseline(h, x) \in net'[x]
        BY DEF KeepsBaseline
  <2>1. PICK h \in Graphs : d \in Declared(h) /\ GenBaseline(h, x) \in net[x]
        BY <1>4 DEF KeepsBaseline
  <2>2. GenBaseline(h, x) \in net'[x]
        BY <1>2, <1>3, <2>1, BaselineStays
  <2>. QED
        BY <2>1, <2>2
<1>7. d.dst.cluster \in CloudClusters
      BY <1>3, <1>4, DeclaredEnds
<1>8. ASSUME d.dst.cluster # c PROVE (Guarded(d) \/ Open(d))'
  <2>1. net'[d.dst.cluster] = net[d.dst.cluster]
        BY <1>2, <1>7, <1>8
  <2>2. CASE Guarded(d)
        BY <2>1, <2>2 DEF Guarded
  <2>3. CASE Open(d)
        BY <2>1, <2>3 DEF Open
  <2>. QED
        BY <1>4, <2>2, <2>3
<1>9. ASSUME d.dst.cluster = c PROVE (Guarded(d) \/ Open(d))'
  <2>1. ASSUME Guarded(d) PROVE Guarded(d)'
    <3>1. PICK h \in Graphs :
             /\ d \in Declared(h)
             /\ \E i \in Intra(h, d.dst.cluster) : i.to = d.edge.to
             /\ PodPolicy(h, d.dst.cluster, d.edge.to) \in net[d.dst.cluster]
          BY <2>1 DEF Guarded
    <3>2. \/ PodPolicy(h, d.dst.cluster, d.edge.to) \in net'[d.dst.cluster]
          \/ /\ \E i \in Intra(files.pods, d.dst.cluster) : i.to = d.edge.to
             /\ PodPolicy(files.pods, d.dst.cluster, d.edge.to) \in net'[d.dst.cluster]
          BY <1>2, <1>3, <1>4, <1>9, <3>1, GuardedByPods
    <3>. QED
          BY <1>3, <1>4, <3>1, <3>2 DEF Guarded
  <2>2. ASSUME Open(d) PROVE (Guarded(d) \/ Open(d))'
    <3>1. \/ \A p \in net'[d.dst.cluster] : ~ (p.ns = d.dst.ns /\ p.app = LabelOf(d))
          \/ /\ \E i \in Intra(files.pods, d.dst.cluster) : i.to = d.edge.to
             /\ PodPolicy(files.pods, d.dst.cluster, d.edge.to) \in net'[d.dst.cluster]
      <4>1. \A p \in net[d.dst.cluster] : ~ (p.ns = d.dst.ns /\ p.app = LabelOf(d))
            BY <2>2 DEF Open
      <4>2. net'[d.dst.cluster] = Applied(net[d.dst.cluster],
                                          GenForCluster(files.pods, d.dst.cluster))
            BY <1>2, <1>9
      <4>. QED
            BY <1>3, <1>4, <4>1, <4>2, OpenToPods
    <3>. QED
          BY <1>3, <1>4, <2>2, <3>1 DEF Guarded, Open
  <2>. QED
        BY <1>4, <2>1, <2>2
<1>. QED
      BY <1>4, <1>5, <1>6, <1>8, <1>9

\* The edges that a complete deployment has opened.
LEMMA StableFinished ==
    ASSUME RolloutIInv, StableInv, FinishDeploy
    PROVE  StableInv'
<1>1. /\ step = "done" /\ UNCHANGED <<graph, files, net, acl>>
      /\ stable' = { d \in Declared(graph) \cap Declared(files.acl)
                               \cap Declared(files.pods) \cap Declared(files.base) :
                       ~ ShutOff(files.pods, d.edge) }
      BY DEF FinishDeploy
<1>2. /\ graph \in Graphs /\ files.acl \in Graphs
      /\ files.pods \in Graphs /\ files.base \in Graphs
      BY DEF RolloutIInv, RolloutTyped
<1>3. \A c \in CloudClusters :
         HasAcl(files.acl, c) /\ HasBaseline(files.base, c) /\ HasPods(files.pods, c)
      BY <1>1 DEF RolloutIInv, Applying, AfterAcl, AfterBaseline, AfterPods
<1>. SUFFICES ASSUME NEW d \in stable'
              PROVE  /\ d \in Declared(graph) /\ d \in Declared(files.acl)
                     /\ d \in Declared(files.pods) /\ d \in Declared(files.base)
                     /\ KeepsAcl(d) /\ KeepsBaseline(d) /\ (Guarded(d) \/ Open(d))
  <2>1. \A d \in stable' : /\ KeepsAcl(d)' <=> KeepsAcl(d)
                           /\ KeepsBaseline(d)' <=> KeepsBaseline(d)
                           /\ Guarded(d)' <=> Guarded(d)
                           /\ Open(d)' <=> Open(d)
        BY <1>1 DEF KeepsAcl, KeepsBaseline, Guarded, Open
  <2>. QED
        BY <1>1, <2>1 DEF StableInv
<1>4. /\ d \in Declared(graph) /\ d \in Declared(files.acl)
      /\ d \in Declared(files.pods) /\ d \in Declared(files.base)
      /\ ~ ShutOff(files.pods, d.edge)
      BY <1>1
<1>5. d.edge \in files.acl.edges /\ d.dst.cluster \in CloudClusters
      BY <1>2, <1>4, DeclaredEnds
<1>6. KeepsAcl(d)
      BY <1>3, <1>5 DEF KeepsAcl, HasAcl, GenRegoAcl
<1>7. KeepsBaseline(d)
      BY <1>2, <1>3, <1>4 DEF KeepsBaseline, HasBaseline
<1>8. CASE \E i \in Intra(files.pods, d.dst.cluster) : i.to = d.edge.to
  <2>1. PodPolicy(files.pods, d.dst.cluster, d.edge.to) \in net[d.dst.cluster]
        BY <1>3, <1>5, <1>8 DEF HasPods, GenForCluster
  <2>. QED
        BY <1>2, <1>4, <1>6, <1>7, <1>8, <2>1 DEF Guarded
<1>9. CASE \A i \in Intra(files.pods, d.dst.cluster) : i.to # d.edge.to
  <2>1. d.edge.cross
        BY <1>2, <1>4, <1>9, DeclaredIntra
  <2>2. /\ Cluster(files.pods, d.edge.to) = d.dst.cluster
        /\ NsOf(files.pods, d.edge.to) = d.dst.ns /\ AppLabel(files.pods, d.edge.to) = LabelOf(d)
        BY <1>2, <1>4, DeclaredEnds
  <2>3. Open(d)
        BY <1>4, <1>9, <2>1, <2>2 DEF ShutOff, LeftOver, Open
  <2>. QED
        BY <1>4, <1>6, <1>7, <2>3
<1>. QED
      BY <1>8, <1>9

StableIInv == RolloutIInv /\ StableInv

LEMMA StableNext == StableIInv /\ [RolloutNext]_rolloutVars => StableIInv'
<1>. SUFFICES ASSUME RolloutIInv, StableInv, [RolloutNext]_rolloutVars PROVE StableInv'
      BY RolloutNextIInv DEF StableIInv
<1>1. CASE EditGraph
  <2>1. /\ stable' = stable \cap Declared(graph')
        /\ UNCHANGED <<files, net, acl>>
        BY <1>1 DEF EditGraph
  <2>. QED
        BY <2>1 DEF StableInv, KeepsAcl, KeepsBaseline, Guarded, Open
<1>2. CASE StartDeploy
      BY <1>2 DEF StartDeploy, StableInv, KeepsAcl, KeepsBaseline, Guarded, Open
<1>3. CASE GenerateAcl
  <2>1. /\ files' = [files EXCEPT !.acl = graph]
        /\ UNCHANGED <<graph, net, acl, stable>>
        BY <1>3 DEF GenerateAcl
  <2>2. files'.acl = graph /\ files'.pods = files.pods /\ files'.base = files.base
        BY <2>1 DEF RolloutIInv, RolloutTyped
  <2>. QED
        BY <2>1, <2>2 DEF StableInv, KeepsAcl, KeepsBaseline, Guarded, Open
<1>4. CASE GenerateNetpol
  <2>1. /\ \/ files' = [files EXCEPT !.pods = graph, !.base = graph]
           \/ files' = [files EXCEPT !.pods = graph]
           \/ files' = files
        /\ UNCHANGED <<graph, net, acl, stable>>
        BY <1>4 DEF GenerateNetpol
  <2>2. /\ files'.acl = files.acl /\ files'.pods \in {files.pods, graph}
        /\ files'.base \in {files.base, graph}
        BY <2>1 DEF RolloutIInv, RolloutTyped
  <2>. QED
        BY <2>1, <2>2 DEF StableInv, KeepsAcl, KeepsBaseline, Guarded, Open
<1>5. CASE \/ ApplyAcl("aws", "opa-aws", "opa-openstack")
           \/ ApplyAcl("openstack", "opa-openstack", "baseline-aws")
      BY <1>5, StableAclApplied DEF CloudClusters
<1>6. CASE \/ ApplyBaseline("aws", "baseline-aws", "baseline-openstack")
           \/ ApplyBaseline("openstack", "baseline-openstack", "pods-aws")
      BY <1>6, StableBaselineApplied DEF CloudClusters
<1>7. CASE \/ ApplyPods("aws", "pods-aws", "pods-openstack")
           \/ ApplyPods("openstack", "pods-openstack", "done")
      BY <1>7, StablePodsApplied DEF CloudClusters
<1>8. CASE FinishDeploy
      BY <1>8, StableFinished
<1>9. CASE FailDeploy
      BY <1>9 DEF FailDeploy, StableInv, KeepsAcl, KeepsBaseline, Guarded, Open
<1>10. CASE UNCHANGED rolloutVars
      BY <1>10 DEF rolloutVars, StableInv, KeepsAcl, KeepsBaseline, Guarded, Open
<1>. QED
      BY <1>1, <1>2, <1>3, <1>4, <1>5, <1>6, <1>7, <1>8, <1>9, <1>10 DEF RolloutNext

-----------------------------------------------------------------------------
\* An edge that is kept so works.

\* Out of the caller: nothing selects it for egress, or the baseline of a
\* revision that declares the edge has a rule for it.
LEMMA LetsOut ==
    ASSUME RolloutIInv, StableInv, NEW d \in stable, NEW p \in d.edge.ports
    PROVE  Admits(net[d.src.cluster], PodOf(graph, d.edge.from), "egress",
                  IF d.edge.cross THEN Block(d.dst.cluster) ELSE PodOf(graph, d.edge.to), p)
<1>. DEFINE c    == d.src.cluster
            from == PodOf(graph, d.edge.from)
            seen == IF d.edge.cross THEN Block(d.dst.cluster) ELSE PodOf(graph, d.edge.to)
            selecting == {q \in net[c] : /\ q.ns = from.ns /\ q.app \in {Unset, from.app}
                                         /\ "egress" \in DOMAIN q.rules}
<1>1. /\ d \in Declared(graph) /\ graph \in Graphs /\ c \in CloudClusters
      /\ net[c] \in SUBSET Policy
      BY DeclaredEnds DEF StableInv, RolloutIInv, RolloutTyped
<1>2. from.ns = d.src.ns
      BY <1>1, DeclaredEnds DEF PodOf, Pods
<1>. SUFFICES selecting = {} \/ \E q \in selecting : \E r \in q.rules["egress"] : Covers(r, seen, p)
      BY DEF Admits
<1>3. CASE d.src.ns # Home
      BY <1>1, <1>2, <1>3, OnlyBaselines
<1>4. CASE d.src.ns = Home
  <2>1. PICK h \in Graphs : d \in Declared(h) /\ GenBaseline(h, c) \in net[c]
        BY <1>1 DEF StableInv, KeepsBaseline
  <2>. DEFINE b == GenBaseline(h, c)
  <2>2. /\ b \in selecting
        /\ b.rules["egress"] = MergeIntraNsEgress(h.baseline[c].egress, IntraNsEgressPorts(h, c))
                                  \cup CrossCloudEgress(h, c)
        BY <1>2, <1>4, <2>1, BaselineOf
  <2>. HIDE DEF b, selecting
  <2>3. CASE d.edge.cross
        BY <2>1, <2>2, <2>3, AcrossCovers
  <2>4. CASE ~ d.edge.cross
    <3>1. /\ seen = PodOf(graph, d.edge.to) /\ seen.ns = d.dst.ns /\ seen.block = Unset
          /\ seen = PodOf(h, d.edge.to) /\ d.dst.cluster = c
          BY <1>1, <2>1, <2>4, DeclaredEnds DEF PodOf, Pods
    <3>2. d.edge \in Intra(h, c)
          BY <2>1, <2>4, <3>1, DeclaredIntra
    <3>. HIDE DEF seen
    <3>3. CASE d.dst.ns = Home
      <4>1. p \in IntraNsEgressPorts(h, c)
            BY <1>4, <2>1, <3>2, <3>3, DeclaredEnds DEF IntraNsEgressPorts
      <4>. QED
            BY <2>2, <3>1, <3>3, <4>1, MergedHome
    <3>4. CASE d.dst.ns # Home
      <4>1. \E r \in h.baseline[c].egress : Covers(r, PodOf(h, d.edge.to), p)
        <5>1. /\ d.edge \in h.edges /\ NsOf(h, d.edge.from) = Home /\ NsOf(h, d.edge.to) # Home
              /\ Cluster(h, d.edge.to) = c
              BY <1>4, <2>1, <3>1, <3>4, DeclaredEnds
        <5>. QED
              BY <2>4, <5>1, EdgesAssumption
      <4>. QED
            BY <2>2, <3>1, <4>1, MergedCovers
    <3>. QED
          BY <3>3, <3>4
  <2>. QED
        BY <2>3, <2>4
<1>. QED
      BY <1>3, <1>4

\* Into the destination, when its cluster calls it.
LEMMA LetsIn ==
    ASSUME RolloutIInv, StableInv, NEW d \in stable, NEW p \in d.edge.ports, ~ d.edge.cross
    PROVE  Admits(net[d.dst.cluster], PodOf(graph, d.edge.to), "ingress",
                  PodOf(graph, d.edge.from), p)
<1>. DEFINE c    == d.dst.cluster
            to   == PodOf(graph, d.edge.to)
            seen == PodOf(graph, d.edge.from)
            selecting == {q \in net[c] : /\ q.ns = to.ns /\ q.app \in {Unset, to.app}
                                         /\ "ingress" \in DOMAIN q.rules}
<1>1. /\ d \in Declared(graph) /\ graph \in Graphs /\ c \in CloudClusters
      /\ Guarded(d) /\ KeepsBaseline(d)
      BY DeclaredEnds DEF StableInv, RolloutIInv, RolloutTyped, Open
<1>2. /\ to.ns = d.dst.ns /\ to.app = LabelOf(d)
      /\ seen = Pods(d.src.ns, d.src.pod)
      BY <1>1, DeclaredEnds DEF PodOf, Pods
<1>. SUFFICES \E q \in selecting : \E r \in q.rules["ingress"] : Covers(r, seen, p)
      BY DEF Admits
<1>. HIDE DEF to, seen
<1>3. PICK h \in Graphs : d \in Declared(h) /\ PodPolicy(h, c, d.edge.to) \in net[c]
      BY <1>1 DEF Guarded
<1>4. /\ d.edge \in h.edges /\ d.edge \in Intra(h, c) /\ d.edge.ports # {}
      /\ NsOf(h, d.edge.from) = d.src.ns /\ Cluster(h, d.edge.to) = c
      /\ h.workloads[d.edge.from] = d.src
      /\ NsOf(h, d.edge.to) = d.dst.ns
      BY <1>3, DeclaredEnds, DeclaredIntra
<1>5. CASE d.src.pod = AppLabel(h, d.edge.from)
  <2>. DEFINE q == PodPolicy(h, c, d.edge.to)
              r == Rule({Pods(d.src.ns, d.src.pod)}, d.edge.ports)
  <2>1. q \in selecting /\ r \in q.rules["ingress"]
    <3>1. q \in selecting /\ Sources(h, c, d.edge.to) \subseteq q.rules["ingress"]
          BY <1>2, <1>3, OwnPolicy
    <3>2. r \in Sources(h, c, d.edge.to)
          BY <1>4, <1>5 DEF Sources
    <3>. QED
          BY <3>1, <3>2
  <2>2. Covers(r, seen, p)
        BY <1>2 DEF Covers, Rule, Matches, Pods
  <2>. QED
        BY <2>1, <2>2
<1>6. CASE d.src.pod # AppLabel(h, d.edge.from)
  <2>1. d.dst.ns = Home
        BY <1>4, <1>6, EdgesAssumption
  <2>2. PICK g \in Graphs : d \in Declared(g) /\ GenBaseline(g, c) \in net[c]
        BY <1>1 DEF KeepsBaseline
  <2>3. /\ d.edge \in g.edges /\ Cluster(g, d.edge.to) = c
        /\ g.workloads[d.edge.from] = d.src
        /\ g.workloads[d.edge.from].pod # AppLabel(g, d.edge.from)
        /\ PodOf(g, d.edge.from) = seen
    <3>1. d.edge \in g.edges /\ Cluster(g, d.edge.to) = c /\ g.workloads[d.edge.from] = d.src
          /\ NsOf(g, d.edge.from) = d.src.ns
          BY <2>2, DeclaredEnds
    <3>2. AppLabel(g, d.edge.from) = AppLabel(h, d.edge.from)
          BY <1>4, <3>1 DEF AppLabel
    <3>. QED
          BY <1>2, <1>6, <3>1, <3>2 DEF PodOf
  <2>4. \E r \in g.baseline[c].ingress : Covers(r, seen, p)
        BY <2>2, <2>3, EdgesAssumption
  <2>. DEFINE b == GenBaseline(g, c)
  <2>5. b \in selecting /\ b.rules["ingress"] = g.baseline[c].ingress
        BY <1>2, <2>1, <2>2, BaselineOf
  <2>. HIDE DEF b, selecting
  <2>. QED
        BY <2>4, <2>5
<1>. QED
      BY <1>5, <1>6

\* Into the destination, from the other cluster.
LEMMA LetsInAcross ==
    ASSUME RolloutIInv, StableInv, NEW d \in stable, NEW p \in d.edge.ports, d.edge.cross
    PROVE  Admits(net[d.dst.cluster], PodOf(graph, d.edge.to), "ingress",
                  Block(d.dst.cluster), graph.behind[p])
<1>. DEFINE c    == d.dst.cluster
            to   == PodOf(graph, d.edge.to)
            seen == Block(c)
            port == graph.behind[p]
            selecting == {q \in net[c] : /\ q.ns = to.ns /\ q.app \in {Unset, to.app}
                                         /\ "ingress" \in DOMAIN q.rules}
<1>1. /\ d \in Declared(graph) /\ graph \in Graphs /\ c \in CloudClusters
      /\ Guarded(d) \/ Open(d)
      /\ net[c] \in SUBSET Policy
      BY DeclaredEnds DEF StableInv, RolloutIInv, RolloutTyped
<1>2. to.ns = d.dst.ns /\ to.app = LabelOf(d)
      BY <1>1, DeclaredEnds DEF PodOf, Pods
<1>. SUFFICES selecting = {} \/ \E q \in selecting : \E r \in q.rules["ingress"] : Covers(r, seen, port)
      BY DEF Admits
<1>. HIDE DEF to
<1>3. CASE Open(d)
      BY <1>1, <1>2, <1>3, OnlyBaselines DEF Open
<1>4. CASE Guarded(d)
  <2>1. PICK h \in Graphs : /\ d \in Declared(h)
                            /\ \E i \in Intra(h, c) : i.to = d.edge.to
                            /\ PodPolicy(h, c, d.edge.to) \in net[c]
        BY <1>4 DEF Guarded
  <2>. DEFINE q == PodPolicy(h, c, d.edge.to)
              r == Rule({Anywhere}, UNION {s.ports : s \in Sources(h, c, d.edge.to)})
  <2>2. d.edge \in h.edges /\ Cluster(h, d.edge.to) = c /\ Known(h, d.edge)
        BY <2>1, DeclaredEnds
  <2>3. PICK i \in Intra(h, c) : i.to = d.edge.to /\ port \in i.ports
        BY <1>1, <2>1, <2>2, EdgesAssumption
  <2>4. \E s \in Sources(h, c, d.edge.to) : s.ports = i.ports
    <3>. DEFINE s == Rule({Pods(NsOf(h, i.from), AppLabel(h, i.from))}, i.ports)
    <3>1. s \in Sources(h, c, d.edge.to)
          BY <2>3 DEF Sources
    <3>2. s.ports = i.ports
          BY DEF Rule
    <3>. QED
          BY <3>1, <3>2
  <2>5. port \in UNION {s.ports : s \in Sources(h, c, d.edge.to)}
        BY <2>3, <2>4
  <2>6. r \in CrossSources(h, c, d.edge.to)
        BY <2>2 DEF CrossSources
  <2>7. Covers(r, seen, port)
        BY <2>5 DEF Covers, Rule, Matches
  <2>8. q \in selecting /\ CrossSources(h, c, d.edge.to) \subseteq q.rules["ingress"]
        BY <1>2, <2>1, OwnPolicy
  <2>. HIDE DEF q, r, selecting
  <2>. QED
        BY <2>6, <2>7, <2>8
<1>. QED
      BY <1>1, <1>3, <1>4

\* An edge that the last complete deployment opened, and that every revision
\* since declares as it did, works at every moment and stays in what OPA
\* reads: for any revisions that are in order one by one (EdgesAssumption), in
\* any order, with deployments failing at any step (deploy-crapi.sh:250-259,
\* 358-365; gen-networkpolicy.py).
THEOREM StableEdges == RolloutSpec => []StableEdgesPass
<1>1. RolloutInit => StableIInv
      BY RolloutInitIInv DEF RolloutInit, StableIInv, StableInv
<1>2. StableIInv => StableEdgesPass
  <2>. SUFFICES ASSUME RolloutIInv, StableInv, NEW d \in stable
                PROVE  /\ \A p \in d.edge.ports : Reaches(graph, net, d.edge.from, d.edge.to, p)
                       /\ d.edge.l4only \/ <<d.edge.from, d.edge.to>> \in acl[Cluster(graph, d.edge.to)]
        BY DEF StableIInv, StableEdgesPass
  <2>1. /\ Cluster(graph, d.edge.from) = d.src.cluster /\ Cluster(graph, d.edge.to) = d.dst.cluster
        /\ d.edge.cross <=> d.src.cluster # d.dst.cluster
        BY DeclaredEnds DEF StableInv, RolloutIInv, RolloutTyped
  <2>2. ASSUME NEW p \in d.edge.ports
        PROVE  Reaches(graph, net, d.edge.from, d.edge.to, p)
    <3>1. CASE d.edge.cross
      <4>1. /\ Admits(net[d.src.cluster], PodOf(graph, d.edge.from), "egress",
                      Block(d.dst.cluster), p)
            /\ Admits(net[d.dst.cluster], PodOf(graph, d.edge.to), "ingress",
                      Block(d.dst.cluster), graph.behind[p])
            BY <3>1, LetsOut, LetsInAcross
      <4>. QED
            BY <2>1, <3>1, <4>1 DEF Reaches
    <3>2. CASE ~ d.edge.cross
      <4>1. /\ Admits(net[d.src.cluster], PodOf(graph, d.edge.from), "egress",
                      PodOf(graph, d.edge.to), p)
            /\ Admits(net[d.dst.cluster], PodOf(graph, d.edge.to), "ingress",
                      PodOf(graph, d.edge.from), p)
            BY <3>2, LetsOut, LetsIn
      <4>. QED
            BY <2>1, <3>2, <4>1 DEF Reaches
    <3>. QED
          BY <3>1, <3>2
  <2>3. d.edge.l4only \/ <<d.edge.from, d.edge.to>> \in acl[Cluster(graph, d.edge.to)]
        BY <2>1 DEF StableInv, KeepsAcl
  <2>. QED
        BY <2>2, <2>3
<1>. QED
      BY <1>1, <1>2, StableNext, PTL DEF RolloutSpec
=============================================================================
