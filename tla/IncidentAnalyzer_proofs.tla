---------------------- MODULE IncidentAnalyzer_proofs ----------------------
(***************************************************************************)
(* Proofs about the incident analyzer.  The evidence file comes first: what*)
(* an append does to its lines and to what a restart loads from it.  Then  *)
(* the types; on them rests that memory and file agree (Served), and on    *)
(* that that scores are kept, that orphan mails are bounded, and that the  *)
(* analyzer implements the evidence log.  Last, with every fault allowed,  *)
(* what a cut write costs (Paid).                                          *)
(***************************************************************************)
EXTENDS IncidentAnalyzer, FiniteSetTheorems, SequenceTheorems,
        WellFoundedInduction, TLAPS

-----------------------------------------------------------------------------
(* The file.                                                               *)

Line == Record \cup {Torn}

IsFile(f) ==
    /\ f.lines \in Seq(Line)
    /\ f.open \in BOOLEAN
    /\ f.open => f.lines # << >>

\* A nonempty set of line numbers has a largest one: the least element of
\* the distances to the end.
LEMMA LastLine ==
    ASSUME NEW n \in Nat, NEW S \in SUBSET (1 .. n), S # {}
    PROVE  /\ Max(S) \in S
           /\ \A x \in S : Max(S) >= x
  <1>. DEFINE T == { n - x : x \in S }
  <1>1. T \subseteq Nat /\ T # {}
    <2>1. \A x \in S : n - x \in Nat
      OBVIOUS
    <2>2. T \subseteq Nat
      BY <2>1
    <2>3. PICK x \in S : TRUE
      OBVIOUS
    <2>4. n - x \in T
      BY <2>3
    <2>. QED BY <2>2, <2>4
  <1>2. PICK t \in T : \A y \in T : <<y, t>> \notin OpToRel(<, Nat)
    <2>1. IsWellFoundedOn(OpToRel(<, Nat), Nat)
      BY NatLessThanWellFounded
    <2>. QED BY <1>1, <2>1, WFMin
  <1>3. \A y \in T : ~ (y < t)
    BY <1>1, <1>2 DEF OpToRel
  <1>4. PICK m \in S : t = n - m
    OBVIOUS
  <1>5. \A x \in S : m >= x
    <2>. TAKE x \in S
    <2>1. ~ (n - x < n - m)
      BY <1>3, <1>4
    <2>2. m \in Nat /\ x \in Nat
      OBVIOUS
    <2>. QED BY <2>1, <2>2
  <1>. QED BY <1>5 DEF Max

\* What Put leaves behind, in all cases.
LEMMA PutLines ==
    ASSUME NEW f, IsFile(f), NEW r \in Line, NEW open \in BOOLEAN
    PROVE  /\ IsFile(Put(f, r, open))
           /\ \A i \in Readable(Put(f, r, open)) :
                \/ Put(f, r, open).lines[i] = r
                \/ /\ i \in Readable(f)
                   /\ Put(f, r, open).lines[i] = f.lines[i]
  <1>. DEFINE g == Put(f, r, open)
  <1>0. f.lines \in Seq(Line) /\ Torn \in Line
    BY DEF IsFile, Line
  <1>1. CASE f.open
    <2>1. g.lines = [f.lines EXCEPT ![Len(f.lines)] = Torn] /\ g.open = open
      BY <1>1 DEF Put
    <2>2. g.lines \in Seq(Line) /\ g.lines # << >>
      <3>1. Len(f.lines) \in 1 .. Len(f.lines)
        BY <1>0, <1>1, EmptySeq, LenProperties DEF IsFile
      <3>2. g.lines \in Seq(Line) /\ Len(g.lines) = Len(f.lines)
        BY <1>0, <2>1, <3>1, ExceptSeq
      <3>. QED BY <3>1, <3>2
    <2>3. \A i \in Readable(g) : i \in Readable(f) /\ g.lines[i] = f.lines[i]
      BY <1>0, <2>1 DEF Readable
    <2>. QED BY <2>1, <2>2, <2>3 DEF IsFile
  <1>2. CASE ~ f.open
    <2>1. g.lines = Append(f.lines, r) /\ g.open = open
      BY <1>2 DEF Put
    <2>2. g.lines \in Seq(Line) /\ g.lines # << >>
      BY <1>0, <2>1
    <2>3. \A i \in DOMAIN g.lines :
            \/ g.lines[i] = r
            \/ i \in DOMAIN f.lines /\ g.lines[i] = f.lines[i]
      BY <1>0, <2>1
    <2>. QED BY <2>1, <2>2, <2>3 DEF IsFile, Readable
  <1>. QED BY <1>1, <1>2

\* The lines about an id, and the last of them.
LEMMA LastLineOf ==
    ASSUME NEW f, IsFile(f), NEW k \in Readable(f)
    PROVE  LET id == f.lines[k].id
           IN  /\ Max(LinesOf(f, id)) \in LinesOf(f, id)
               /\ \A x \in LinesOf(f, id) : Max(LinesOf(f, id)) >= x
  <1>. DEFINE S == LinesOf(f, f.lines[k].id)
  <1>1. Len(f.lines) \in Nat /\ S \subseteq 1 .. Len(f.lines)
    BY DEF IsFile, LinesOf, Readable
  <1>2. k \in S
    BY DEF LinesOf
  <1>. HIDE DEF S
  <1>3. Max(S) \in S /\ \A x \in S : Max(S) >= x
    BY <1>1, <1>2, LastLine
  <1>. QED BY <1>3 DEF S

\* What a restart loads.
LEMMA LoadType ==
    ASSUME NEW f, IsFile(f)
    PROVE  /\ DOMAIN LoadEvidence(f) = { f.lines[i].id : i \in Readable(f) }
           /\ \A id \in DOMAIN LoadEvidence(f) :
                \E i \in Readable(f) : /\ LoadEvidence(f)[id] = f.lines[i]
                                       /\ f.lines[i] \in Record
                                       /\ f.lines[i].id = id
  <1>1. DOMAIN LoadEvidence(f) = { f.lines[i].id : i \in Readable(f) }
    BY DEF LoadEvidence
  <1>2. ASSUME NEW id \in DOMAIN LoadEvidence(f)
        PROVE  \E i \in Readable(f) : /\ LoadEvidence(f)[id] = f.lines[i]
                                      /\ f.lines[i] \in Record
                                      /\ f.lines[i].id = id
    <2>1. PICK k \in Readable(f) : id = f.lines[k].id
      BY <1>1, <1>2
    <2>. DEFINE m == Max(LinesOf(f, id))
    <2>2. m \in LinesOf(f, id)
      BY <2>1, LastLineOf
    <2>3. LoadEvidence(f)[id] = f.lines[m]
      BY <1>1, <1>2 DEF LoadEvidence
    <2>4. m \in Readable(f) /\ f.lines[m].id = id
      BY <2>2 DEF LinesOf
    <2>5. f.lines[m] \in Record
      BY <2>4 DEF IsFile, Readable, Line
    <2>. QED BY <2>3, <2>4, <2>5
  <1>. QED BY <1>1, <1>2

\* An append to a file that ends with a newline adds the record to what a
\* restart loads, in place of what it had under the same id.
LEMMA LoadAppend ==
    ASSUME NEW f, IsFile(f), ~ f.open, NEW r \in Record
    PROVE  /\ LoadEvidence(AppendRec(f, r)) = Holding(LoadEvidence(f), r)
           /\ ~ AppendRec(f, r).open
  <1>. DEFINE g == AppendRec(f, r)
             n == Len(f.lines)
  <1>1. /\ g.lines = Append(f.lines, r)
        /\ g.open = FALSE
    BY DEF AppendRec, Put
  <1>2. f.lines \in Seq(Line) /\ n \in Nat /\ r \in Line
    BY DEF IsFile, Line
  <1>3. /\ DOMAIN g.lines = 1 .. n + 1
        /\ DOMAIN f.lines = 1 .. n
        /\ g.lines[n + 1] = r
        /\ \A i \in 1 .. n : g.lines[i] = f.lines[i]
    BY <1>1, <1>2
  <1>4. r # Torn
    BY TornAssumption
  <1>5. Readable(g) = Readable(f) \cup {n + 1}
    BY <1>2, <1>3, <1>4 DEF Readable
  <1>6. IsFile(g)
    BY <1>2, PutLines DEF AppendRec
  <1>7. { g.lines[i].id : i \in Readable(g) } = {r.id} \cup { f.lines[i].id : i \in Readable(f) }
    <2>1. Readable(f) \subseteq 1 .. n
      BY <1>3 DEF Readable
    <2>. QED BY <1>3, <1>5, <2>1
  <1>8. g.lines[Max(LinesOf(g, r.id))] = r
    <2>1. n + 1 \in Readable(g) /\ g.lines[n + 1].id = r.id
      BY <1>3, <1>5
    <2>2. /\ Max(LinesOf(g, r.id)) \in LinesOf(g, r.id)
          /\ \A x \in LinesOf(g, r.id) : Max(LinesOf(g, r.id)) >= x
      BY <1>6, <2>1, LastLineOf
    <2>3. n + 1 \in LinesOf(g, r.id) /\ LinesOf(g, r.id) \subseteq 1 .. n + 1
      BY <1>3, <2>1 DEF LinesOf, Readable
    <2>4. Max(LinesOf(g, r.id)) = n + 1
      BY <1>2, <2>2, <2>3
    <2>. QED BY <2>4, <1>3
  <1>9. ASSUME NEW id \in { f.lines[i].id : i \in Readable(f) }, id # r.id
         PROVE  g.lines[Max(LinesOf(g, id))] = f.lines[Max(LinesOf(f, id))]
    <2>1. LinesOf(g, id) = LinesOf(f, id)
      BY <1>2, <1>3, <1>5, <1>9 DEF LinesOf, Readable
    <2>2. PICK k \in Readable(f) : f.lines[k].id = id
      OBVIOUS
    <2>3. Max(LinesOf(f, id)) \in LinesOf(f, id)
      BY <2>2, LastLineOf
    <2>4. Max(LinesOf(f, id)) \in 1 .. n
      BY <1>3, <2>3 DEF LinesOf, Readable
    <2>. QED BY <1>3, <2>1, <2>4
  <1>10. LoadEvidence(g) = Holding(LoadEvidence(f), r)
    <2>. DEFINE D == { f.lines[i].id : i \in Readable(f) }
               h == Holding(LoadEvidence(f), r)
    <2>1. LoadEvidence(f) = [id \in D |-> f.lines[Max(LinesOf(f, id))]]
      BY DEF LoadEvidence
    <2>2. h = [id \in {r.id} \cup D |-> IF id = r.id THEN r ELSE LoadEvidence(f)[id]]
      <3>1. DOMAIN LoadEvidence(f) = D
        BY <2>1
      <3>. HIDE DEF D
      <3>. QED BY <3>1 DEF Holding
    <2>3. LoadEvidence(g) = [id \in {r.id} \cup D |-> g.lines[Max(LinesOf(g, id))]]
      BY <1>7 DEF LoadEvidence
    <2>4. ASSUME NEW id \in {r.id} \cup D
          PROVE  g.lines[Max(LinesOf(g, id))] =
                   IF id = r.id THEN r ELSE LoadEvidence(f)[id]
      <3>1. CASE id = r.id
        BY <3>1, <1>8
      <3>2. CASE id # r.id
        BY <3>2, <1>9, <2>1
      <3>. QED BY <3>1, <3>2
    <2>. HIDE DEF D, g, h
    <2>5. LoadEvidence(g) = h
      BY <2>2, <2>3, <2>4
    <2>. QED BY <2>5 DEF g, h
  <1>. QED BY <1>1, <1>10

-----------------------------------------------------------------------------
(* Types.                                                                  *)

\* The types, with what Start needs of the file: the evidence a readable
\* line is about was once made.
Typed ==
    /\ TypeOK
    /\ IsFile(file)
    /\ \A i \in Readable(file) : file.lines[i].id \in 1 .. made

LEMMA WantedType == \A n \in Notifs : Wanted(n) \subseteq Nat \ {0}
  <1>. TAKE n \in Notifs
  <1>1. Payload[n] \in Seq(AlertKinds)
    BY AnalyzerAssumption
  <1>. QED BY <1>1 DEF Wanted

\* A handler at an await of its notification.
LEMMA AtWorkType ==
    ASSUME Typed, NEW s \in Slots, AtWork(s)
    PROVE  /\ handler[s].n \in Notifs
           /\ handler[s].i \in Wanted(handler[s].n)
           /\ handler[s].heard \in BOOLEAN
           /\ handler[s] \in HandlingOf(handler[s].n)
  <1>1. /\ handler[s] # Idle
        /\ \A id : handler[s] # Scoring(id)
    BY DEF AtWork, Idle, Scoring
  <1>2. PICK n \in Notifs : handler[s] \in HandlingOf(n)
    BY <1>1 DEF Typed, TypeOK
  <1>. QED BY <1>2 DEF HandlingOf, Handling

LEMMA HandlingExcept ==
    ASSUME NEW n, NEW h \in HandlingOf(n)
    PROVE  /\ [h EXCEPT !.heard = FALSE] \in HandlingOf(n)
           /\ [h EXCEPT !.pc = "push"] \in HandlingOf(n)
BY DEF HandlingOf

LEMMA ScoringType ==
    ASSUME Typed, NEW s \in Slots, handler[s].pc = "score"
    PROVE  handler[s].id \in 1 .. made
  <1>1. /\ handler[s] # Idle
        /\ \A n : handler[s] \notin HandlingOf(n)
    BY DEF HandlingOf, Idle
  <1>2. PICK id \in 1 .. made : handler[s] = Scoring(id)
    BY <1>1 DEF Typed, TypeOK
  <1>. QED BY <1>2 DEF Scoring

\* What a handler may become.
States(m) == {Idle} \cup { Scoring(id) : id \in 1 .. m }
               \cup UNION { HandlingOf(n) : n \in Notifs }

LEMMA HandlingState ==
    ASSUME NEW n \in Notifs, NEW i \in Wanted(n), NEW heard \in BOOLEAN,
           NEW pc \in {"bundle", "push"}, NEW m \in Nat
    PROVE  Handling(pc, n, i, heard) \in States(m)
  <1>1. Handling(pc, n, i, heard) \in HandlingOf(n)
    BY DEF Handling, HandlingOf
  <1>. QED BY <1>1 DEF States

LEMMA StatesGrow ==
    ASSUME Typed, NEW h \in [Slots -> States(made)]
    PROVE  h \in [Slots -> States(made + 1)]
  <1>1. \A id \in 1 .. made : id \in 1 .. made + 1
    BY DEF Typed, TypeOK
  <1>2. States(made) \subseteq States(made + 1)
    BY <1>1 DEF States
  <1>. QED BY <1>2

\* A record appended, or part of one, in any of the ways of a step.
LEMMA FileStep ==
    ASSUME Typed, NEW r \in Record, NEW m \in Nat, m >= made, r.id \in 1 .. m,
           \/ file' = file
           \/ file' = AppendRec(file, r)
           \/ file' \in Damaged(file, r)
    PROVE  /\ IsFile(file')
           /\ \A i \in Readable(file') : file'.lines[i].id \in 1 .. m
  <1>0. made \in Nat /\ IsFile(file) /\ r \in Line /\ Torn \in Line
    BY DEF Typed, TypeOK, Line
  <1>1. CASE file' = file
    BY <1>0, <1>1 DEF Typed
  <1>2. ASSUME NEW line \in {r, Torn}, NEW open \in BOOLEAN, file' = Put(file, line, open)
        PROVE  /\ IsFile(file')
               /\ \A i \in Readable(file') : file'.lines[i].id \in 1 .. m
    <2>1. line \in Line
      BY <1>0
    <2>2. /\ IsFile(file')
          /\ \A i \in Readable(file') :
                \/ file'.lines[i] = line
                \/ /\ i \in Readable(file)
                   /\ file'.lines[i] = file.lines[i]
      BY <1>0, <1>2, <2>1, PutLines
    <2>3. ASSUME NEW i \in Readable(file')
          PROVE  file'.lines[i].id \in 1 .. m
      <3>1. CASE file'.lines[i] = line
        <4>1. file'.lines[i] # Torn
          BY DEF Readable
        <4>. QED BY <3>1, <4>1
      <3>2. CASE i \in Readable(file) /\ file'.lines[i] = file.lines[i]
        <4>1. file.lines[i].id \in 1 .. made
          BY <3>2 DEF Typed
        <4>. QED BY <1>0, <3>2, <4>1
      <3>. QED BY <2>2, <3>1, <3>2
    <2>. QED BY <2>2, <2>3
  <1>. QED BY <1>1, <1>2 DEF AppendRec, Damaged

LEMMA HoldingType ==
    ASSUME Typed, NEW r \in Record, NEW m \in Nat, m >= made, r.id \in 1 .. m
    PROVE  /\ DOMAIN Holding(evidence, r) \subseteq 1 .. m
           /\ \A id \in DOMAIN Holding(evidence, r) :
                /\ Holding(evidence, r)[id] \in Record
                /\ Holding(evidence, r)[id].id = id
  <1>1. DOMAIN evidence \subseteq 1 .. m
    BY DEF Typed, TypeOK
  <1>2. DOMAIN Holding(evidence, r) = DOMAIN evidence \cup {r.id}
    BY DEF Holding
  <1>3. ASSUME NEW id \in DOMAIN evidence \cup {r.id}
        PROVE  /\ Holding(evidence, r)[id] \in Record
               /\ Holding(evidence, r)[id].id = id
    BY DEF Holding, Typed, TypeOK
  <1>. QED BY <1>1, <1>2, <1>3

LEMMA NewRecordType ==
    ASSUME Typed, NEW s \in Slots, Building(s)
    PROVE  /\ NewRecord(s) \in Record
           /\ NewRecord(s).id = made + 1
           /\ made + 1 \in Nat
           /\ made + 1 >= made
           /\ made + 1 \in 1 .. made + 1
  <1>1. handler[s].n \in Notifs /\ handler[s].i \in Wanted(handler[s].n)
    BY AtWorkType DEF Building, AtWork
  <1>2. handler[s].i \in Nat
    BY <1>1, WantedType
  <1>3. made \in Nat
    BY DEF Typed, TypeOK
  <1>. QED BY <1>1, <1>2, <1>3 DEF NewRecord, EvidenceRecord, Record

LEMMA UpdatedType ==
    ASSUME Typed, NEW id \in DOMAIN evidence, NEW risk \in Risks
    PROVE  /\ Updated(id, risk) \in Record
           /\ Updated(id, risk).id = id
           /\ Updated(id, risk).n = evidence[id].n
           /\ Updated(id, risk).i = evidence[id].i
           /\ Updated(id, risk).risk = risk
           /\ id \in 1 .. made
  <1>1. evidence[id] \in Record /\ evidence[id].id = id /\ id \in 1 .. made
    BY DEF Typed, TypeOK
  <1>. QED BY <1>1 DEF Updated, Record

LEMMA ContinuesType ==
    ASSUME Typed, NEW s \in Slots, NEW n \in Notifs, NEW i, NEW heard \in BOOLEAN,
           Continues(s, n, i, heard)
    PROVE  /\ handler' \in [Slots -> States(made)]
           /\ acked' \subseteq Notifs
  <1>0. handler \in [Slots -> States(made)] /\ acked \subseteq Notifs /\ made \in Nat
    BY DEF Typed, TypeOK, States
  <1>1. CASE Collects(s, n, i, heard)
    <2>1. PICK j \in Later(n, i) :
            handler' = [handler EXCEPT ![s] = Handling("bundle", n, j, heard)]
      BY <1>1 DEF Collects
    <2>2. Handling("bundle", n, j, heard) \in States(made)
      BY <1>0, HandlingState DEF Later
    <2>3. handler' \in [Slots -> States(made)]
      BY <1>0, <2>1, <2>2
    <2>. QED BY <1>0, <1>1, <2>3 DEF Collects
  <1>2. CASE Answers(s, n, i, heard)
    <2>1. Idle \in States(made)
      BY DEF States
    <2>. QED BY <1>0, <1>2, <2>1 DEF Answers
  <1>. QED BY <1>1, <1>2 DEF Continues

LEMMA InjectType ==
    ASSUME Typed, NEW kind, Inject(kind)
    PROVE  /\ scores' \in 0 .. MaxScores
           /\ plan' \in Plans
           /\ faults' \in 0 .. MaxFaults
           /\ plan' = plan
           /\ kind \in plan
BY AnalyzerAssumption DEF Typed, TypeOK, Inject

LEMMA TypedInit == Init => Typed
  <1>. SUFFICES ASSUME Init PROVE Typed
    OBVIOUS
  <1>1. IsFile(file) /\ Readable(file) = {}
    BY EmptySeq DEF Init, EmptyFile, IsFile, Readable
  <1>2. handler \in [Slots -> States(made)]
    BY DEF Init, States
  <1>. QED BY <1>1, <1>2, AnalyzerAssumption DEF Init, Typed, TypeOK, IsFile, Line, States

\* Steps that leave the evidence and its file alone.
LEMMA TypedHandlers ==
    ASSUME Typed, store' = store, up' = up, crashes' = crashes,
           handler' \in [Slots -> States(made)],
           acked' \subseteq Notifs,
           scored' \subseteq 1 .. made,
           scores' \in 0 .. MaxScores, plan' \in Plans, faults' \in 0 .. MaxFaults
    PROVE  Typed'
  <1>1. evidence' = evidence /\ file' = file /\ made' = made
    BY DEF store
  <1>2. TypeOK'
    BY <1>1 DEF Typed, TypeOK, States
  <1>3. IsFile(file') /\ \A i \in Readable(file') : file'.lines[i].id \in 1 .. made'
    BY <1>1 DEF Typed
  <1>. QED BY <1>2, <1>3 DEF Typed

\* Steps that write a record, whole, in part or not at all.
LEMMA TypedWrites ==
    ASSUME Typed, NEW r \in Record, made' \in Nat, made' >= made, r.id \in 1 .. made',
           up' \in BOOLEAN, crashes' \in Nat,
           evidence' = << >> \/ evidence' = Holding(evidence, r),
           \/ file' = file
           \/ file' = AppendRec(file, r)
           \/ file' \in Damaged(file, r),
           handler' \in [Slots -> States(made')],
           acked' = acked, scored' = scored,
           scores' \in 0 .. MaxScores, plan' \in Plans, faults' \in 0 .. MaxFaults
    PROVE  Typed'
  <1>1. /\ DOMAIN evidence' \subseteq 1 .. made'
        /\ \A id \in DOMAIN evidence' : evidence'[id] \in Record /\ evidence'[id].id = id
    <2>1. CASE evidence' = << >>
      BY <2>1
    <2>2. CASE evidence' = Holding(evidence, r)
      BY <2>2, HoldingType
    <2>. QED BY <2>1, <2>2
  <1>2. IsFile(file') /\ \A i \in Readable(file') : file'.lines[i].id \in 1 .. made'
    BY FileStep
  <1>3. scored' \subseteq 1 .. made'
    BY DEF Typed, TypeOK
  <1>4. TypeOK'
    BY <1>1, <1>2, <1>3 DEF Typed, TypeOK, IsFile, Line, States
  <1>. QED BY <1>2, <1>4 DEF Typed

LEMMA TypedNext == Typed /\ [Next]_vars => Typed'
  <1>. SUFFICES ASSUME Typed, [Next]_vars PROVE Typed'
    OBVIOUS
  <1>0. /\ handler \in [Slots -> States(made)]
        /\ made \in Nat /\ crashes \in Nat /\ up \in BOOLEAN
        /\ acked \subseteq Notifs /\ scored \subseteq 1 .. made
        /\ scores \in 0 .. MaxScores /\ plan \in Plans /\ faults \in 0 .. MaxFaults
    BY DEF Typed, TypeOK, States
  <1>1. ASSUME NEW m \in Nat
        PROVE  Idle \in States(m) /\ [s \in Slots |-> Idle] \in [Slots -> States(m)]
    BY DEF States
  <1>2. ASSUME NEW s \in Slots, NEW n \in Notifs, Receive(s, n)
        PROVE  Typed'
    <2>1. handler' \in [Slots -> States(made)] /\ acked' \subseteq Notifs
      BY <1>2, ContinuesType DEF Receive
    <2>. QED BY <1>0, <1>2, <2>1, TypedHandlers DEF Receive, bounds
  <1>3. ASSUME NEW s \in Slots, Pushed(s)
        PROVE  Typed'
    <2>1. handler[s].n \in Notifs /\ handler[s].heard \in BOOLEAN
      BY <1>3, AtWorkType DEF Pushed, AtWork
    <2>2. handler' \in [Slots -> States(made)] /\ acked' \subseteq Notifs
      BY <1>3, <2>1, ContinuesType DEF Pushed
    <2>. QED BY <1>0, <1>3, <2>2, TypedHandlers DEF Pushed, bounds
  <1>4. ASSUME NEW s \in Slots, TimesOut(s)
        PROVE  Typed'
    <2>1. /\ handler[s].n \in Notifs
          /\ handler[s] \in HandlingOf(handler[s].n)
      BY <1>4, AtWorkType DEF TimesOut
    <2>2. [handler[s] EXCEPT !.heard = FALSE] \in HandlingOf(handler[s].n)
      BY <2>1, HandlingExcept
    <2>3. [handler[s] EXCEPT !.heard = FALSE] \in States(made)
      BY <2>1, <2>2 DEF States
    <2>4. handler' \in [Slots -> States(made)]
      BY <1>0, <1>4, <2>3 DEF TimesOut
    <2>. QED BY <1>0, <1>4, <2>4, InjectType, TypedHandlers DEF TimesOut
  <1>5. ASSUME NEW s \in Slots, ScoreAnswered(s)
        PROVE  Typed'
    <2>1. handler' \in [Slots -> States(made)] /\ scored' \subseteq 1 .. made
      BY <1>0, <1>1, <1>5, ScoringType DEF ScoreAnswered
    <2>. QED BY <1>0, <1>5, <2>1, TypedHandlers DEF ScoreAnswered, bounds
  <1>6. ASSUME NEW s \in Slots, Builds(s)
        PROVE  Typed'
    <2>1. Building(s) /\ made' = made + 1
      BY <1>6 DEF Builds, Building
    <2>2. /\ handler[s].n \in Notifs
          /\ handler[s] \in HandlingOf(handler[s].n)
      BY <2>1, AtWorkType DEF Building, AtWork
    <2>3. [handler[s] EXCEPT !.pc = "push"] \in HandlingOf(handler[s].n)
      BY <2>2, HandlingExcept
    <2>4. [handler[s] EXCEPT !.pc = "push"] \in States(made)
      BY <2>2, <2>3 DEF States
    <2>5. handler' \in [Slots -> States(made)]
      BY <1>0, <1>6, <2>4 DEF Builds
    <2>6. handler' \in [Slots -> States(made')]
      BY <2>1, <2>5, StatesGrow
    <2>. QED
      BY <1>0, <1>6, <2>1, <2>6, NewRecordType, TypedWrites DEF Builds, bounds
  <1>7. ASSUME NEW s \in Slots, BuildFails(s)
        PROVE  Typed'
    <2>1. Building(s) /\ made' = made + 1 /\ made' \in Nat
      BY <1>0, <1>7 DEF BuildFails, Building
    <2>2. handler' \in [Slots -> States(made)]
      BY <1>0, <1>1, <1>7 DEF BuildFails
    <2>3. handler' \in [Slots -> States(made')]
      BY <2>1, <2>2, StatesGrow
    <2>4. scores' \in 0 .. MaxScores /\ plan' \in Plans /\ faults' \in 0 .. MaxFaults
      BY <1>7, InjectType DEF BuildFails
    <2>. QED
      BY <1>0, <1>7, <2>1, <2>3, <2>4, NewRecordType, TypedWrites DEF BuildFails
  <1>8. ASSUME NEW s \in Slots, NEW id \in DOMAIN evidence, NEW risk \in Risks,
               Attach(s, id, risk) \/ AttachFails(s, id, risk)
        PROVE  Typed'
    <2>1. made' = made /\ evidence' = Holding(evidence, Updated(id, risk))
          /\ up' = up /\ acked' = acked /\ scored' = scored /\ crashes' = crashes
      BY <1>8 DEF Attach, AttachFails, Attaching
    <2>2. Updated(id, risk) \in Record /\ Updated(id, risk).id \in 1 .. made'
      BY <2>1, UpdatedType
    <2>3. CASE Attach(s, id, risk)
      <3>1. Scoring(id) \in States(made)
        BY UpdatedType DEF States
      <3>2. handler' \in [Slots -> States(made')]
        BY <1>0, <2>1, <2>3, <3>1 DEF Attach
      <3>3. scores' \in 0 .. MaxScores /\ plan' = plan /\ faults' = faults
        BY <1>0, <2>3, AnalyzerAssumption DEF Attach
      <3>. QED
        BY <1>0, <2>1, <2>2, <2>3, <3>2, <3>3, TypedWrites DEF Attach
    <2>4. CASE AttachFails(s, id, risk)
      <3>1. scores' \in 0 .. MaxScores /\ plan' \in Plans /\ faults' \in 0 .. MaxFaults
        BY <2>4, InjectType DEF AttachFails
      <3>. QED
        BY <1>0, <2>1, <2>2, <2>4, <3>1, TypedWrites DEF AttachFails
    <2>. QED BY <1>8, <2>3, <2>4
  <1>9. CASE Crash
    <2>1. made' = made /\ file' = file /\ evidence' = << >>
          /\ up' = FALSE /\ crashes' = crashes + 1
          /\ acked' = acked /\ scored' = scored
      BY <1>9 DEF Crash, Dies
    <2>2. handler' \in [Slots -> States(made)]
      BY <1>0, <1>1, <1>9 DEF Crash, Dies
    <2>3. scores' \in 0 .. MaxScores /\ plan' \in Plans /\ faults' \in 0 .. MaxFaults
      BY <1>9, InjectType DEF Crash
    <2>4. IsFile(file') /\ \A i \in Readable(file') : file'.lines[i].id \in 1 .. made'
      BY <2>1 DEF Typed
    <2>5. up' \in BOOLEAN /\ crashes' \in Nat /\ made' \in Nat
      <3>1. up' \in BOOLEAN
        BY <2>1
      <3>. QED BY <1>0, <2>1, <3>1
    <2>6. TypeOK'
      BY <1>0, <2>1, <2>2, <2>3, <2>4, <2>5 DEF TypeOK, IsFile, Line, States
    <2>. QED BY <2>4, <2>6 DEF Typed
  <1>10. ASSUME NEW s \in Slots, CrashInBuild(s)
         PROVE  Typed'
    <2>1. Building(s) /\ made' = made + 1 /\ made' \in Nat
      BY <1>0, <1>10 DEF CrashInBuild, Building
    <2>2. handler' \in [Slots -> States(made')] /\ evidence' = << >>
          /\ up' = FALSE /\ crashes' = crashes + 1
          /\ acked' = acked /\ scored' = scored
      BY <1>1, <1>10, <2>1 DEF CrashInBuild, Dies
    <2>3. scores' \in 0 .. MaxScores /\ plan' \in Plans /\ faults' \in 0 .. MaxFaults
      BY <1>10, InjectType DEF CrashInBuild
    <2>4. \/ file' = file
          \/ file' = AppendRec(file, NewRecord(s))
          \/ file' \in Damaged(file, NewRecord(s))
      BY <1>10 DEF CrashInBuild
    <2>5. /\ NewRecord(s) \in Record
          /\ NewRecord(s).id \in 1 .. made'
          /\ made' >= made
      BY <1>0, <2>1, NewRecordType
    <2>6. up' \in BOOLEAN /\ crashes' \in Nat
      <3>1. up' \in BOOLEAN
        BY <2>2
      <3>. QED BY <1>0, <2>2, <3>1
    <2>. QED BY <2>1, <2>2, <2>3, <2>4, <2>5, <2>6, TypedWrites
  <1>11. ASSUME NEW id \in DOMAIN evidence, NEW risk \in Risks, CrashInAttach(id, risk)
         PROVE  Typed'
    <2>1. made' = made
      BY <1>11 DEF CrashInAttach
    <2>2. handler' \in [Slots -> States(made')] /\ evidence' = << >>
          /\ up' = FALSE /\ crashes' = crashes + 1
          /\ acked' = acked /\ scored' = scored
      BY <1>0, <1>1, <1>11, <2>1 DEF CrashInAttach, Dies
    <2>3. scores' \in 0 .. MaxScores /\ plan' \in Plans /\ faults' \in 0 .. MaxFaults
      BY <1>11, InjectType DEF CrashInAttach
    <2>4. \/ file' = AppendRec(file, Updated(id, risk))
          \/ file' \in Damaged(file, Updated(id, risk))
      BY <1>11 DEF CrashInAttach
    <2>5. /\ Updated(id, risk) \in Record
          /\ Updated(id, risk).id \in 1 .. made'
          /\ made' \in Nat /\ made' >= made
      BY <1>0, <2>1, UpdatedType
    <2>6. up' \in BOOLEAN /\ crashes' \in Nat
      <3>1. up' \in BOOLEAN
        BY <2>2
      <3>. QED BY <1>0, <2>2, <3>1
    <2>. QED BY <2>2, <2>3, <2>4, <2>5, <2>6, TypedWrites
  <1>12. CASE Start
    <2>1. /\ DOMAIN evidence' \subseteq 1 .. made
          /\ \A id \in DOMAIN evidence' : evidence'[id] \in Record /\ evidence'[id].id = id
      <3>1. IsFile(file) /\ \A i \in Readable(file) : file.lines[i].id \in 1 .. made
        BY DEF Typed
      <3>2. evidence' = LoadEvidence(file)
        BY <1>12 DEF Start
      <3>3. ASSUME NEW id \in DOMAIN LoadEvidence(file)
            PROVE  /\ id \in 1 .. made
                   /\ LoadEvidence(file)[id] \in Record
                   /\ LoadEvidence(file)[id].id = id
        <4>1. PICK i \in Readable(file) : /\ LoadEvidence(file)[id] = file.lines[i]
                                          /\ file.lines[i] \in Record
                                          /\ file.lines[i].id = id
          BY <3>1, LoadType
        <4>. QED BY <3>1, <4>1
      <3>. QED BY <3>2, <3>3
    <2>2. up' \in BOOLEAN /\ file' = file /\ made' = made /\ handler' = handler
          /\ acked' = acked /\ scored' = scored /\ crashes' = crashes
          /\ scores' = scores /\ plan' = plan /\ faults' = faults
      BY <1>12 DEF Start, bounds
    <2>3. IsFile(file') /\ \A i \in Readable(file') : file'.lines[i].id \in 1 .. made'
      BY <2>2 DEF Typed
    <2>4. TypeOK'
      BY <1>0, <2>1, <2>2, <2>3 DEF TypeOK, IsFile, Line, States
    <2>. QED BY <2>3, <2>4 DEF Typed
  <1>13. CASE UNCHANGED vars
    BY <1>0, <1>13, TypedHandlers DEF vars, bounds
  <1>. QED
    BY <1>2, <1>3, <1>4, <1>5, <1>6, <1>7, <1>8, <1>9, <1>10, <1>11, <1>12, <1>13
       DEF Next, Receives, Scores, Handler

\* Every variable keeps its type (main.py:163-219, 468-525).
THEOREM TypeCorrect == Spec => []TypeOK
  <1>1. Typed => TypeOK
    BY DEF Typed
  <1>. QED BY <1>1, TypedInit, TypedNext, PTL DEF Spec

-----------------------------------------------------------------------------
(* Memory and file.                                                        *)

\* The file ends with a newline, so the next append stays whole.
Served ==
    WholeWrites => /\ ~ file.open
                   /\ up => evidence = LoadEvidence(file)

\* What a step writes, if it writes.
WritesNew == \E s \in Slots : Building(s) /\ file' = AppendRec(file, NewRecord(s))

WritesScore ==
    /\ up
    /\ \E id \in DOMAIN evidence, risk \in Risks : file' = AppendRec(file, Updated(id, risk))

LEMMA WholeStep ==
    ASSUME WholeWrites, [Next]_vars
    PROVE  /\ plan' = plan
           /\ \/ file' = file
              \/ WritesNew
              \/ WritesScore
  <1>0. ~ Inject("tear") /\ ~ Inject("full")
    BY DEF WholeWrites, Inject
  <1>1. ASSUME NEW s \in Slots, NEW n \in Notifs, Receive(s, n)
        PROVE  plan' = plan /\ file' = file
    BY <1>1 DEF Receive, store, bounds
  <1>2. ASSUME NEW s \in Slots, Handler(s)
        PROVE  plan' = plan /\ (file' = file \/ WritesNew)
    BY <1>2 DEF Handler, Builds, Pushed, ScoreAnswered, store, bounds, WritesNew
  <1>3. ASSUME NEW s \in Slots, BuildFails(s) \/ TimesOut(s) \/ CrashInBuild(s)
        PROVE  plan' = plan /\ (file' = file \/ WritesNew)
    BY <1>0, <1>3 DEF BuildFails, TimesOut, CrashInBuild, Inject, store, WritesNew
  <1>4. ASSUME NEW id \in DOMAIN evidence, NEW risk \in Risks,
               CrashInAttach(id, risk) \/ \E s \in Slots : Attach(s, id, risk) \/ AttachFails(s, id, risk)
        PROVE  plan' = plan /\ WritesScore
    BY <1>0, <1>4 DEF CrashInAttach, Dies, Attach, AttachFails, Attaching, Inject, WritesScore
  <1>5. CASE Start \/ Crash \/ UNCHANGED vars
    BY <1>5 DEF Start, Crash, Inject, vars, store, bounds
  <1>. QED BY <1>1, <1>2, <1>3, <1>4, <1>5 DEF Next, Receives, Scores

\* What a restart would load never shrinks, and a record it has changes at
\* most in its risk score.
LEMMA LoadStep ==
    ASSUME Typed, Served, WholeWrites, [Next]_vars
    PROVE  /\ WholeWrites' /\ ~ file'.open
           /\ \A id \in DOMAIN LoadEvidence(file) :
                /\ id \in DOMAIN LoadEvidence(file')
                /\ \/ LoadEvidence(file')[id] = LoadEvidence(file)[id]
                   \/ LoadEvidence(file')[id].risk \in Risks
  <1>0. /\ WholeWrites' /\ ~ file.open /\ IsFile(file)
        /\ up => evidence = LoadEvidence(file)
    BY WholeStep DEF WholeWrites, Served, Typed
  <1>1. CASE file' = file
    BY <1>0, <1>1
  <1>2. CASE WritesNew
    <2>1. PICK s \in Slots : Building(s) /\ file' = AppendRec(file, NewRecord(s))
      BY <1>2 DEF WritesNew
    <2>2. NewRecord(s) \in Record /\ NewRecord(s).id = made + 1
      BY <2>1, NewRecordType
    <2>3. LoadEvidence(file') = Holding(LoadEvidence(file), NewRecord(s)) /\ ~ file'.open
      BY <1>0, <2>1, <2>2, LoadAppend
    <2>4. made + 1 \notin DOMAIN LoadEvidence(file)
      <3>1. DOMAIN LoadEvidence(file) = { file.lines[i].id : i \in Readable(file) }
        BY <1>0, LoadType
      <3>2. made \in Nat /\ \A i \in Readable(file) : file.lines[i].id \in 1 .. made
        BY DEF Typed, TypeOK
      <3>. QED BY <3>1, <3>2
    <2>. QED BY <1>0, <2>2, <2>3, <2>4 DEF Holding
  <1>3. CASE WritesScore
    <2>1. PICK id \in DOMAIN evidence, risk \in Risks : up /\ file' = AppendRec(file, Updated(id, risk))
      BY <1>3 DEF WritesScore
    <2>2. /\ Updated(id, risk) \in Record /\ Updated(id, risk).id = id
          /\ Updated(id, risk).risk \in Risks
      BY UpdatedType
    <2>3. LoadEvidence(file') = Holding(LoadEvidence(file), Updated(id, risk)) /\ ~ file'.open
      BY <1>0, <2>1, <2>2, LoadAppend
    <2>. QED BY <1>0, <2>2, <2>3 DEF Holding
  <1>. QED BY <1>1, <1>2, <1>3, WholeStep

LEMMA ServedInit == Init => Served
BY DEF Init, Served, EmptyFile, LoadEvidence, Readable

LEMMA PlanStays == [Next]_vars => plan' = plan
  <1>1. ASSUME NEW s \in Slots, \/ BuildFails(s) \/ TimesOut(s) \/ CrashInBuild(s)
                                \/ Handler(s)
                                \/ \E n \in Notifs : Receive(s, n)
        PROVE  plan' = plan
    BY <1>1 DEF BuildFails, TimesOut, CrashInBuild, Handler, Builds, Pushed, ScoreAnswered,
                Receive, Inject, bounds
  <1>2. CASE Scores
    BY <1>2 DEF Scores, CrashInAttach, Attach, AttachFails, Inject
  <1>3. CASE Start \/ Crash \/ UNCHANGED vars
    BY <1>3 DEF Start, Crash, Inject, vars, bounds
  <1>. QED BY <1>1, <1>2, <1>3 DEF Next, Receives

LEMMA ServedNext == Typed /\ Served /\ [Next]_vars => Served'
  <1>. SUFFICES ASSUME Typed, Served, [Next]_vars, WholeWrites', up'
                PROVE  evidence' = LoadEvidence(file')
    BY PlanStays, LoadStep DEF Served, WholeWrites
  <1>0. /\ WholeWrites
        /\ ~ file.open /\ IsFile(file)
        /\ up => evidence = LoadEvidence(file)
    BY PlanStays DEF WholeWrites, Served, Typed
  <1>1. ~ Inject("tear") /\ ~ Inject("full")
    BY <1>0 DEF WholeWrites, Inject
  <1>2. ASSUME NEW s \in Slots, \/ TimesOut(s) \/ Pushed(s) \/ ScoreAnswered(s)
                                \/ \E n \in Notifs : Receive(s, n)
        PROVE  up' = up /\ evidence' = evidence /\ file' = file
    BY <1>2 DEF TimesOut, Pushed, ScoreAnswered, Receive, store
  <1>3. ASSUME NEW s \in Slots, Builds(s)
        PROVE  evidence' = LoadEvidence(file')
    <2>1. up /\ NewRecord(s) \in Record
      BY <1>3, NewRecordType DEF Builds, Building
    <2>. QED BY <1>0, <1>3, <2>1, LoadAppend DEF Builds
  <1>4. ASSUME NEW id \in DOMAIN evidence, NEW risk \in Risks, NEW s \in Slots, Attach(s, id, risk)
        PROVE  evidence' = LoadEvidence(file')
    <2>1. /\ up /\ Updated(id, risk) \in Record
          /\ evidence' = Holding(evidence, Updated(id, risk))
          /\ file' = AppendRec(file, Updated(id, risk))
      BY <1>4, UpdatedType DEF Attach, Attaching
    <2>. QED BY <1>0, <2>1, LoadAppend
  <1>5. ASSUME NEW s \in Slots
        PROVE  ~ CrashInBuild(s) /\ ~ BuildFails(s)
    BY <1>1 DEF CrashInBuild, Dies, BuildFails
  <1>6. ASSUME NEW id \in DOMAIN evidence, NEW risk \in Risks
        PROVE  ~ CrashInAttach(id, risk) /\ \A s \in Slots : ~ AttachFails(s, id, risk)
    BY <1>1 DEF CrashInAttach, Dies, AttachFails
  <1>7. CASE Start
    BY <1>7 DEF Start
  <1>8. CASE UNCHANGED vars
    BY <1>0, <1>8 DEF vars, store
  <1>9. ~ Crash
    BY DEF Crash, Dies
  <1>. QED
    BY <1>0, <1>2, <1>3, <1>4, <1>5, <1>6, <1>7, <1>8, <1>9
       DEF Next, Receives, Scores, Handler

\* While writes are whole, what the analyzer serves is what a restart would
\* load, whenever it was killed (main.py:199-219, 444-448).
THEOREM ServedStored == Spec => []ServedIsStored
  <1>1. Typed /\ Served => ServedIsStored
    BY DEF Served, ServedIsStored
  <1>. QED BY <1>1, TypedInit, TypedNext, ServedInit, ServedNext, PTL DEF Spec

-----------------------------------------------------------------------------
(* Risk scores.                                                            *)

\* The evidence whose score was answered with 200, or is about to be.
Claims == scored \cup { handler[s].id : s \in { t \in Slots : handler[t].pc = "score" } }

\* A score is in the file before its 200 is on the way.
Kept ==
    WholeWrites =>
      \A id \in Claims : /\ id \in DOMAIN LoadEvidence(file)
                         /\ LoadEvidence(file)[id].risk # NoRisk

\* A step that sets one handler to no scoring claims nothing new.
LEMMA ClaimsStay ==
    ASSUME Typed, NEW s \in Slots, NEW h, h.pc # "score",
           handler' = [handler EXCEPT ![s] = h], scored' = scored
    PROVE  Claims' \subseteq Claims
  <1>1. /\ handler'[s] = h
        /\ \A t \in Slots \ {s} : handler'[t] = handler[t]
    BY DEF Typed, TypeOK
  <1>. QED BY <1>1 DEF Claims

LEMMA ClaimsStep ==
    ASSUME Typed, [Next]_vars
    PROVE  \/ Claims' \subseteq Claims
           \/ \E s \in Slots, id \in DOMAIN evidence, risk \in Risks :
                Attach(s, id, risk) /\ Claims' \subseteq Claims \cup {id}
  <1>0. handler \in [Slots -> States(made)] /\ Idle.pc # "score"
    BY DEF Typed, TypeOK, States, Idle
  <1>1. ASSUME NEW s \in Slots, NEW n, NEW i, NEW heard,
               Continues(s, n, i, heard), scored' = scored
        PROVE  Claims' \subseteq Claims
    <2>1. CASE Collects(s, n, i, heard)
      <3>1. PICK j : handler' = [handler EXCEPT ![s] = Handling("bundle", n, j, heard)]
        BY <2>1 DEF Collects
      <3>2. Handling("bundle", n, j, heard).pc # "score"
        BY DEF Handling
      <3>. QED BY <1>1, <3>1, <3>2, ClaimsStay
    <2>2. CASE Answers(s, n, i, heard)
      BY <1>0, <1>1, <2>2, ClaimsStay DEF Answers
    <2>. QED BY <1>1, <2>1, <2>2 DEF Continues
  <1>2. ASSUME NEW s \in Slots, NEW n \in Notifs, Receive(s, n)
        PROVE  Claims' \subseteq Claims
    BY <1>1, <1>2 DEF Receive
  <1>3. ASSUME NEW s \in Slots, Pushed(s)
        PROVE  Claims' \subseteq Claims
    BY <1>1, <1>3 DEF Pushed
  <1>4. ASSUME NEW s \in Slots, Builds(s)
        PROVE  Claims' \subseteq Claims
    <2>1. handler[s] \in HandlingOf(handler[s].n)
      BY <1>4, AtWorkType DEF Builds, Building, AtWork
    <2>2. [handler[s] EXCEPT !.pc = "push"].pc # "score"
      BY <2>1, HandlingExcept DEF HandlingOf
    <2>3. handler' = [handler EXCEPT ![s] = [handler[s] EXCEPT !.pc = "push"]]
      BY <1>0, <1>4 DEF Builds
    <2>4. scored' = scored
      BY <1>4 DEF Builds
    <2>. QED BY <2>2, <2>3, <2>4, ClaimsStay
  <1>5. ASSUME NEW s \in Slots, TimesOut(s)
        PROVE  Claims' \subseteq Claims
    <2>1. handler[s] \in HandlingOf(handler[s].n)
      BY <1>5, AtWorkType DEF TimesOut
    <2>2. [handler[s] EXCEPT !.heard = FALSE].pc # "score"
      BY <2>1, HandlingExcept DEF HandlingOf
    <2>3. handler' = [handler EXCEPT ![s] = [handler[s] EXCEPT !.heard = FALSE]]
      BY <1>0, <1>5 DEF TimesOut
    <2>4. scored' = scored
      BY <1>5 DEF TimesOut
    <2>. QED BY <2>2, <2>3, <2>4, ClaimsStay
  <1>6. ASSUME NEW s \in Slots, BuildFails(s)
        PROVE  Claims' \subseteq Claims
    BY <1>0, <1>6, ClaimsStay DEF BuildFails
  <1>7. ASSUME NEW s \in Slots, ScoreAnswered(s)
        PROVE  Claims' \subseteq Claims
    <2>1. /\ \A t \in Slots \ {s} : handler'[t] = handler[t]
          /\ handler'[s] = Idle
          /\ handler[s].id \in Claims
          /\ scored' \subseteq Claims
      BY <1>0, <1>7 DEF ScoreAnswered, Claims
    <2>. QED BY <1>0, <2>1 DEF Claims
  <1>8. CASE Dies
    <2>1. scored' = scored /\ \A t \in Slots : handler'[t].pc # "score"
      BY <1>0, <1>8 DEF Dies
    <2>. QED BY <2>1 DEF Claims
  <1>9. ASSUME NEW id \in DOMAIN evidence, NEW risk \in Risks, NEW s \in Slots, Attach(s, id, risk)
        PROVE  Claims' \subseteq Claims \cup {id}
    <2>1. /\ scored' = scored
          /\ handler'[s] = Scoring(id)
          /\ \A t \in Slots \ {s} : handler'[t] = handler[t]
      BY <1>0, <1>9 DEF Attach, Attaching
    <2>. QED BY <2>1 DEF Claims, Scoring
  <1>10. ASSUME NEW id \in DOMAIN evidence, NEW risk \in Risks, NEW s \in Slots, AttachFails(s, id, risk)
         PROVE  Claims' = Claims
    <2>1. handler' = handler /\ scored' = scored
      BY <1>10 DEF AttachFails, Attaching
    <2>. QED BY <2>1 DEF Claims
  <1>11. CASE Start \/ UNCHANGED vars
    <2>1. handler' = handler /\ scored' = scored
      BY <1>11 DEF Start, vars
    <2>. QED BY <2>1 DEF Claims
  <1>. QED
    BY <1>2, <1>3, <1>4, <1>5, <1>6, <1>7, <1>8, <1>9, <1>10, <1>11
       DEF Next, Receives, Scores, Handler, Crash, CrashInBuild, CrashInAttach

LEMMA KeptInit == Init => Kept
BY DEF Init, Kept, Claims, Idle

LEMMA KeptNext == Typed /\ Served /\ Kept /\ [Next]_vars => Kept'
  <1>. SUFFICES ASSUME Typed, Served, Kept, [Next]_vars, WholeWrites', NEW id \in Claims'
                PROVE  /\ id \in DOMAIN LoadEvidence(file')
                       /\ LoadEvidence(file')[id].risk # NoRisk
    BY DEF Kept
  <1>0. WholeWrites
    BY PlanStays DEF WholeWrites
  <1>1. CASE id \in Claims
    <2>1. /\ id \in DOMAIN LoadEvidence(file)
          /\ LoadEvidence(file)[id].risk # NoRisk
      BY <1>0, <1>1 DEF Kept
    <2>. QED BY <1>0, <2>1, LoadStep, AnalyzerAssumption
  <1>2. CASE id \notin Claims
    <2>1. PICK s \in Slots, risk \in Risks : id \in DOMAIN evidence /\ Attach(s, id, risk)
      BY <1>2, ClaimsStep
    <2>2. /\ evidence' = Holding(evidence, Updated(id, risk))
          /\ Updated(id, risk).id = id /\ Updated(id, risk).risk = risk
          /\ up' = up /\ up
      BY <2>1, UpdatedType DEF Attach, Attaching
    <2>3. evidence' = LoadEvidence(file')
      BY <1>0, <2>2, ServedNext, PlanStays DEF Served, WholeWrites
    <2>. QED BY <2>2, <2>3, AnalyzerAssumption DEF Holding
  <1>. QED BY <1>1, <1>2

\* A risk score answered with 200 survives every later kill, as long as
\* writes are whole (main.py:512-525).
THEOREM ScoresStay == Spec => []ScoresKept
  <1>1. Kept => ScoresKept
    BY DEF Kept, Claims, ScoresKept
  <1>. QED
    BY <1>1, TypedInit, TypedNext, ServedInit, ServedNext, KeptInit, KeptNext, PTL DEF Spec

-----------------------------------------------------------------------------
(* Mails about evidence the analyzer does not have.                        *)

Orphans == (1 .. made) \ DOMAIN LoadEvidence(file)

OrphansBounded == WholeWrites => Cardinality(Orphans) <= crashes

\* A step makes an orphan only by a kill, and then one.
LEMMA OrphansStep ==
    ASSUME Typed, Served, WholeWrites, [Next]_vars
    PROVE  \/ /\ Orphans' \subseteq Orphans
              /\ crashes' >= crashes
           \/ /\ Orphans' \subseteq Orphans \cup {made + 1}
              /\ crashes' = crashes + 1
  <1>0. /\ made \in Nat /\ crashes \in Nat
        /\ DOMAIN LoadEvidence(file) \subseteq DOMAIN LoadEvidence(file')
    BY LoadStep DEF Typed, TypeOK
  <1>1. CASE made' = made /\ crashes' \in {crashes, crashes + 1}
    BY <1>0, <1>1 DEF Orphans
  <1>2. ASSUME NEW s \in Slots, Builds(s)
        PROVE  Orphans' \subseteq Orphans /\ crashes' = crashes
    <2>1. /\ made' = made + 1 /\ crashes' = crashes
          /\ file' = AppendRec(file, NewRecord(s))
          /\ NewRecord(s) \in Record /\ NewRecord(s).id = made + 1
      BY <1>2, NewRecordType DEF Builds, Building
    <2>2. LoadEvidence(file') = Holding(LoadEvidence(file), NewRecord(s))
      BY <2>1, LoadAppend DEF Served, Typed
    <2>3. made + 1 \in DOMAIN LoadEvidence(file')
      BY <2>1, <2>2 DEF Holding
    <2>. QED BY <1>0, <2>1, <2>3 DEF Orphans
  <1>3. ASSUME NEW s \in Slots, CrashInBuild(s)
        PROVE  Orphans' \subseteq Orphans \cup {made + 1} /\ crashes' = crashes + 1
    <2>1. made' = made + 1 /\ crashes' = crashes + 1
      BY <1>3 DEF CrashInBuild, Building, Dies
    <2>. QED BY <1>0, <2>1 DEF Orphans
  <1>4. ASSUME NEW s \in Slots,
               \/ BuildFails(s) \/ TimesOut(s) \/ Pushed(s) \/ ScoreAnswered(s)
               \/ \E n \in Notifs : Receive(s, n)
        PROVE  made' = made /\ crashes' = crashes
    <2>1. ~ BuildFails(s)
      BY DEF BuildFails, Inject, WholeWrites
    <2>. QED BY <1>4, <2>1 DEF TimesOut, Pushed, ScoreAnswered, Receive, store
  <1>5. CASE Scores \/ Start \/ Crash \/ UNCHANGED vars
    BY <1>1, <1>5 DEF Scores, CrashInAttach, Dies, Attach, AttachFails, Attaching,
                      Start, Crash, vars, store
  <1>. QED
    BY <1>0, <1>1, <1>2, <1>3, <1>4, <1>5 DEF Next, Receives, Handler

LEMMA OrphansNext == Typed /\ Served /\ OrphansBounded /\ [Next]_vars => OrphansBounded'
  <1>. SUFFICES ASSUME Typed, Served, OrphansBounded, [Next]_vars, WholeWrites'
                PROVE  Cardinality(Orphans') <= crashes'
    BY DEF OrphansBounded
  <1>1. WholeWrites /\ Cardinality(Orphans) <= crashes
    BY PlanStays DEF WholeWrites, OrphansBounded
  <1>2. /\ made \in Nat /\ crashes \in Nat /\ crashes' \in Nat
        /\ IsFiniteSet(Orphans) /\ Cardinality(Orphans) \in Nat
    <2>1. made \in Nat /\ crashes \in Nat /\ crashes' \in Nat
      BY TypedNext DEF Typed, TypeOK
    <2>2. IsFiniteSet(1 .. made)
      BY <2>1, FS_Interval
    <2>3. IsFiniteSet(Orphans)
      BY <2>2, FS_Subset DEF Orphans
    <2>. QED BY <2>1, <2>3, FS_CardinalityType
  <1>3. CASE Orphans' \subseteq Orphans /\ crashes' >= crashes
    <2>1. Cardinality(Orphans') <= Cardinality(Orphans) /\ Cardinality(Orphans') \in Nat
      BY <1>2, <1>3, FS_Subset, FS_CardinalityType
    <2>. QED BY <1>1, <1>2, <1>3, <2>1
  <1>4. CASE Orphans' \subseteq Orphans \cup {made + 1} /\ crashes' = crashes + 1
    <2>1. /\ IsFiniteSet(Orphans \cup {made + 1})
          /\ Cardinality(Orphans \cup {made + 1}) <= Cardinality(Orphans) + 1
          /\ Cardinality(Orphans \cup {made + 1}) \in Nat
      <3>1. /\ IsFiniteSet(Orphans \cup {made + 1})
            /\ \/ Cardinality(Orphans \cup {made + 1}) = Cardinality(Orphans)
               \/ Cardinality(Orphans \cup {made + 1}) = Cardinality(Orphans) + 1
        BY <1>2, FS_AddElement
      <3>. QED BY <1>2, <3>1
    <2>2. Cardinality(Orphans') <= Cardinality(Orphans \cup {made + 1}) /\ Cardinality(Orphans') \in Nat
      BY <1>4, <2>1, FS_Subset, FS_CardinalityType
    <2>. QED BY <1>1, <1>2, <1>4, <2>1, <2>2
  <1>. QED BY <1>1, <1>3, <1>4, OrphansStep

LEMMA OrphansInit == Init => OrphansBounded
  <1>. SUFFICES ASSUME Init PROVE Cardinality(Orphans) <= crashes
    BY DEF OrphansBounded
  <1>1. Orphans = {} /\ crashes = 0
    BY DEF Init, Orphans
  <1>. QED BY <1>1, FS_EmptySet

\* Mails about evidence nobody can look up are no more than the kills
\* (main.py:429-431).
THEOREM OrphanMails == Spec => []OrphanMailsBounded
  <1>1. OrphansBounded => OrphanMailsBounded
    BY DEF OrphansBounded, Orphans, OrphanMailsBounded
  <1>. QED
    BY <1>1, TypedInit, TypedNext, ServedInit, ServedNext, OrphansInit, OrphansNext, PTL DEF Spec

-----------------------------------------------------------------------------
(* The evidence log.                                                       *)

\* A handler has stored every alert before the one it is at, or up to it
\* once it is pushing; a notification that was answered is stored.
StoredBefore(h) ==
    /\ h.pc = "bundle" => \A j \in Wanted(h.n) : j < h.i => <<h.n, j>> \in Stored
    /\ h.pc = "push" => \A j \in Wanted(h.n) : j <= h.i => <<h.n, j>> \in Stored

Covered ==
    WholeWrites =>
      /\ \A s \in Slots : StoredBefore(handler[s])
      /\ \A n \in acked : \A j \in Wanted(n) : <<n, j>> \in Stored

\* What an append does to the stored alerts.
LEMMA StoredAppend ==
    ASSUME IsFile(file), ~ file.open, NEW r \in Record, file' = AppendRec(file, r)
    PROVE  Stored' = Stored \cup {<<r.n, r.i>>}
  <1>. DEFINE n == Len(file.lines)
  <1>1. /\ file'.lines = Append(file.lines, r)
        /\ file.lines \in Seq(Line) /\ n \in Nat /\ r \in Line
    BY DEF AppendRec, Put, IsFile, Line
  <1>2. /\ DOMAIN file'.lines = 1 .. n + 1
        /\ DOMAIN file.lines = 1 .. n
        /\ file'.lines[n + 1] = r
        /\ \A i \in 1 .. n : file'.lines[i] = file.lines[i]
    BY <1>1
  <1>3. Readable(file') = Readable(file) \cup {n + 1} /\ Readable(file) \subseteq 1 .. n
    BY <1>1, <1>2, TornAssumption DEF Readable
  <1>. QED BY <1>2, <1>3 DEF Stored

\* Every step stores at most the alert a handler is at.
LEMMA StoredStep ==
    ASSUME Typed, Served, WholeWrites, [Next]_vars
    PROVE  \/ Stored' = Stored
           \/ \E s \in Slots :
                /\ Building(s) /\ file' = AppendRec(file, NewRecord(s))
                /\ Stored' = Stored \cup {<<handler[s].n, handler[s].i>>}
  <1>0. IsFile(file) /\ ~ file.open /\ (up => evidence = LoadEvidence(file))
    BY DEF Typed, Served
  <1>1. CASE file' = file
    BY <1>1 DEF Stored
  <1>2. CASE WritesNew
    <2>1. PICK s \in Slots : Building(s) /\ file' = AppendRec(file, NewRecord(s))
      BY <1>2 DEF WritesNew
    <2>2. /\ NewRecord(s) \in Record
          /\ NewRecord(s).n = handler[s].n /\ NewRecord(s).i = handler[s].i
      BY <2>1, NewRecordType DEF NewRecord, EvidenceRecord
    <2>. QED BY <1>0, <2>1, <2>2, StoredAppend
  <1>3. CASE WritesScore
    <2>1. PICK id \in DOMAIN evidence, risk \in Risks : up /\ file' = AppendRec(file, Updated(id, risk))
      BY <1>3 DEF WritesScore
    <2>2. Stored' = Stored \cup {<<Updated(id, risk).n, Updated(id, risk).i>>}
      BY <1>0, <2>1, UpdatedType, StoredAppend
    <2>3. PICK k \in Readable(file) : evidence[id] = file.lines[k]
      <3>1. evidence = LoadEvidence(file)
        BY <1>0, <2>1
      <3>2. id \in DOMAIN LoadEvidence(file)
        BY <3>1
      <3>3. \E k \in Readable(file) : /\ LoadEvidence(file)[id] = file.lines[k]
                                      /\ file.lines[k] \in Record
                                      /\ file.lines[k].id = id
        <4>1. IsFile(file)
          BY <1>0
        <4>. QED BY <3>2, <4>1, LoadType
      <3>. QED BY <3>1, <3>3
    <2>. QED BY <2>2, <2>3, UpdatedType DEF Stored
  <1>. QED BY <1>1, <1>2, <1>3, WholeStep

LEMMA CoveredInit == Init => Covered
BY DEF Init, Covered, StoredBefore, Idle

\* A handler that goes on, and has stored all up to where it was.
LEMMA CoveredContinues ==
    ASSUME Typed, Stored' = Stored,
           \A t \in Slots : StoredBefore(handler[t]),
           \A n \in acked : \A j \in Wanted(n) : <<n, j>> \in Stored,
           NEW s \in Slots, NEW n \in Notifs, NEW i \in Nat, NEW heard,
           \A j \in Wanted(n) : j <= i => <<n, j>> \in Stored,
           Continues(s, n, i, heard)
    PROVE  /\ \A t \in Slots : StoredBefore(handler[t])'
           /\ \A m \in acked' : \A j \in Wanted(m) : <<m, j>> \in Stored'
  <1>0. handler \in [Slots -> States(made)]
    BY DEF Typed, TypeOK, States
  <1>1. CASE Collects(s, n, i, heard)
    <2>1. PICK k \in Later(n, i) :
            /\ \A j \in Later(n, i) : k <= j
            /\ handler' = [handler EXCEPT ![s] = Handling("bundle", n, k, heard)]
      BY <1>1 DEF Collects
    <2>2. \A j \in Wanted(n) : j < k => <<n, j>> \in Stored
      <3>. TAKE j \in Wanted(n)
      <3>. HAVE j < k
      <3>1. j \in Nat /\ k \in Nat
        BY WantedType DEF Later
      <3>2. ~ (j > i)
        BY <2>1, <3>1 DEF Later
      <3>. QED BY <3>1, <3>2
    <2>3. /\ handler'[s] = Handling("bundle", n, k, heard)
          /\ \A t \in Slots \ {s} : handler'[t] = handler[t]
      BY <1>0, <2>1
    <2>4. StoredBefore(handler[s])'
      BY <2>2, <2>3 DEF StoredBefore, Handling
    <2>. QED BY <1>1, <2>3, <2>4 DEF StoredBefore, Collects
  <1>2. CASE Answers(s, n, i, heard)
    <2>1. /\ handler'[s] = Idle
          /\ \A t \in Slots \ {s} : handler'[t] = handler[t]
          /\ acked' \subseteq acked \cup {n}
      BY <1>0, <1>2 DEF Answers
    <2>2. \A j \in Wanted(n) : <<n, j>> \in Stored
      <3>. TAKE j \in Wanted(n)
      <3>1. j \in Nat /\ ~ (j > i)
        BY <1>2, WantedType DEF Answers, Later
      <3>. QED BY <3>1
    <2>. QED BY <2>1, <2>2 DEF StoredBefore, Idle
  <1>. QED BY <1>1, <1>2 DEF Continues

LEMMA CoveredNext == Typed /\ Served /\ Covered /\ [Next]_vars => Covered'
  <1>. SUFFICES ASSUME Typed, Served, Covered, [Next]_vars, WholeWrites'
                PROVE  /\ \A t \in Slots : StoredBefore(handler[t])'
                       /\ \A n \in acked' : \A j \in Wanted(n) : <<n, j>> \in Stored'
    BY DEF Covered
  <1>0. /\ WholeWrites
        /\ \A t \in Slots : StoredBefore(handler[t])
        /\ \A n \in acked : \A j \in Wanted(n) : <<n, j>> \in Stored
        /\ handler \in [Slots -> States(made)]
    BY PlanStays DEF WholeWrites, Covered, Typed, TypeOK, States
  <1>1. Stored \subseteq Stored'
    BY <1>0, StoredStep
  <1>2. ASSUME NEW s \in Slots, NEW n \in Notifs, Receive(s, n)
        PROVE  /\ \A t \in Slots : StoredBefore(handler[t])'
               /\ \A m \in acked' : \A j \in Wanted(m) : <<m, j>> \in Stored'
    <2>1. Stored' = Stored /\ Continues(s, n, 0, TRUE)
      BY <1>2 DEF Receive, store, Stored
    <2>2. \A j \in Wanted(n) : j <= 0 => <<n, j>> \in Stored
      BY WantedType
    <2>. QED BY <1>0, <2>1, <2>2, CoveredContinues
  <1>3. ASSUME NEW s \in Slots, Pushed(s)
        PROVE  /\ \A t \in Slots : StoredBefore(handler[t])'
               /\ \A m \in acked' : \A j \in Wanted(m) : <<m, j>> \in Stored'
    <2>1. /\ Stored' = Stored
          /\ Continues(s, handler[s].n, handler[s].i, handler[s].heard)
          /\ handler[s].pc = "push"
      BY <1>3 DEF Pushed, store, Stored
    <2>2. handler[s].n \in Notifs /\ handler[s].i \in Nat
      BY <2>1, AtWorkType, WantedType DEF AtWork
    <2>3. \A j \in Wanted(handler[s].n) : j <= handler[s].i => <<handler[s].n, j>> \in Stored
      BY <1>0, <2>1 DEF StoredBefore
    <2>. QED BY <1>0, <2>1, <2>2, <2>3, CoveredContinues
  <1>4. ASSUME acked' = acked,
               NEW s \in Slots, NEW h, handler' = [handler EXCEPT ![s] = h],
               /\ h.pc = "bundle" => \A j \in Wanted(h.n) : j < h.i => <<h.n, j>> \in Stored'
               /\ h.pc = "push" => \A j \in Wanted(h.n) : j <= h.i => <<h.n, j>> \in Stored'
        PROVE  /\ \A t \in Slots : StoredBefore(handler[t])'
               /\ \A m \in acked' : \A j \in Wanted(m) : <<m, j>> \in Stored'
    <2>1. /\ handler'[s] = h
          /\ \A t \in Slots \ {s} : handler'[t] = handler[t]
      BY <1>0, <1>4
    <2>. QED BY <1>0, <1>1, <1>4, <2>1 DEF StoredBefore
  <1>5. ASSUME NEW s \in Slots, TimesOut(s)
        PROVE  /\ \A t \in Slots : StoredBefore(handler[t])'
               /\ \A m \in acked' : \A j \in Wanted(m) : <<m, j>> \in Stored'
    <2>. DEFINE h == [handler[s] EXCEPT !.heard = FALSE]
    <2>1. handler[s] \in HandlingOf(handler[s].n)
      BY <1>5, AtWorkType DEF TimesOut
    <2>2. h.pc = handler[s].pc /\ h.n = handler[s].n /\ h.i = handler[s].i
      BY <2>1 DEF HandlingOf
    <2>3. /\ acked' = acked
          /\ handler' = [handler EXCEPT ![s] = h]
      BY <1>0, <1>5 DEF TimesOut
    <2>. HIDE DEF h
    <2>. QED BY <1>0, <1>1, <1>4, <2>2, <2>3 DEF StoredBefore
  <1>6. ASSUME NEW s \in Slots, Builds(s)
        PROVE  /\ \A t \in Slots : StoredBefore(handler[t])'
               /\ \A m \in acked' : \A j \in Wanted(m) : <<m, j>> \in Stored'
    <2>. DEFINE h == [handler[s] EXCEPT !.pc = "push"]
    <2>1. Building(s) /\ handler[s].pc = "bundle" /\ file' = AppendRec(file, NewRecord(s))
      BY <1>6 DEF Builds, Building
    <2>2. handler[s] \in HandlingOf(handler[s].n) /\ handler[s].i \in Nat
      BY <2>1, AtWorkType, WantedType DEF AtWork
    <2>3. h.pc = "push" /\ h.n = handler[s].n /\ h.i = handler[s].i
      BY <2>2 DEF HandlingOf
    <2>4. /\ acked' = acked
          /\ handler' = [handler EXCEPT ![s] = h]
      BY <1>0, <1>6 DEF Builds
    <2>5. Stored' = Stored \cup {<<handler[s].n, handler[s].i>>}
      <3>1. /\ NewRecord(s) \in Record
            /\ NewRecord(s).n = handler[s].n /\ NewRecord(s).i = handler[s].i
        BY <2>1, NewRecordType DEF NewRecord, EvidenceRecord
      <3>. QED BY <1>0, <2>1, <3>1, StoredAppend DEF Typed, Served
    <2>6. \A j \in Wanted(handler[s].n) : j <= handler[s].i => <<handler[s].n, j>> \in Stored'
      <3>. TAKE j \in Wanted(handler[s].n)
      <3>. HAVE j <= handler[s].i
      <3>1. j \in Nat
        BY <2>1, AtWorkType, WantedType DEF AtWork
      <3>2. j < handler[s].i \/ j = handler[s].i
        BY <2>2, <3>1
      <3>. QED BY <1>0, <2>1, <2>5, <3>2 DEF StoredBefore
    <2>. HIDE DEF h
    <2>. QED BY <1>4, <2>3, <2>4, <2>6
  <1>7. ASSUME NEW s \in Slots, ScoreAnswered(s)
        PROVE  /\ \A t \in Slots : StoredBefore(handler[t])'
               /\ \A m \in acked' : \A j \in Wanted(m) : <<m, j>> \in Stored'
    BY <1>4, <1>7 DEF ScoreAnswered, Idle
  <1>8. ASSUME NEW s \in Slots, NEW id \in DOMAIN evidence, NEW risk \in Risks, Attach(s, id, risk)
        PROVE  /\ \A t \in Slots : StoredBefore(handler[t])'
               /\ \A m \in acked' : \A j \in Wanted(m) : <<m, j>> \in Stored'
    BY <1>4, <1>8 DEF Attach, Attaching, Scoring
  <1>9. CASE Dies
    <2>1. acked' = acked /\ \A t \in Slots : handler'[t] = Idle
      BY <1>9 DEF Dies
    <2>. QED BY <1>0, <1>1, <2>1 DEF StoredBefore, Idle
  <1>10. CASE Start \/ UNCHANGED vars
    <2>1. acked' = acked /\ handler' = handler
      BY <1>10 DEF Start, vars
    <2>. QED BY <1>0, <1>1, <2>1 DEF StoredBefore
  <1>11. ~ Inject("full")
    BY <1>0 DEF WholeWrites, Inject
  <1>. QED
    BY <1>2, <1>3, <1>5, <1>6, <1>7, <1>8, <1>9, <1>10, <1>11
       DEF Next, Receives, Scores, Handler, Crash, CrashInBuild, CrashInAttach,
           BuildFails, AttachFails

\* Each step is a step of the log, or none.
LEMMA LogStep ==
    ASSUME Typed, Served, Covered, Covered', [Next]_vars
    PROVE  [Log!Next]_(Log!vars)
  <1>. DEFINE logStored == IF WholeWrites THEN Stored ELSE {}
              logAcked == IF WholeWrites THEN acked ELSE {}
  <1>0. WholeWrites' = WholeWrites
    BY PlanStays DEF WholeWrites
  <1>1. CASE ~ WholeWrites
    <2>1. logStored' = logStored /\ logAcked' = logAcked
      BY <1>0, <1>1
    <2>. QED BY <2>1 DEF Log!vars
  <1>2. CASE WholeWrites
    <2>1. /\ logStored = Stored /\ logStored' = Stored'
          /\ logAcked = acked /\ logAcked' = acked'
      BY <1>0, <1>2
    <2>2. CASE Stored' = Stored /\ acked' = acked
      BY <2>1, <2>2 DEF Log!vars
    <2>3. ASSUME NEW s \in Slots, Building(s), acked' = acked,
                 Stored' = Stored \cup {<<handler[s].n, handler[s].i>>}
          PROVE  Log!Next
      <3>1. handler[s].n \in Notifs /\ handler[s].i \in Wanted(handler[s].n)
        BY <2>3, AtWorkType DEF Building, AtWork
      <3>. QED BY <2>1, <2>3, <3>1 DEF Log!Next, Log!Store
    <2>4. ASSUME NEW s \in Slots, NEW n \in Notifs, NEW i, NEW heard,
                 Continues(s, n, i, heard), Stored' = Stored
          PROVE  Log!Next \/ (Stored' = Stored /\ acked' = acked)
      <3>1. acked' = acked \/ acked' = acked \cup {n}
        BY <2>4 DEF Continues, Collects, Answers
      <3>2. CASE acked' = acked \cup {n}
        <4>1. \A j \in Wanted(n) : <<n, j>> \in Stored
          BY <1>0, <1>2, <2>4, <3>2 DEF Covered
        <4>. QED BY <2>1, <2>4, <3>2, <4>1 DEF Log!Next, Log!Ack
      <3>. QED BY <2>4, <3>1, <3>2
    <2>5. ASSUME NEW s \in Slots, Pushed(s) \/ \E n \in Notifs : Receive(s, n)
          PROVE  Log!Next \/ (Stored' = Stored /\ acked' = acked)
      <3>1. Stored' = Stored
        BY <2>5 DEF Pushed, Receive, store, Stored
      <3>2. CASE Pushed(s)
        <4>1. handler[s].n \in Notifs
          BY <3>2, AtWorkType DEF Pushed, AtWork
        <4>. QED BY <2>4, <3>1, <3>2, <4>1 DEF Pushed
      <3>3. CASE \E n \in Notifs : Receive(s, n)
        BY <2>4, <3>1, <3>3 DEF Receive
      <3>. QED BY <2>5, <3>2, <3>3
    <2>6. ASSUME ~ \E s \in Slots : Pushed(s) \/ \E n \in Notifs : Receive(s, n)
          PROVE  acked' = acked
      <3>1. ASSUME NEW s \in Slots, \/ Builds(s) \/ ScoreAnswered(s) \/ BuildFails(s)
                                    \/ TimesOut(s) \/ CrashInBuild(s)
            PROVE  acked' = acked
        BY <3>1 DEF Builds, ScoreAnswered, BuildFails, TimesOut, CrashInBuild, Dies
      <3>2. CASE Scores
        BY <3>2 DEF Scores, CrashInAttach, Dies, Attach, AttachFails, Attaching
      <3>3. CASE Start \/ Crash \/ UNCHANGED vars
        BY <3>3 DEF Start, Crash, Dies, vars
      <3>. QED BY <2>6, <3>1, <3>2, <3>3 DEF Next, Receives, Handler
    <2>. QED BY <1>2, <2>2, <2>3, <2>5, <2>6, StoredStep
  <1>. QED BY <1>1, <1>2

\* The analyzer implements the evidence log: nothing stored is lost, and a
\* 200 means that every alert of the notification is stored (main.py:6-16,
\* 468-488).
THEOREM Implements == Spec => ImplementsLog
  <1>1. Init => Log!Init
    BY DEF Init, Log!Init, Stored, Readable, EmptyFile
  <1>. QED
    BY <1>1, TypedInit, TypedNext, ServedInit, ServedNext, CoveredInit, CoveredNext, LogStep, PTL
       DEF Spec, ImplementsLog, Log!Spec
-----------------------------------------------------------------------------
(* What a cut write can cost, under every mix of faults.                   *)

\* The lines no later append can spoil, and the alerts they are about.
Settled(f) == { i \in Readable(f) : f.open => i # Len(f.lines) }

Safe(f) == { <<f.lines[i].n, f.lines[i].i>> : i \in Settled(f) }

\* A handler is past alert j of notification n.
Passed(h, n, j) ==
    \/ h.pc = "bundle" /\ h.n = n /\ j < h.i
    \/ h.pc = "push" /\ h.n = n /\ j <= h.i

\* The alerts the analyzer has answered for, or will without another append.
Vouched ==
    { p \in Notifs \X Nat :
        /\ p[2] \in Wanted(p[1])
        /\ \/ p[1] \in acked
           \/ \E s \in Slots : Passed(handler[s], p[1], p[2]) }

Missing == Vouched \ Safe(file)

\* Each fault pays for a line without newline, and then for the alert whose
\* line is glued to it.
Paid ==
    /\ IsFiniteSet(Missing)
    /\ Cardinality(Missing) + (IF file.open THEN 1 ELSE 0) <= faults

LEMMA SafePut ==
    ASSUME NEW f, IsFile(f), NEW r \in Line, NEW open \in BOOLEAN
    PROVE  Safe(f) \subseteq Safe(Put(f, r, open))
  <1>. DEFINE g == Put(f, r, open)
              n == Len(f.lines)
  <1>0. f.lines \in Seq(Line) /\ n \in Nat /\ DOMAIN f.lines = 1 .. n
    BY DEF IsFile
  <1>1. ASSUME NEW i \in Settled(f)
        PROVE  i \in Settled(g) /\ g.lines[i] = f.lines[i]
    <2>1. i \in 1 .. n /\ f.lines[i] # Torn /\ (f.open => i # n)
      BY <1>0, <1>1 DEF Settled, Readable
    <2>2. CASE f.open
      <3>1. g.lines = [f.lines EXCEPT ![n] = Torn]
        BY <2>2 DEF Put
      <3>2. n \in 1 .. n
        BY <1>0, <2>1
      <3>3. /\ Len(g.lines) = n /\ DOMAIN g.lines = 1 .. n
            /\ g.lines[i] = f.lines[i]
        <4>1. g.lines \in Seq(Line) /\ Len(g.lines) = n
          BY <1>0, <3>1, <3>2, ExceptSeq DEF Line
        <4>. QED BY <1>0, <2>1, <2>2, <3>1, <4>1
      <3>. QED BY <2>1, <2>2, <3>3 DEF Settled, Readable
    <2>3. CASE ~ f.open
      <3>1. g.lines = Append(f.lines, r)
        BY <2>3 DEF Put
      <3>2. /\ Len(g.lines) = n + 1 /\ DOMAIN g.lines = 1 .. n + 1
            /\ g.lines[i] = f.lines[i]
        BY <1>0, <2>1, <3>1
      <3>3. i # n + 1 /\ i \in 1 .. n + 1
        BY <1>0, <2>1
      <3>. QED BY <2>1, <3>2, <3>3 DEF Settled, Readable
    <2>. QED BY <2>2, <2>3
  <1>. QED BY <1>1 DEF Safe

LEMMA SafeAppend ==
    ASSUME NEW f, IsFile(f), ~ f.open, NEW r \in Record
    PROVE  <<r.n, r.i>> \in Safe(AppendRec(f, r))
  <1>. DEFINE g == AppendRec(f, r)
              n == Len(f.lines)
  <1>1. g.lines = Append(f.lines, r) /\ g.open = FALSE
    BY DEF AppendRec, Put
  <1>2. f.lines \in Seq(Line) /\ n \in Nat /\ r \in Line
    BY DEF IsFile, Line
  <1>3. n + 1 \in DOMAIN g.lines /\ g.lines[n + 1] = r
    BY <1>1, <1>2
  <1>4. n + 1 \in Settled(g)
    BY <1>1, <1>3, TornAssumption DEF Settled, Readable
  <1>. QED BY <1>3, <1>4 DEF Safe

\* How the file of a step may look, and that it spoils no settled line.
LEMMA SafeStep ==
    ASSUME Typed, NEW r \in Record,
           \/ file' = file
           \/ file' = AppendRec(file, r)
           \/ file' \in Damaged(file, r)
    PROVE  Safe(file) \subseteq Safe(file')
  <1>1. IsFile(file) /\ r \in Line /\ Torn \in Line
    BY DEF Typed, Line
  <1>. QED BY <1>1, SafePut DEF AppendRec, Damaged

LEMMA Smaller ==
    ASSUME NEW A, IsFiniteSet(A), NEW B, B \subseteq A
    PROVE  /\ IsFiniteSet(B) /\ Cardinality(B) \in Nat /\ Cardinality(A) \in Nat
           /\ Cardinality(B) <= Cardinality(A)
BY FS_Subset, FS_CardinalityType

LEMMA OneMore ==
    ASSUME NEW A, IsFiniteSet(A), NEW x, NEW B, B \subseteq A \cup {x}
    PROVE  /\ IsFiniteSet(B) /\ Cardinality(B) \in Nat /\ Cardinality(A) \in Nat
           /\ Cardinality(B) <= Cardinality(A) + 1
  <1>1. /\ IsFiniteSet(A \cup {x}) /\ Cardinality(A) \in Nat
        /\ \/ Cardinality(A \cup {x}) = Cardinality(A)
           \/ Cardinality(A \cup {x}) = Cardinality(A) + 1
    BY FS_AddElement, FS_CardinalityType
  <1>2. /\ IsFiniteSet(B) /\ Cardinality(B) \in Nat
        /\ Cardinality(B) <= Cardinality(A \cup {x})
    BY <1>1, Smaller
  <1>. QED BY <1>1, <1>2

\* The three ways a step keeps the account.
LEMMA PaidFree ==
    ASSUME Typed, Paid, Missing' \subseteq Missing,
           file'.open => file.open, faults' = faults
    PROVE  Paid'
  <1>1. /\ IsFiniteSet(Missing') /\ Cardinality(Missing') \in Nat
        /\ Cardinality(Missing) \in Nat /\ Cardinality(Missing') <= Cardinality(Missing)
    BY Smaller DEF Paid
  <1>2. faults \in Nat
    BY AnalyzerAssumption DEF Typed, TypeOK
  <1>. QED BY <1>1, <1>2 DEF Paid

LEMMA PaidByFault ==
    ASSUME Typed, Paid, Missing' \subseteq Missing, faults' = faults + 1
    PROVE  Paid'
  <1>1. /\ IsFiniteSet(Missing') /\ Cardinality(Missing') \in Nat
        /\ Cardinality(Missing) \in Nat /\ Cardinality(Missing') <= Cardinality(Missing)
    BY Smaller DEF Paid
  <1>2. faults \in Nat
    BY AnalyzerAssumption DEF Typed, TypeOK
  <1>. QED BY <1>1, <1>2 DEF Paid

LEMMA PaidByClosing ==
    ASSUME Typed, Paid, NEW x, Missing' \subseteq Missing \cup {x},
           file.open, ~ file'.open, faults' = faults
    PROVE  Paid'
  <1>1. /\ IsFiniteSet(Missing') /\ Cardinality(Missing') \in Nat
        /\ Cardinality(Missing) \in Nat /\ Cardinality(Missing') <= Cardinality(Missing) + 1
    BY OneMore DEF Paid
  <1>2. faults \in Nat
    BY AnalyzerAssumption DEF Typed, TypeOK
  <1>. QED BY <1>1, <1>2 DEF Paid

\* A handler that changes its place without passing an alert.
LEMMA VouchedHandler ==
    ASSUME Typed, acked' = acked,
           NEW s \in Slots, NEW h, handler' = [handler EXCEPT ![s] = h],
           \A n \in Notifs : \A j \in Wanted(n) : Passed(h, n, j) => <<n, j>> \in Vouched
    PROVE  Vouched' \subseteq Vouched
  <1>1. handler \in [Slots -> States(made)]
    BY DEF Typed, TypeOK, States
  <1>2. /\ handler'[s] = h
        /\ \A t \in Slots \ {s} : handler'[t] = handler[t]
    BY <1>1
  <1>3. ASSUME NEW n \in Notifs, NEW j \in Wanted(n),
               n \in acked' \/ \E t \in Slots : Passed(handler'[t], n, j)
        PROVE  <<n, j>> \in Vouched
    <2>1. j \in Nat
      BY WantedType
    <2>2. CASE n \in acked
      BY <2>1, <2>2 DEF Vouched
    <2>3. ASSUME NEW t \in Slots, Passed(handler'[t], n, j)
          PROVE  <<n, j>> \in Vouched
      <3>1. CASE t = s
        BY <1>2, <2>3, <3>1
      <3>2. CASE t # s
        BY <1>2, <2>1, <2>3, <3>2 DEF Vouched
      <3>. QED BY <3>1, <3>2
    <2>. QED BY <1>3, <2>2, <2>3
  <1>. QED BY <1>3 DEF Vouched, Passed

\* A handler that goes on, to its next alert or to its answer.
LEMMA VouchedContinues ==
    ASSUME Typed, NEW s \in Slots, NEW n \in Notifs, NEW i \in Nat, NEW heard,
           \A j \in Wanted(n) : j <= i => <<n, j>> \in Vouched,
           Continues(s, n, i, heard)
    PROVE  Vouched' \subseteq Vouched
  <1>1. CASE Collects(s, n, i, heard)
    <2>1. PICK k \in Later(n, i) :
            /\ \A j \in Later(n, i) : k <= j
            /\ handler' = [handler EXCEPT ![s] = Handling("bundle", n, k, heard)]
      BY <1>1 DEF Collects
    <2>2. ASSUME NEW m \in Notifs, NEW j \in Wanted(m),
                 Passed(Handling("bundle", n, k, heard), m, j)
          PROVE  <<m, j>> \in Vouched
      <3>1. m = n /\ j < k
        BY <2>2 DEF Passed, Handling
      <3>2. j \in Nat /\ k \in Nat
        BY <3>1, WantedType DEF Later
      <3>3. ~ (j > i)
        BY <2>1, <3>1, <3>2 DEF Later
      <3>. QED BY <3>1, <3>2, <3>3
    <2>. QED BY <1>1, <2>1, <2>2, VouchedHandler DEF Collects
  <1>2. CASE Answers(s, n, i, heard)
    <2>1. handler \in [Slots -> States(made)]
      BY DEF Typed, TypeOK, States
    <2>2. /\ handler'[s] = Idle
          /\ \A t \in Slots \ {s} : handler'[t] = handler[t]
          /\ acked' \subseteq acked \cup {n}
      BY <1>2, <2>1 DEF Answers
    <2>3. \A j \in Wanted(n) : <<n, j>> \in Vouched
      <3>. TAKE j \in Wanted(n)
      <3>1. j \in Nat /\ ~ (j > i)
        BY <1>2, WantedType DEF Answers, Later
      <3>. QED BY <3>1
    <2>4. ASSUME NEW m \in Notifs, NEW j \in Wanted(m),
                 m \in acked' \/ \E t \in Slots : Passed(handler'[t], m, j)
          PROVE  <<m, j>> \in Vouched
      <3>1. j \in Nat
        BY WantedType
      <3>2. CASE m \in acked'
        BY <2>2, <2>3, <3>1, <3>2 DEF Vouched
      <3>3. ASSUME NEW t \in Slots, Passed(handler'[t], m, j)
            PROVE  <<m, j>> \in Vouched
        <4>1. t # s
          BY <2>2, <3>3 DEF Passed, Idle
        <4>. QED BY <2>2, <3>1, <3>3, <4>1 DEF Vouched
      <3>. QED BY <2>4, <3>2, <3>3
    <2>. QED BY <2>4 DEF Vouched, Passed
  <1>. QED BY <1>1, <1>2 DEF Continues

\* A handler is past the alerts it is past of.
LEMMA PassedVouched ==
    ASSUME NEW s \in Slots, NEW n \in Notifs, NEW j \in Wanted(n), Passed(handler[s], n, j)
    PROVE  <<n, j>> \in Vouched
BY WantedType DEF Vouched

LEMMA VouchedDies == Typed /\ Dies => Vouched' \subseteq Vouched
  <1>. SUFFICES ASSUME Typed, Dies PROVE Vouched' \subseteq Vouched
    OBVIOUS
  <1>1. acked' = acked /\ \A t \in Slots : handler'[t] = Idle
    BY DEF Dies
  <1>2. \A t \in Slots : \A n, j : ~ Passed(handler'[t], n, j)
    BY <1>1 DEF Passed, Idle
  <1>. QED BY <1>1, <1>2 DEF Vouched, Passed

LEMMA VouchedRest ==
    ASSUME Typed, NEW s \in Slots,
           \/ BuildFails(s) \/ TimesOut(s) \/ ScoreAnswered(s)
           \/ \E id \in DOMAIN evidence, risk \in Risks : Attach(s, id, risk)
    PROVE  Vouched' \subseteq Vouched
  <1>1. \A n, j : ~ Passed(Idle, n, j)
    BY DEF Passed, Idle
  <1>2. CASE BuildFails(s) \/ ScoreAnswered(s)
    <2>1. acked' = acked /\ handler' = [handler EXCEPT ![s] = Idle]
      BY <1>2 DEF BuildFails, ScoreAnswered
    <2>. QED BY <1>1, <2>1, VouchedHandler
  <1>3. CASE TimesOut(s)
    <2>. DEFINE h == [handler[s] EXCEPT !.heard = FALSE]
    <2>1. handler[s] \in HandlingOf(handler[s].n)
      BY <1>3, AtWorkType DEF TimesOut
    <2>2. h.pc = handler[s].pc /\ h.n = handler[s].n /\ h.i = handler[s].i
      BY <2>1 DEF HandlingOf
    <2>3. acked' = acked /\ handler' = [handler EXCEPT ![s] = h]
      BY <1>3 DEF TimesOut
    <2>. HIDE DEF h
    <2>4. \A n \in Notifs : \A j \in Wanted(n) : Passed(h, n, j) => <<n, j>> \in Vouched
      BY <2>2, PassedVouched DEF Passed
    <2>. QED BY <2>3, <2>4, VouchedHandler
  <1>4. ASSUME NEW id \in DOMAIN evidence, NEW risk \in Risks, Attach(s, id, risk)
        PROVE  Vouched' \subseteq Vouched
    <2>1. acked' = acked /\ handler' = [handler EXCEPT ![s] = Scoring(id)]
      BY <1>4 DEF Attach, Attaching
    <2>2. \A n, j : ~ Passed(Scoring(id), n, j)
      BY DEF Passed, Scoring
    <2>. QED BY <2>1, <2>2, VouchedHandler
  <1>. QED BY <1>2, <1>3, <1>4

\* A handler whose record is appended is past one alert more.
LEMMA VouchedBuilds ==
    ASSUME Typed, NEW s \in Slots, Builds(s)
    PROVE  Vouched' \subseteq Vouched \cup {<<handler[s].n, handler[s].i>>}
  <1>. DEFINE h == [handler[s] EXCEPT !.pc = "push"]
  <1>1. handler[s].pc = "bundle" /\ acked' = acked
        /\ handler' = [handler EXCEPT ![s] = h]
    BY DEF Builds, Building
  <1>2. /\ handler[s] \in HandlingOf(handler[s].n)
        /\ handler[s].n \in Notifs /\ handler[s].i \in Nat
    BY <1>1, AtWorkType, WantedType DEF AtWork
  <1>3. h.pc = "push" /\ h.n = handler[s].n /\ h.i = handler[s].i
    BY <1>2 DEF HandlingOf
  <1>4. handler \in [Slots -> States(made)]
    BY DEF Typed, TypeOK, States
  <1>5. /\ handler'[s] = h
        /\ \A t \in Slots \ {s} : handler'[t] = handler[t]
    BY <1>1, <1>4
  <1>. HIDE DEF h
  <1>6. ASSUME NEW n \in Notifs, NEW j \in Wanted(n),
               n \in acked' \/ \E t \in Slots : Passed(handler'[t], n, j)
        PROVE  <<n, j>> \in Vouched \cup {<<handler[s].n, handler[s].i>>}
    <2>1. j \in Nat
      BY WantedType
    <2>2. CASE n \in acked'
      BY <1>1, <2>1, <2>2 DEF Vouched
    <2>3. ASSUME NEW t \in Slots, Passed(handler'[t], n, j)
          PROVE  <<n, j>> \in Vouched \cup {<<handler[s].n, handler[s].i>>}
      <3>1. CASE t # s
        BY <1>5, <2>3, <3>1, PassedVouched
      <3>2. CASE t = s
        <4>1. n = handler[s].n /\ j <= handler[s].i
          BY <1>3, <1>5, <2>3, <3>2 DEF Passed
        <4>2. CASE j < handler[s].i
          BY <1>1, <4>1, <4>2, PassedVouched DEF Passed
        <4>3. CASE j = handler[s].i
          BY <4>1, <4>3
        <4>. QED BY <1>2, <2>1, <4>1, <4>2, <4>3
      <3>. QED BY <3>1, <3>2
    <2>. QED BY <1>6, <2>2, <2>3
  <1>. QED BY <1>6 DEF Vouched, Passed

LEMMA PaidInit == Init => Paid
  <1>. SUFFICES ASSUME Init PROVE Paid
    OBVIOUS
  <1>1. Vouched = {}
    BY DEF Init, Vouched, Passed, Idle
  <1>2. Missing = {} /\ ~ file.open /\ faults = 0
    BY <1>1 DEF Missing, Init, EmptyFile
  <1>. QED BY <1>2, FS_EmptySet DEF Paid

LEMMA PaidNext == Typed /\ Paid /\ [Next]_vars => Paid'
  <1>. SUFFICES ASSUME Typed, Paid, [Next]_vars PROVE Paid'
    OBVIOUS
  <1>0. IsFile(file) /\ faults \in Nat
    BY AnalyzerAssumption DEF Typed, TypeOK
  <1>1. ASSUME file' = file, faults' = faults, Vouched' \subseteq Vouched
        PROVE  Paid'
    BY <1>1, PaidFree DEF Missing
  <1>2. ASSUME Safe(file) \subseteq Safe(file'), faults' = faults + 1, Vouched' \subseteq Vouched
        PROVE  Paid'
    BY <1>2, PaidByFault DEF Missing
  <1>3. ASSUME NEW s \in Slots, NEW n \in Notifs, Receive(s, n)
        PROVE  Paid'
    <2>1. /\ file' = file /\ faults' = faults
          /\ Continues(s, n, 0, TRUE)
      BY <1>3 DEF Receive, store, bounds
    <2>2. \A j \in Wanted(n) : j <= 0 => <<n, j>> \in Vouched
      BY WantedType
    <2>. QED BY <1>1, <2>1, <2>2, VouchedContinues
  <1>4. ASSUME NEW s \in Slots, Pushed(s)
        PROVE  Paid'
    <2>1. /\ file' = file /\ faults' = faults
          /\ handler[s].pc = "push"
          /\ Continues(s, handler[s].n, handler[s].i, handler[s].heard)
      BY <1>4 DEF Pushed, store, bounds
    <2>2. handler[s].n \in Notifs /\ handler[s].i \in Nat
      BY <2>1, AtWorkType, WantedType DEF AtWork
    <2>3. \A j \in Wanted(handler[s].n) : j <= handler[s].i => <<handler[s].n, j>> \in Vouched
      BY <2>1, <2>2, PassedVouched DEF Passed
    <2>. QED BY <1>1, <2>1, <2>2, <2>3, VouchedContinues
  <1>5. ASSUME NEW s \in Slots, Builds(s)
        PROVE  Paid'
    <2>1. /\ Building(s) /\ faults' = faults
          /\ file' = AppendRec(file, NewRecord(s)) /\ ~ file'.open
      BY <1>5 DEF Builds, bounds, AppendRec, Put
    <2>2. /\ NewRecord(s) \in Record
          /\ NewRecord(s).n = handler[s].n /\ NewRecord(s).i = handler[s].i
      BY <2>1, NewRecordType DEF NewRecord, EvidenceRecord
    <2>3. Safe(file) \subseteq Safe(file')
      BY <2>1, <2>2, SafeStep
    <2>4. Vouched' \subseteq Vouched \cup {<<handler[s].n, handler[s].i>>}
      BY <1>5, VouchedBuilds
    <2>5. CASE file.open
      <3>1. Missing' \subseteq Missing \cup {<<handler[s].n, handler[s].i>>}
        BY <2>3, <2>4 DEF Missing
      <3>. QED BY <2>1, <2>5, <3>1, PaidByClosing
    <2>6. CASE ~ file.open
      <3>1. <<handler[s].n, handler[s].i>> \in Safe(file')
        BY <1>0, <2>1, <2>2, <2>6, SafeAppend
      <3>2. Missing' \subseteq Missing
        BY <2>3, <2>4, <3>1 DEF Missing
      <3>. QED BY <2>1, <3>2, PaidFree
    <2>. QED BY <2>5, <2>6
  <1>6. ASSUME NEW s \in Slots, BuildFails(s) \/ CrashInBuild(s)
        PROVE  Paid'
    <2>1. /\ Building(s) /\ faults' = faults + 1
          /\ \/ file' = file
             \/ file' = AppendRec(file, NewRecord(s))
             \/ file' \in Damaged(file, NewRecord(s))
      BY <1>6 DEF BuildFails, CrashInBuild, Inject
    <2>2. NewRecord(s) \in Record
      BY <2>1, NewRecordType
    <2>3. Safe(file) \subseteq Safe(file')
      BY <2>1, <2>2, SafeStep
    <2>4. Vouched' \subseteq Vouched
      BY <1>6, VouchedRest, VouchedDies DEF CrashInBuild
    <2>. QED BY <1>2, <2>1, <2>3, <2>4
  <1>7. ASSUME NEW s \in Slots, TimesOut(s)
        PROVE  Paid'
    <2>1. file' = file /\ faults' = faults + 1
      BY <1>7 DEF TimesOut, store, Inject
    <2>. QED BY <1>2, <1>7, <2>1, VouchedRest
  <1>8. ASSUME NEW s \in Slots, ScoreAnswered(s)
        PROVE  Paid'
    <2>1. file' = file /\ faults' = faults
      BY <1>8 DEF ScoreAnswered, store, bounds
    <2>. QED BY <1>1, <1>8, <2>1, VouchedRest
  <1>9. ASSUME NEW id \in DOMAIN evidence, NEW risk \in Risks, CrashInAttach(id, risk)
        PROVE  Paid'
    <2>1. /\ faults' = faults + 1
          /\ \/ file' = AppendRec(file, Updated(id, risk))
             \/ file' \in Damaged(file, Updated(id, risk))
          /\ Dies
      BY <1>9 DEF CrashInAttach, Inject
    <2>2. Safe(file) \subseteq Safe(file')
      BY <2>1, UpdatedType, SafeStep
    <2>. QED BY <1>2, <2>1, <2>2, VouchedDies
  <1>10. ASSUME NEW id \in DOMAIN evidence, NEW risk \in Risks,
                NEW s \in Slots, Attach(s, id, risk)
         PROVE  Paid'
    <2>1. /\ faults' = faults /\ ~ file'.open
          /\ file' = AppendRec(file, Updated(id, risk))
      BY <1>10 DEF Attach, AppendRec, Put
    <2>2. Safe(file) \subseteq Safe(file')
      BY <2>1, UpdatedType, SafeStep
    <2>3. Vouched' \subseteq Vouched
      BY <1>10, VouchedRest
    <2>4. Missing' \subseteq Missing
      BY <2>2, <2>3 DEF Missing
    <2>. QED BY <2>1, <2>4, PaidFree
  <1>11. ASSUME NEW id \in DOMAIN evidence, NEW risk \in Risks,
                NEW s \in Slots, AttachFails(s, id, risk)
         PROVE  Paid'
    <2>1. /\ faults' = faults + 1
          /\ file' = file \/ file' \in Damaged(file, Updated(id, risk))
          /\ handler' = handler /\ acked' = acked
      BY <1>11 DEF AttachFails, Attaching, Inject
    <2>2. Safe(file) \subseteq Safe(file')
      BY <2>1, UpdatedType, SafeStep
    <2>3. Vouched' = Vouched
      BY <2>1 DEF Vouched
    <2>. QED BY <1>2, <2>1, <2>2, <2>3
  <1>12. CASE Start \/ UNCHANGED vars
    <2>1. /\ file' = file /\ faults' = faults
          /\ handler' = handler /\ acked' = acked
      BY <1>12 DEF Start, vars, store, bounds
    <2>2. Vouched' = Vouched
      BY <2>1 DEF Vouched
    <2>. QED BY <1>1, <2>1, <2>2
  <1>13. CASE Crash
    <2>1. file' = file /\ faults' = faults + 1 /\ Dies
      BY <1>13 DEF Crash, Inject
    <2>. QED BY <1>2, <2>1, VouchedDies
  <1>. QED
    BY <1>3, <1>4, <1>5, <1>6, <1>7, <1>8, <1>9, <1>10, <1>11, <1>12, <1>13
       DEF Next, Receives, Scores, Handler

LEMMA PaidBounds == Typed /\ Paid => LostBounded
  <1>. SUFFICES ASSUME Typed, Paid PROVE LostBounded
    OBVIOUS
  <1>. DEFINE Lost == (UNION { {n} \X Wanted(n) : n \in acked }) \ Stored
  <1>1. Safe(file) \subseteq Stored
    BY DEF Safe, Settled, Stored
  <1>2. ASSUME NEW n \in acked, NEW j \in Wanted(n)
        PROVE  <<n, j>> \in Vouched
    <2>1. n \in Notifs
      BY DEF Typed, TypeOK
    <2>2. j \in Nat
      BY <2>1, WantedType
    <2>. QED BY <2>1, <2>2 DEF Vouched
  <1>3. Lost \subseteq Missing
    <2>. SUFFICES ASSUME NEW p \in Lost PROVE p \in Missing
      OBVIOUS
    <2>1. PICK n \in acked : p \in {n} \X Wanted(n)
      OBVIOUS
    <2>2. PICK j \in Wanted(n) : p = <<n, j>>
      BY <2>1
    <2>3. p \in Vouched
      BY <1>2, <2>2
    <2>4. p \notin Safe(file)
      BY <1>1
    <2>. QED BY <2>3, <2>4 DEF Missing
  <1>4. /\ Cardinality(Lost) \in Nat /\ Cardinality(Missing) \in Nat
        /\ Cardinality(Lost) <= Cardinality(Missing)
    BY <1>3, Smaller DEF Paid
  <1>5. faults \in Nat /\ Cardinality(Missing) + (IF file.open THEN 1 ELSE 0) <= faults
    BY AnalyzerAssumption DEF Typed, TypeOK, Paid
  <1>. HIDE DEF Lost
  <1>6. Cardinality(Lost) <= faults
    BY <1>4, <1>5
  <1>. QED BY <1>6 DEF LostBounded, Lost

\* Whatever is cut, full or killed, each fault costs at most one alert of the
\* notifications answered with 200 (main.py:206-219).
THEOREM LossIsPaidFor == Spec => []LostBounded
BY TypedInit, TypedNext, PaidInit, PaidNext, PaidBounds, PTL DEF Spec
=============================================================================
