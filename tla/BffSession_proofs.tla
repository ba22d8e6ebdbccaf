-------------------------- MODULE BffSession_proofs --------------------------
(***************************************************************************)
(* Proofs about BffSession, for every number of requests and sessions and  *)
(* every value of the time constants.                                      *)
(*                                                                         *)
(* TypeOK is inductive only together with HeldOK, which says what a        *)
(* suspended coroutine holds; SessionAgeBounded only together with AgeInv, *)
(* which follows created_at through both stores and through the record a   *)
(* refresh is about to write back.                                         *)
(***************************************************************************)
EXTENDS BffSession, TLAPS

Typed == TypeOK /\ HeldOK

\* The session a refreshing coroutine holds is a session, wherever it is.
LEMMA SessOfType ==
    ASSUME Typed, NEW r \in Reqs, req[r].pc \in Refreshing
    PROVE  SessOf(r) \in Session
BY DEF Typed, TypeOK, HeldOK, Held, SessOf, MemRec, Refreshing

\* What the store returns is a record, and holds a session.
LEMMA FoundRecType ==
    ASSUME Typed, NEW s \in Sids, Found(s)
    PROVE  FoundRec(s) \in MemRec
BY DEF Typed, TypeOK, Found, FoundRec, RedisHas, MemRec, RedisRec

\* Setting other holders of a shared dict apart keeps every request typed.
LEMMA DetachedType ==
    ASSUME Typed, NEW s \in Sids, NEW r \in Reqs
    PROVE  /\ Detached(s, r) \in [Reqs -> ReqRec]
           /\ Detached(s, r)[r] = req[r]
           /\ \A q \in Reqs \ {r} :
                /\ Held(Detached(s, r)[q])
                /\ Detached(s, r)[q].sid = req[q].sid
                /\ Detached(s, r)[q].alias => req[q].alias /\ (req[q].sid # s \/ req[r].alias)
<1>1. ASSUME NEW q \in Reqs, req[q].alias
      PROVE  SessOf(q) \in Session
  BY <1>1, SessOfType DEF Typed, HeldOK, Held
<1>2. ASSUME NEW q \in Reqs
      PROVE  Detached(s, r)[q] = IF q # r /\ ~ req[r].alias /\ req[q].alias /\ req[q].sid = s
                                 THEN [req[q] EXCEPT !.alias = FALSE, !.sess = SessOf(q)]
                                 ELSE req[q]
  BY DEF Detached
<1>3. ASSUME NEW q \in Reqs
      PROVE  req[q] \in ReqRec /\ Held(req[q])
  BY DEF Typed, TypeOK, HeldOK
<1>4. ASSUME NEW q \in Reqs
      PROVE  Detached(s, r)[q] \in ReqRec
  <2>1. CASE q # r /\ ~ req[r].alias /\ req[q].alias /\ req[q].sid = s
    <3>1. SessOf(q) \in Session \cup {None} /\ req[q] \in ReqRec
      BY <1>1, <1>3, <2>1
    <3>2. Detached(s, r)[q] = [req[q] EXCEPT !.alias = FALSE, !.sess = SessOf(q)]
      BY <1>2, <2>1
    <3>. QED
      BY <3>1, <3>2 DEF ReqRec
  <2>2. CASE ~ (q # r /\ ~ req[r].alias /\ req[q].alias /\ req[q].sid = s)
    <3>1. Detached(s, r)[q] = req[q]
      BY <1>2, <2>2
    <3>. QED
      BY <1>3, <3>1
  <2>. QED
    BY <2>1, <2>2
<1>5. Detached(s, r) \in [Reqs -> ReqRec]
  BY <1>4 DEF Detached
<1>6. ASSUME NEW q \in Reqs \ {r}
      PROVE  /\ Held(Detached(s, r)[q])
             /\ Detached(s, r)[q].sid = req[q].sid
             /\ Detached(s, r)[q].alias => req[q].alias /\ (req[q].sid # s \/ req[r].alias)
  <2>1. CASE ~ req[r].alias /\ req[q].alias /\ req[q].sid = s
    <3>. DEFINE d == [req[q] EXCEPT !.alias = FALSE, !.sess = SessOf(q)]
    <3>1. /\ Detached(s, r)[q] = d /\ req[q] \in ReqRec /\ Held(req[q])
          /\ SessOf(q) \in Session
      BY <1>1, <1>2, <1>3, <2>1
    <3>2. /\ d.pc = req[q].pc /\ d.sid = req[q].sid /\ d.route = req[q].route
          /\ d.rec = req[q].rec /\ d.alias = FALSE /\ d.sess = SessOf(q)
      BY <3>1 DEF ReqRec
    <3>. QED
      BY <3>1, <3>2 DEF Held
  <2>2. CASE ~ (~ req[r].alias /\ req[q].alias /\ req[q].sid = s)
    BY <1>2, <1>3, <2>2
  <2>. QED
    BY <2>1, <2>2
<1>. QED
  BY <1>2, <1>5, <1>6

LEMMA GatedType ==
    ASSUME NEW q \in ReqRec, NEW d \in Session, q.sid \in Sids, q.route \in Routes
    PROVE  Gated(q, d) \in ReqRec /\ Held(Gated(q, d)) /\ ~ Gated(q, d).alias
BY DEF Gated, ReqRec, Held, Idle, Pcs, Refreshing

LEMMA IdleType == Idle \in ReqRec /\ Held(Idle) /\ ~ Idle.alias
BY ConstantsAssumption DEF Idle, ReqRec, Held, Pcs, Refreshing

\* A step in which request r goes on to q, the others keep what they hold, and
\* neither store changes.
LEMMA SlotStep ==
    ASSUME Typed, NEW r \in Reqs, NEW q \in ReqRec, Held(q),
           q.alias => mem[q.sid] \in MemRec,
           req' = [req EXCEPT ![r] = q], mem' = mem
    PROVE  req' \in [Reqs -> ReqRec] /\ HeldOK'
BY DEF Typed, TypeOK, HeldOK

LEMMA StoresType ==
    ASSUME Typed, NEW s \in Sids, NEW d \in PendRec \cup RedisRec \cup MemRec,
           NEW ttl \in Nat
    PROVE  Setex(s, d, ttl) \in [Sids -> RedisRec \cup {None}]
BY DEF Typed, TypeOK, Setex, RedisRec, MemRec, PendRec

LEMMA PendingType ==
    ASSUME Typed, NEW d \in Session, NEW c \in Nat
    PROVE  Pending(d, c) \in PendRec
BY ConstantsAssumption DEF Typed, TypeOK, Pending, PendRec, TtlLeft, MaxOf

LEMMA TypedInit == Init => Typed
<1>1. Init => TypeOK
  BY IdleType DEF Init, TypeOK
<1>2. Init => HeldOK
  BY IdleType DEF Init, HeldOK
<1>. QED
  BY <1>1, <1>2 DEF Typed

\* A refresh whose record is the one in memory leaves memory as it is.
LEMMA LeavesMemory ==
    ASSUME Typed, NEW r \in Reqs, ApiLeavesMemory(r)
    PROVE  /\ req[r].pc = "setex" /\ req[r].sid \in Sids /\ mem' = mem /\ Faulty
           /\ redis' = Setex(req[r].sid, req[r].rec, req[r].rec.ttl) \/ redis' = redis
           /\ req' = [req EXCEPT ![r] = [req[r] EXCEPT !.pc = "audit", !.rec = None]]
           /\ sharers' = sharers \ {r}
           /\ UNCHANGED <<clock, redisUp, env, issued, born, logout>>
<1>1. req[r].pc = "setex" /\ req[r] \in ReqRec /\ Held(req[r])
  BY DEF ApiLeavesMemory, At, Typed, TypeOK, HeldOK
<1>2. req[r].sid \in Sids
  BY <1>1 DEF Held
<1>3. mem' = [mem EXCEPT ![req[r].sid] = mem[req[r].sid]]
  BY DEF ApiLeavesMemory, StoreFallsBack
<1>4. mem' = mem
  BY <1>2, <1>3 DEF Typed, TypeOK
<1>5. req' = [req EXCEPT ![r] = [req[r] EXCEPT !.pc = "audit", !.rec = None]]
  BY DEF ApiLeavesMemory, Typed, TypeOK
<1>. QED
  BY <1>1, <1>2, <1>4, <1>5 DEF ApiLeavesMemory, StoreFallsBack

\* api_proxy, from the arrival of a request to its verdict.
LEMMA TypedApiReads ==
    ASSUME Typed, NEW r \in Reqs
    PROVE  /\ \A s \in Sids, route \in Routes : Arrive(r, s, route) => Typed'
           /\ ApiNoSession(r) => Typed'
           /\ ApiFindsAged(r) => Typed'
           /\ ApiAdmit(r) => Typed'
           /\ ApiNeedsRefresh(r) => Typed'
<1>1. ASSUME NEW s \in Sids, NEW route \in Routes, Arrive(r, s, route)  PROVE Typed'
  <2>. DEFINE q == [Idle EXCEPT !.pc = "get", !.sid = s, !.route = route]
  <2>1. q \in ReqRec /\ Held(q) /\ ~ q.alias
    BY IdleType DEF Idle, ReqRec, Held, Pcs, Refreshing
  <2>. QED
    BY <1>1, <2>1, SlotStep DEF Arrive, Typed, TypeOK, store, env
<1>2. ASSUME ApiNoSession(r)  PROVE Typed'
  BY <1>2, IdleType, SlotStep DEF ApiNoSession, Typed, TypeOK, store, env
<1>3. ASSUME ApiFindsAged(r)  PROVE Typed'
  <2>. DEFINE q == [req[r] EXCEPT !.pc = "aged"]
  <2>1. req[r] \in ReqRec /\ Held(req[r]) /\ req[r].pc = "get"
    BY <1>3 DEF ApiFindsAged, At, Typed, TypeOK, HeldOK
  <2>2. q \in ReqRec /\ Held(q) /\ ~ q.alias
    BY <2>1 DEF ReqRec, Held, Pcs, Refreshing
  <2>3. req' = [req EXCEPT ![r] = q]
    BY <1>3 DEF ApiFindsAged
  <2>. QED
    BY <1>3, <2>2, <2>3, SlotStep DEF ApiFindsAged, Typed, TypeOK, store, env
<1>4. ASSUME ApiAdmit(r)  PROVE Typed'
  <2>. DEFINE q == [req[r] EXCEPT !.at = clock, !.ref = clock]
              d == FoundRec(req[r].sid).data
  <2>1. req[r] \in ReqRec /\ Held(req[r]) /\ req[r].pc = "get"
    BY <1>4 DEF ApiAdmit, At, Typed, TypeOK, HeldOK
  <2>2. q \in ReqRec /\ q.sid \in Sids /\ q.route \in Routes
    BY <2>1 DEF ReqRec, Held, Typed, TypeOK
  <2>3. d \in Session
    BY <1>4, <2>1, FoundRecType DEF ApiAdmit, Admits, Held, MemRec
  <2>4. Gated(q, d) \in ReqRec /\ Held(Gated(q, d)) /\ ~ Gated(q, d).alias
    BY <2>2, <2>3, GatedType
  <2>5. req' = [req EXCEPT ![r] = Gated(q, d)]
    BY <1>4 DEF ApiAdmit
  <2>. QED
    BY <1>4, <2>4, <2>5, SlotStep DEF ApiAdmit, Typed, TypeOK, store, env
<1>5. ASSUME ApiNeedsRefresh(r)  PROVE Typed'
  <2>. DEFINE s == req[r].sid
              d == FoundRec(s).data
              q == [req[r] EXCEPT !.pc = "refresh", !.at = clock, !.alias = ~ RedisHas(s),
                                  !.sess = IF RedisHas(s) THEN d ELSE None]
  <2>1. req[r] \in ReqRec /\ Held(req[r]) /\ req[r].pc = "get" /\ s \in Sids
    BY <1>5 DEF ApiNeedsRefresh, At, Typed, TypeOK, HeldOK, Held
  <2>2. d \in Session /\ FoundRec(s) \in MemRec
    BY <1>5, <2>1, FoundRecType DEF ApiNeedsRefresh, Admits, MemRec
  <2>3. q \in ReqRec /\ Held(q)
    BY <2>1, <2>2 DEF ReqRec, Held, Pcs, Refreshing, Typed, TypeOK, RedisHas
  <2>4. q.alias => mem[q.sid] \in MemRec
    BY <2>1, <2>2 DEF FoundRec, ReqRec
  <2>5. req' = [req EXCEPT ![r] = IF Valid(s) THEN q ELSE Idle]
    BY <1>5 DEF ApiNeedsRefresh
  <2>. HIDE DEF q
  <2>6. req' = [req EXCEPT ![r] = q] \/ req' = [req EXCEPT ![r] = Idle]
    BY <2>5
  <2>7. req' \in [Reqs -> ReqRec] /\ HeldOK' /\ mem' = mem
    BY <1>5, <2>3, <2>4, <2>6, IdleType, SlotStep DEF ApiNeedsRefresh, store
  <2>. QED
    BY <1>5, <2>7 DEF ApiNeedsRefresh, Typed, TypeOK, store, env
<1>. QED
  BY <1>1, <1>2, <1>3, <1>4, <1>5
LEMMA DeleteType ==
    ASSUME Typed, NEW s \in Sids, StoreDelete(s)
    PROVE  /\ redis' \in [Sids -> RedisRec \cup {None}]
           /\ mem' \in [Sids -> MemRec \cup {None}]
           /\ \A t \in Sids \ {s} : mem'[t] = mem[t]
           /\ sharers' \subseteq Reqs
BY DEF Typed, TypeOK, StoreDelete, Parted

\* A step in which request r goes on to q, while what memory holds of session s
\* changes under the other requests, which keep their dict to themselves.
LEMMA DetachedStep ==
    ASSUME Typed, NEW s \in Sids, NEW r \in Reqs, NEW q \in ReqRec, Held(q),
           q.alias => mem'[q.sid] \in MemRec,
           req[r].alias => mem'[s] \in MemRec,
           req' = [Detached(s, r) EXCEPT ![r] = q],
           \A t \in Sids \ {s} : mem'[t] = mem[t]
    PROVE  req' \in [Reqs -> ReqRec] /\ HeldOK'
<1>1. Detached(s, r) \in [Reqs -> ReqRec]
  BY DetachedType
<1>2. req' \in [Reqs -> ReqRec]
  BY <1>1
<1>3. ASSUME NEW p \in Reqs
      PROVE  Held(req'[p]) /\ (req'[p].alias => mem'[req'[p].sid] \in MemRec)
  <2>1. CASE p = r
    BY <1>1, <2>1
  <2>2. CASE p # r
    <3>1. /\ req'[p] = Detached(s, r)[p] /\ Held(req'[p]) /\ req'[p].sid = req[p].sid
          /\ req'[p].alias => req[p].alias /\ (req[p].sid # s \/ req[r].alias)
      BY <1>1, <2>2, DetachedType
    <3>2. req[p].alias => mem[req[p].sid] \in MemRec /\ req[p].sid \in Sids
      BY DEF Typed, HeldOK, Held, Refreshing
    <3>. QED
      BY <3>1, <3>2
  <2>. QED
    BY <2>1, <2>2
<1>. QED
  BY <1>2, <1>3 DEF HeldOK

\* A step in which request r, a holder of the shared dict of s or not, goes on
\* to q, and memory holds a record of s in place of the one it held.
LEMMA SharedStep ==
    ASSUME Typed, NEW r \in Reqs, NEW q \in ReqRec, Held(q), NEW s \in Sids,
           NEW m \in MemRec, mem' = [mem EXCEPT ![s] = m],
           req' = [req EXCEPT ![r] = q], q.alias => q.sid = s
    PROVE  req' \in [Reqs -> ReqRec] /\ HeldOK' /\ mem' \in [Sids -> MemRec \cup {None}]
<1>1. req' \in [Reqs -> ReqRec] /\ mem' \in [Sids -> MemRec \cup {None}]
  BY DEF Typed, TypeOK
<1>2. ASSUME NEW p \in Reqs
      PROVE  Held(req'[p]) /\ (req'[p].alias => mem'[req'[p].sid] \in MemRec)
  <2>1. CASE p = r
    BY <2>1 DEF Typed, TypeOK
  <2>2. CASE p # r
    <3>1. req'[p] = req[p] /\ Held(req[p]) /\ (req[p].alias => mem[req[p].sid] \in MemRec)
      BY <2>2 DEF Typed, TypeOK, HeldOK
    <3>2. req[p].alias => req[p].sid \in Sids
      BY <3>1 DEF Held, Refreshing
    <3>. QED
      BY <3>1, <3>2 DEF Typed, TypeOK
  <2>. QED
    BY <2>1, <2>2
<1>. QED
  BY <1>1, <1>2 DEF HeldOK
\* api_proxy, the refresh of the access token and what follows it.
LEMMA TypedApiRefresh ==
    ASSUME Typed, NEW r \in Reqs
    PROVE  /\ ApiRefreshFails(r) => Typed'
           /\ ApiRefreshed(r) => Typed'
           /\ ApiRegetsNothing(r) => Typed'
           /\ ApiRegetsFromRedis(r) => Typed'
           /\ ApiRegetsFromMemory(r) => Typed'
<1>. DEFINE s == req[r].sid
<1>0. req[r] \in ReqRec /\ Held(req[r]) /\ (req[r].alias => mem[s] \in MemRec)
  BY DEF Typed, TypeOK, HeldOK
<1>1. ASSUME ApiRefreshFails(r)  PROVE Typed'
  BY <1>1, IdleType, SlotStep DEF ApiRefreshFails, Typed, TypeOK, store, env
<1>2. ASSUME ApiRefreshed(r)  PROVE Typed'
  <2>1. PICK acr \in {SessOf(r).acr, "normal"} :
          LET new == [SessOf(r) EXCEPT !.exp = clock + AccessTtl, !.acr = acr]
          IN  /\ mem' = IF req[r].alias THEN [mem EXCEPT ![s].data = new] ELSE mem
              /\ req' = [req EXCEPT ![r].pc = "reget", ![r].ref = clock,
                           ![r].sess = IF req[r].alias THEN None ELSE new]
    BY <1>2 DEF ApiRefreshed
  <2>. DEFINE new == [SessOf(r) EXCEPT !.exp = clock + AccessTtl, !.acr = acr]
              q == [req[r] EXCEPT !.pc = "reget", !.ref = clock,
                                  !.sess = IF req[r].alias THEN None ELSE new]
              m == [mem[s] EXCEPT !.data = new]
  <2>2. req[r].pc = "refresh" /\ s \in Sids
    BY <1>0, <1>2 DEF ApiRefreshed, At, Held
  <2>3. new \in Session
    <3>1. SessOf(r) \in Session
      BY <2>2, SessOfType DEF Refreshing
    <3>2. clock + AccessTtl \in Nat
      BY ConstantsAssumption DEF Typed, TypeOK
    <3>. QED
      BY <3>1, <3>2 DEF Session
  <2>4. q \in ReqRec /\ Held(q)
    BY <1>0, <2>2, <2>3 DEF ReqRec, Held, Pcs, Refreshing, Typed, TypeOK
  <2>5. req' = [req EXCEPT ![r] = q]
    BY <2>1
  <2>6. CASE req[r].alias
    <3>1. m \in MemRec /\ mem' = [mem EXCEPT ![s] = m]
      BY <1>0, <2>1, <2>3, <2>6 DEF MemRec
    <3>2. q.sid = s
      BY <1>0 DEF ReqRec
    <3>. QED
      BY <1>2, <2>2, <2>4, <2>5, <3>1, <3>2, SharedStep
         DEF ApiRefreshed, Typed, TypeOK, env
  <2>7. CASE ~ req[r].alias
    <3>1. mem' = mem /\ ~ q.alias
      BY <1>0, <2>1, <2>7 DEF ReqRec
    <3>. QED
      BY <1>2, <2>4, <2>5, <3>1, SlotStep DEF ApiRefreshed, Typed, TypeOK, env
  <2>. QED
    BY <2>6, <2>7
<1>3. ASSUME ApiRegetsNothing(r)  PROVE Typed'
  <2>. DEFINE q == [req[r] EXCEPT !.pc = "audit"]
  <2>1. req[r].pc = "reget" /\ req' = [req EXCEPT ![r] = q]
    BY <1>3 DEF ApiRegetsNothing, At
  <2>2. q \in ReqRec /\ Held(q) /\ (q.alias => mem[q.sid] \in MemRec)
    BY <1>0, <2>1 DEF ReqRec, Held, Pcs, Refreshing
  <2>. QED
    BY <1>3, <2>1, <2>2, SlotStep DEF ApiRegetsNothing, Typed, TypeOK, store, env
<1>4. ASSUME ApiRegetsFromRedis(r)  PROVE Typed'
  <2>. DEFINE p == Pending(SessOf(r), redis[s].created)
              q == [req[r] EXCEPT !.pc = "setex", !.rec = p]
  <2>1. req[r].pc = "reget" /\ req' = [req EXCEPT ![r] = q] /\ s \in Sids
    BY <1>0, <1>4 DEF ApiRegetsFromRedis, At, Held
  <2>2. redis[s].created \in Nat
    BY <1>4, <2>1 DEF ApiRegetsFromRedis, RedisHas, Typed, TypeOK, RedisRec
  <2>3. p \in PendRec
    BY <2>1, <2>2, SessOfType, PendingType DEF Refreshing
  <2>4. q \in ReqRec /\ Held(q) /\ (q.alias => mem[q.sid] \in MemRec)
    BY <1>0, <2>1, <2>3 DEF ReqRec, Held, Pcs, Refreshing
  <2>. QED
    BY <1>4, <2>1, <2>4, SlotStep DEF ApiRegetsFromRedis, Typed, TypeOK, store, env
<1>5. ASSUME ApiRegetsFromMemory(r)  PROVE Typed'
  <2>. DEFINE p == Pending(SessOf(r), mem[s].created)
              q == [req[r] EXCEPT !.pc = "setex", !.alias = TRUE, !.sess = None, !.rec = p]
              m == [mem[s] EXCEPT !.data = SessOf(r)]
  <2>1. req[r].pc = "reget" /\ s \in Sids /\ mem[s] \in MemRec
    BY <1>0, <1>5 DEF ApiRegetsFromMemory, At, Held, Typed, TypeOK
  <2>2. m \in MemRec /\ mem' = [mem EXCEPT ![s] = m]
    BY <1>5, <2>1, SessOfType DEF ApiRegetsFromMemory, MemRec, Refreshing
  <2>3. p \in PendRec
    BY <2>1, SessOfType, PendingType DEF Refreshing, MemRec
  <2>4. q \in ReqRec /\ Held(q) /\ q.sid = s
    BY <1>0, <2>1, <2>3 DEF ReqRec, Held, Pcs, Refreshing
  <2>5. req' = [Detached(s, r) EXCEPT ![r] = q]
    BY <1>5 DEF ApiRegetsFromMemory
  <2>6. /\ mem' \in [Sids -> MemRec \cup {None}] /\ mem'[s] \in MemRec
        /\ \A t \in Sids \ {s} : mem'[t] = mem[t]
    BY <2>1, <2>2 DEF Typed, TypeOK
  <2>7. req' \in [Reqs -> ReqRec] /\ HeldOK'
    BY <2>1, <2>4, <2>5, <2>6, DetachedStep
  <2>8. sharers' \subseteq Reqs /\ UNCHANGED <<clock, redisUp, redis, env, issued, born, logout>>
    BY <1>5 DEF ApiRegetsFromMemory, Typed, TypeOK
  <2>. QED
    BY <2>6, <2>7, <2>8 DEF Typed, TypeOK, env
<1>. QED
  BY <1>1, <1>2, <1>3, <1>4, <1>5

\* api_proxy, the writes to the store and the way upstream.
LEMMA TypedApiWrites ==
    ASSUME Typed, NEW r \in Reqs
    PROVE  /\ ApiDeletesAged(r) => Typed'
           /\ ApiWritesRedis(r) => Typed'
           /\ ApiWritesMemory(r) => Typed'
           /\ ApiLeavesMemory(r) => Typed'
           /\ ApiAudited(r) => Typed'
           /\ ApiSends(r) => Typed'
<1>. DEFINE s == req[r].sid
<1>0. req[r] \in ReqRec /\ Held(req[r]) /\ (req[r].alias => mem[s] \in MemRec)
  BY DEF Typed, TypeOK, HeldOK
<1>1. ASSUME ApiDeletesAged(r)  PROVE Typed'
  <2>1. s \in Sids /\ StoreDelete(s) /\ req' = [Detached(s, r) EXCEPT ![r] = Idle]
    BY <1>0, <1>1 DEF ApiDeletesAged, At, Held
  <2>2. /\ redis' \in [Sids -> RedisRec \cup {None}] /\ mem' \in [Sids -> MemRec \cup {None}]
        /\ \A t \in Sids \ {s} : mem'[t] = mem[t]
        /\ sharers' \subseteq Reqs
    BY <2>1, DeleteType
  <2>3. req' \in [Reqs -> ReqRec] /\ HeldOK'
    BY <1>0, <1>1, <2>1, <2>2, IdleType, DetachedStep DEF ApiDeletesAged, At, Held, Refreshing
  <2>. QED
    BY <1>1, <2>2, <2>3 DEF ApiDeletesAged, Typed, TypeOK, env
<1>2. ASSUME req[r].pc = "setex"
      PROVE  /\ s \in Sids /\ req[r].rec \in PendRec /\ SessOf(r) \in Session
             /\ Setex(s, req[r].rec, req[r].rec.ttl) \in [Sids -> RedisRec \cup {None}]
  <2>1. s \in Sids /\ req[r].rec \in PendRec /\ req[r].rec.ttl \in Nat
    BY <1>0, <1>2 DEF Held, PendRec
  <2>. QED
    BY <1>2, <2>1, StoresType, SessOfType DEF Refreshing
<1>3. ASSUME ApiWritesRedis(r)  PROVE Typed'
  <2>. DEFINE q == [req[r] EXCEPT !.pc = "audit", !.rec = None]
  <2>1. req[r].pc = "setex" /\ req' = [req EXCEPT ![r] = q] /\ mem' = mem
    BY <1>3 DEF ApiWritesRedis, At, StoreSet
  <2>2. q \in ReqRec /\ Held(q) /\ (q.alias => mem[q.sid] \in MemRec)
    BY <1>0, <2>1 DEF ReqRec, Held, Pcs, Refreshing
  <2>3. req' \in [Reqs -> ReqRec] /\ HeldOK'
    BY <2>1, <2>2, SlotStep
  <2>. QED
    BY <1>2, <1>3, <2>1, <2>3 DEF ApiWritesRedis, StoreSet, Typed, TypeOK, env
<1>4. ASSUME ApiWritesMemory(r)  PROVE Typed'
  <2>. DEFINE q == [req[r] EXCEPT !.pc = "audit", !.rec = None, !.alias = TRUE, !.sess = None]
              m == [data |-> SessOf(r), created |-> req[r].rec.created]
  <2>1. /\ req[r].pc = "setex" /\ mem' = [mem EXCEPT ![s] = m]
        /\ req' = [Detached(s, r) EXCEPT ![r] = q]
        /\ redis' = IF redisUp THEN Setex(s, req[r].rec, req[r].rec.ttl) ELSE redis
        /\ UNCHANGED <<clock, redisUp, env, issued, born, logout>>
    BY <1>4 DEF ApiWritesMemory, At, StoreFallsBack
  <2>2. m \in MemRec /\ s \in Sids
    BY <1>2, <2>1 DEF MemRec, PendRec
  <2>3. q \in ReqRec /\ Held(q) /\ q.sid = s
    BY <1>0, <2>1 DEF ReqRec, Held, Pcs, Refreshing
  <2>4. /\ mem' \in [Sids -> MemRec \cup {None}] /\ mem'[s] \in MemRec
        /\ \A t \in Sids \ {s} : mem'[t] = mem[t]
    BY <2>1, <2>2 DEF Typed, TypeOK
  <2>5. req' \in [Reqs -> ReqRec] /\ HeldOK'
    BY <2>1, <2>2, <2>3, <2>4, DetachedStep
  <2>6. redis' \in [Sids -> RedisRec \cup {None}]
    BY <1>2, <2>1 DEF Typed, TypeOK
  <2>7. sharers' \subseteq Reqs
    BY <1>4 DEF ApiWritesMemory, Parted, Typed, TypeOK
  <2>. QED
    BY <2>1, <2>4, <2>5, <2>6, <2>7 DEF Typed, TypeOK, env
<1>5. ASSUME ApiAudited(r)  PROVE Typed'
  <2>1. req[r].pc = "audit" /\ req' = [req EXCEPT ![r] = Gated(req[r], SessOf(r))]
    BY <1>5 DEF ApiAudited, At
  <2>2. SessOf(r) \in Session /\ s \in Sids /\ req[r].route \in Routes
    BY <1>0, <2>1, SessOfType DEF Held, Refreshing
  <2>3. Gated(req[r], SessOf(r)) \in ReqRec /\ Held(Gated(req[r], SessOf(r)))
        /\ ~ Gated(req[r], SessOf(r)).alias
    BY <1>0, <2>2, GatedType
  <2>. QED
    BY <1>5, <2>1, <2>3, SlotStep DEF ApiAudited, Typed, TypeOK, store, env
<1>6. ASSUME ApiSends(r)  PROVE Typed'
  BY <1>6, IdleType, SlotStep DEF ApiSends, Typed, TypeOK, store, env
<1>7. ASSUME ApiLeavesMemory(r)  PROVE Typed'
  <2>. DEFINE q == [req[r] EXCEPT !.pc = "audit", !.rec = None]
  <2>1. req[r].pc = "setex" /\ req' = [req EXCEPT ![r] = q] /\ mem' = mem
    BY <1>7, LeavesMemory
  <2>2. q \in ReqRec /\ Held(q) /\ (q.alias => mem[q.sid] \in MemRec)
    BY <1>0, <2>1 DEF ReqRec, Held, Pcs, Refreshing
  <2>3. req' \in [Reqs -> ReqRec] /\ HeldOK'
    BY <2>1, <2>2, SlotStep
  <2>4. redis' \in [Sids -> RedisRec \cup {None}]
    BY <1>2, <1>7, <2>1, LeavesMemory DEF Typed, TypeOK
  <2>5. sharers' \subseteq Reqs /\ UNCHANGED <<clock, redisUp, env, issued, born, logout>>
    BY <1>7, LeavesMemory DEF Typed, TypeOK
  <2>. QED
    BY <2>1, <2>3, <2>4, <2>5 DEF Typed, TypeOK, env
<1>. QED
  BY <1>1, <1>3, <1>4, <1>5, <1>6, <1>7
LEMMA NewSessionType ==
    ASSUME Typed, NEW k \in Sids, NEW client \in Clients, NEW cert \in Certs,
           NEW roles \in RoleSets
    PROVE  NewSession(k, client, cert, roles) \in Session
<1>1. clock + AccessTtl \in Nat /\ clock + CrapiTtl \in Nat
  BY ConstantsAssumption DEF Typed, TypeOK
<1>2. /\ EvaluateDevice(cert, RevokedIds).device \in Devices \cup {NoDevice}
      /\ EvaluateDevice(cert, RevokedIds).trust \in {"trusted", "suspicious"}
  BY DEF EvaluateDevice, Devices
<1>. QED
  BY <1>1, <1>2 DEF NewSession, Session

LEMMA TypedLogin ==
    ASSUME Typed, NEW r \in Reqs, Login(r)
    PROVE  Typed'
<1>. DEFINE s == req[r].sid
<1>0. req[r] \in ReqRec /\ Held(req[r])
  BY DEF Typed, TypeOK, HeldOK
<1>1. ASSUME NEW t \in Sids, NEW k \in Sids, NEW client \in Clients, NEW cert \in Certs,
             NEW roles \in RoleSets, Callback(r, t, k, client, cert, roles)
      PROVE  Typed'
  <2>. DEFINE q == [Idle EXCEPT !.pc = "cbset", !.sid = t, !.at = clock,
                                !.sess = NewSession(k, client, cert, roles)]
  <2>1. q \in ReqRec /\ Held(q) /\ ~ q.alias
    BY IdleType, NewSessionType DEF Idle, ReqRec, Held, Pcs, Refreshing, Typed, TypeOK
  <2>2. req' = [req EXCEPT ![r] = q] /\ mem' = mem
    BY <1>1 DEF Callback, store
  <2>3. req' \in [Reqs -> ReqRec] /\ HeldOK'
    BY <2>1, <2>2, SlotStep
  <2>. QED
    BY <1>1, <2>3 DEF Callback, Typed, TypeOK, store
<1>2. ASSUME req[r].pc = "cbset"
      PROVE  /\ s \in Sids /\ req[r].sess \in Session /\ req[r].at \in Nat /\ MaxAge \in Nat
             /\ Setex(s, [data |-> req[r].sess, created |-> req[r].at], MaxAge)
                   \in [Sids -> RedisRec \cup {None}]
  <2>1. s \in Sids /\ req[r].sess \in Session /\ req[r].at \in Nat /\ MaxAge \in Nat
    BY <1>0, <1>2, ConstantsAssumption DEF Held, ReqRec
  <2>2. [data |-> req[r].sess, created |-> req[r].at] \in MemRec
    BY <2>1 DEF MemRec
  <2>. QED
    BY <2>1, <2>2, StoresType
<1>3. ASSUME CallbackStores(r)  PROVE Typed'
  <2>1. req[r].pc = "cbset" /\ req' = [req EXCEPT ![r] = Idle] /\ mem' = mem
    BY <1>3 DEF CallbackStores, At, StoreSet, Issue
  <2>2. req' \in [Reqs -> ReqRec] /\ HeldOK'
    BY <2>1, IdleType, SlotStep
  <2>. QED
    BY <1>2, <1>3, <2>1, <2>2 DEF CallbackStores, Issue, StoreSet, Typed, TypeOK, env
<1>4. ASSUME CallbackFallsBack(r)  PROVE Typed'
  <2>. DEFINE m == [data |-> req[r].sess, created |-> clock]
  <2>1. /\ req[r].pc = "cbset" /\ req' = [req EXCEPT ![r] = Idle]
        /\ mem' = [mem EXCEPT ![s] = m]
    BY <1>4 DEF CallbackFallsBack, At, StoreFallsBack, Issue
  <2>2. m \in MemRec
    BY <1>2, <2>1 DEF MemRec, Typed, TypeOK
  <2>3. /\ req' \in [Reqs -> ReqRec] /\ HeldOK'
        /\ mem' \in [Sids -> MemRec \cup {None}]
    BY <1>2, <2>1, <2>2, IdleType, SharedStep
  <2>4. redis' \in [Sids -> RedisRec \cup {None}]
    BY <1>2, <1>4, <2>1 DEF CallbackFallsBack, StoreFallsBack, Typed, TypeOK
  <2>. QED
    BY <1>2, <1>4, <2>1, <2>3, <2>4 DEF CallbackFallsBack, Issue, Typed, TypeOK, env
<1>. QED
  BY <1>1, <1>3, <1>4 DEF Login

LEMMA TypedLogout ==
    ASSUME Typed, NEW r \in Reqs, Logout(r)
    PROVE  Typed'
<1>. DEFINE s == req[r].sid
<1>0. req[r] \in ReqRec /\ Held(req[r])
  BY DEF Typed, TypeOK, HeldOK
<1>1. ASSUME NEW t \in Sids, LogoutArrives(r, t)  PROVE Typed'
  <2>. DEFINE q == [Idle EXCEPT !.pc = "lget", !.sid = t]
  <2>1. q \in ReqRec /\ Held(q) /\ ~ q.alias
    BY IdleType DEF Idle, ReqRec, Held, Pcs, Refreshing
  <2>. QED
    BY <1>1, <2>1, SlotStep DEF LogoutArrives, Typed, TypeOK, store, env
<1>2. ASSUME LogoutReads(r)  PROVE Typed'
  <2>. DEFINE pc == IF ~ Found(s) THEN "ldel" ELSE IF TooOld(s) THEN "laged" ELSE "lkc"
              q == [req[r] EXCEPT !.pc = pc,
                                  !.sess = IF Admits(s) THEN FoundRec(s).data ELSE None]
  <2>1. req[r].pc = "lget" /\ s \in Sids /\ ~ req[r].alias
    BY <1>0, <1>2 DEF LogoutReads, At, Held, Refreshing
  <2>2. Admits(s) => FoundRec(s).data \in Session
    BY <2>1, FoundRecType DEF Admits, MemRec
  <2>3. pc = "lkc" => Admits(s)
    BY DEF Admits
  <2>4. q \in ReqRec /\ Held(q) /\ ~ q.alias
    <3>1. pc \in {"ldel", "laged", "lkc"} /\ q.sess \in Session \cup {None}
      BY <1>0, <2>2 DEF ReqRec
    <3>2. /\ q.pc = pc /\ q.sid = s /\ q.alias = FALSE /\ q.route = req[r].route
          /\ q.rec = req[r].rec /\ q.at = req[r].at /\ q.ref = req[r].ref
      BY <1>0, <2>1 DEF ReqRec
    <3>3. q \in ReqRec
      <4>1. pc \in Pcs
        BY <3>1 DEF Pcs
      <4>. HIDE DEF pc
      <4>. QED
        BY <1>0, <2>2, <4>1 DEF ReqRec
    <3>4. pc = "lkc" => q.sess \in Session
      BY <1>0, <2>2, <2>3 DEF ReqRec
    <3>. HIDE DEF pc, q
    <3>. QED
      BY <2>1, <3>1, <3>2, <3>3, <3>4 DEF Held, Refreshing
  <2>5. req' = [req EXCEPT ![r] = q]
    BY <1>2 DEF LogoutReads
  <2>. QED
    BY <1>2, <2>4, <2>5, SlotStep DEF LogoutReads, Typed, TypeOK, store, env
<1>3. ASSUME LogoutDeletesAged(r)  PROVE Typed'
  <2>. DEFINE q == [req[r] EXCEPT !.pc = "ldel"]
  <2>1. req[r].pc = "laged" /\ s \in Sids /\ ~ req[r].alias
    BY <1>0, <1>3 DEF LogoutDeletesAged, At, Held, Refreshing
  <2>2. q \in ReqRec /\ Held(q) /\ ~ q.alias
    BY <1>0, <2>1 DEF ReqRec, Held, Pcs, Refreshing
  <2>3. req' = [Detached(s, r) EXCEPT ![r] = q]
    BY <1>3 DEF LogoutDeletesAged
  <2>4. /\ redis' \in [Sids -> RedisRec \cup {None}] /\ mem' \in [Sids -> MemRec \cup {None}]
        /\ \A t \in Sids \ {s} : mem'[t] = mem[t]
        /\ sharers' \subseteq Reqs
    BY <1>3, <2>1, DeleteType DEF LogoutDeletesAged
  <2>5. req' \in [Reqs -> ReqRec] /\ HeldOK'
    BY <2>1, <2>2, <2>3, <2>4, DetachedStep
  <2>. QED
    BY <1>3, <2>4, <2>5 DEF LogoutDeletesAged, Typed, TypeOK, env
<1>4. ASSUME LogoutEndsSso(r)  PROVE Typed'
  <2>. DEFINE q == [req[r] EXCEPT !.pc = "ldel", !.sess = None]
  <2>1. req[r].pc = "lkc" /\ ~ req[r].alias /\ req[r].sess \in Session
    BY <1>0, <1>4 DEF LogoutEndsSso, At, Held, Refreshing
  <2>2. q \in ReqRec /\ Held(q) /\ ~ q.alias
    BY <1>0, <2>1 DEF ReqRec, Held, Pcs, Refreshing
  <2>3. req' = [req EXCEPT ![r] = q] /\ mem' = mem
    BY <1>4 DEF LogoutEndsSso, store
  <2>4. req' \in [Reqs -> ReqRec] /\ HeldOK'
    BY <2>2, <2>3, SlotStep
  <2>5. kc' \in [Sids -> {"unborn", "live", "ended"}] /\ kcEnd' \in [Sids -> Nat]
    BY <1>4, <2>1 DEF LogoutEndsSso, Typed, TypeOK
  <2>. QED
    BY <1>4, <2>4, <2>5 DEF LogoutEndsSso, Typed, TypeOK, store
<1>5. ASSUME LogoutClears(r)  PROVE Typed'
  <2>1. req[r].pc = "ldel" /\ s \in Sids
    BY <1>0, <1>5 DEF LogoutClears, At, Held
  <2>2. CASE Valid(s)
    <3>1. StoreDelete(s) /\ req' = [Detached(s, r) EXCEPT ![r] = Idle]
      BY <1>5, <2>2 DEF LogoutClears
    <3>2. /\ redis' \in [Sids -> RedisRec \cup {None}]
          /\ mem' \in [Sids -> MemRec \cup {None}]
          /\ \A t \in Sids \ {s} : mem'[t] = mem[t]
          /\ sharers' \subseteq Reqs
      BY <2>1, <3>1, DeleteType
    <3>3. req' \in [Reqs -> ReqRec] /\ HeldOK'
      BY <1>0, <2>1, <3>1, <3>2, IdleType, DetachedStep DEF Held, Refreshing
    <3>4. logout' \in [Sids -> {"none", "clean", "leaky"}]
      BY <1>5, <2>1, <2>2 DEF LogoutClears, Typed, TypeOK
    <3>. QED
      BY <1>5, <3>2, <3>3, <3>4 DEF LogoutClears, Typed, TypeOK, env
  <2>3. CASE ~ Valid(s)
    BY <1>5, <2>3, IdleType, SlotStep DEF LogoutClears, Typed, TypeOK, store, env
  <2>. QED
    BY <2>2, <2>3
<1>. QED
  BY <1>1, <1>2, <1>3, <1>4, <1>5 DEF Logout

LEMMA TypedEnvironment ==
    ASSUME Typed, Environment
    PROVE  Typed'
<1>1. CASE Tick
  BY <1>1 DEF Tick, Typed, TypeOK, HeldOK, store, env
<1>2. CASE RedisOutage
  BY <1>2 DEF RedisOutage, Typed, TypeOK, HeldOK, store, env
<1>3. CASE Restart
  <2>1. req' \in [Reqs -> ReqRec] /\ HeldOK' /\ mem' \in [Sids -> MemRec \cup {None}]
    BY <1>3, IdleType DEF Restart, HeldOK
  <2>. QED
    BY <1>3, <2>1 DEF Restart, Typed, TypeOK, env
<1>4. CASE RevocationListChanges
  BY <1>4 DEF RevocationListChanges, Typed, TypeOK, HeldOK, store
<1>5. ASSUME NEW k \in Sids, SsoEnds(k)  PROVE Typed'
  BY <1>5 DEF SsoEnds, Typed, TypeOK, HeldOK, store
<1>. QED
  BY <1>1, <1>2, <1>3, <1>4, <1>5 DEF Environment

LEMMA TypedStep == Typed /\ [Next]_vars => Typed'
<1>. SUFFICES ASSUME Typed, [Next]_vars  PROVE Typed'
  OBVIOUS
<1>1. ASSUME NEW r \in Reqs, ApiProxy(r)  PROVE Typed'
  BY <1>1, TypedApiReads, TypedApiRefresh, TypedApiWrites DEF ApiProxy
<1>2. CASE UNCHANGED vars
  BY <1>2 DEF vars, Typed, TypeOK, HeldOK, Held
<1>. QED
  BY <1>1, <1>2, TypedLogin, TypedLogout, TypedEnvironment DEF Next

\* Every variable of the BFF keeps its type, and every suspended request holds
\* what the code after its await relies on.
THEOREM TypeCorrect == Spec => [](TypeOK /\ HeldOK)
<1>1. Init => Typed
  BY TypedInit
<1>2. Typed /\ [Next]_vars => Typed'
  BY TypedStep
<1>3. Typed => TypeOK /\ HeldOK
  BY DEF Typed
<1>. QED
  BY <1>1, <1>2, <1>3, PTL DEF Spec

-----------------------------------------------------------------------------
(***************************************************************************)
(* The age of sessions.                                                    *)
(***************************************************************************)

\* A step in which only request r moves.
LEMMA AgeSlot ==
    ASSUME Typed, AgeInv, NEW r \in Reqs, NEW q, InTime(q),
           req' = [req EXCEPT ![r] = q],
           redis' = redis, mem' = mem, issued' = issued, clock' = clock
    PROVE  AgeInv'
BY DEF Typed, TypeOK, AgeInv, RecordsInTime, InTime

\* Records that are in time stay so when sessions are deleted.
LEMMA AgeDelete ==
    ASSUME Typed, AgeInv, NEW s \in Sids, StoreDelete(s), issued' = issued, clock' = clock
    PROVE  RecordsInTime'
BY DEF Typed, TypeOK, AgeInv, RecordsInTime, StoreDelete

\* What other requests hold of the time does not depend on sharing.
LEMMA AgeDetached ==
    ASSUME Typed, AgeInv, NEW s \in Sids, NEW r \in Reqs, NEW q \in ReqRec, InTime(q),
           req' = [Detached(s, r) EXCEPT ![r] = q], issued' = issued, clock' = clock
    PROVE  \A p \in Reqs : InTime(req[p])'
<1>1. Detached(s, r) \in [Reqs -> ReqRec]
  BY DetachedType
<1>2. ASSUME NEW p \in Reqs
      PROVE  InTime(req'[p])
  <2>1. CASE p = r
    BY <1>1, <2>1
  <2>2. CASE p # r
    <3>1. req'[p] = Detached(s, r)[p]
      BY <1>1, <2>2
    <3>2. /\ req'[p].pc = req[p].pc /\ req'[p].sid = req[p].sid
          /\ req'[p].at = req[p].at /\ req'[p].rec = req[p].rec
      <4>. DEFINE d == [req[p] EXCEPT !.alias = FALSE, !.sess = SessOf(p)]
      <4>1. req[p] \in ReqRec
        BY DEF Typed, TypeOK
      <4>2. req'[p] = req[p] \/ req'[p] = d
        BY <3>1 DEF Detached
      <4>3. d.pc = req[p].pc /\ d.sid = req[p].sid /\ d.at = req[p].at /\ d.rec = req[p].rec
        BY <4>1 DEF ReqRec
      <4>. QED
        BY <4>2, <4>3
    <3>. QED
      BY <3>2 DEF AgeInv, InTime
  <2>. QED
    BY <2>1, <2>2
<1>. QED
  BY <1>2 DEF InTime

LEMMA AgeIdle == InTime(Idle)
BY DEF InTime, Idle, Refreshing

\* A record that the store returns and that is not too old belongs to a session
\* whose cookie was issued in time.
LEMMA AgeFound ==
    ASSUME Typed, AgeInv, NEW s \in Sids, Admits(s)
    PROVE  /\ issued[s] # None /\ clock - issued[s] <= MaxAge
           /\ FoundRec(s).created <= issued[s]
<1>1. FoundRec(s) \in MemRec
  BY FoundRecType DEF Admits
<1>2. issued[s] \in Nat /\ FoundRec(s).created <= issued[s]
  BY DEF Typed, TypeOK, AgeInv, RecordsInTime, Admits, Found, FoundRec, RedisHas
<1>. QED
  BY <1>1, <1>2, ConstantsAssumption DEF Admits, TooOld, MemRec, Typed, TypeOK

LEMMA AgeInit == Init => AgeInv
BY AgeIdle DEF Init, AgeInv, RecordsInTime
LEMMA AgeGated ==
    ASSUME NEW q \in ReqRec, NEW d, issued[q.sid] # None, q.at - issued[q.sid] <= MaxAge
    PROVE  InTime(Gated(q, d))
BY AgeIdle DEF Gated, InTime, ReqRec, Refreshing

LEMMA AgeApiReads ==
    ASSUME Typed, AgeInv, NEW r \in Reqs
    PROVE  /\ \A s \in Sids, route \in Routes : Arrive(r, s, route) => AgeInv'
           /\ ApiNoSession(r) => AgeInv'
           /\ ApiFindsAged(r) => AgeInv'
           /\ ApiDeletesAged(r) => AgeInv'
           /\ ApiAdmit(r) => AgeInv'
           /\ ApiNeedsRefresh(r) => AgeInv'
<1>. DEFINE s == req[r].sid
<1>0. req[r] \in ReqRec /\ Held(req[r]) /\ InTime(req[r])
  BY DEF Typed, TypeOK, HeldOK, AgeInv
<1>1. ASSUME NEW t \in Sids, NEW route \in Routes, Arrive(r, t, route)  PROVE AgeInv'
  <2>. DEFINE q == [Idle EXCEPT !.pc = "get", !.sid = t, !.route = route]
  <2>1. InTime(q)
    BY DEF InTime, Idle, Refreshing
  <2>. QED
    BY <1>1, <2>1, AgeSlot DEF Arrive, store
<1>2. ASSUME ApiNoSession(r)  PROVE AgeInv'
  BY <1>2, AgeIdle, AgeSlot DEF ApiNoSession, store
<1>3. ASSUME ApiFindsAged(r)  PROVE AgeInv'
  <2>. DEFINE q == [req[r] EXCEPT !.pc = "aged"]
  <2>1. InTime(q)
    BY <1>0 DEF InTime, ReqRec, Refreshing
  <2>. QED
    BY <1>3, <2>1, AgeSlot DEF ApiFindsAged, store
<1>4. ASSUME ApiDeletesAged(r)  PROVE AgeInv'
  <2>1. s \in Sids
    BY <1>0, <1>4 DEF ApiDeletesAged, At, Held
  <2>2. \A p \in Reqs : InTime(req[p])'
    BY <1>4, <2>1, AgeIdle, IdleType, AgeDetached DEF ApiDeletesAged
  <2>3. RecordsInTime'
    BY <1>4, <2>1, AgeDelete DEF ApiDeletesAged
  <2>. QED
    BY <2>2, <2>3 DEF AgeInv
<1>5. ASSUME ApiAdmit(r)  PROVE AgeInv'
  <2>. DEFINE q == [req[r] EXCEPT !.at = clock, !.ref = clock]
              d == FoundRec(s).data
  <2>1. s \in Sids /\ q \in ReqRec /\ q.sid = s /\ q.at = clock
    BY <1>0, <1>5 DEF ApiAdmit, At, Held, ReqRec, Typed, TypeOK
  <2>2. InTime(Gated(q, d))
    BY <1>5, <2>1, AgeFound, AgeGated DEF ApiAdmit
  <2>3. req' = [req EXCEPT ![r] = Gated(q, d)]
    BY <1>5 DEF ApiAdmit
  <2>. QED
    BY <1>5, <2>2, <2>3, AgeSlot DEF ApiAdmit, store
<1>6. ASSUME ApiNeedsRefresh(r)  PROVE AgeInv'
  <2>. DEFINE q == [req[r] EXCEPT !.pc = "refresh", !.at = clock, !.alias = ~ RedisHas(s),
                       !.sess = IF RedisHas(s) THEN FoundRec(s).data ELSE None]
  <2>1. s \in Sids /\ q.sid = s /\ q.at = clock /\ q.pc = "refresh"
    BY <1>0, <1>6 DEF ApiNeedsRefresh, At, Held, ReqRec
  <2>2. InTime(q)
    BY <1>6, <2>1, AgeFound DEF ApiNeedsRefresh, InTime
  <2>3. req' = [req EXCEPT ![r] = IF Valid(s) THEN q ELSE Idle]
    BY <1>6 DEF ApiNeedsRefresh
  <2>. HIDE DEF q
  <2>4. req' = [req EXCEPT ![r] = q] \/ req' = [req EXCEPT ![r] = Idle]
    BY <2>3
  <2>. QED
    BY <1>6, <2>2, <2>4, AgeSlot, AgeIdle DEF ApiNeedsRefresh, store
<1>. QED
  BY <1>1, <1>2, <1>3, <1>4, <1>5, <1>6

LEMMA AgeApiRefresh ==
    ASSUME Typed, AgeInv, NEW r \in Reqs
    PROVE  /\ ApiRefreshFails(r) => AgeInv'
           /\ ApiRefreshed(r) => AgeInv'
           /\ ApiRegetsNothing(r) => AgeInv'
           /\ ApiRegetsFromRedis(r) => AgeInv'
           /\ ApiRegetsFromMemory(r) => AgeInv'
           /\ ApiAudited(r) => AgeInv'
           /\ ApiSends(r) => AgeInv'
<1>. DEFINE s == req[r].sid
<1>0. req[r] \in ReqRec /\ Held(req[r]) /\ InTime(req[r])
  BY DEF Typed, TypeOK, HeldOK, AgeInv
<1>1. ASSUME ApiRefreshFails(r)  PROVE AgeInv'
  BY <1>1, AgeIdle, AgeSlot DEF ApiRefreshFails, store
<1>2. ASSUME ApiRefreshed(r)  PROVE AgeInv'
  <2>1. PICK acr \in {SessOf(r).acr, "normal"} :
          LET new == [SessOf(r) EXCEPT !.exp = clock + AccessTtl, !.acr = acr]
          IN  /\ mem' = IF req[r].alias THEN [mem EXCEPT ![s].data = new] ELSE mem
              /\ req' = [req EXCEPT ![r].pc = "reget", ![r].ref = clock,
                           ![r].sess = IF req[r].alias THEN None ELSE new]
    BY <1>2 DEF ApiRefreshed
  <2>. DEFINE new == [SessOf(r) EXCEPT !.exp = clock + AccessTtl, !.acr = acr]
              q == [req[r] EXCEPT !.pc = "reget", !.ref = clock,
                                  !.sess = IF req[r].alias THEN None ELSE new]
  <2>2. s \in Sids /\ req[r].pc = "refresh" /\ (req[r].alias => mem[s] \in MemRec)
    BY <1>0, <1>2 DEF ApiRefreshed, At, Held, Typed, HeldOK
  <2>3. InTime(q)
    BY <1>0, <2>2 DEF InTime, ReqRec, Refreshing
  <2>4. issued' = issued /\ clock' = clock /\ redis' = redis /\ req' = [req EXCEPT ![r] = q]
    <3>1. issued' = issued /\ clock' = clock /\ redis' = redis
      BY <1>2 DEF ApiRefreshed
    <3>2. req' = [req EXCEPT ![r] = q]
      BY <2>1
    <3>. QED
      BY <3>1, <3>2
  <2>5. \A p \in Reqs : InTime(req[p])'
    BY <2>3, <2>4 DEF Typed, TypeOK, AgeInv, InTime
  <2>6. ASSUME NEW t \in Sids, mem'[t] # None
        PROVE  mem[t] # None /\ mem'[t].created = mem[t].created
    <3>1. CASE req[r].alias /\ t = s
      <4>1. mem[s] # None
        BY <2>2, <3>1, ConstantsAssumption
      <4>. QED
        BY <2>1, <2>2, <3>1, <4>1 DEF Typed, TypeOK, MemRec
    <3>2. CASE ~ (req[r].alias /\ t = s)
      BY <2>1, <2>2, <2>6, <3>2 DEF Typed, TypeOK
    <3>. QED
      BY <3>1, <3>2
  <2>7. RecordsInTime'
    BY <2>4, <2>6 DEF AgeInv, RecordsInTime
  <2>. QED
    BY <2>5, <2>7 DEF AgeInv
<1>3. ASSUME ApiRegetsNothing(r)  PROVE AgeInv'
  <2>. DEFINE q == [req[r] EXCEPT !.pc = "audit"]
  <2>1. InTime(q)
    BY <1>0, <1>3 DEF ApiRegetsNothing, At, InTime, ReqRec, Refreshing
  <2>. QED
    BY <1>3, <2>1, AgeSlot DEF ApiRegetsNothing, store
<1>4. ASSUME ApiRegetsFromRedis(r)  PROVE AgeInv'
  <2>. DEFINE q == [req[r] EXCEPT !.pc = "setex",
                                  !.rec = Pending(SessOf(r), redis[s].created)]
  <2>1. req[r].pc = "reget" /\ s \in Sids /\ redis[s] # None
    BY <1>0, <1>4 DEF ApiRegetsFromRedis, At, Held, RedisHas
  <2>2. InTime(q)
    BY <1>0, <2>1 DEF InTime, ReqRec, Refreshing, Pending, AgeInv, RecordsInTime
  <2>. QED
    BY <1>4, <2>2, AgeSlot DEF ApiRegetsFromRedis, store
<1>5. ASSUME ApiRegetsFromMemory(r)  PROVE AgeInv'
  <2>. DEFINE p == Pending(SessOf(r), mem[s].created)
              q == [req[r] EXCEPT !.pc = "setex", !.alias = TRUE, !.sess = None, !.rec = p]
  <2>1. req[r].pc = "reget" /\ s \in Sids /\ mem[s] \in MemRec /\ mem[s] # None
    BY <1>0, <1>5 DEF ApiRegetsFromMemory, At, Held, Typed, TypeOK
  <2>2. p \in PendRec
    BY <2>1, SessOfType, PendingType DEF Refreshing, MemRec
  <2>3. InTime(q) /\ q \in ReqRec
    BY <1>0, <2>1, <2>2 DEF InTime, ReqRec, Pcs, Refreshing, Pending, AgeInv, RecordsInTime
  <2>4. /\ issued' = issued /\ clock' = clock /\ redis' = redis
        /\ mem' = [mem EXCEPT ![s].data = SessOf(r)]
        /\ req' = [Detached(s, r) EXCEPT ![r] = q]
    BY <1>5 DEF ApiRegetsFromMemory
  <2>5. \A o \in Reqs : InTime(req[o])'
    BY <2>1, <2>3, <2>4, AgeDetached
  <2>6. ASSUME NEW t \in Sids, mem'[t] # None
        PROVE  mem[t] # None /\ mem'[t].created = mem[t].created
    <3>1. CASE t = s
      BY <2>1, <2>4, <3>1 DEF Typed, TypeOK, MemRec
    <3>2. CASE t # s
      BY <2>1, <2>4, <2>6, <3>2 DEF Typed, TypeOK
    <3>. QED
      BY <3>1, <3>2
  <2>7. RecordsInTime'
    BY <2>4, <2>6 DEF AgeInv, RecordsInTime
  <2>. QED
    BY <2>5, <2>7 DEF AgeInv
<1>6. ASSUME ApiAudited(r)  PROVE AgeInv'
  <2>1. req[r].pc = "audit"
    BY <1>6 DEF ApiAudited, At
  <2>2. InTime(Gated(req[r], SessOf(r)))
    BY <1>0, <2>1, AgeGated DEF InTime, Refreshing
  <2>. QED
    BY <1>6, <2>2, AgeSlot DEF ApiAudited, store
<1>7. ASSUME ApiSends(r)  PROVE AgeInv'
  BY <1>7, AgeIdle, AgeSlot DEF ApiSends, store
<1>. QED
  BY <1>1, <1>2, <1>3, <1>4, <1>5, <1>6, <1>7

\* The write back of a refresh carries the created_at that was read.
LEMMA AgeApiWrites ==
    ASSUME Typed, AgeInv, NEW r \in Reqs,
           ApiWritesRedis(r) \/ ApiWritesMemory(r) \/ ApiLeavesMemory(r)
    PROVE  AgeInv'
<1>. DEFINE s == req[r].sid
            c == req[r].rec.created
<1>1. /\ req[r] \in ReqRec /\ Held(req[r]) /\ InTime(req[r]) /\ req[r].pc = "setex"
      /\ s \in Sids /\ c \in Nat /\ issued[s] # None /\ c <= issued[s]
      /\ issued' = issued /\ clock' = clock
  BY DEF ApiWritesRedis, ApiWritesMemory, ApiLeavesMemory, At, Typed, TypeOK, HeldOK, Held,
         AgeInv, InTime, Refreshing, PendRec
<1>2. ASSUME NEW t \in Sids, redis'[t] # None
      PROVE  issued[t] # None /\ redis'[t].created <= issued[t]
  <2>1. \/ redis' = Setex(s, req[r].rec, req[r].rec.ttl)
        \/ redis' = redis
    BY LeavesMemory DEF ApiWritesRedis, ApiWritesMemory, StoreSet, StoreFallsBack
  <2>. QED
    BY <1>1, <1>2, <2>1 DEF Setex, Typed, TypeOK, AgeInv, RecordsInTime
<1>3. ASSUME NEW t \in Sids, mem'[t] # None
      PROVE  issued[t] # None /\ mem'[t].created <= issued[t]
  <2>1. \/ mem' = [mem EXCEPT ![s] = [data |-> SessOf(r), created |-> c]]
        \/ mem' = mem
    <3>1. ASSUME ApiLeavesMemory(r)  PROVE mem' = mem
      BY <3>1, LeavesMemory
    <3>. QED
      BY <3>1 DEF ApiWritesRedis, ApiWritesMemory, StoreSet, StoreFallsBack
  <2>. QED
    BY <1>1, <1>3, <2>1 DEF Typed, TypeOK, AgeInv, RecordsInTime
<1>4. RecordsInTime'
  BY <1>1, <1>2, <1>3 DEF AgeInv, RecordsInTime
<1>5. \A p \in Reqs : InTime(req[p])'
  <2>1. CASE ApiWritesRedis(r) \/ ApiLeavesMemory(r)
    <3>. DEFINE q == [req[r] EXCEPT !.pc = "audit", !.rec = None]
    <3>1. InTime(q)
      BY <1>1 DEF InTime, ReqRec, Refreshing
    <3>2. req' = [req EXCEPT ![r] = q]
      BY <2>1, LeavesMemory DEF ApiWritesRedis
    <3>. HIDE DEF q
    <3>. QED
      BY <1>1, <3>1, <3>2 DEF Typed, TypeOK, AgeInv, InTime
  <2>2. CASE ApiWritesMemory(r)
    <3>. DEFINE q == [req[r] EXCEPT !.pc = "audit", !.rec = None, !.alias = TRUE, !.sess = None]
    <3>1. InTime(q) /\ q \in ReqRec
      BY <1>1 DEF InTime, ReqRec, Pcs, Refreshing
    <3>2. req' = [Detached(s, r) EXCEPT ![r] = q]
      BY <2>2 DEF ApiWritesMemory
    <3>. QED
      BY <1>1, <3>1, <3>2, AgeDetached
  <2>. QED
    BY <2>1, <2>2
<1>. QED
  BY <1>4, <1>5 DEF AgeInv

\* A cookie is issued after the record was created, and a later one only helps.
LEMMA AgeLogin ==
    ASSUME Typed, AgeInv, NEW r \in Reqs, Login(r)
    PROVE  AgeInv'
<1>. DEFINE s == req[r].sid
<1>0. req[r] \in ReqRec /\ Held(req[r]) /\ InTime(req[r])
  BY DEF Typed, TypeOK, HeldOK, AgeInv
<1>1. ASSUME NEW t \in Sids, NEW k \in Sids, NEW client \in Clients, NEW cert \in Certs,
             NEW roles \in RoleSets, Callback(r, t, k, client, cert, roles)
      PROVE  AgeInv'
  <2>. DEFINE q == [Idle EXCEPT !.pc = "cbset", !.sid = t, !.at = clock,
                                !.sess = NewSession(k, client, cert, roles)]
  <2>1. InTime(q)
    BY DEF InTime, Idle, Refreshing, Typed, TypeOK
  <2>. QED
    BY <1>1, <2>1, AgeSlot DEF Callback, store
<1>2. ASSUME CallbackStores(r) \/ CallbackFallsBack(r)
      PROVE  AgeInv'
  <2>1. /\ req[r].pc = "cbset" /\ s \in Sids /\ req[r].at <= clock /\ req[r].at \in Nat
        /\ req' = [req EXCEPT ![r] = Idle] /\ clock' = clock
        /\ issued' = [issued EXCEPT ![s] = clock]
    BY <1>0, <1>2 DEF CallbackStores, CallbackFallsBack, Issue, At, Held, InTime, ReqRec
  <2>2. ASSUME NEW t \in Sids
        PROVE  /\ issued'[t] # None => issued'[t] <= clock
               /\ issued[t] # None => issued'[t] # None /\ issued[t] <= issued'[t]
               /\ issued'[s] = clock /\ clock # None
    BY <2>1, ConstantsAssumption DEF Typed, TypeOK, AgeInv, RecordsInTime
  <2>3. ASSUME NEW t \in Sids, redis'[t] # None
        PROVE  issued'[t] # None /\ redis'[t].created <= issued'[t]
    <3>1. \/ redis' = [redis EXCEPT ![s] = [data |-> req[r].sess, created |-> req[r].at,
                                            expires |-> clock + MaxAge]]
          \/ redis' = redis
      BY <1>2 DEF CallbackStores, CallbackFallsBack, StoreSet, StoreFallsBack, Setex
    <3>2. redis'[t] = redis[t] \/ (t = s /\ redis'[t].created = req[r].at)
      BY <3>1 DEF Typed, TypeOK
    <3>3. redis[t] # None => redis[t] \in RedisRec /\ issued[t] \in Nat
      BY DEF Typed, TypeOK, AgeInv, RecordsInTime
    <3>. QED
      BY <2>1, <2>2, <2>3, <3>2, <3>3 DEF Typed, TypeOK, AgeInv, RecordsInTime, RedisRec
  <2>4. ASSUME NEW t \in Sids, mem'[t] # None
        PROVE  issued'[t] # None /\ mem'[t].created <= issued'[t]
    <3>1. \/ mem' = [mem EXCEPT ![s] = [data |-> req[r].sess, created |-> clock]]
          \/ mem' = mem
      BY <1>2 DEF CallbackStores, CallbackFallsBack, StoreSet, StoreFallsBack
    <3>2. mem'[t] = mem[t] \/ (t = s /\ mem'[t].created = clock)
      BY <3>1 DEF Typed, TypeOK
    <3>3. mem[t] # None => mem[t] \in MemRec /\ issued[t] \in Nat
      BY DEF Typed, TypeOK, AgeInv, RecordsInTime
    <3>. QED
      BY <2>1, <2>2, <2>4, <3>2, <3>3 DEF Typed, TypeOK, AgeInv, RecordsInTime, MemRec
  <2>5. RecordsInTime'
    BY <2>1, <2>2, <2>3, <2>4 DEF RecordsInTime
  <2>6. ASSUME NEW p \in Reqs
        PROVE  InTime(req[p])'
    <3>1. CASE p = r
      BY <2>1, <3>1 DEF InTime, Idle, Refreshing, Typed, TypeOK
    <3>2. CASE p # r
      <4>1. req'[p] = req[p] /\ req[p] \in ReqRec /\ Held(req[p]) /\ InTime(req[p])
        BY <2>1, <3>2 DEF Typed, TypeOK, HeldOK, AgeInv
      <4>2. req[p].pc \in Refreshing \cup {"body"} =>
              issued[req[p].sid] \in Nat /\ issued'[req[p].sid] \in Nat
              /\ issued[req[p].sid] <= issued'[req[p].sid]
        BY <2>1, <2>2, <4>1 DEF InTime, Held, Refreshing, Typed, TypeOK
      <4>3. req[p].pc = "setex" => req[p].rec.created \in Nat
        BY <4>1 DEF Held, PendRec
      <4>. QED
        BY <2>1, <4>1, <4>2, <4>3, ConstantsAssumption DEF InTime, Refreshing, ReqRec
    <3>. QED
      BY <3>1, <3>2
  <2>. QED
    BY <2>5, <2>6 DEF AgeInv
<1>. QED
  BY <1>1, <1>2 DEF Login

LEMMA AgeLogout ==
    ASSUME Typed, AgeInv, NEW r \in Reqs, Logout(r)
    PROVE  AgeInv'
<1>. DEFINE s == req[r].sid
<1>0. req[r] \in ReqRec /\ Held(req[r]) /\ InTime(req[r])
  BY DEF Typed, TypeOK, HeldOK, AgeInv
<1>1. ASSUME NEW t \in Sids, LogoutArrives(r, t)  PROVE AgeInv'
  <2>. DEFINE q == [Idle EXCEPT !.pc = "lget", !.sid = t]
  <2>1. InTime(q)
    BY DEF InTime, Idle, Refreshing
  <2>. QED
    BY <1>1, <2>1, AgeSlot DEF LogoutArrives, store
<1>2. ASSUME LogoutReads(r)  PROVE AgeInv'
  <2>. DEFINE q == [req[r] EXCEPT
             !.pc   = IF ~ Found(s) THEN "ldel" ELSE IF TooOld(s) THEN "laged" ELSE "lkc",
             !.sess = IF Admits(s) THEN FoundRec(s).data ELSE None]
  <2>1. InTime(q)
    BY <1>0 DEF InTime, ReqRec, Refreshing
  <2>2. /\ req' = [req EXCEPT ![r] = q]
        /\ redis' = redis /\ mem' = mem /\ issued' = issued /\ clock' = clock
    BY <1>2 DEF LogoutReads, store
  <2>. HIDE DEF q
  <2>. QED
    BY <2>1, <2>2, AgeSlot
<1>3. ASSUME LogoutDeletesAged(r)  PROVE AgeInv'
  <2>. DEFINE q == [req[r] EXCEPT !.pc = "ldel"]
  <2>1. s \in Sids /\ q \in ReqRec /\ InTime(q)
    BY <1>0, <1>3 DEF LogoutDeletesAged, At, Held, InTime, ReqRec, Pcs, Refreshing
  <2>2. req' = [Detached(s, r) EXCEPT ![r] = q]
    BY <1>3 DEF LogoutDeletesAged
  <2>3. \A p \in Reqs : InTime(req[p])'
    BY <1>3, <2>1, <2>2, AgeDetached DEF LogoutDeletesAged
  <2>4. RecordsInTime'
    BY <1>3, <2>1, AgeDelete DEF LogoutDeletesAged
  <2>. QED
    BY <2>3, <2>4 DEF AgeInv
<1>4. ASSUME LogoutEndsSso(r)  PROVE AgeInv'
  <2>. DEFINE q == [req[r] EXCEPT !.pc = "ldel", !.sess = None]
  <2>1. InTime(q)
    BY <1>0 DEF InTime, ReqRec, Refreshing
  <2>. QED
    BY <1>4, <2>1, AgeSlot DEF LogoutEndsSso, store
<1>5. ASSUME LogoutClears(r)  PROVE AgeInv'
  <2>1. s \in Sids
    BY <1>0, <1>5 DEF LogoutClears, At, Held
  <2>2. CASE Valid(s)
    <3>1. \A p \in Reqs : InTime(req[p])'
      BY <1>5, <2>1, <2>2, AgeIdle, IdleType, AgeDetached DEF LogoutClears
    <3>2. RecordsInTime'
      BY <1>5, <2>1, <2>2, AgeDelete DEF LogoutClears
    <3>. QED
      BY <3>1, <3>2 DEF AgeInv
  <2>3. CASE ~ Valid(s)
    BY <1>5, <2>3, AgeIdle, AgeSlot DEF LogoutClears, store
  <2>. QED
    BY <2>2, <2>3
<1>. QED
  BY <1>1, <1>2, <1>3, <1>4, <1>5 DEF Logout

LEMMA AgeEnvironment ==
    ASSUME Typed, AgeInv, Environment
    PROVE  AgeInv'
<1>1. CASE Tick
  <2>1. clock' = clock + 1 /\ UNCHANGED <<redis, mem, issued, req>>
    BY <1>1 DEF Tick, store
  <2>2. RecordsInTime'
    BY <2>1 DEF Typed, TypeOK, AgeInv, RecordsInTime
  <2>3. \A p \in Reqs : InTime(req[p])'
    BY <2>1 DEF Typed, TypeOK, AgeInv, InTime, ReqRec
  <2>. QED
    BY <2>2, <2>3 DEF AgeInv
<1>2. CASE Restart
  BY <1>2, AgeIdle DEF Restart, AgeInv, RecordsInTime, InTime
<1>3. CASE RedisOutage \/ RevocationListChanges \/ \E k \in Sids : SsoEnds(k)
  BY <1>3 DEF RedisOutage, RevocationListChanges, SsoEnds, store, AgeInv, RecordsInTime, InTime
<1>. QED
  BY <1>1, <1>2, <1>3 DEF Environment

LEMMA AgeStep == Typed /\ AgeInv /\ [Next]_vars => AgeInv'
<1>. SUFFICES ASSUME Typed, AgeInv, [Next]_vars  PROVE AgeInv'
  OBVIOUS
<1>1. ASSUME NEW r \in Reqs, ApiProxy(r)  PROVE AgeInv'
  BY <1>1, AgeApiReads, AgeApiRefresh, AgeApiWrites DEF ApiProxy
<1>2. CASE UNCHANGED vars
  BY <1>2 DEF vars, AgeInv, RecordsInTime, InTime
<1>. QED
  BY <1>1, <1>2, AgeLogin, AgeLogout, AgeEnvironment DEF Next

\* No request is let through on a session older than SESSION_MAX_AGE, for any
\* number of concurrent requests, refreshes, outages of Redis and restarts.
THEOREM SessionAge == Spec => []SessionAgeBounded
<1>1. Init => Typed /\ AgeInv
  BY TypedInit, AgeInit
<1>2. Typed /\ AgeInv /\ [Next]_vars => (Typed /\ AgeInv)'
  BY TypedStep, AgeStep
<1>3. AgeInv => SessionAgeBounded
  BY DEF AgeInv, InTime, SessionAgeBounded, At
<1>. QED
  BY <1>1, <1>2, <1>3, PTL DEF Spec

-----------------------------------------------------------------------------
(***************************************************************************)
(* The tokens inside a session: what goes upstream is alive, a login that  *)
(* Keycloak has ended does not outlive one access token, only a step-up    *)
(* login reaches a sensitive action, refreshes hardly overwrite each       *)
(* other; a session that was logged out stays out, and, with Redis         *)
(* healthy, no other is dropped.                                           *)
(*                                                                         *)
(* The inductive invariant follows every copy of the session data: in      *)
(* Redis, in memory, in the dict of a suspended coroutine (its own one or  *)
(* the one in memory, see HeldBy) and in the record it is about to write.  *)
(***************************************************************************)


\* A coroutine with session data in its hands.
Holding == Refreshing \cup {"cbset", "lkc", "body"}

\* The data a request holds, m being what memory holds.
HeldBy(q, m) == IF q.alias THEN m[q.sid].data ELSE q.sess

\* At time t, with the logins of Keycloak in the states k and ended at e, data
\* d comes from a login or from a refresh of one.
GoodAt(d, t, k, e) ==
    /\ d.acr = "high" => d.client = "stepup"
    /\ d.device = NoDevice => d.trust = "suspicious"
    /\ d.exp <= t + AccessTtl
    /\ k[d.kc] # "unborn"
    /\ k[d.kc] = "ended" => d.exp <= e[d.kc] + AccessTtl

InSlack(q, t) == q.ref <= t /\ t - q.ref <= Slack

\* A request that holds data d has a token good enough for where it is.
Fit(q, d, t, k, e) ==
    /\ q.pc \in Holding => GoodAt(d, t, k, e)
    /\ q.pc \in {"reget", "setex", "audit"} => InSlack(q, t) /\ d.exp >= q.ref + AccessTtl
    /\ q.pc = "setex" => GoodAt(q.rec.data, t, k, e) /\ q.rec.data.exp >= q.ref + AccessTtl
    /\ q.pc = "body" =>
          /\ InSlack(q, t)
          /\ d.exp > q.ref + Slack
          /\ IsSensitive(q.route.method, q.route.path) => d.acr = "high"

RedisGood == \A s \in Sids : redis[s] # None => GoodAt(redis[s].data, clock, kc, kcEnd)
MemGood   == \A s \in Sids : mem[s] # None => GoodAt(mem[s].data, clock, kc, kcEnd)
AllFit    == \A r \in Reqs : Fit(req[r], HeldBy(req[r], mem), clock, kc, kcEnd)

TokenInv == RedisGood /\ MemGood /\ AllFit

\* The session a login is about to store has no cookie yet, and no other
\* request works on it.
LoginInv ==
    \A r \in Reqs : At(r, "cbset") =>
        /\ issued[req[r].sid] = None
        /\ \A p \in Reqs \ {r} : ~ At(p, "idle") => req[p].sid # req[r].sid

-----------------------------------------------------------------------------
(***************************************************************************)
(* The logins that are being stored.                                       *)
(***************************************************************************)

\* Setting others apart moves nobody.
LEMMA DetachedInPlace ==
    ASSUME Typed, NEW s \in Sids, NEW r \in Reqs
    PROVE  /\ Detached(s, r) \in [Reqs -> ReqRec]
           /\ \A p \in Reqs :
                /\ Detached(s, r)[p].pc = req[p].pc
                /\ Detached(s, r)[p].sid = req[p].sid
                /\ Detached(s, r)[p].ref = req[p].ref
                /\ Detached(s, r)[p].rec = req[p].rec
                /\ Detached(s, r)[p].route = req[p].route
<1>1. ASSUME NEW p \in Reqs
      PROVE  /\ Detached(s, r)[p].pc = req[p].pc
             /\ Detached(s, r)[p].sid = req[p].sid
             /\ Detached(s, r)[p].ref = req[p].ref
             /\ Detached(s, r)[p].rec = req[p].rec
             /\ Detached(s, r)[p].route = req[p].route
  <2>. DEFINE d == [req[p] EXCEPT !.alias = FALSE, !.sess = SessOf(p)]
  <2>1. req[p] \in ReqRec
    BY DEF Typed, TypeOK
  <2>2. Detached(s, r)[p] = req[p] \/ Detached(s, r)[p] = d
    BY DEF Detached
  <2>3. /\ d.pc = req[p].pc /\ d.sid = req[p].sid /\ d.ref = req[p].ref
        /\ d.rec = req[p].rec /\ d.route = req[p].route
    BY <2>1 DEF ReqRec
  <2>. QED
    BY <2>2, <2>3
<1>. QED
  BY <1>1, DetachedType

\* A step of request r that is not a login leaves the pending logins alone.
LEMMA LoginFrame ==
    ASSUME Typed, LoginInv, NEW r \in Reqs, issued' = issued,
           \A p \in Reqs \ {r} : req'[p].pc = req[p].pc /\ req'[p].sid = req[p].sid,
           req'[r].pc # "cbset",
           \/ req'[r].pc = "idle"
           \/ req[r].pc # "idle" /\ req'[r].sid = req[r].sid
           \/ issued[req'[r].sid] # None
    PROVE  LoginInv'
<1>1. ASSUME NEW c \in Reqs, req'[c].pc = "cbset"
      PROVE  /\ issued'[req'[c].sid] = None
             /\ \A p \in Reqs \ {c} : req'[p].pc # "idle" => req'[p].sid # req'[c].sid
  <2>1. c # r /\ req'[c].sid = req[c].sid /\ req[c].pc = "cbset"
    BY <1>1
  <2>2. /\ issued[req[c].sid] = None
        /\ \A p \in Reqs \ {c} : req[p].pc # "idle" => req[p].sid # req[c].sid
    BY <2>1 DEF LoginInv, At
  <2>3. ASSUME NEW p \in Reqs \ {c}, req'[p].pc # "idle"
        PROVE  req'[p].sid # req'[c].sid
    BY <2>1, <2>2, <2>3
  <2>. QED
    BY <2>1, <2>2, <2>3
<1>. QED
  BY <1>1 DEF LoginInv, At

LEMMA LoginSlot ==
    ASSUME Typed, LoginInv, NEW r \in Reqs, NEW q, issued' = issued,
           req' = [req EXCEPT ![r] = q],
           q.pc # "cbset",
           \/ q.pc = "idle"
           \/ req[r].pc # "idle" /\ q.sid = req[r].sid
           \/ issued[q.sid] # None
    PROVE  LoginInv'
<1>1. /\ req'[r] = q
      /\ \A p \in Reqs \ {r} : req'[p].pc = req[p].pc /\ req'[p].sid = req[p].sid
  BY DEF Typed, TypeOK
<1>. QED
  BY <1>1, LoginFrame

LEMMA LoginDetached ==
    ASSUME Typed, LoginInv, NEW r \in Reqs, NEW q, NEW s \in Sids, issued' = issued,
           req' = [Detached(s, r) EXCEPT ![r] = q],
           q.pc # "cbset",
           q.pc = "idle" \/ (req[r].pc # "idle" /\ q.sid = req[r].sid)
    PROVE  LoginInv'
<1>1. /\ req'[r] = q
      /\ \A p \in Reqs \ {r} : req'[p].pc = req[p].pc /\ req'[p].sid = req[p].sid
  BY DetachedInPlace
<1>. QED
  BY <1>1, LoginFrame

LEMMA LoginGated ==
    ASSUME NEW q \in ReqRec, NEW d
    PROVE  /\ Gated(q, d).pc \in {"idle", "body"}
           /\ Gated(q, d).pc = "body" => Gated(q, d).sid = q.sid
BY DEF Gated, Idle, ReqRec

LEMMA LoginApi ==
    ASSUME Typed, LoginInv, NEW r \in Reqs, ApiProxy(r)
    PROVE  LoginInv'
<1>. DEFINE s == req[r].sid
<1>0. req[r] \in ReqRec /\ Held(req[r])
  BY DEF Typed, TypeOK, HeldOK
<1>1. ASSUME NEW t \in Sids, NEW route \in Routes, Arrive(r, t, route)  PROVE LoginInv'
  <2>. DEFINE q == [Idle EXCEPT !.pc = "get", !.sid = t, !.route = route]
  <2>1. q.pc = "get" /\ q.sid = t /\ issued[t] # None
    BY <1>1 DEF Idle, Arrive, Valid
  <2>2. issued' = issued /\ req' = [req EXCEPT ![r] = q]
    BY <1>1 DEF Arrive
  <2>. QED
    BY <2>1, <2>2, LoginSlot
<1>2. ASSUME ApiNoSession(r) \/ ApiRefreshFails(r) \/ ApiSends(r)  PROVE LoginInv'
  <2>1. Idle.pc = "idle"
    BY DEF Idle
  <2>2. issued' = issued /\ req' = [req EXCEPT ![r] = Idle]
    BY <1>2 DEF ApiNoSession, ApiRefreshFails, ApiSends
  <2>. QED
    BY <2>1, <2>2, LoginSlot
<1>3. ASSUME ApiFindsAged(r)  PROVE LoginInv'
  <2>. DEFINE q == [req[r] EXCEPT !.pc = "aged"]
  <2>1. q.pc = "aged" /\ q.sid = s /\ req[r].pc = "get"
    BY <1>0, <1>3 DEF ReqRec, ApiFindsAged, At
  <2>. QED
    BY <1>3, <2>1, LoginSlot DEF ApiFindsAged
<1>4. ASSUME ApiDeletesAged(r)  PROVE LoginInv'
  <2>1. s \in Sids /\ Idle.pc = "idle"
    BY <1>0, <1>4 DEF ApiDeletesAged, At, Held, Idle
  <2>2. issued' = issued /\ req' = [Detached(s, r) EXCEPT ![r] = Idle]
    BY <1>4 DEF ApiDeletesAged
  <2>. QED
    BY <2>1, <2>2, LoginDetached
<1>5. ASSUME ApiAdmit(r)  PROVE LoginInv'
  <2>. DEFINE g == [req[r] EXCEPT !.at = clock, !.ref = clock]
              q == Gated(g, FoundRec(s).data)
  <2>1. g \in ReqRec /\ g.sid = s /\ req[r].pc = "get"
    BY <1>0, <1>5 DEF ApiAdmit, At, ReqRec, Typed, TypeOK
  <2>2. q.pc \in {"idle", "body"} /\ (q.pc = "body" => q.sid = s)
    BY <2>1, LoginGated
  <2>3. issued' = issued /\ req' = [req EXCEPT ![r] = q]
    BY <1>5 DEF ApiAdmit
  <2>. HIDE DEF q
  <2>. QED
    BY <2>1, <2>2, <2>3, LoginSlot
<1>6. ASSUME ApiNeedsRefresh(r)  PROVE LoginInv'
  <2>. DEFINE q == [req[r] EXCEPT !.pc = "refresh", !.at = clock, !.alias = ~ RedisHas(s),
                       !.sess = IF RedisHas(s) THEN FoundRec(s).data ELSE None]
  <2>1. q.pc = "refresh" /\ q.sid = s /\ req[r].pc = "get"
    BY <1>0, <1>6 DEF ReqRec, ApiNeedsRefresh, At
  <2>2. issued' = issued /\ req' = [req EXCEPT ![r] = IF Valid(s) THEN q ELSE Idle]
    BY <1>6 DEF ApiNeedsRefresh
  <2>3. Idle.pc = "idle"
    BY DEF Idle
  <2>. HIDE DEF q
  <2>. QED
    BY <2>1, <2>2, <2>3, LoginSlot
<1>7. ASSUME ApiRefreshed(r)  PROVE LoginInv'
  <2>1. PICK acr \in {SessOf(r).acr, "normal"} :
          req' = [req EXCEPT ![r].pc = "reget", ![r].ref = clock,
                   ![r].sess = IF req[r].alias THEN None
                               ELSE [SessOf(r) EXCEPT !.exp = clock + AccessTtl, !.acr = acr]]
    BY <1>7 DEF ApiRefreshed
  <2>. DEFINE q == [req[r] EXCEPT !.pc = "reget", !.ref = clock,
                   !.sess = IF req[r].alias THEN None
                            ELSE [SessOf(r) EXCEPT !.exp = clock + AccessTtl, !.acr = acr]]
  <2>2. q.pc = "reget" /\ q.sid = s /\ req[r].pc = "refresh"
    BY <1>0, <1>7 DEF ReqRec, ApiRefreshed, At
  <2>3. issued' = issued
    BY <1>7 DEF ApiRefreshed
  <2>4. req' = [req EXCEPT ![r] = q]
    BY <2>1 DEF Typed, TypeOK
  <2>. HIDE DEF q
  <2>. QED
    BY <2>2, <2>3, <2>4, LoginSlot
<1>8. ASSUME ApiRegetsNothing(r)  PROVE LoginInv'
  <2>. DEFINE q == [req[r] EXCEPT !.pc = "audit"]
  <2>1. q.pc = "audit" /\ q.sid = s /\ req[r].pc = "reget"
    BY <1>0, <1>8 DEF ReqRec, ApiRegetsNothing, At
  <2>. QED
    BY <1>8, <2>1, LoginSlot DEF ApiRegetsNothing
<1>9. ASSUME ApiRegetsFromRedis(r)  PROVE LoginInv'
  <2>. DEFINE q == [req[r] EXCEPT !.pc = "setex",
                                  !.rec = Pending(SessOf(r), redis[s].created)]
  <2>1. q.pc = "setex" /\ q.sid = s /\ req[r].pc = "reget"
    BY <1>0, <1>9 DEF ReqRec, ApiRegetsFromRedis, At
  <2>2. issued' = issued /\ req' = [req EXCEPT ![r] = q]
    BY <1>9 DEF ApiRegetsFromRedis
  <2>. HIDE DEF q
  <2>. QED
    BY <2>1, <2>2, LoginSlot
<1>10. ASSUME ApiRegetsFromMemory(r)  PROVE LoginInv'
  <2>. DEFINE q == [req[r] EXCEPT !.pc = "setex", !.alias = TRUE, !.sess = None,
                                  !.rec = Pending(SessOf(r), mem[s].created)]
  <2>1. q.pc = "setex" /\ q.sid = s /\ req[r].pc = "reget" /\ s \in Sids
    BY <1>0, <1>10 DEF ReqRec, ApiRegetsFromMemory, At, Held
  <2>2. issued' = issued /\ req' = [Detached(s, r) EXCEPT ![r] = q]
    BY <1>10 DEF ApiRegetsFromMemory
  <2>. HIDE DEF q
  <2>. QED
    BY <2>1, <2>2, LoginDetached
<1>11. ASSUME ApiWritesRedis(r) \/ ApiLeavesMemory(r)  PROVE LoginInv'
  <2>. DEFINE q == [req[r] EXCEPT !.pc = "audit", !.rec = None]
  <2>1. q.pc = "audit" /\ q.sid = s /\ req[r].pc = "setex"
    BY <1>0, <1>11, LeavesMemory DEF ReqRec, ApiWritesRedis, At
  <2>2. issued' = issued /\ req' = [req EXCEPT ![r] = q]
    BY <1>11, LeavesMemory DEF ApiWritesRedis
  <2>. HIDE DEF q
  <2>. QED
    BY <2>1, <2>2, LoginSlot
<1>12. ASSUME ApiWritesMemory(r)  PROVE LoginInv'
  <2>. DEFINE q == [req[r] EXCEPT !.pc = "audit", !.rec = None, !.alias = TRUE, !.sess = None]
  <2>1. q.pc = "audit" /\ q.sid = s /\ req[r].pc = "setex" /\ s \in Sids
    BY <1>0, <1>12 DEF ReqRec, ApiWritesMemory, At, Held
  <2>2. issued' = issued /\ req' = [Detached(s, r) EXCEPT ![r] = q]
    BY <1>12 DEF ApiWritesMemory
  <2>. HIDE DEF q
  <2>. QED
    BY <2>1, <2>2, LoginDetached
<1>13. ASSUME ApiAudited(r)  PROVE LoginInv'
  <2>. DEFINE q == Gated(req[r], SessOf(r))
  <2>1. q.pc \in {"idle", "body"} /\ (q.pc = "body" => q.sid = s) /\ req[r].pc = "audit"
    BY <1>0, <1>13, LoginGated DEF ApiAudited, At
  <2>2. issued' = issued /\ req' = [req EXCEPT ![r] = q]
    BY <1>13 DEF ApiAudited
  <2>. HIDE DEF q
  <2>. QED
    BY <2>1, <2>2, LoginSlot
<1>. QED
  BY <1>1, <1>2, <1>3, <1>4, <1>5, <1>6, <1>7, <1>8, <1>9, <1>10, <1>11, <1>12, <1>13
     DEF ApiProxy

LEMMA LoginLogout ==
    ASSUME Typed, LoginInv, NEW r \in Reqs, Logout(r)
    PROVE  LoginInv'
<1>. DEFINE s == req[r].sid
<1>0. req[r] \in ReqRec /\ Held(req[r])
  BY DEF Typed, TypeOK, HeldOK
<1>1. ASSUME NEW t \in Sids, LogoutArrives(r, t)  PROVE LoginInv'
  <2>. DEFINE q == [Idle EXCEPT !.pc = "lget", !.sid = t]
  <2>1. q.pc = "lget" /\ q.sid = t /\ issued[t] # None
    BY <1>1 DEF Idle, LogoutArrives, Valid
  <2>2. issued' = issued /\ req' = [req EXCEPT ![r] = q]
    BY <1>1 DEF LogoutArrives
  <2>. QED
    BY <2>1, <2>2, LoginSlot
<1>2. ASSUME LogoutReads(r)  PROVE LoginInv'
  <2>. DEFINE pc == IF ~ Found(s) THEN "ldel" ELSE IF TooOld(s) THEN "laged" ELSE "lkc"
              q == [req[r] EXCEPT !.pc = pc,
                                  !.sess = IF Admits(s) THEN FoundRec(s).data ELSE None]
  <2>1. q.pc = pc /\ q.sid = s /\ req[r].pc = "lget"
    BY <1>0, <1>2 DEF ReqRec, LogoutReads, At
  <2>2. issued' = issued /\ req' = [req EXCEPT ![r] = q]
    BY <1>2 DEF LogoutReads
  <2>3. pc # "cbset"
    OBVIOUS
  <2>. HIDE DEF pc, q
  <2>. QED
    BY <2>1, <2>2, <2>3, LoginSlot
<1>3. ASSUME LogoutDeletesAged(r)  PROVE LoginInv'
  <2>. DEFINE q == [req[r] EXCEPT !.pc = "ldel"]
  <2>1. q.pc = "ldel" /\ q.sid = s /\ req[r].pc = "laged" /\ s \in Sids
    BY <1>0, <1>3 DEF ReqRec, LogoutDeletesAged, At, Held
  <2>2. issued' = issued /\ req' = [Detached(s, r) EXCEPT ![r] = q]
    BY <1>3 DEF LogoutDeletesAged
  <2>. HIDE DEF q
  <2>. QED
    BY <2>1, <2>2, LoginDetached
<1>4. ASSUME LogoutEndsSso(r)  PROVE LoginInv'
  <2>. DEFINE q == [req[r] EXCEPT !.pc = "ldel", !.sess = None]
  <2>1. q.pc = "ldel" /\ q.sid = s /\ req[r].pc = "lkc"
    BY <1>0, <1>4 DEF ReqRec, LogoutEndsSso, At
  <2>2. issued' = issued /\ req' = [req EXCEPT ![r] = q]
    BY <1>4 DEF LogoutEndsSso
  <2>. QED
    BY <2>1, <2>2, LoginSlot
<1>5. ASSUME LogoutClears(r)  PROVE LoginInv'
  <2>1. s \in Sids /\ Idle.pc = "idle" /\ issued' = issued
    BY <1>0, <1>5 DEF LogoutClears, At, Held, Idle
  <2>2. \/ req' = [Detached(s, r) EXCEPT ![r] = Idle]
        \/ req' = [req EXCEPT ![r] = Idle]
    BY <1>5 DEF LogoutClears
  <2>. QED
    BY <2>1, <2>2, LoginDetached, LoginSlot
<1>. QED
  BY <1>1, <1>2, <1>3, <1>4, <1>5 DEF Logout

LEMMA LoginLogin ==
    ASSUME Typed, LoginInv, NEW r \in Reqs, Login(r)
    PROVE  LoginInv'
<1>. DEFINE s == req[r].sid
<1>1. ASSUME NEW t \in Sids, NEW k \in Sids, NEW client \in Clients, NEW cert \in Certs,
             NEW roles \in RoleSets, Callback(r, t, k, client, cert, roles)
      PROVE  LoginInv'
  <2>. DEFINE q == [Idle EXCEPT !.pc = "cbset", !.sid = t, !.at = clock,
                                !.sess = NewSession(k, client, cert, roles)]
  <2>1. q.sid = t /\ issued' = issued /\ req' = [req EXCEPT ![r] = q]
    BY <1>1 DEF Callback, Idle
  <2>2. issued[t] = None /\ \A p \in Reqs : req[p].sid # t
    BY <1>1 DEF Callback, NewSid
  <2>. HIDE DEF q
  <2>3. /\ req'[r] = q
        /\ \A p \in Reqs \ {r} : req'[p] = req[p]
    BY <2>1 DEF Typed, TypeOK
  <2>4. ASSUME NEW c \in Reqs, req'[c].pc = "cbset"
        PROVE  /\ issued'[req'[c].sid] = None
               /\ \A p \in Reqs \ {c} : req'[p].pc # "idle" => req'[p].sid # req'[c].sid
    <3>1. CASE c = r
      BY <2>1, <2>2, <2>3, <3>1
    <3>2. CASE c # r
      <4>1. /\ req'[c] = req[c] /\ issued[req[c].sid] = None
            /\ \A p \in Reqs \ {c} : req[p].pc # "idle" => req[p].sid # req[c].sid
        BY <2>3, <2>4, <3>2 DEF LoginInv, At
      <4>2. q.sid # req[c].sid
        BY <2>1, <2>2
      <4>. QED
        BY <2>1, <2>3, <4>1, <4>2
    <3>. QED
      BY <3>1, <3>2
  <2>. QED
    BY <2>4 DEF LoginInv, At
<1>2. ASSUME CallbackStores(r) \/ CallbackFallsBack(r)
      PROVE  LoginInv'
  <2>1. /\ req[r].pc = "cbset" /\ req' = [req EXCEPT ![r] = Idle]
        /\ issued' = [issued EXCEPT ![s] = clock]
    BY <1>2 DEF CallbackStores, CallbackFallsBack, Issue, At
  <2>2. /\ req'[r] = Idle /\ Idle.pc = "idle"
        /\ \A p \in Reqs \ {r} : req'[p] = req[p]
    BY <2>1 DEF Typed, TypeOK, Idle
  <2>3. ASSUME NEW c \in Reqs, req'[c].pc = "cbset"
        PROVE  /\ issued'[req'[c].sid] = None
               /\ \A p \in Reqs \ {c} : req'[p].pc # "idle" => req'[p].sid # req'[c].sid
    <3>1. c # r /\ req'[c] = req[c]
      BY <2>2, <2>3
    <3>2. /\ issued[req[c].sid] = None
          /\ \A p \in Reqs \ {c} : req[p].pc # "idle" => req[p].sid # req[c].sid
      BY <2>3, <3>1 DEF LoginInv, At
    <3>3. s # req[c].sid /\ req[c].sid \in Sids
      BY <2>1, <2>3, <3>1, <3>2 DEF Typed, HeldOK, Held
    <3>. QED
      BY <2>1, <2>2, <3>1, <3>2, <3>3 DEF Typed, TypeOK
  <2>. QED
    BY <2>3 DEF LoginInv, At
<1>. QED
  BY <1>1, <1>2 DEF Login

LEMMA LoginStep == Typed /\ LoginInv /\ [Next]_vars => LoginInv'
<1>. SUFFICES ASSUME Typed, LoginInv, [Next]_vars  PROVE LoginInv'
  OBVIOUS
<1>1. CASE UNCHANGED vars
  BY <1>1 DEF vars, LoginInv, At
<1>2. CASE Environment
  <2>1. CASE Restart
    BY <2>1 DEF Restart, LoginInv, At, Idle
  <2>2. CASE Tick \/ RedisOutage \/ RevocationListChanges \/ \E k \in Sids : SsoEnds(k)
    BY <2>2 DEF Tick, RedisOutage, RevocationListChanges, SsoEnds, LoginInv, At
  <2>. QED
    BY <1>2, <2>1, <2>2 DEF Environment
<1>. QED
  BY <1>1, <1>2, LoginApi, LoginLogout, LoginLogin DEF Next

LEMMA LoginInit == Init => LoginInv
BY DEF Init, LoginInv, At, Idle

-----------------------------------------------------------------------------
(***************************************************************************)
(* The tokens.                                                             *)
(***************************************************************************)

\* From (k, e) to (k2, e2), at time t, logins begin and end.
Later(t, k, e, k2, e2) ==
    \A x \in Sids :
        \/ k2[x] = k[x] /\ e2[x] = e[x]
        \/ k[x] = "unborn" /\ k2[x] = "live"
        \/ k[x] = "live" /\ k2[x] = "ended" /\ e2[x] = t

LEMMA GoodLater ==
    ASSUME NEW d \in Session, NEW t \in Nat, NEW t2 \in Nat, NEW k, NEW e, NEW k2, NEW e2,
           GoodAt(d, t, k, e), t <= t2, Later(t, k, e, k2, e2)
    PROVE  GoodAt(d, t2, k2, e2)
<1>1. d.kc \in Sids /\ d.exp \in Nat
  BY DEF Session
<1>. QED
  BY <1>1, ConstantsAssumption DEF GoodAt, Later

LEMMA LaterSame == ASSUME NEW t, NEW k, NEW e  PROVE Later(t, k, e, k, e)
BY DEF Later

\* What a request holds is a session.
LEMMA HeldByType ==
    ASSUME Typed, NEW p \in Reqs
    PROVE  /\ HeldBy(req[p], mem) = SessOf(p)
           /\ req[p].pc \in Holding => HeldBy(req[p], mem) \in Session
           /\ req[p] \in ReqRec /\ Held(req[p])
<1>1. HeldBy(req[p], mem) = SessOf(p)
  BY DEF HeldBy, SessOf
<1>2. req[p] \in ReqRec /\ Held(req[p])
  BY DEF Typed, TypeOK, HeldOK
<1>3. ASSUME req[p].pc \in Holding
      PROVE  SessOf(p) \in Session
  <2>1. CASE req[p].pc \in Refreshing
    BY <2>1, SessOfType
  <2>2. CASE req[p].pc \notin Refreshing
    BY <1>2, <1>3, <2>2 DEF Held, Holding, SessOf
  <2>. QED
    BY <2>1, <2>2
<1>. QED
  BY <1>1, <1>2, <1>3

\* Fit looks at nothing but these fields, and bears logins to end.
LEMMA FitLater ==
    ASSUME NEW q, Held(q), NEW d, q.pc \in Holding => d \in Session,
           NEW t \in Nat, NEW k, NEW e, NEW k2, NEW e2, NEW q2,
           q2.pc = q.pc, q2.ref = q.ref, q2.rec = q.rec, q2.route = q.route,
           Fit(q, d, t, k, e), Later(t, k, e, k2, e2)
    PROVE  Fit(q2, d, t, k2, e2)
<1>1. q.pc \in Holding => GoodAt(d, t, k2, e2)
  BY GoodLater DEF Fit
<1>2. q.pc = "setex" => GoodAt(q.rec.data, t, k2, e2)
  BY GoodLater DEF Fit, Held, PendRec
<1>. QED
  BY <1>1, <1>2 DEF Fit, InSlack

LEMMA FitIdle ==
    ASSUME NEW q, NEW d, NEW t, NEW k, NEW e,
           q.pc \notin Holding
    PROVE  Fit(q, d, t, k, e)
BY DEF Fit, Holding, Refreshing

\* A step of request r: the stores stay good, the others hold what they held,
\* r holds something fit.
LEMMA TokenFrame ==
    ASSUME Typed, TokenInv, NEW r \in Reqs, clock' = clock,
           Later(clock, kc, kcEnd, kc', kcEnd'),
           RedisGood', MemGood',
           \A p \in Reqs \ {r} :
              /\ req'[p].pc = req[p].pc
              /\ req'[p].ref = req[p].ref
              /\ req'[p].rec = req[p].rec
              /\ req'[p].route = req[p].route
              /\ req[p].pc \in Holding => HeldBy(req'[p], mem') = HeldBy(req[p], mem),
           Fit(req'[r], HeldBy(req'[r], mem'), clock, kc', kcEnd')
    PROVE  TokenInv'
<1>1. ASSUME NEW p \in Reqs \ {r}
      PROVE  Fit(req'[p], HeldBy(req'[p], mem'), clock, kc', kcEnd')
  <2>1. Fit(req[p], HeldBy(req[p], mem), clock, kc, kcEnd)
    BY DEF TokenInv, AllFit
  <2>2. /\ Held(req[p]) /\ clock \in Nat
        /\ req[p].pc \in Holding => HeldBy(req[p], mem) \in Session
    BY HeldByType DEF Typed, TypeOK
  <2>3. CASE req[p].pc \in Holding
    <3>1. Fit(req'[p], HeldBy(req[p], mem), clock, kc', kcEnd')
      BY <2>1, <2>2, FitLater
    <3>. QED
      BY <2>3, <3>1
  <2>4. CASE req[p].pc \notin Holding
    BY <2>4, FitIdle
  <2>. QED
    BY <2>3, <2>4
<1>2. AllFit'
  BY <1>1 DEF AllFit
<1>. QED
  BY <1>2 DEF TokenInv

LEMMA StoresKept ==
    ASSUME Typed, TokenInv, clock' = clock, Later(clock, kc, kcEnd, kc', kcEnd')
    PROVE  /\ redis' = redis => RedisGood'
           /\ mem' = mem => MemGood'
<1>1. ASSUME NEW s \in Sids, redis[s] # None
      PROVE  GoodAt(redis[s].data, clock, kc', kcEnd')
  <2>1. redis[s].data \in Session /\ clock \in Nat /\ GoodAt(redis[s].data, clock, kc, kcEnd)
    BY <1>1 DEF Typed, TypeOK, RedisRec, TokenInv, RedisGood
  <2>. QED
    BY <2>1, GoodLater
<1>2. ASSUME NEW s \in Sids, mem[s] # None
      PROVE  GoodAt(mem[s].data, clock, kc', kcEnd')
  <2>1. mem[s].data \in Session /\ clock \in Nat /\ GoodAt(mem[s].data, clock, kc, kcEnd)
    BY <1>2 DEF Typed, TypeOK, MemRec, TokenInv, MemGood
  <2>. QED
    BY <2>1, GoodLater
<1>. QED
  BY <1>1, <1>2 DEF RedisGood, MemGood

\* A step in which only request r moves, and logins may begin or end.
LEMMA TokenSlot ==
    ASSUME Typed, TokenInv, NEW r \in Reqs, NEW q, clock' = clock,
           Later(clock, kc, kcEnd, kc', kcEnd'),
           redis' = redis, mem' = mem, req' = [req EXCEPT ![r] = q],
           Fit(q, HeldBy(q, mem), clock, kc', kcEnd')
    PROVE  TokenInv'
<1>1. req'[r] = q /\ \A p \in Reqs \ {r} : req'[p] = req[p]
  BY DEF Typed, TypeOK
<1>2. RedisGood' /\ MemGood'
  BY StoresKept
<1>. QED
  BY <1>1, <1>2, TokenFrame

LEMMA SlotStays ==
    ASSUME Typed, TokenInv, NEW r \in Reqs, NEW q, clock' = clock,
           kc' = kc, kcEnd' = kcEnd,
           redis' = redis, mem' = mem, req' = [req EXCEPT ![r] = q],
           Fit(q, HeldBy(q, mem), clock, kc, kcEnd)
    PROVE  TokenInv'
BY TokenSlot, LaterSame

\* Others keep their data when memory's record of s is replaced under them.
LEMMA OthersDetached ==
    ASSUME Typed, NEW s \in Sids, NEW r \in Reqs,
           \A t \in Sids \ {s} : mem'[t] = mem[t],
           req[r].alias => mem'[s].data = mem[s].data,
           \A p \in Reqs \ {r} : req'[p] = Detached(s, r)[p]
    PROVE  \A p \in Reqs \ {r} : HeldBy(req'[p], mem') = HeldBy(req[p], mem)
<1>. TAKE p \in Reqs \ {r}
<1>. DEFINE d == [req[p] EXCEPT !.alias = FALSE, !.sess = SessOf(p)]
<1>1. req[p] \in ReqRec /\ (req[p].alias => req[p].sid \in Sids)
  BY DEF Typed, TypeOK, HeldOK, Held, Refreshing
<1>2. CASE ~ req[r].alias /\ req[p].alias /\ req[p].sid = s
  <2>1. req'[p] = d
    BY <1>2 DEF Detached
  <2>2. d.alias = FALSE /\ d.sess = SessOf(p)
    BY <1>1 DEF ReqRec
  <2>. QED
    BY <2>1, <2>2 DEF HeldBy, SessOf
<1>3. CASE ~ (~ req[r].alias /\ req[p].alias /\ req[p].sid = s)
  <2>1. req'[p] = req[p]
    BY <1>3 DEF Detached
  <2>. QED
    BY <1>1, <1>3, <2>1 DEF HeldBy
<1>. QED
  BY <1>2, <1>3

\* A step of r in which memory's record of s is replaced.
LEMMA TokenDetached ==
    ASSUME Typed, TokenInv, NEW s \in Sids, NEW r \in Reqs, NEW q,
           clock' = clock, kc' = kc, kcEnd' = kcEnd,
           RedisGood', MemGood',
           \A t \in Sids \ {s} : mem'[t] = mem[t],
           req[r].alias => mem'[s].data = mem[s].data,
           req' = [Detached(s, r) EXCEPT ![r] = q],
           Fit(q, HeldBy(q, mem'), clock, kc, kcEnd)
    PROVE  TokenInv'
<1>1. req'[r] = q /\ \A p \in Reqs \ {r} : req'[p] = Detached(s, r)[p]
  BY DetachedInPlace
<1>2. \A p \in Reqs \ {r} : HeldBy(req'[p], mem') = HeldBy(req[p], mem)
  BY <1>1, OthersDetached
<1>3. \A p \in Reqs \ {r} :
         /\ req'[p].pc = req[p].pc
         /\ req'[p].ref = req[p].ref
         /\ req'[p].rec = req[p].rec
         /\ req'[p].route = req[p].route
  BY <1>1, DetachedInPlace
<1>4. Later(clock, kc, kcEnd, kc', kcEnd')
  BY LaterSame
<1>. QED
  BY <1>1, <1>2, <1>3, <1>4, TokenFrame

\* Deleting a session.
LEMMA TokenDeletes ==
    ASSUME Typed, TokenInv, NEW s \in Sids, NEW r \in Reqs, NEW q,
           clock' = clock, kc' = kc, kcEnd' = kcEnd,
           StoreDelete(s), ~ req[r].alias,
           req' = [Detached(s, r) EXCEPT ![r] = q],
           q.pc \notin Holding
    PROVE  TokenInv'
<1>1. RedisGood' /\ MemGood'
  BY DEF TokenInv, RedisGood, MemGood, StoreDelete, Typed, TypeOK
<1>2. \A t \in Sids \ {s} : mem'[t] = mem[t]
  BY DEF StoreDelete, Typed, TypeOK
<1>3. Fit(q, HeldBy(q, mem'), clock, kc, kcEnd)
  BY FitIdle
<1>. QED
  BY <1>1, <1>2, <1>3, TokenDetached

\* The gate lets through what it was given.
LEMMA TokenGated ==
    ASSUME NEW q \in ReqRec, NEW d \in Session, NEW m, NEW t, NEW k, NEW e,
           GoodAt(d, t, k, e), InSlack(q, t), d.exp > q.ref + Slack
    PROVE  Fit(Gated(q, d), HeldBy(Gated(q, d), m), t, k, e)
<1>. DEFINE g == [q EXCEPT !.pc = "body", !.sess = d, !.alias = FALSE, !.rec = None]
            verdict == GateVerdict(d, RevokedIds, q.route.method, q.route.path)
<1>1. CASE verdict = "forward"
  <2>1. Gated(q, d) = g
    BY <1>1 DEF Gated
  <2>2. /\ g.pc = "body" /\ g.sess = d /\ g.alias = FALSE /\ g.ref = q.ref
        /\ g.route = q.route
    BY DEF ReqRec
  <2>3. HeldBy(g, m) = d
    BY <2>2 DEF HeldBy
  <2>4. IsSensitive(q.route.method, q.route.path) => d.acr = "high"
    BY <1>1 DEF GateVerdict
  <2>5. Fit(g, d, t, k, e)
    BY <2>2, <2>4 DEF Fit, InSlack
  <2>. QED
    BY <2>1, <2>3, <2>5
<1>2. CASE verdict # "forward"
  <2>1. Gated(q, d) = Idle
    BY <1>2 DEF Gated
  <2>. QED
    BY <2>1, FitIdle DEF Idle, Holding, Refreshing
<1>. QED
  BY <1>1, <1>2

\* What the store returns is good.
LEMMA FoundGood ==
    ASSUME Typed, TokenInv, NEW s \in Sids, Found(s)
    PROVE  /\ FoundRec(s).data \in Session
           /\ GoodAt(FoundRec(s).data, clock, kc, kcEnd)
<1>1. FoundRec(s).data \in Session
  BY FoundRecType DEF MemRec
<1>2. CASE RedisHas(s)
  <2>1. FoundRec(s).data = redis[s].data /\ redis[s] # None
    BY <1>2 DEF FoundRec, RedisHas
  <2>. QED
    BY <1>1, <2>1 DEF TokenInv, RedisGood
<1>3. CASE ~ RedisHas(s)
  <2>1. FoundRec(s).data = mem[s].data /\ mem[s] # None
    BY <1>3 DEF FoundRec, Found
  <2>. QED
    BY <1>1, <2>1 DEF TokenInv, MemGood
<1>. QED
  BY <1>1, <1>2, <1>3

-----------------------------------------------------------------------------
\* api_proxy up to the verdict, or to the refresh.
LEMMA TokenReads ==
    ASSUME Typed, TokenInv, NEW r \in Reqs
    PROVE  /\ \A t \in Sids, route \in Routes : Arrive(r, t, route) => TokenInv'
           /\ ApiNoSession(r) => TokenInv'
           /\ ApiFindsAged(r) => TokenInv'
           /\ ApiDeletesAged(r) => TokenInv'
           /\ ApiAdmit(r) => TokenInv'
           /\ ApiNeedsRefresh(r) => TokenInv'
           /\ ApiRefreshFails(r) => TokenInv'
           /\ ApiSends(r) => TokenInv'
<1>. DEFINE s == req[r].sid
<1>0. req[r] \in ReqRec /\ Held(req[r])
  BY HeldByType
<1>1. ASSUME NEW t \in Sids, NEW route \in Routes, Arrive(r, t, route)  PROVE TokenInv'
  <2>. DEFINE q == [Idle EXCEPT !.pc = "get", !.sid = t, !.route = route]
  <2>1. q.pc = "get" /\ q.pc \notin Holding
    BY DEF Idle, Holding, Refreshing
  <2>2. /\ req' = [req EXCEPT ![r] = q] /\ redis' = redis /\ mem' = mem
        /\ clock' = clock /\ kc' = kc /\ kcEnd' = kcEnd
    BY <1>1 DEF Arrive, store, env
  <2>. HIDE DEF q
  <2>. QED
    BY <2>1, <2>2, FitIdle, SlotStays
<1>2. ASSUME ApiNoSession(r) \/ ApiRefreshFails(r) \/ ApiSends(r)  PROVE TokenInv'
  <2>1. Idle.pc \notin Holding
    BY DEF Idle, Holding, Refreshing
  <2>2. /\ req' = [req EXCEPT ![r] = Idle] /\ redis' = redis /\ mem' = mem
        /\ clock' = clock /\ kc' = kc /\ kcEnd' = kcEnd
    BY <1>2 DEF ApiNoSession, ApiRefreshFails, ApiSends, store, env
  <2>. QED
    BY <2>1, <2>2, FitIdle, SlotStays
<1>3. ASSUME ApiFindsAged(r)  PROVE TokenInv'
  <2>. DEFINE q == [req[r] EXCEPT !.pc = "aged"]
  <2>1. q.pc = "aged" /\ q.pc \notin Holding
    BY <1>0 DEF ReqRec, Holding, Refreshing
  <2>2. /\ req' = [req EXCEPT ![r] = q] /\ redis' = redis /\ mem' = mem
        /\ clock' = clock /\ kc' = kc /\ kcEnd' = kcEnd
    BY <1>3 DEF ApiFindsAged, store, env
  <2>. HIDE DEF q
  <2>. QED
    BY <2>1, <2>2, FitIdle, SlotStays
<1>4. ASSUME ApiDeletesAged(r)  PROVE TokenInv'
  <2>1. s \in Sids /\ ~ req[r].alias /\ Idle.pc \notin Holding
    BY <1>0, <1>4 DEF ApiDeletesAged, At, Held, Refreshing, Idle, Holding
  <2>2. /\ req' = [Detached(s, r) EXCEPT ![r] = Idle] /\ StoreDelete(s)
        /\ clock' = clock /\ kc' = kc /\ kcEnd' = kcEnd
    BY <1>4 DEF ApiDeletesAged, env
  <2>. QED
    BY <2>1, <2>2, TokenDeletes
<1>5. ASSUME ApiAdmit(r)  PROVE TokenInv'
  <2>. DEFINE g == [req[r] EXCEPT !.at = clock, !.ref = clock]
              d == FoundRec(s).data
  <2>1. s \in Sids /\ Found(s) /\ Fresh(d)
    BY <1>0, <1>5 DEF ApiAdmit, At, Held, Admits
  <2>2. d \in Session /\ GoodAt(d, clock, kc, kcEnd)
    BY <2>1, FoundGood
  <2>3. g \in ReqRec /\ g.ref = clock /\ clock \in Nat
    BY <1>0 DEF ReqRec, Typed, TypeOK
  <2>4. d.exp \in Nat
    BY <2>2 DEF Session
  <2>5. InSlack(g, clock) /\ d.exp > g.ref + Slack
    BY <2>1, <2>3, <2>4, ConstantsAssumption DEF InSlack, Fresh
  <2>6. /\ req' = [req EXCEPT ![r] = Gated(g, d)] /\ redis' = redis /\ mem' = mem
        /\ clock' = clock /\ kc' = kc /\ kcEnd' = kcEnd
    BY <1>5 DEF ApiAdmit, store, env
  <2>. HIDE DEF g, d
  <2>7. Fit(Gated(g, d), HeldBy(Gated(g, d), mem), clock, kc, kcEnd)
    BY <2>2, <2>3, <2>5, TokenGated
  <2>. QED
    BY <2>6, <2>7, SlotStays
<1>6. ASSUME ApiNeedsRefresh(r)  PROVE TokenInv'
  <2>. DEFINE d == FoundRec(s).data
              q == [req[r] EXCEPT !.pc = "refresh", !.at = clock, !.alias = ~ RedisHas(s),
                                  !.sess = IF RedisHas(s) THEN d ELSE None]
  <2>1. s \in Sids /\ Found(s)
    BY <1>0, <1>6 DEF ApiNeedsRefresh, At, Held, Admits
  <2>2. GoodAt(d, clock, kc, kcEnd)
    BY <2>1, FoundGood
  <2>3. /\ q.pc = "refresh" /\ q.sid = s /\ q.alias = ~ RedisHas(s)
        /\ q.sess = IF RedisHas(s) THEN d ELSE None
    BY <1>0 DEF ReqRec
  <2>4. HeldBy(q, mem) = d
    <3>1. CASE RedisHas(s)
      BY <2>3, <3>1 DEF HeldBy
    <3>2. CASE ~ RedisHas(s)
      <4>1. q.alias /\ d = mem[s].data
        BY <2>3, <3>2 DEF FoundRec
      <4>. HIDE DEF d, q
      <4>. QED
        BY <2>3, <4>1 DEF HeldBy
    <3>. QED
      BY <3>1, <3>2
  <2>5. /\ req' = [req EXCEPT ![r] = IF Valid(s) THEN q ELSE Idle]
        /\ redis' = redis /\ mem' = mem
        /\ clock' = clock /\ kc' = kc /\ kcEnd' = kcEnd
    BY <1>6 DEF ApiNeedsRefresh, store, env
  <2>. HIDE DEF d, q
  <2>6. Fit(q, HeldBy(q, mem), clock, kc, kcEnd)
    BY <2>2, <2>3, <2>4 DEF Fit
  <2>7. Fit(Idle, HeldBy(Idle, mem), clock, kc, kcEnd)
    BY FitIdle DEF Idle, Holding, Refreshing
  <2>. QED
    BY <2>5, <2>6, <2>7, SlotStays
<1>. QED
  BY <1>1, <1>2, <1>3, <1>4, <1>5, <1>6

\* A refreshed session is good, and its token as young as the request asks.
LEMMA RefreshedGood ==
    ASSUME Typed, NEW d \in Session, GoodAt(d, clock, kc, kcEnd), kc[d.kc] = "live",
           NEW acr \in {d.acr, "normal"}
    PROVE  LET new == [d EXCEPT !.exp = clock + AccessTtl, !.acr = acr]
           IN  /\ GoodAt(new, clock, kc, kcEnd)
               /\ new \in Session
               /\ new.exp = clock + AccessTtl
<1>. DEFINE new == [d EXCEPT !.exp = clock + AccessTtl, !.acr = acr]
<1>1. /\ new.exp = clock + AccessTtl /\ new.acr = acr /\ new.kc = d.kc
      /\ new.client = d.client /\ new.device = d.device /\ new.trust = d.trust
  BY DEF Session
<1>2. clock + AccessTtl \in Nat
  BY ConstantsAssumption DEF Typed, TypeOK
<1>3. new \in Session
  BY <1>2 DEF Session
<1>4. acr = "high" => d.acr = "high"
  OBVIOUS
<1>5. GoodAt(new, clock, kc, kcEnd)
  <2>. HIDE DEF new
  <2>. QED
    BY <1>1, <1>2, <1>4 DEF GoodAt
<1>. QED
  BY <1>1, <1>3, <1>5

\* Keycloak's answer: the dict of this coroutine is updated in place, and with
\* it what other coroutines share.
LEMMA TokenRefreshed ==
    ASSUME Typed, TokenInv, NEW r \in Reqs, ApiRefreshed(r)
    PROVE  TokenInv'
<1>. DEFINE s == req[r].sid
            d == SessOf(r)
<1>0. /\ req[r] \in ReqRec /\ Held(req[r]) /\ req[r].pc = "refresh" /\ s \in Sids
      /\ HeldBy(req[r], mem) = d /\ d \in Session /\ kc[d.kc] = "live"
      /\ req[r].alias => mem[s] \in MemRec
  BY HeldByType DEF ApiRefreshed, At, Held, Holding, Refreshing, Typed, HeldOK
<1>1. PICK acr \in {d.acr, "normal"} :
        LET new == [d EXCEPT !.exp = clock + AccessTtl, !.acr = acr]
        IN  /\ mem' = IF req[r].alias THEN [mem EXCEPT ![s].data = new] ELSE mem
            /\ req' = [req EXCEPT ![r].pc = "reget", ![r].ref = clock,
                         ![r].sess = IF req[r].alias THEN None ELSE new]
  BY DEF ApiRefreshed
<1>. DEFINE new == [d EXCEPT !.exp = clock + AccessTtl, !.acr = acr]
            q == [req[r] EXCEPT !.pc = "reget", !.ref = clock,
                                !.sess = IF req[r].alias THEN None ELSE new]
            m == [mem[s] EXCEPT !.data = new]
<1>2. GoodAt(d, clock, kc, kcEnd)
  BY <1>0 DEF TokenInv, AllFit, Fit, Holding, Refreshing
<1>3. GoodAt(new, clock, kc, kcEnd) /\ new \in Session /\ new.exp = clock + AccessTtl
  BY <1>0, <1>2, RefreshedGood
<1>4. /\ q.pc = "reget" /\ q.ref = clock /\ q.sid = s /\ q.alias = req[r].alias
      /\ q.sess = IF req[r].alias THEN None ELSE new
  BY <1>0 DEF ReqRec
<1>5. /\ redis' = redis /\ clock' = clock /\ kc' = kc /\ kcEnd' = kcEnd
      /\ req' = [req EXCEPT ![r] = q]
      /\ mem' = IF req[r].alias THEN [mem EXCEPT ![s] = m] ELSE mem
  <2>1. redis' = redis /\ clock' = clock /\ kc' = kc /\ kcEnd' = kcEnd
    BY DEF ApiRefreshed, env
  <2>2. req' = [req EXCEPT ![r] = q]
    BY <1>1
  <2>3. mem' = IF req[r].alias THEN [mem EXCEPT ![s] = m] ELSE mem
    BY <1>1
  <2>. QED
    BY <2>1, <2>2, <2>3
<1>6. req[r].alias => m.data = new
  BY <1>0 DEF MemRec
<1>7. /\ req'[r] = q
      /\ \A p \in Reqs \ {r} : req'[p] = req[p]
      /\ req[r].alias => mem'[s] = m
      /\ \A t \in Sids : ~ req[r].alias \/ t # s => mem'[t] = mem[t]
  <2>. HIDE DEF q, m
  <2>. QED
    BY <1>0, <1>5 DEF Typed, TypeOK
<1>. HIDE DEF q, m, new, d
<1>8. RedisGood'
  BY <1>5 DEF TokenInv, RedisGood
<1>9. MemGood'
  BY <1>3, <1>5, <1>6, <1>7 DEF TokenInv, MemGood
<1>10. Fit(q, HeldBy(q, mem'), clock, kc, kcEnd)
  <2>1. HeldBy(q, mem') = new
    BY <1>4, <1>6, <1>7 DEF HeldBy
  <2>2. clock \in Nat
    BY DEF Typed, TypeOK
  <2>. QED
    BY <1>3, <1>4, <2>1, <2>2, ConstantsAssumption DEF Fit, InSlack
<1>11. ASSUME NEW p \in Reqs \ {r}
       PROVE  Fit(req[p], HeldBy(req[p], mem'), clock, kc, kcEnd)
  <2>1. Fit(req[p], HeldBy(req[p], mem), clock, kc, kcEnd)
    BY DEF TokenInv, AllFit
  <2>2. CASE req[p].alias /\ req[r].alias /\ req[p].sid = s
    <3>1. HeldBy(req[p], mem') = new
      BY <1>6, <1>7, <2>2 DEF HeldBy
    <3>2. clock \in Nat /\ req[p].ref \in Nat /\ req[p].pc \in Refreshing
      BY <2>2, HeldByType DEF Typed, TypeOK, ReqRec, Held
    <3>3. req[p].pc # "body"
      BY <3>2 DEF Refreshing
    <3>. QED
      BY <1>3, <2>1, <3>1, <3>2, <3>3, ConstantsAssumption DEF Fit, InSlack
  <2>3. CASE ~ (req[p].alias /\ req[r].alias /\ req[p].sid = s)
    <3>1. req[p].alias => req[p].sid \in Sids
      BY HeldByType DEF Held, Refreshing
    <3>2. HeldBy(req[p], mem') = HeldBy(req[p], mem)
      BY <1>7, <2>3, <3>1 DEF HeldBy
    <3>. QED
      BY <2>1, <3>2
  <2>. QED
    BY <2>2, <2>3
<1>12. AllFit'
  BY <1>5, <1>7, <1>10, <1>11 DEF AllFit
<1>. QED
  BY <1>8, <1>9, <1>12 DEF TokenInv

\* The second read of the store, and the record to be written back.
LEMMA TokenRegets ==
    ASSUME Typed, TokenInv, NEW r \in Reqs
    PROVE  /\ ApiRegetsNothing(r) => TokenInv'
           /\ ApiRegetsFromRedis(r) => TokenInv'
           /\ ApiRegetsFromMemory(r) => TokenInv'
<1>. DEFINE s == req[r].sid
            d == SessOf(r)
<1>0. /\ req[r] \in ReqRec /\ Held(req[r]) /\ HeldBy(req[r], mem) = d
      /\ Fit(req[r], d, clock, kc, kcEnd)
  BY HeldByType DEF TokenInv, AllFit
<1>1. ASSUME req[r].pc = "reget"
      PROVE  /\ s \in Sids /\ d \in Session /\ GoodAt(d, clock, kc, kcEnd)
             /\ InSlack(req[r], clock) /\ d.exp >= req[r].ref + AccessTtl
  BY <1>0, <1>1, HeldByType DEF Fit, Holding, Refreshing, Held
<1>2. ASSUME NEW c
      PROVE  Pending(d, c).data = d
  BY DEF Pending
<1>. HIDE DEF d
<1>3. ASSUME ApiRegetsNothing(r)  PROVE TokenInv'
  <2>. DEFINE q == [req[r] EXCEPT !.pc = "audit"]
  <2>1. /\ q.pc = "audit" /\ q.sid = s /\ q.alias = req[r].alias /\ q.sess = req[r].sess
        /\ q.ref = req[r].ref /\ req[r].pc = "reget"
    BY <1>0, <1>3 DEF ReqRec, ApiRegetsNothing, At
  <2>2. /\ req' = [req EXCEPT ![r] = q] /\ redis' = redis /\ mem' = mem
        /\ clock' = clock /\ kc' = kc /\ kcEnd' = kcEnd
    BY <1>3 DEF ApiRegetsNothing, store, env
  <2>. HIDE DEF q
  <2>3. HeldBy(q, mem) = d
    BY <1>0, <2>1 DEF HeldBy
  <2>4. Fit(q, d, clock, kc, kcEnd)
    BY <1>1, <2>1 DEF Fit, InSlack
  <2>. QED
    BY <2>2, <2>3, <2>4, SlotStays
<1>4. ASSUME ApiRegetsFromRedis(r)  PROVE TokenInv'
  <2>. DEFINE p == Pending(d, redis[s].created)
              q == [req[r] EXCEPT !.pc = "setex", !.rec = p]
  <2>1. /\ q.pc = "setex" /\ q.sid = s /\ q.alias = req[r].alias /\ q.sess = req[r].sess
        /\ q.ref = req[r].ref /\ req[r].pc = "reget" /\ q.rec = p
    BY <1>0, <1>4 DEF ReqRec, ApiRegetsFromRedis, At
  <2>2. /\ req' = [req EXCEPT ![r] = q] /\ redis' = redis /\ mem' = mem
        /\ clock' = clock /\ kc' = kc /\ kcEnd' = kcEnd
    BY <1>4 DEF ApiRegetsFromRedis, store, env, d
  <2>3. p.data = d
    BY <1>2
  <2>. HIDE DEF p, q
  <2>4. HeldBy(q, mem) = d
    BY <1>0, <2>1 DEF HeldBy
  <2>5. Fit(q, d, clock, kc, kcEnd)
    BY <1>1, <2>1, <2>3 DEF Fit, InSlack
  <2>. QED
    BY <2>2, <2>4, <2>5, SlotStays
<1>5. ASSUME ApiRegetsFromMemory(r)  PROVE TokenInv'
  <2>. DEFINE p == Pending(d, mem[s].created)
              q == [req[r] EXCEPT !.pc = "setex", !.alias = TRUE, !.sess = None, !.rec = p]
              m == [mem[s] EXCEPT !.data = d]
  <2>1. /\ q.pc = "setex" /\ q.sid = s /\ q.alias = TRUE
        /\ q.ref = req[r].ref /\ req[r].pc = "reget" /\ q.rec = p
    BY <1>0, <1>5 DEF ReqRec, ApiRegetsFromMemory, At
  <2>2. /\ req' = [Detached(s, r) EXCEPT ![r] = q] /\ redis' = redis
        /\ mem' = [mem EXCEPT ![s] = m]
        /\ clock' = clock /\ kc' = kc /\ kcEnd' = kcEnd
    BY <1>5 DEF ApiRegetsFromMemory, env, d
  <2>3. p.data = d
    BY <1>2
  <2>4. mem[s] \in MemRec /\ m.data = d /\ s \in Sids
    BY <1>1, <1>5, <2>1 DEF ApiRegetsFromMemory, Typed, TypeOK, MemRec
  <2>. HIDE DEF p, q, m
  <2>5. mem'[s] = m /\ \A t \in Sids \ {s} : mem'[t] = mem[t]
    BY <2>2, <2>4 DEF Typed, TypeOK
  <2>6. HeldBy(q, mem') = d
    BY <2>1, <2>4, <2>5 DEF HeldBy
  <2>7. Fit(q, d, clock, kc, kcEnd)
    BY <1>1, <2>1, <2>3 DEF Fit, InSlack
  <2>8. RedisGood' /\ MemGood'
    BY <1>1, <2>1, <2>2, <2>4, <2>5 DEF TokenInv, RedisGood, MemGood
  <2>9. req[r].alias => mem'[s].data = mem[s].data
    BY <1>0, <2>4, <2>5 DEF HeldBy
  <2>10. Fit(q, HeldBy(q, mem'), clock, kc, kcEnd)
    BY <2>6, <2>7
  <2>11. \A t \in Sids \ {s} : mem'[t] = mem[t]
    BY <2>5
  <2>12. s \in Sids
    BY <2>4
  <2>. HIDE DEF s
  <2>. QED
    BY <2>2, <2>8, <2>9, <2>10, <2>11, <2>12, TokenDetached
<1>. QED
  BY <1>3, <1>4, <1>5

\* What SETEX leaves in Redis.
LEMMA SetexGood ==
    ASSUME Typed, TokenInv, NEW s \in Sids, NEW rec, NEW ttl,
           GoodAt(rec.data, clock, kc, kcEnd),
           redis' = Setex(s, rec, ttl) \/ redis' = redis,
           clock' = clock, kc' = kc, kcEnd' = kcEnd
    PROVE  RedisGood'
<1>1. ASSUME NEW t \in Sids, redis'[t] # None
      PROVE  GoodAt(redis'[t].data, clock, kc, kcEnd)
  <2>1. CASE redis'[t] = redis[t]
    BY <1>1, <2>1 DEF TokenInv, RedisGood
  <2>2. CASE redis'[t] # redis[t]
    <3>1. redis'[t].data = rec.data
      BY <2>2 DEF Setex, Typed, TypeOK
    <3>. QED
      BY <3>1
  <2>. QED
    BY <2>1, <2>2
<1>. QED
  BY <1>1 DEF RedisGood

LEMMA TokenWrites ==
    ASSUME Typed, TokenInv, NEW r \in Reqs
    PROVE  /\ ApiWritesRedis(r) => TokenInv'
           /\ ApiWritesMemory(r) => TokenInv'
           /\ ApiLeavesMemory(r) => TokenInv'
           /\ ApiAudited(r) => TokenInv'
<1>. DEFINE s == req[r].sid
            d == SessOf(r)
            rec == req[r].rec
<1>0. /\ req[r] \in ReqRec /\ Held(req[r]) /\ HeldBy(req[r], mem) = d
      /\ Fit(req[r], d, clock, kc, kcEnd)
  BY HeldByType DEF TokenInv, AllFit
<1>1. ASSUME req[r].pc = "setex"
      PROVE  /\ s \in Sids /\ d \in Session /\ GoodAt(d, clock, kc, kcEnd)
             /\ InSlack(req[r], clock) /\ d.exp >= req[r].ref + AccessTtl
             /\ GoodAt(rec.data, clock, kc, kcEnd)
  BY <1>0, <1>1, HeldByType DEF Fit, Holding, Refreshing, Held
<1>2. ASSUME ApiWritesRedis(r) \/ ApiLeavesMemory(r)  PROVE TokenInv'
  <2>. DEFINE q == [req[r] EXCEPT !.pc = "audit", !.rec = None]
  <2>1. /\ q.pc = "audit" /\ q.sid = s /\ q.alias = req[r].alias /\ q.sess = req[r].sess
        /\ q.ref = req[r].ref /\ req[r].pc = "setex"
    BY <1>0, <1>2, LeavesMemory DEF ReqRec, ApiWritesRedis, At
  <2>2. /\ req' = [req EXCEPT ![r] = q] /\ mem' = mem
        /\ redis' = Setex(s, rec, rec.ttl) \/ redis' = redis
        /\ clock' = clock /\ kc' = kc /\ kcEnd' = kcEnd
    BY <1>2, LeavesMemory DEF ApiWritesRedis, StoreSet, env
  <2>. HIDE DEF q, d
  <2>3. RedisGood' /\ MemGood'
    BY <1>1, <2>1, <2>2, SetexGood, StoresKept, LaterSame
  <2>4. HeldBy(q, mem) = d
    BY <1>0, <2>1 DEF HeldBy
  <2>5. Fit(q, d, clock, kc, kcEnd)
    BY <1>1, <2>1 DEF Fit, InSlack
  <2>6. req'[r] = q /\ \A p \in Reqs \ {r} : req'[p] = req[p]
    BY <2>2 DEF Typed, TypeOK
  <2>7. Later(clock, kc, kcEnd, kc', kcEnd')
    BY <2>2, LaterSame
  <2>. QED
    BY <2>2, <2>3, <2>4, <2>5, <2>6, <2>7, TokenFrame
<1>3. ASSUME ApiWritesMemory(r)  PROVE TokenInv'
  <2>. DEFINE q == [req[r] EXCEPT !.pc = "audit", !.rec = None, !.alias = TRUE, !.sess = None]
              m == [data |-> d, created |-> rec.created]
  <2>1. /\ q.pc = "audit" /\ q.sid = s /\ q.alias = TRUE
        /\ q.ref = req[r].ref /\ req[r].pc = "setex" /\ m.data = d
    BY <1>0, <1>3 DEF ReqRec, ApiWritesMemory, At
  <2>2. /\ req' = [Detached(s, r) EXCEPT ![r] = q]
        /\ mem' = [mem EXCEPT ![s] = m]
        /\ redis' = Setex(s, rec, rec.ttl) \/ redis' = redis
        /\ clock' = clock /\ kc' = kc /\ kcEnd' = kcEnd
    BY <1>3 DEF ApiWritesMemory, StoreFallsBack, env
  <2>. HIDE DEF q, m, d
  <2>3. s \in Sids /\ mem'[s] = m /\ \A t \in Sids \ {s} : mem'[t] = mem[t]
    BY <1>1, <2>1, <2>2 DEF Typed, TypeOK
  <2>4. RedisGood'
    BY <1>1, <2>1, <2>2, SetexGood
  <2>5. MemGood'
    BY <1>1, <2>1, <2>2, <2>3 DEF TokenInv, MemGood
  <2>6. HeldBy(q, mem') = d
    BY <2>1, <2>3 DEF HeldBy
  <2>7. Fit(q, d, clock, kc, kcEnd)
    BY <1>1, <2>1 DEF Fit, InSlack
  <2>8. req[r].alias => mem'[s].data = mem[s].data
    BY <1>0, <2>1, <2>3 DEF HeldBy
  <2>. QED
    BY <2>2, <2>3, <2>4, <2>5, <2>6, <2>7, <2>8, TokenDetached
<1>4. ASSUME ApiAudited(r)  PROVE TokenInv'
  <2>1. req[r].pc = "audit"
    BY <1>4 DEF ApiAudited, At
  <2>2. /\ d \in Session /\ GoodAt(d, clock, kc, kcEnd)
        /\ InSlack(req[r], clock) /\ d.exp >= req[r].ref + AccessTtl
    BY <1>0, <2>1, HeldByType DEF Fit, Holding, Refreshing
  <2>3. d.exp \in Nat /\ req[r].ref \in Nat
    BY <1>0, <2>2 DEF Session, ReqRec
  <2>4. d.exp > req[r].ref + Slack
    BY <2>2, <2>3, ConstantsAssumption
  <2>5. /\ req' = [req EXCEPT ![r] = Gated(req[r], d)] /\ redis' = redis /\ mem' = mem
        /\ clock' = clock /\ kc' = kc /\ kcEnd' = kcEnd
    BY <1>4 DEF ApiAudited, store, env
  <2>. HIDE DEF d
  <2>6. Fit(Gated(req[r], d), HeldBy(Gated(req[r], d), mem), clock, kc, kcEnd)
    BY <1>0, <2>2, <2>4, TokenGated
  <2>. QED
    BY <2>5, <2>6, SlotStays
<1>. QED
  BY <1>2, <1>3, <1>4

LEMMA NewSessionGood ==
    ASSUME Typed, NEW k \in Sids, NEW client \in Clients, NEW cert \in Certs,
           NEW roles \in RoleSets, NEW k2, NEW e, k2[k] = "live"
    PROVE  GoodAt(NewSession(k, client, cert, roles), clock, k2, e)
<1>. DEFINE d == NewSession(k, client, cert, roles)
            v == EvaluateDevice(cert, RevokedIds)
<1>1. /\ d.exp = clock + AccessTtl /\ d.kc = k /\ d.client = client
      /\ d.acr = IF client = "stepup" THEN "high" ELSE "normal"
      /\ d.device = v.device /\ d.trust = v.trust
  BY DEF NewSession
<1>2. v.device = NoDevice => v.trust = "suspicious"
  BY DEF EvaluateDevice
<1>3. clock + AccessTtl \in Nat
  BY ConstantsAssumption DEF Typed, TypeOK
<1>. HIDE DEF d, v
<1>4. GoodAt(d, clock, k2, e)
  BY <1>1, <1>2, <1>3 DEF GoodAt
<1>. QED
  BY <1>4 DEF d

LEMMA TokenLogin ==
    ASSUME Typed, LoginInv, TokenInv, NEW r \in Reqs, Login(r)
    PROVE  TokenInv'
<1>. DEFINE s == req[r].sid
<1>0. /\ req[r] \in ReqRec /\ Held(req[r])
      /\ Fit(req[r], HeldBy(req[r], mem), clock, kc, kcEnd)
  BY HeldByType DEF TokenInv, AllFit
<1>1. ASSUME NEW t \in Sids, NEW k \in Sids, NEW client \in Clients, NEW cert \in Certs,
             NEW roles \in RoleSets, Callback(r, t, k, client, cert, roles)
      PROVE  TokenInv'
  <2>. DEFINE d == NewSession(k, client, cert, roles)
              q == [Idle EXCEPT !.pc = "cbset", !.sid = t, !.at = clock, !.sess = d]
  <2>1. q.pc = "cbset" /\ q.alias = FALSE /\ q.sess = d
    BY DEF Idle
  <2>2. /\ req' = [req EXCEPT ![r] = q] /\ redis' = redis /\ mem' = mem
        /\ clock' = clock /\ kc' = [kc EXCEPT ![k] = "live"] /\ kcEnd' = kcEnd
        /\ kc[k] \in {"live", "unborn"}
    BY <1>1 DEF Callback, store
  <2>3. kc'[k] = "live" /\ Later(clock, kc, kcEnd, kc', kcEnd')
    BY <2>2 DEF Later, Typed, TypeOK
  <2>4. GoodAt(d, clock, kc', kcEnd')
    BY <2>3, NewSessionGood
  <2>. HIDE DEF q, d
  <2>5. HeldBy(q, mem) = d
    BY <2>1 DEF HeldBy
  <2>6. Fit(q, d, clock, kc', kcEnd')
    BY <2>1, <2>4 DEF Fit
  <2>. QED
    BY <2>2, <2>3, <2>5, <2>6, TokenSlot
<1>2. ASSUME CallbackStores(r) \/ CallbackFallsBack(r)
      PROVE  TokenInv'
  <2>. DEFINE d == req[r].sess
              rec == [data |-> d, created |-> req[r].at]
              m == [data |-> d, created |-> clock]
  <2>1. /\ req[r].pc = "cbset" /\ req' = [req EXCEPT ![r] = Idle]
        /\ redis' = Setex(s, rec, MaxAge) \/ redis' = redis
        /\ mem' = mem \/ mem' = [mem EXCEPT ![s] = m]
        /\ clock' = clock /\ kc' = kc /\ kcEnd' = kcEnd
    BY <1>2 DEF CallbackStores, CallbackFallsBack, StoreSet, StoreFallsBack, Issue, At, env
  <2>2. /\ s \in Sids /\ ~ req[r].alias
        /\ \A p \in Reqs \ {r} : req[p].alias => req[p].sid # s /\ req[p].sid \in Sids
    <3>1. s \in Sids /\ ~ req[r].alias
      BY <1>0, <2>1 DEF Held, Refreshing
    <3>2. ASSUME NEW p \in Reqs \ {r}, req[p].alias
          PROVE  req[p].sid # s /\ req[p].sid \in Sids
      <4>1. req[p].pc # "idle" /\ req[p].sid \in Sids
        BY <3>2, HeldByType DEF Held, Refreshing
      <4>. QED
        BY <2>1, <4>1 DEF LoginInv, At
    <3>. QED
      BY <3>1, <3>2
  <2>3. GoodAt(d, clock, kc, kcEnd)
    BY <1>0, <2>1, <2>2 DEF Fit, Holding, HeldBy
  <2>4. rec.data = d /\ m.data = d
    OBVIOUS
  <2>. HIDE DEF d, rec, m
  <2>5. RedisGood'
    <3>1. GoodAt(rec.data, clock, kc, kcEnd)
      BY <2>3, <2>4
    <3>. QED
      BY <2>1, <2>2, <3>1, SetexGood
  <2>6. \A t \in Sids : mem'[t] = mem[t] \/ (t = s /\ mem'[t] = m)
    BY <2>1, <2>2 DEF Typed, TypeOK
  <2>7. MemGood'
    BY <2>1, <2>3, <2>4, <2>6 DEF TokenInv, MemGood
  <2>8. /\ req'[r] = Idle
        /\ \A p \in Reqs \ {r} : req'[p] = req[p]
    BY <2>1 DEF Typed, TypeOK
  <2>9. ASSUME NEW p \in Reqs \ {r}
        PROVE  HeldBy(req'[p], mem') = HeldBy(req[p], mem)
    BY <2>2, <2>6, <2>8 DEF HeldBy
  <2>10. Fit(req'[r], HeldBy(req'[r], mem'), clock, kc', kcEnd')
    <3>1. Idle.pc \notin Holding
      BY DEF Idle, Holding, Refreshing
    <3>. QED
      BY <2>8, <3>1, FitIdle
  <2>11. Later(clock, kc, kcEnd, kc', kcEnd')
    BY <2>1, LaterSame
  <2>. QED
    BY <2>1, <2>5, <2>7, <2>8, <2>9, <2>10, <2>11, TokenFrame
<1>. QED
  BY <1>1, <1>2 DEF Login

LEMMA TokenLogout ==
    ASSUME Typed, TokenInv, NEW r \in Reqs, Logout(r)
    PROVE  TokenInv'
<1>. DEFINE s == req[r].sid
<1>0. req[r] \in ReqRec /\ Held(req[r])
  BY HeldByType
<1>1. ASSUME NEW t \in Sids, LogoutArrives(r, t)  PROVE TokenInv'
  <2>. DEFINE q == [Idle EXCEPT !.pc = "lget", !.sid = t]
  <2>1. q.pc = "lget" /\ q.pc \notin Holding
    BY DEF Idle, Holding, Refreshing
  <2>2. /\ req' = [req EXCEPT ![r] = q] /\ redis' = redis /\ mem' = mem
        /\ clock' = clock /\ kc' = kc /\ kcEnd' = kcEnd
    BY <1>1 DEF LogoutArrives, store, env
  <2>. HIDE DEF q
  <2>. QED
    BY <2>1, <2>2, FitIdle, SlotStays
<1>2. ASSUME LogoutReads(r)  PROVE TokenInv'
  <2>. DEFINE pc == IF ~ Found(s) THEN "ldel" ELSE IF TooOld(s) THEN "laged" ELSE "lkc"
              d == FoundRec(s).data
              q == [req[r] EXCEPT !.pc = pc, !.sess = IF Admits(s) THEN d ELSE None]
  <2>1. /\ req[r].pc = "lget" /\ s \in Sids /\ ~ req[r].alias
        /\ q.pc = pc /\ q.alias = req[r].alias
        /\ q.sess = IF Admits(s) THEN d ELSE None
    BY <1>0, <1>2 DEF LogoutReads, At, Held, Refreshing, ReqRec
  <2>2. /\ req' = [req EXCEPT ![r] = q] /\ redis' = redis /\ mem' = mem
        /\ clock' = clock /\ kc' = kc /\ kcEnd' = kcEnd
    BY <1>2 DEF LogoutReads, store, env
  <2>3. pc \in {"ldel", "laged", "lkc"} /\ (pc = "lkc" => Found(s) /\ Admits(s))
    BY DEF Admits
  <2>. HIDE DEF pc, d, q
  <2>4. CASE pc = "lkc"
    <3>1. GoodAt(d, clock, kc, kcEnd)
      BY <2>1, <2>3, <2>4, FoundGood DEF d
    <3>2. HeldBy(q, mem) = d
      BY <2>1, <2>3, <2>4 DEF HeldBy
    <3>3. Fit(q, d, clock, kc, kcEnd)
      BY <2>1, <2>4, <3>1 DEF Fit
    <3>. QED
      BY <2>2, <3>2, <3>3, SlotStays
  <2>5. CASE pc # "lkc"
    <3>1. q.pc \notin Holding
      BY <2>1, <2>3, <2>5 DEF Holding, Refreshing
    <3>. QED
      BY <2>2, <3>1, FitIdle, SlotStays
  <2>. QED
    BY <2>4, <2>5
<1>3. ASSUME LogoutDeletesAged(r)  PROVE TokenInv'
  <2>. DEFINE q == [req[r] EXCEPT !.pc = "ldel"]
  <2>1. s \in Sids /\ ~ req[r].alias /\ q.pc \notin Holding
    BY <1>0, <1>3 DEF LogoutDeletesAged, At, Held, Refreshing, ReqRec, Holding
  <2>2. /\ req' = [Detached(s, r) EXCEPT ![r] = q] /\ StoreDelete(s)
        /\ clock' = clock /\ kc' = kc /\ kcEnd' = kcEnd
    BY <1>3 DEF LogoutDeletesAged, env
  <2>. HIDE DEF q
  <2>. QED
    BY <2>1, <2>2, TokenDeletes
<1>4. ASSUME LogoutEndsSso(r)  PROVE TokenInv'
  <2>. DEFINE q == [req[r] EXCEPT !.pc = "ldel", !.sess = None]
              k == req[r].sess.kc
  <2>1. q.pc \notin Holding
    BY <1>0 DEF Refreshing, ReqRec, Holding
  <2>2. /\ req' = [req EXCEPT ![r] = q] /\ redis' = redis /\ mem' = mem /\ clock' = clock
        /\ \/ /\ kc[k] = "live"
              /\ kc' = [kc EXCEPT ![k] = "ended"]
              /\ kcEnd' = [kcEnd EXCEPT ![k] = clock]
           \/ kc' = kc /\ kcEnd' = kcEnd
    BY <1>4 DEF LogoutEndsSso, store
  <2>. HIDE DEF q, k
  <2>3. Later(clock, kc, kcEnd, kc', kcEnd')
    BY <2>2 DEF Later, Typed, TypeOK
  <2>. QED
    BY <2>1, <2>2, <2>3, FitIdle, TokenSlot
<1>5. ASSUME LogoutClears(r)  PROVE TokenInv'
  <2>1. s \in Sids /\ ~ req[r].alias /\ Idle.pc \notin Holding
    BY <1>0, <1>5 DEF LogoutClears, At, Held, Refreshing, Idle, Holding
  <2>2. clock' = clock /\ kc' = kc /\ kcEnd' = kcEnd
    BY <1>5 DEF LogoutClears, env
  <2>3. \/ req' = [Detached(s, r) EXCEPT ![r] = Idle] /\ StoreDelete(s)
        \/ req' = [req EXCEPT ![r] = Idle] /\ redis' = redis /\ mem' = mem
    BY <1>5 DEF LogoutClears, store
  <2>. QED
    BY <2>1, <2>2, <2>3, TokenDeletes, FitIdle, SlotStays
<1>. QED
  BY <1>1, <1>2, <1>3, <1>4, <1>5 DEF Logout

LEMMA TokenTick ==
    ASSUME Typed, TokenInv, Tick
    PROVE  TokenInv'
<1>1. /\ clock' = clock + 1 /\ clock \in Nat /\ clock + 1 \in Nat /\ clock <= clock + 1
      /\ redis' = redis /\ mem' = mem /\ req' = req /\ kc' = kc /\ kcEnd' = kcEnd
  BY DEF Tick, Typed, TypeOK, store, env
<1>2. ASSUME NEW d \in Session, GoodAt(d, clock, kc, kcEnd)
      PROVE  GoodAt(d, clock + 1, kc, kcEnd)
  BY <1>1, <1>2, GoodLater, LaterSame
<1>3. RedisGood'
  BY <1>1, <1>2 DEF TokenInv, RedisGood, Typed, TypeOK, RedisRec
<1>4. MemGood'
  BY <1>1, <1>2 DEF TokenInv, MemGood, Typed, TypeOK, MemRec
<1>5. ASSUME NEW r \in Reqs
      PROVE  Fit(req[r], HeldBy(req[r], mem), clock + 1, kc, kcEnd)
  <2>. DEFINE d == HeldBy(req[r], mem)
  <2>1. /\ Fit(req[r], d, clock, kc, kcEnd) /\ req[r] \in ReqRec /\ Held(req[r])
        /\ req[r].pc \in Holding => d \in Session
    BY HeldByType DEF TokenInv, AllFit
  <2>2. req[r].pc \in Holding => GoodAt(d, clock + 1, kc, kcEnd)
    BY <1>2, <2>1 DEF Fit
  <2>3. req[r].pc = "setex" => GoodAt(req[r].rec.data, clock + 1, kc, kcEnd)
    BY <1>2, <2>1 DEF Fit, Held, PendRec
  <2>4. req[r].pc \in {"reget", "setex", "audit", "body"} =>
          InSlack(req[r], clock) /\ clock - req[r].ref < Slack
    BY <2>1 DEF Fit, Tick
  <2>5. req[r].pc \in {"reget", "setex", "audit", "body"} => InSlack(req[r], clock + 1)
    BY <1>1, <2>1, <2>4, ConstantsAssumption DEF InSlack, ReqRec
  <2>. HIDE DEF d
  <2>6. Fit(req[r], d, clock + 1, kc, kcEnd)
    BY <2>1, <2>2, <2>3, <2>5 DEF Fit
  <2>. QED
    BY <2>6 DEF d
<1>6. AllFit'
  BY <1>1, <1>5 DEF AllFit
<1>. QED
  BY <1>3, <1>4, <1>6 DEF TokenInv

\* A step that only the logins of Keycloak take part in.
LEMMA TokenSso ==
    ASSUME Typed, TokenInv, clock' = clock, Later(clock, kc, kcEnd, kc', kcEnd'),
           redis' = redis, mem' = mem, req' = req
    PROVE  TokenInv'
<1>1. RedisGood' /\ MemGood'
  BY StoresKept
<1>2. ASSUME NEW r \in Reqs
      PROVE  Fit(req[r], HeldBy(req[r], mem), clock, kc', kcEnd')
  <2>1. /\ Fit(req[r], HeldBy(req[r], mem), clock, kc, kcEnd) /\ Held(req[r])
        /\ req[r].pc \in Holding => HeldBy(req[r], mem) \in Session
        /\ clock \in Nat
    BY HeldByType DEF TokenInv, AllFit, Typed, TypeOK
  <2>. QED
    BY <2>1, FitLater
<1>3. AllFit'
  BY <1>2 DEF AllFit
<1>. QED
  BY <1>1, <1>3 DEF TokenInv

LEMMA TokenEnvironment ==
    ASSUME Typed, TokenInv, Environment
    PROVE  TokenInv'
<1>1. CASE RedisOutage \/ RevocationListChanges
  <2>1. /\ clock' = clock /\ kc' = kc /\ kcEnd' = kcEnd
        /\ redis' = redis /\ mem' = mem /\ req' = req
    BY <1>1 DEF RedisOutage, RevocationListChanges, store, env
  <2>. QED
    BY <2>1, LaterSame, TokenSso
<1>2. CASE Restart
  <2>1. /\ clock' = clock /\ kc' = kc /\ kcEnd' = kcEnd /\ redis' = redis
        /\ \A t \in Sids : mem'[t] = None
        /\ \A r \in Reqs : req'[r] = Idle
    BY <1>2 DEF Restart, env
  <2>2. RedisGood' /\ MemGood'
    BY <2>1 DEF TokenInv, RedisGood, MemGood
  <2>3. Idle.pc \notin Holding
    BY DEF Idle, Holding, Refreshing
  <2>4. AllFit'
    BY <2>1, <2>3, FitIdle DEF AllFit
  <2>. QED
    BY <2>2, <2>4 DEF TokenInv
<1>3. ASSUME NEW k \in Sids, SsoEnds(k)  PROVE TokenInv'
  <2>1. /\ clock' = clock /\ redis' = redis /\ mem' = mem /\ req' = req
        /\ kc[k] = "live" /\ kc' = [kc EXCEPT ![k] = "ended"]
        /\ kcEnd' = [kcEnd EXCEPT ![k] = clock]
    BY <1>3 DEF SsoEnds, store
  <2>2. Later(clock, kc, kcEnd, kc', kcEnd')
    BY <2>1 DEF Later, Typed, TypeOK
  <2>. QED
    BY <2>1, <2>2, TokenSso
<1>. QED
  BY <1>1, <1>2, <1>3, TokenTick DEF Environment

LEMMA TokenStep == Typed /\ LoginInv /\ TokenInv /\ [Next]_vars => TokenInv'
<1>. SUFFICES ASSUME Typed, LoginInv, TokenInv, [Next]_vars  PROVE TokenInv'
  OBVIOUS
<1>1. ASSUME NEW r \in Reqs, ApiProxy(r)  PROVE TokenInv'
  BY <1>1, TokenReads, TokenRefreshed, TokenRegets, TokenWrites DEF ApiProxy
<1>2. CASE UNCHANGED vars
  BY <1>2, TokenSso, LaterSame DEF vars
<1>. QED
  BY <1>1, <1>2, TokenLogin, TokenLogout, TokenEnvironment DEF Next

LEMMA TokenInit == Init => TokenInv
<1>1. Idle.pc \notin Holding
  BY DEF Idle, Holding, Refreshing
<1>2. Init => AllFit
  BY <1>1, FitIdle DEF Init, AllFit
<1>3. Init => RedisGood /\ MemGood
  BY DEF Init, RedisGood, MemGood
<1>. QED
  BY <1>2, <1>3 DEF TokenInv

-----------------------------------------------------------------------------
(***************************************************************************)
(* What steps do, for the two properties about steps.                      *)
(***************************************************************************)

\* A step of one request takes no other request anywhere.
LEMMA OthersStay ==
    ASSUME Typed, NEW r \in Reqs, ApiProxy(r) \/ Login(r) \/ Logout(r),
           NEW p \in Reqs \ {r}
    PROVE  req'[p].pc = req[p].pc /\ req'[p].sid = req[p].sid
<1>. DEFINE s == req[r].sid
<1>0. Held(req[r])
  BY HeldByType
<1>1. ASSUME NEW q, req' = [req EXCEPT ![r] = q]  PROVE req'[p] = req[p]
  BY <1>1 DEF Typed, TypeOK
<1>2. ASSUME NEW q, s \in Sids, req' = [Detached(s, r) EXCEPT ![r] = q]
      PROVE  req'[p].pc = req[p].pc /\ req'[p].sid = req[p].sid
  <2>1. req'[p] = Detached(s, r)[p]
    BY <1>2, DetachedInPlace
  <2>. QED
    BY <1>2, <2>1, DetachedInPlace
<1>3. CASE Login(r)
  <2>1. \E q : req' = [req EXCEPT ![r] = q]
    BY <1>3 DEF Login, Callback, CallbackStores, CallbackFallsBack, Issue
  <2>. QED
    BY <1>1, <2>1
<1>4. CASE Logout(r)
  <2>1. ASSUME (\E t \in Sids : LogoutArrives(r, t)) \/ LogoutReads(r) \/ LogoutEndsSso(r)
        PROVE  req'[p] = req[p]
    BY <2>1 DEF LogoutArrives, LogoutReads, LogoutEndsSso, Typed, TypeOK
  <2>2. ASSUME LogoutDeletesAged(r)
        PROVE  req'[p].pc = req[p].pc /\ req'[p].sid = req[p].sid
    BY <1>0, <1>2, <2>2 DEF LogoutDeletesAged, At, Held
  <2>3. ASSUME LogoutClears(r)
        PROVE  req'[p].pc = req[p].pc /\ req'[p].sid = req[p].sid
    BY <1>0, <1>1, <1>2, <2>3 DEF LogoutClears, At, Held
  <2>. QED
    BY <1>4, <2>1, <2>2, <2>3 DEF Logout
<1>5. CASE ApiProxy(r)
  <2>1. ASSUME \/ \E t \in Sids, route \in Routes : Arrive(r, t, route)
               \/ ApiNoSession(r) \/ ApiFindsAged(r) \/ ApiAdmit(r) \/ ApiNeedsRefresh(r)
               \/ ApiRefreshFails(r) \/ ApiRegetsNothing(r) \/ ApiRegetsFromRedis(r)
               \/ ApiWritesRedis(r) \/ ApiLeavesMemory(r) \/ ApiAudited(r) \/ ApiSends(r)
        PROVE  req'[p] = req[p]
    BY <2>1 DEF Arrive, ApiNoSession, ApiFindsAged, ApiAdmit, ApiNeedsRefresh,
                ApiRefreshFails, ApiRegetsNothing, ApiRegetsFromRedis, ApiWritesRedis,
                ApiLeavesMemory, ApiAudited, ApiSends, Typed, TypeOK
  <2>2. ASSUME ApiRefreshed(r)
        PROVE  req'[p] = req[p]
    BY <2>2 DEF ApiRefreshed, Typed, TypeOK
  <2>3. ASSUME ApiDeletesAged(r)
        PROVE  req'[p].pc = req[p].pc /\ req'[p].sid = req[p].sid
    BY <1>0, <1>2, <2>3 DEF ApiDeletesAged, At, Held
  <2>4. ASSUME ApiRegetsFromMemory(r)
        PROVE  req'[p].pc = req[p].pc /\ req'[p].sid = req[p].sid
    BY <1>0, <1>2, <2>4 DEF ApiRegetsFromMemory, At, Held
  <2>5. ASSUME ApiWritesMemory(r)
        PROVE  req'[p].pc = req[p].pc /\ req'[p].sid = req[p].sid
    BY <1>0, <1>2, <2>5 DEF ApiWritesMemory, At, Held
  <2>. QED
    BY <1>5, <2>1, <2>2, <2>3, <2>4, <2>5 DEF ApiProxy
<1>. QED
  BY <1>3, <1>4, <1>5

\* A request gets to its body through the gate, with good data.
LEMMA ThroughTheGate ==
    ASSUME Typed, TokenInv, [Next]_vars, NEW r \in Reqs,
           req'[r].pc = "body", req[r].pc # "body"
    PROVE  \E g \in ReqRec, d \in Session :
              /\ req'[r] = Gated(g, d)
              /\ g.route = req[r].route
              /\ GoodAt(d, clock, kc, kcEnd)
<1>. DEFINE s == req[r].sid
<1>0. req[r] \in ReqRec /\ Held(req[r]) /\ req \in [Reqs -> ReqRec]
  BY HeldByType DEF Typed, TypeOK
<1>1. Idle.pc = "idle" /\ Idle \in ReqRec
  BY IdleType DEF Idle
<1>2. ASSUME ApiAdmit(r)
      PROVE  \E g \in ReqRec, d \in Session :
                /\ req'[r] = Gated(g, d)
                /\ g.route = req[r].route
                /\ GoodAt(d, clock, kc, kcEnd)
  <2>. DEFINE g == [req[r] EXCEPT !.at = clock, !.ref = clock]
              d == FoundRec(s).data
  <2>1. s \in Sids /\ Found(s)
    BY <1>0, <1>2 DEF ApiAdmit, At, Held, Admits
  <2>2. g \in ReqRec /\ g.route = req[r].route
    BY <1>0 DEF ReqRec, Typed, TypeOK
  <2>3. req'[r] = Gated(g, d)
    BY <1>0, <1>2 DEF ApiAdmit
  <2>4. d \in Session /\ GoodAt(d, clock, kc, kcEnd)
    BY <2>1, FoundGood
  <2>. HIDE DEF g, d
  <2>. QED
    BY <2>2, <2>3, <2>4
<1>3. ASSUME ApiAudited(r)
      PROVE  \E g \in ReqRec, d \in Session :
                /\ req'[r] = Gated(g, d)
                /\ g.route = req[r].route
                /\ GoodAt(d, clock, kc, kcEnd)
  <2>1. req'[r] = Gated(req[r], SessOf(r)) /\ req[r].pc = "audit"
    BY <1>0, <1>3 DEF ApiAudited, At
  <2>2. SessOf(r) \in Session /\ GoodAt(SessOf(r), clock, kc, kcEnd)
    BY <2>1, HeldByType DEF TokenInv, AllFit, Fit, Holding, Refreshing
  <2>. QED
    BY <1>0, <2>1, <2>2
<1>4. ASSUME NEW q, q.pc # "body", req' = [req EXCEPT ![r] = q]  PROVE FALSE
  BY <1>0, <1>4
<1>5. ASSUME NEW q, q.pc # "body", s \in Sids, req' = [Detached(s, r) EXCEPT ![r] = q]
      PROVE  FALSE
  BY <1>5, DetachedInPlace
<1>6. ASSUME Login(r)  PROVE FALSE
  <2>1. ASSUME NEW t \in Sids, NEW k \in Sids, NEW client \in Clients, NEW cert \in Certs,
               NEW roles \in RoleSets, Callback(r, t, k, client, cert, roles)
        PROVE  FALSE
    <3>. DEFINE q == [Idle EXCEPT !.pc = "cbset", !.sid = t, !.at = clock,
                                  !.sess = NewSession(k, client, cert, roles)]
    <3>1. q.pc = "cbset" /\ req' = [req EXCEPT ![r] = q]
      BY <2>1 DEF Callback, Idle
    <3>. HIDE DEF q
    <3>. QED
      BY <1>4, <3>1
  <2>2. ASSUME CallbackStores(r) \/ CallbackFallsBack(r)  PROVE FALSE
    BY <1>1, <1>4, <2>2 DEF CallbackStores, CallbackFallsBack, Issue
  <2>. QED
    BY <1>6, <2>1, <2>2 DEF Login
<1>7. ASSUME Logout(r)  PROVE FALSE
  <2>1. ASSUME NEW t \in Sids, LogoutArrives(r, t)  PROVE FALSE
    <3>. DEFINE q == [Idle EXCEPT !.pc = "lget", !.sid = t]
    <3>1. q.pc = "lget" /\ req' = [req EXCEPT ![r] = q]
      BY <2>1 DEF LogoutArrives, Idle
    <3>. HIDE DEF q
    <3>. QED
      BY <1>4, <3>1
  <2>2. ASSUME LogoutReads(r)  PROVE FALSE
    <3>1. req'[r].pc \in {"ldel", "laged", "lkc"}
      BY <1>0, <2>2 DEF LogoutReads, ReqRec
    <3>. QED
      BY <3>1
  <2>3. ASSUME LogoutEndsSso(r)  PROVE FALSE
    <3>1. req'[r].pc = "ldel"
      BY <1>0, <2>3 DEF LogoutEndsSso, ReqRec
    <3>. QED
      BY <3>1
  <2>4. ASSUME LogoutDeletesAged(r)  PROVE FALSE
    <3>. DEFINE q == [req[r] EXCEPT !.pc = "ldel"]
    <3>1. q.pc = "ldel" /\ s \in Sids /\ req' = [Detached(s, r) EXCEPT ![r] = q]
      BY <1>0, <2>4 DEF LogoutDeletesAged, At, Held, ReqRec
    <3>. HIDE DEF q
    <3>. QED
      BY <1>5, <3>1
  <2>5. ASSUME LogoutClears(r)  PROVE FALSE
    BY <1>0, <1>1, <1>4, <1>5, <2>5 DEF LogoutClears, At, Held
  <2>. QED
    BY <1>7, <2>1, <2>2, <2>3, <2>4, <2>5 DEF Logout
<1>8. ASSUME ApiProxy(r), ~ ApiAdmit(r), ~ ApiAudited(r)  PROVE FALSE
  <2>1. ASSUME NEW t \in Sids, NEW route \in Routes, Arrive(r, t, route)  PROVE FALSE
    <3>. DEFINE q == [Idle EXCEPT !.pc = "get", !.sid = t, !.route = route]
    <3>1. q.pc = "get" /\ req' = [req EXCEPT ![r] = q]
      BY <2>1 DEF Arrive, Idle
    <3>. HIDE DEF q
    <3>. QED
      BY <1>4, <3>1
  <2>2. ASSUME ApiNoSession(r) \/ ApiRefreshFails(r) \/ ApiSends(r)  PROVE FALSE
    BY <1>1, <1>4, <2>2 DEF ApiNoSession, ApiRefreshFails, ApiSends
  <2>3. ASSUME ApiFindsAged(r) \/ ApiRegetsNothing(r)
               \/ ApiRegetsFromRedis(r) \/ ApiWritesRedis(r) \/ ApiLeavesMemory(r)
        PROVE  FALSE
    <3>1. req'[r].pc \in {"aged", "audit", "setex"}
      BY <1>0, <2>3 DEF ApiFindsAged, ApiRegetsNothing,
                        ApiRegetsFromRedis, ApiWritesRedis, ApiLeavesMemory, ReqRec
    <3>. QED
      BY <3>1
  <2>8. ASSUME ApiNeedsRefresh(r)  PROVE FALSE
    <3>. DEFINE q == [req[r] EXCEPT !.pc = "refresh", !.at = clock, !.alias = ~ RedisHas(s),
                         !.sess = IF RedisHas(s) THEN FoundRec(s).data ELSE None]
    <3>1. q.pc = "refresh" /\ req' = [req EXCEPT ![r] = IF Valid(s) THEN q ELSE Idle]
      BY <1>0, <2>8 DEF ApiNeedsRefresh, ReqRec
    <3>. HIDE DEF q
    <3>. QED
      BY <1>1, <1>4, <3>1
  <2>4. ASSUME ApiRefreshed(r)  PROVE FALSE
    <3>1. req'[r].pc = "reget"
      BY <1>0, <2>4 DEF ApiRefreshed, ReqRec
    <3>. QED
      BY <3>1
  <2>5. ASSUME ApiDeletesAged(r)  PROVE FALSE
    BY <1>0, <1>1, <1>5, <2>5 DEF ApiDeletesAged, At, Held
  <2>6. ASSUME ApiRegetsFromMemory(r)  PROVE FALSE
    <3>. DEFINE q == [req[r] EXCEPT !.pc = "setex", !.alias = TRUE, !.sess = None,
                                    !.rec = Pending(SessOf(r), mem[s].created)]
    <3>1. q.pc = "setex" /\ s \in Sids /\ req' = [Detached(s, r) EXCEPT ![r] = q]
      BY <1>0, <2>6 DEF ApiRegetsFromMemory, At, Held, ReqRec
    <3>. HIDE DEF q
    <3>. QED
      BY <1>5, <3>1
  <2>7. ASSUME ApiWritesMemory(r)  PROVE FALSE
    <3>. DEFINE q == [req[r] EXCEPT !.pc = "audit", !.rec = None, !.alias = TRUE, !.sess = None]
    <3>1. q.pc = "audit" /\ s \in Sids /\ req' = [Detached(s, r) EXCEPT ![r] = q]
      BY <1>0, <2>7 DEF ApiWritesMemory, At, Held, ReqRec
    <3>. HIDE DEF q
    <3>. QED
      BY <1>5, <3>1
  <2>. QED
    BY <1>8, <2>1, <2>2, <2>3, <2>4, <2>5, <2>6, <2>7, <2>8 DEF ApiProxy
<1>9. ASSUME NEW o \in Reqs, o # r, ApiProxy(o) \/ Login(o) \/ Logout(o)  PROVE FALSE
  BY <1>9, OthersStay
<1>10. ASSUME Environment  PROVE FALSE
  BY <1>1, <1>10 DEF Environment, Tick, RedisOutage, Restart, RevocationListChanges, SsoEnds
<1>11. ASSUME UNCHANGED vars  PROVE FALSE
  BY <1>11 DEF vars
<1>. QED
  BY <1>2, <1>3, <1>6, <1>7, <1>8, <1>9, <1>10, <1>11 DEF Next

\* Redis gets another record of a session from a login or from a refresh.
LEMMA RedisMoves ==
    ASSUME Typed, [Next]_vars, NEW t \in Sids, redis'[t] # None
    PROVE  \/ redis'[t] = redis[t]
           \/ \E r \in Reqs : req[r].pc = "cbset" /\ req[r].sid = t
           \/ \E r \in Reqs : req[r].pc = "setex" /\ req[r].sid = t
                              /\ redis'[t].data = req[r].rec.data
<1>1. ASSUME NEW s \in Sids, StoreDelete(s)
      PROVE  redis'[t] = redis[t]
  BY <1>1 DEF StoreDelete, Typed, TypeOK
<1>2. ASSUME NEW r \in Reqs, redis'[t] # redis[t],
             ApiWritesRedis(r) \/ ApiWritesMemory(r) \/ ApiLeavesMemory(r)
      PROVE  req[r].pc = "setex" /\ req[r].sid = t /\ redis'[t].data = req[r].rec.data
  <2>1. redis' = Setex(req[r].sid, req[r].rec, req[r].rec.ttl) /\ req[r].pc = "setex"
    BY <1>2 DEF ApiWritesRedis, ApiWritesMemory, ApiLeavesMemory, StoreSet, StoreFallsBack, At
  <2>. QED
    BY <1>2, <2>1 DEF Setex, Typed, TypeOK
<1>3. ASSUME NEW r \in Reqs, Login(r), redis'[t] # redis[t]
      PROVE  req[r].pc = "cbset" /\ req[r].sid = t
  <2>1. CASE CallbackStores(r) \/ CallbackFallsBack(r)
    <3>. DEFINE rec == [data |-> req[r].sess, created |-> req[r].at]
    <3>1. redis' = Setex(req[r].sid, rec, MaxAge) \/ redis' = redis
      BY <2>1 DEF CallbackStores, CallbackFallsBack, StoreSet, StoreFallsBack
    <3>2. req[r].pc = "cbset"
      BY <2>1 DEF CallbackStores, CallbackFallsBack, At
    <3>. QED
      BY <1>3, <3>1, <3>2 DEF Setex, Typed, TypeOK
  <2>2. CASE ~ (CallbackStores(r) \/ CallbackFallsBack(r))
    BY <1>3, <2>2 DEF Login, Callback, store
  <2>. QED
    BY <2>1, <2>2
<1>4. ASSUME NEW r \in Reqs, Logout(r)
      PROVE  redis'[t] = redis[t]
  <2>1. req[r].pc \in {"laged", "ldel"} => req[r].sid \in Sids
    BY HeldByType DEF Held
  <2>. QED
    BY <1>1, <1>4, <2>1 DEF Logout, LogoutArrives, LogoutReads, LogoutEndsSso,
         LogoutDeletesAged, LogoutClears, At, store
<1>5. ASSUME NEW r \in Reqs, ApiProxy(r), ~ ApiWritesRedis(r), ~ ApiWritesMemory(r),
             ~ ApiLeavesMemory(r)
      PROVE  redis'[t] = redis[t]
  <2>1. req[r].pc = "aged" => req[r].sid \in Sids
    BY HeldByType DEF Held
  <2>2. ASSUME ApiDeletesAged(r)
        PROVE  redis'[t] = redis[t]
    BY <1>1, <2>1, <2>2 DEF ApiDeletesAged, At
  <2>3. ASSUME ~ ApiDeletesAged(r)
        PROVE  redis' = redis
    BY <1>5, <2>3 DEF ApiProxy, Arrive, ApiNoSession, ApiFindsAged, ApiAdmit,
         ApiNeedsRefresh, ApiRefreshFails, ApiRefreshed, ApiRegetsNothing,
         ApiRegetsFromRedis, ApiRegetsFromMemory, ApiAudited, ApiSends, store
  <2>. QED
    BY <2>2, <2>3
<1>6. ASSUME Environment \/ UNCHANGED vars
      PROVE  redis'[t] = redis[t]
  BY <1>6 DEF Environment, Tick, RedisOutage, Restart, RevocationListChanges, SsoEnds,
              vars, store
<1>. QED
  BY <1>2, <1>3, <1>4, <1>5, <1>6 DEF Next

-----------------------------------------------------------------------------
(***************************************************************************)
(* Sessions that were logged out.                                          *)
(***************************************************************************)

\* Memory gets a record of a session it has none of from a login or from a
\* refresh whose SETEX failed.
LEMMA MemMoves ==
    ASSUME Typed, [Next]_vars, NEW t \in Sids, mem[t] = None, mem'[t] # None
    PROVE  \E r \in Reqs : req[r].pc \in {"cbset", "setex"} /\ req[r].sid = t
<1>1. ASSUME NEW s \in Sids, StoreDelete(s)
      PROVE  FALSE
  BY <1>1 DEF StoreDelete, Typed, TypeOK
<1>2. ASSUME NEW r \in Reqs, ApiWritesMemory(r)
      PROVE  req[r].pc = "setex" /\ req[r].sid = t
  <2>1. req[r].pc = "setex" /\ mem' = [mem EXCEPT ![req[r].sid] =
                                        [data |-> SessOf(r), created |-> req[r].rec.created]]
    BY <1>2 DEF ApiWritesMemory, StoreFallsBack, At
  <2>. QED
    BY <2>1 DEF Typed, TypeOK
<1>3. ASSUME NEW r \in Reqs, Login(r)
      PROVE  req[r].pc = "cbset" /\ req[r].sid = t
  <2>1. CASE CallbackFallsBack(r)
    <3>1. req[r].pc = "cbset" /\ mem' = [mem EXCEPT ![req[r].sid] =
                                          [data |-> req[r].sess, created |-> clock]]
      BY <2>1 DEF CallbackFallsBack, StoreFallsBack, At
    <3>. QED
      BY <3>1 DEF Typed, TypeOK
  <2>2. CASE ~ CallbackFallsBack(r)
    BY <1>3, <2>2 DEF Login, Callback, CallbackStores, StoreSet, store
  <2>. QED
    BY <2>1, <2>2
<1>4. ASSUME NEW r \in Reqs, Logout(r)
      PROVE  FALSE
  <2>1. req[r].pc \in {"laged", "ldel"} => req[r].sid \in Sids
    BY HeldByType DEF Held
  <2>. QED
    BY <1>1, <1>4, <2>1 DEF Logout, LogoutArrives, LogoutReads, LogoutEndsSso,
         LogoutDeletesAged, LogoutClears, At, store
<1>5. ASSUME NEW r \in Reqs, ApiProxy(r), ~ ApiWritesMemory(r)
      PROVE  FALSE
  <2>0. /\ req[r].pc \in {"aged", "refresh", "reget"} => req[r].sid \in Sids
        /\ req[r].alias => mem[req[r].sid] \in MemRec
    BY HeldByType DEF Held, Typed, HeldOK
  <2>1. ASSUME ApiDeletesAged(r)
        PROVE  FALSE
    BY <1>1, <2>0, <2>1 DEF ApiDeletesAged, At
  <2>2. ASSUME ApiRefreshed(r)
        PROVE  FALSE
    <3>1. req[r].sid = t => ~ req[r].alias
      BY <2>0, ConstantsAssumption
    <3>2. mem'[t] = mem[t]
      BY <2>2, <3>1 DEF ApiRefreshed, Typed, TypeOK
    <3>. QED
      BY <3>2
  <2>3. ASSUME ApiRegetsFromMemory(r)
        PROVE  FALSE
    <3>1. req[r].sid # t
      BY <2>3 DEF ApiRegetsFromMemory
    <3>2. mem'[t] = mem[t]
      BY <2>3, <3>1 DEF ApiRegetsFromMemory, Typed, TypeOK
    <3>. QED
      BY <3>2
  <2>5. ASSUME ApiLeavesMemory(r)
        PROVE  FALSE
    BY <2>5, LeavesMemory
  <2>4. ASSUME ~ ApiDeletesAged(r), ~ ApiRefreshed(r), ~ ApiRegetsFromMemory(r),
               ~ ApiLeavesMemory(r)
        PROVE  mem' = mem
    BY <1>5, <2>4 DEF ApiProxy, Arrive, ApiNoSession, ApiFindsAged, ApiAdmit,
         ApiNeedsRefresh, ApiRefreshFails, ApiRegetsNothing,
         ApiRegetsFromRedis, ApiWritesRedis, StoreSet, ApiAudited, ApiSends, store
  <2>. QED
    BY <2>1, <2>2, <2>3, <2>4, <2>5
<1>6. ASSUME Environment \/ UNCHANGED vars
      PROVE  FALSE
  BY <1>6 DEF Environment, Tick, RedisOutage, Restart, RevocationListChanges, SsoEnds,
              vars, store
<1>. QED
  BY <1>2, <1>3, <1>4, <1>5, <1>6 DEF Next

\* Only a refresh that finds a record in a store gets as far as writing it.
LEMMA RewriteBegins ==
    ASSUME Typed, [Next]_vars, NEW p \in Reqs, req'[p].pc = "setex"
    PROVE  /\ req'[p].sid = req[p].sid
           /\ req[p].pc = "setex" \/ (req[p].sid \in Sids /\ Found(req[p].sid))
<1>. DEFINE s == req[p].sid
<1>0. req[p] \in ReqRec /\ Held(req[p]) /\ req \in [Reqs -> ReqRec]
  BY HeldByType DEF Typed, TypeOK
<1>1. Idle.pc = "idle"
  BY DEF Idle
<1>2. ASSUME NEW q, q.pc # "setex", req' = [req EXCEPT ![p] = q]  PROVE FALSE
  BY <1>0, <1>2
<1>3. ASSUME NEW q, q.pc # "setex", s \in Sids, req' = [Detached(s, p) EXCEPT ![p] = q]
      PROVE  FALSE
  BY <1>3, DetachedInPlace
<1>4. ASSUME Login(p)  PROVE FALSE
  <2>1. ASSUME NEW t \in Sids, NEW k \in Sids, NEW client \in Clients, NEW cert \in Certs,
               NEW roles \in RoleSets, Callback(p, t, k, client, cert, roles)
        PROVE  FALSE
    <3>. DEFINE q == [Idle EXCEPT !.pc = "cbset", !.sid = t, !.at = clock,
                                  !.sess = NewSession(k, client, cert, roles)]
    <3>1. q.pc = "cbset" /\ req' = [req EXCEPT ![p] = q]
      BY <2>1 DEF Callback, Idle
    <3>. HIDE DEF q
    <3>. QED
      BY <1>2, <3>1
  <2>2. ASSUME CallbackStores(p) \/ CallbackFallsBack(p)  PROVE FALSE
    BY <1>1, <1>2, <2>2 DEF CallbackStores, CallbackFallsBack, Issue
  <2>. QED
    BY <1>4, <2>1, <2>2 DEF Login
<1>5. ASSUME Logout(p)  PROVE FALSE
  <2>1. ASSUME NEW t \in Sids, LogoutArrives(p, t)  PROVE FALSE
    <3>. DEFINE q == [Idle EXCEPT !.pc = "lget", !.sid = t]
    <3>1. q.pc = "lget" /\ req' = [req EXCEPT ![p] = q]
      BY <2>1 DEF LogoutArrives, Idle
    <3>. HIDE DEF q
    <3>. QED
      BY <1>2, <3>1
  <2>2. ASSUME LogoutReads(p)  PROVE FALSE
    <3>1. req'[p].pc \in {"ldel", "laged", "lkc"}
      BY <1>0, <2>2 DEF LogoutReads, ReqRec
    <3>. QED
      BY <3>1
  <2>3. ASSUME LogoutEndsSso(p)  PROVE FALSE
    <3>1. req'[p].pc = "ldel"
      BY <1>0, <2>3 DEF LogoutEndsSso, ReqRec
    <3>. QED
      BY <3>1
  <2>4. ASSUME LogoutDeletesAged(p)  PROVE FALSE
    <3>. DEFINE q == [req[p] EXCEPT !.pc = "ldel"]
    <3>1. q.pc = "ldel" /\ s \in Sids /\ req' = [Detached(s, p) EXCEPT ![p] = q]
      BY <1>0, <2>4 DEF LogoutDeletesAged, At, Held, ReqRec
    <3>. HIDE DEF q
    <3>. QED
      BY <1>3, <3>1
  <2>5. ASSUME LogoutClears(p)  PROVE FALSE
    BY <1>0, <1>1, <1>2, <1>3, <2>5 DEF LogoutClears, At, Held
  <2>. QED
    BY <1>5, <2>1, <2>2, <2>3, <2>4, <2>5 DEF Logout
<1>6. ASSUME ApiRegetsFromRedis(p)
      PROVE  req'[p].sid = s /\ s \in Sids /\ Found(s)
  BY <1>0, <1>6 DEF ApiRegetsFromRedis, At, Held, Found, ReqRec
<1>7. ASSUME ApiRegetsFromMemory(p)
      PROVE  req'[p].sid = s /\ s \in Sids /\ Found(s)
  <2>. DEFINE q == [req[p] EXCEPT !.pc = "setex", !.alias = TRUE, !.sess = None,
                                  !.rec = Pending(SessOf(p), mem[s].created)]
  <2>1. s \in Sids /\ Found(s) /\ req' = [Detached(s, p) EXCEPT ![p] = q] /\ q.sid = s
    BY <1>0, <1>7 DEF ApiRegetsFromMemory, At, Held, Found, ReqRec
  <2>. HIDE DEF q
  <2>2. req'[p] = q
    BY <2>1, DetachedInPlace
  <2>. QED
    BY <2>1, <2>2
<1>8. ASSUME ApiProxy(p), ~ ApiRegetsFromRedis(p), ~ ApiRegetsFromMemory(p)  PROVE FALSE
  <2>1. ASSUME NEW t \in Sids, NEW route \in Routes, Arrive(p, t, route)  PROVE FALSE
    <3>. DEFINE q == [Idle EXCEPT !.pc = "get", !.sid = t, !.route = route]
    <3>1. q.pc = "get" /\ req' = [req EXCEPT ![p] = q]
      BY <2>1 DEF Arrive, Idle
    <3>. HIDE DEF q
    <3>. QED
      BY <1>2, <3>1
  <2>2. ASSUME ApiNoSession(p) \/ ApiRefreshFails(p) \/ ApiSends(p)  PROVE FALSE
    BY <1>1, <1>2, <2>2 DEF ApiNoSession, ApiRefreshFails, ApiSends
  <2>3. ASSUME ApiFindsAged(p) \/ ApiRegetsNothing(p) \/ ApiWritesRedis(p) \/ ApiLeavesMemory(p)
        PROVE  FALSE
    <3>1. req'[p].pc \in {"aged", "audit"}
      BY <1>0, <2>3 DEF ApiFindsAged, ApiRegetsNothing, ApiWritesRedis, ApiLeavesMemory, ReqRec
    <3>. QED
      BY <3>1
  <2>9. ASSUME ApiNeedsRefresh(p)  PROVE FALSE
    <3>. DEFINE q == [req[p] EXCEPT !.pc = "refresh", !.at = clock, !.alias = ~ RedisHas(s),
                         !.sess = IF RedisHas(s) THEN FoundRec(s).data ELSE None]
    <3>1. q.pc = "refresh" /\ req' = [req EXCEPT ![p] = IF Valid(s) THEN q ELSE Idle]
      BY <1>0, <2>9 DEF ApiNeedsRefresh, ReqRec
    <3>. HIDE DEF q
    <3>. QED
      BY <1>1, <1>2, <3>1
  <2>4. ASSUME ApiRefreshed(p)  PROVE FALSE
    <3>1. req'[p].pc = "reget"
      BY <1>0, <2>4 DEF ApiRefreshed, ReqRec
    <3>. QED
      BY <3>1
  <2>5. ASSUME ApiDeletesAged(p)  PROVE FALSE
    BY <1>0, <1>1, <1>3, <2>5 DEF ApiDeletesAged, At, Held
  <2>6. ASSUME ApiAdmit(p)  PROVE FALSE
    <3>. DEFINE g == [req[p] EXCEPT !.at = clock, !.ref = clock]
                q == Gated(g, FoundRec(s).data)
    <3>1. g \in ReqRec
      BY <1>0 DEF ReqRec, Typed, TypeOK
    <3>2. q.pc \in {"idle", "body"}
      BY <3>1, LoginGated
    <3>3. req' = [req EXCEPT ![p] = q]
      BY <2>6 DEF ApiAdmit
    <3>. HIDE DEF q
    <3>. QED
      BY <1>2, <3>2, <3>3
  <2>7. ASSUME ApiAudited(p)  PROVE FALSE
    <3>. DEFINE q == Gated(req[p], SessOf(p))
    <3>1. q.pc \in {"idle", "body"}
      BY <1>0, LoginGated
    <3>2. req' = [req EXCEPT ![p] = q]
      BY <2>7 DEF ApiAudited
    <3>. HIDE DEF q
    <3>. QED
      BY <1>2, <3>1, <3>2
  <2>8. ASSUME ApiWritesMemory(p)  PROVE FALSE
    <3>. DEFINE q == [req[p] EXCEPT !.pc = "audit", !.rec = None, !.alias = TRUE, !.sess = None]
    <3>1. q.pc = "audit" /\ s \in Sids /\ req' = [Detached(s, p) EXCEPT ![p] = q]
      BY <1>0, <2>8 DEF ApiWritesMemory, At, Held, ReqRec
    <3>. HIDE DEF q
    <3>. QED
      BY <1>3, <3>1
  <2>. QED
    BY <1>8, <2>1, <2>2, <2>3, <2>4, <2>5, <2>6, <2>7, <2>8, <2>9 DEF ApiProxy
<1>9. ASSUME NEW o \in Reqs, o # p, ApiProxy(o) \/ Login(o) \/ Logout(o)
      PROVE  req'[p].sid = s /\ req[p].pc = "setex"
  BY <1>9, OthersStay
<1>10. ASSUME Environment \/ UNCHANGED vars
       PROVE  req'[p].sid = s /\ req[p].pc = "setex"
  BY <1>1, <1>10 DEF Environment, Tick, RedisOutage, Restart, RevocationListChanges, SsoEnds,
                     vars
<1>. QED
  BY <1>4, <1>5, <1>6, <1>7, <1>8, <1>9, <1>10 DEF Next

Gone(s) == mem[s] = None /\ (redis[s] = None \/ clock >= redis[s].expires)

\* The inductive form of LoggedOutStaysOut: nothing is left that could put the
\* session back.
CleanInv ==
    \A s \in Sids : logout[s] = "clean" =>
        issued[s] # None /\ Gone(s) /\ ~ Rewriting(s)

LEMMA CookiesStay ==
    ASSUME Typed, [Next]_vars, NEW s \in Sids, issued[s] # None
    PROVE  issued'[s] # None
<1>1. ASSUME NEW r \in Reqs, Login(r)
      PROVE  issued'[s] # None
  <2>1. clock # None
    BY ConstantsAssumption DEF Typed, TypeOK
  <2>. QED
    BY <1>1, <2>1 DEF Login, Callback, CallbackStores, CallbackFallsBack, Issue, Typed, TypeOK
<1>2. ASSUME NEW r \in Reqs, Logout(r)
      PROVE  issued' = issued
  BY <1>2 DEF Logout, LogoutArrives, LogoutReads, LogoutEndsSso, LogoutDeletesAged, LogoutClears
<1>3. ASSUME NEW r \in Reqs, ApiProxy(r)
      PROVE  issued' = issued
  BY <1>3 DEF ApiProxy, Arrive, ApiNoSession, ApiFindsAged, ApiDeletesAged, ApiAdmit,
       ApiNeedsRefresh, ApiRefreshFails, ApiRefreshed, ApiRegetsNothing,
       ApiRegetsFromRedis, ApiRegetsFromMemory, ApiWritesRedis, ApiWritesMemory,
       ApiLeavesMemory, ApiAudited, ApiSends
<1>4. ASSUME Environment \/ UNCHANGED vars
      PROVE  issued' = issued
  BY <1>4 DEF Environment, Tick, RedisOutage, Restart, RevocationListChanges, SsoEnds, vars
<1>. QED
  BY <1>1, <1>2, <1>3, <1>4 DEF Next

LEMMA ClockGrows ==
    ASSUME Typed, [Next]_vars
    PROVE  clock' \in Nat /\ clock' >= clock
<1>1. clock' = clock \/ clock' = clock + 1
  <2>1. ASSUME NEW r \in Reqs, Login(r) \/ Logout(r)
        PROVE  clock' = clock
    BY <2>1 DEF Login, Callback, CallbackStores, CallbackFallsBack, Issue, Logout,
         LogoutArrives, LogoutReads, LogoutEndsSso, LogoutDeletesAged, LogoutClears
  <2>2. ASSUME NEW r \in Reqs, ApiProxy(r)
        PROVE  clock' = clock
    BY <2>2 DEF ApiProxy, Arrive, ApiNoSession, ApiFindsAged, ApiDeletesAged, ApiAdmit,
         ApiNeedsRefresh, ApiRefreshFails, ApiRefreshed, ApiRegetsNothing,
         ApiRegetsFromRedis, ApiRegetsFromMemory, ApiWritesRedis, ApiWritesMemory,
         ApiLeavesMemory, ApiAudited, ApiSends
  <2>3. ASSUME Environment \/ UNCHANGED vars
        PROVE  clock' = clock \/ clock' = clock + 1
    BY <2>3 DEF Environment, Tick, RedisOutage, Restart, RevocationListChanges, SsoEnds, vars
  <2>. QED
    BY <2>1, <2>2, <2>3 DEF Next
<1>. QED
  BY <1>1 DEF Typed, TypeOK

\* The history of logouts changes where a logout ends.
LEMMA LogoutMoves ==
    ASSUME Typed, [Next]_vars, NEW s \in Sids, logout'[s] # logout[s]
    PROVE  \E r \in Reqs : LogoutClears(r) /\ req[r].sid = s /\ Valid(s)
<1>1. ASSUME NEW r \in Reqs, Logout(r)
      PROVE  LogoutClears(r) /\ req[r].sid = s /\ Valid(s)
  BY <1>1 DEF Logout, LogoutArrives, LogoutReads, LogoutEndsSso, LogoutDeletesAged,
       LogoutClears, Typed, TypeOK
<1>2. ASSUME NEW r \in Reqs, Login(r)
      PROVE  FALSE
  BY <1>2 DEF Login, Callback, CallbackStores, CallbackFallsBack, Issue
<1>3. ASSUME NEW r \in Reqs, ApiProxy(r)
      PROVE  FALSE
  BY <1>3 DEF ApiProxy, Arrive, ApiNoSession, ApiFindsAged, ApiDeletesAged, ApiAdmit,
       ApiNeedsRefresh, ApiRefreshFails, ApiRefreshed, ApiRegetsNothing,
       ApiRegetsFromRedis, ApiRegetsFromMemory, ApiWritesRedis, ApiWritesMemory,
       ApiLeavesMemory, ApiAudited, ApiSends
<1>4. ~ (Environment \/ UNCHANGED vars)
  BY DEF Environment, Tick, RedisOutage, Restart, RevocationListChanges, SsoEnds, vars
<1>. QED
  BY <1>1, <1>2, <1>3, <1>4 DEF Next

LEMMA CleanStep ==
    ASSUME Typed, AgeInv, LoginInv, CleanInv, [Next]_vars
    PROVE  CleanInv'
<1>1. ASSUME NEW s \in Sids, logout[s] = "clean"
      PROVE  issued'[s] # None /\ Gone(s)' /\ ~ Rewriting(s)'
  <2>1. issued[s] # None /\ Gone(s) /\ ~ Rewriting(s)
    BY <1>1 DEF CleanInv
  <2>2. \A r \in Reqs : req[r].pc \in {"cbset", "setex"} => req[r].sid # s
    BY <2>1 DEF LoginInv, Rewriting, At
  <2>3. mem'[s] = None
    BY <2>1, <2>2, MemMoves DEF Gone
  <2>4. redis'[s] = None \/ clock' >= redis'[s].expires
    <3>1. CASE redis'[s] = redis[s] /\ redis[s] # None
      <4>1. redis[s].expires \in Nat /\ clock \in Nat
        BY <3>1 DEF Typed, TypeOK, RedisRec
      <4>. QED
        BY <2>1, <3>1, <4>1, ClockGrows DEF Gone
    <3>2. CASE redis'[s] # redis[s] /\ redis'[s] # None
      BY <2>2, <3>2, RedisMoves
    <3>. QED
      BY <3>1, <3>2
  <2>5. ~ Found(s)
    <3>1. redis[s] # None => redis[s].expires \in Nat /\ clock \in Nat
      BY DEF Typed, TypeOK, RedisRec
    <3>. QED
      BY <2>1, <3>1 DEF Gone, Found, RedisHas
  <2>6. ASSUME NEW p \in Reqs, req'[p].pc = "setex", req'[p].sid = s
        PROVE  FALSE
    BY <2>2, <2>5, <2>6, RewriteBegins
  <2>. QED
    BY <2>1, <2>3, <2>4, <2>6, CookiesStay DEF Gone, Rewriting, At
<1>2. ASSUME NEW s \in Sids, logout[s] # "clean", logout'[s] = "clean"
      PROVE  issued'[s] # None /\ Gone(s)' /\ ~ Rewriting(s)'
  <2>1. PICK r \in Reqs : LogoutClears(r) /\ req[r].sid = s /\ Valid(s)
    BY <1>2, LogoutMoves
  <2>2. /\ issued[s] # None /\ StoreDelete(s) /\ clock' = clock
        /\ req' = [Detached(s, r) EXCEPT ![r] = Idle]
    BY <2>1 DEF LogoutClears, Valid
  <2>3. /\ ~ Rewriting(s)
        /\ redisUp \/ redis[s] = None \/ ~ (clock < redis[s].expires)
    BY <1>2, <2>1 DEF LogoutClears, Typed, TypeOK
  <2>4. mem'[s] = None
    BY <2>2 DEF StoreDelete, Typed, TypeOK
  <2>5. redis'[s] = None \/ clock' >= redis'[s].expires
    <3>1. CASE redisUp
      BY <2>2, <3>1 DEF StoreDelete, Typed, TypeOK
    <3>2. CASE ~ redisUp
      <4>1. redis' = redis
        BY <2>2, <3>2 DEF StoreDelete
      <4>2. redis[s] # None => redis[s].expires \in Nat /\ clock \in Nat
        BY DEF Typed, TypeOK, RedisRec
      <4>. QED
        BY <2>2, <2>3, <3>2, <4>1, <4>2
    <3>. QED
      BY <3>1, <3>2
  <2>6. ASSUME NEW p \in Reqs, req'[p].pc = "setex", req'[p].sid = s
        PROVE  FALSE
    <3>1. CASE p = r
      <4>1. req'[r] = Idle
        BY <2>2, DetachedInPlace
      <4>. QED
        BY <2>6, <3>1, <4>1 DEF Idle
    <3>2. CASE p # r
      <4>1. req[p].pc = "setex" /\ req[p].sid = s
        BY <2>1, <2>6, <3>2, OthersStay DEF Logout
      <4>. QED
        BY <2>3, <4>1 DEF Rewriting, At
    <3>. QED
      BY <3>1, <3>2
  <2>. QED
    BY <2>2, <2>4, <2>5, <2>6, CookiesStay DEF Gone, Rewriting, At
<1>. QED
  BY <1>1, <1>2 DEF CleanInv

LEMMA CleanInit == Init => CleanInv
BY DEF Init, CleanInv

-----------------------------------------------------------------------------
(***************************************************************************)
(* Nobody is logged out early while Redis and the pod are healthy.         *)
(***************************************************************************)

\* Redis counts a session from its login, and will not drop it before its time.
Dated(s)    == redis[s] # None => redis[s].created >= born[s]
Promised(s) ==
    issued[s] # None /\ logout[s] = "none" /\ clock < born[s] + MaxAge =>
        redis[s] # None /\ redis[s].expires >= born[s] + MaxAge

\* A request that will delete a session knows it is past its age, and one that
\* will write it back writes a TTL that reaches its age.
Prudent(q) ==
    /\ ~ q.alias
    /\ q.pc = "get" => issued[q.sid] # None
    /\ q.pc = "cbset" => q.at = born[q.sid]
    /\ q.pc \in {"aged", "laged"} => clock >= born[q.sid] + MaxAge
    /\ q.pc = "setex" => /\ q.rec.created >= born[q.sid]
                         /\ clock + q.rec.ttl >= q.rec.created + MaxAge

Healthy ==
    /\ redisUp
    /\ \A s \in Sids : mem[s] = None /\ Dated(s) /\ Promised(s)
    /\ \A r \in Reqs : Prudent(req[r])

PromiseInv == ~ Faulty => Healthy

Lives == <<clock, redisUp, issued, born, logout>>

\* Alone with Redis, no session dict is shared.
LEMMA NothingDetached ==
    ASSUME Typed, Healthy, NEW s \in Sids, NEW r \in Reqs
    PROVE  Detached(s, r) = req
<1>1. req \in [Reqs -> ReqRec] /\ \A q \in Reqs : ~ req[q].alias
  BY DEF Typed, TypeOK, Healthy, Prudent
<1>. QED
  BY <1>1 DEF Detached

LEMMA HealthyFound ==
    ASSUME Typed, Healthy, NEW s \in Sids, Found(s)
    PROVE  /\ RedisHas(s) /\ redis[s] \in RedisRec
           /\ FoundRec(s).created = redis[s].created
           /\ redis[s].created \in Nat /\ redis[s].created >= born[s]
BY DEF Typed, TypeOK, Healthy, Dated, Found, FoundRec, RedisHas, RedisRec

\* The step of a request that leaves the stores alone.
LEMMA PrudentSlot ==
    ASSUME Typed, Healthy, NEW r \in Reqs, NEW q, req' = [req EXCEPT ![r] = q],
           Prudent(q), UNCHANGED <<Lives, redis, mem>>
    PROVE  Healthy'
<1>1. ASSUME NEW p \in Reqs  PROVE Prudent(req[p])'
  <2>1. req'[p] = IF p = r THEN q ELSE req[p]
    BY DEF Typed, TypeOK
  <2>2. Prudent(req'[p])
    BY <2>1 DEF Healthy
  <2>. QED
    BY <2>2 DEF Prudent, Lives
<1>2. ASSUME NEW s \in Sids  PROVE (mem[s] = None /\ Dated(s) /\ Promised(s))'
  BY <1>2 DEF Healthy, Dated, Promised, Lives
<1>3. redisUp'
  BY DEF Healthy, Lives
<1>. QED
  BY <1>1, <1>2, <1>3 DEF Healthy

LEMMA PrudentIdle == Prudent(Idle)
BY DEF Prudent, Idle

LEMMA PrudentGated ==
    ASSUME NEW g \in ReqRec, NEW d, ~ g.alias
    PROVE  Prudent(Gated(g, d))
BY PrudentIdle DEF Prudent, Gated, ReqRec

\* The steps of the API that only read.
LEMMA PromiseReads ==
    ASSUME Typed, Healthy, NEW r \in Reqs,
           \/ \E s \in Sids, route \in Routes : Arrive(r, s, route)
           \/ ApiNoSession(r) \/ ApiFindsAged(r) \/ ApiAdmit(r) \/ ApiNeedsRefresh(r)
           \/ ApiRefreshFails(r) \/ ApiRegetsNothing(r) \/ ApiRegetsFromRedis(r)
           \/ ApiAudited(r) \/ ApiSends(r)
    PROVE  Healthy'
<1>. DEFINE s == req[r].sid
<1>0. /\ req[r] \in ReqRec /\ Held(req[r]) /\ Prudent(req[r]) /\ ~ req[r].alias
      /\ clock \in Nat /\ born \in [Sids -> Nat]
  BY HeldByType DEF Typed, TypeOK, Healthy, Prudent
<1>1. CASE \E t \in Sids, route \in Routes : Arrive(r, t, route)
  <2>1. PICK t \in Sids, route \in Routes : Arrive(r, t, route)
    BY <1>1
  <2>. DEFINE q == [Idle EXCEPT !.pc = "get", !.sid = t, !.route = route]
  <2>2. /\ req' = [req EXCEPT ![r] = q] /\ issued[t] # None
        /\ UNCHANGED <<Lives, redis, mem>>
    BY <2>1 DEF Arrive, Valid, store, Lives
  <2>3. Prudent(q)
    BY <2>2 DEF Prudent, Idle
  <2>. HIDE DEF q
  <2>. QED
    BY <2>2, <2>3, PrudentSlot
<1>2. CASE ApiNoSession(r) \/ ApiRefreshFails(r) \/ ApiSends(r)
  BY <1>2, PrudentSlot, PrudentIdle DEF ApiNoSession, ApiRefreshFails, ApiSends, store, Lives
<1>3. CASE ApiFindsAged(r)
  <2>. DEFINE q == [req[r] EXCEPT !.pc = "aged"]
  <2>1. /\ req' = [req EXCEPT ![r] = q] /\ s \in Sids /\ Found(s) /\ TooOld(s)
        /\ UNCHANGED <<Lives, redis, mem>>
    BY <1>0, <1>3 DEF ApiFindsAged, At, Held, store, Lives
  <2>2. clock >= born[s] + MaxAge
    BY <1>0, <2>1, HealthyFound, ConstantsAssumption DEF TooOld
  <2>3. Prudent(q)
    BY <1>0, <2>2 DEF Prudent, ReqRec
  <2>. HIDE DEF q
  <2>. QED
    BY <2>1, <2>3, PrudentSlot
<1>4. CASE ApiAdmit(r)
  <2>. DEFINE g == [req[r] EXCEPT !.at = clock, !.ref = clock]
              q == Gated(g, FoundRec(s).data)
  <2>1. g \in ReqRec /\ ~ g.alias
    BY <1>0 DEF ReqRec
  <2>2. Prudent(q)
    BY <2>1, PrudentGated
  <2>3. req' = [req EXCEPT ![r] = q] /\ UNCHANGED <<Lives, redis, mem>>
    BY <1>4 DEF ApiAdmit, store, Lives
  <2>. HIDE DEF q
  <2>. QED
    BY <2>2, <2>3, PrudentSlot
<1>5. CASE ApiNeedsRefresh(r)
  <2>. DEFINE g == [req[r] EXCEPT !.pc = "refresh", !.at = clock, !.alias = ~ RedisHas(s),
                                  !.sess = IF RedisHas(s) THEN FoundRec(s).data ELSE None]
              q == IF Valid(s) THEN g ELSE Idle
  <2>1. /\ req' = [req EXCEPT ![r] = q] /\ s \in Sids /\ Found(s)
        /\ UNCHANGED <<Lives, redis, mem>>
    BY <1>0, <1>5 DEF ApiNeedsRefresh, Admits, At, Held, store, Lives
  <2>2. RedisHas(s)
    BY <2>1, HealthyFound
  <2>3. Prudent(g)
    BY <1>0, <2>2 DEF Prudent, ReqRec
  <2>. HIDE DEF g
  <2>4. Prudent(q)
    BY <2>3, PrudentIdle
  <2>. HIDE DEF q
  <2>. QED
    BY <2>1, <2>4, PrudentSlot
<1>6. CASE ApiRegetsNothing(r)
  <2>. DEFINE q == [req[r] EXCEPT !.pc = "audit"]
  <2>1. req' = [req EXCEPT ![r] = q] /\ UNCHANGED <<Lives, redis, mem>>
    BY <1>6 DEF ApiRegetsNothing, store, Lives
  <2>2. Prudent(q)
    BY <1>0 DEF Prudent, ReqRec
  <2>. HIDE DEF q
  <2>. QED
    BY <2>1, <2>2, PrudentSlot
<1>7. CASE ApiRegetsFromRedis(r)
  <2>. DEFINE rec == Pending(SessOf(r), redis[s].created)
              q == [req[r] EXCEPT !.pc = "setex", !.rec = rec]
  <2>1. /\ req' = [req EXCEPT ![r] = q] /\ s \in Sids /\ Found(s)
        /\ UNCHANGED <<Lives, redis, mem>>
    BY <1>0, <1>7 DEF ApiRegetsFromRedis, At, Held, Found, store, Lives
  <2>2. redis[s].created \in Nat /\ redis[s].created >= born[s]
    BY <2>1, HealthyFound
  <2>3. /\ rec.created = redis[s].created
        /\ clock + rec.ttl >= rec.created + MaxAge
    BY <1>0, <2>2, ConstantsAssumption DEF Pending, TtlLeft, MaxOf
  <2>. HIDE DEF rec
  <2>4. Prudent(q)
    BY <1>0, <2>2, <2>3 DEF Prudent, ReqRec
  <2>. HIDE DEF q
  <2>. QED
    BY <2>1, <2>4, PrudentSlot
<1>8. CASE ApiAudited(r)
  <2>1. Prudent(Gated(req[r], SessOf(r)))
    BY <1>0, PrudentGated
  <2>. QED
    BY <1>8, <2>1, PrudentSlot DEF ApiAudited, store, Lives
<1>. QED
  BY <1>1, <1>2, <1>3, <1>4, <1>5, <1>6, <1>7, <1>8

\* A refresh changes the dict of its own request.
LEMMA PromiseRefreshed ==
    ASSUME Typed, Healthy, NEW r \in Reqs, ApiRefreshed(r)
    PROVE  Healthy'
<1>1. req[r] \in ReqRec /\ Prudent(req[r]) /\ ~ req[r].alias
  BY DEF Typed, TypeOK, Healthy, Prudent
<1>2. PICK acr \in {SessOf(r).acr, "normal"} :
        LET new == [SessOf(r) EXCEPT !.exp = clock + AccessTtl, !.acr = acr]
        IN  req' = [req EXCEPT ![r].pc = "reget", ![r].ref = clock,
                               ![r].sess = IF req[r].alias THEN None ELSE new]
  BY DEF ApiRefreshed
<1>. DEFINE new == [SessOf(r) EXCEPT !.exp = clock + AccessTtl, !.acr = acr]
            q == [req[r] EXCEPT !.pc = "reget", !.ref = clock, !.sess = new]
<1>3. req' = [req EXCEPT ![r] = q]
  BY <1>1, <1>2 DEF Typed, TypeOK
<1>4. Prudent(q)
  BY <1>1 DEF Prudent, ReqRec
<1>5. UNCHANGED <<Lives, redis, mem>>
  BY <1>1 DEF ApiRefreshed, Lives
<1>. HIDE DEF q
<1>. QED
  BY <1>3, <1>4, <1>5, PrudentSlot

\* A session is deleted past its age, or by a logout.
LEMMA PromiseDeletes ==
    ASSUME Typed, Healthy, NEW r \in Reqs, NEW s \in Sids, NEW q,
           StoreDelete(s), req' = [Detached(s, r) EXCEPT ![r] = q], Prudent(q),
           UNCHANGED <<clock, redisUp, issued, born>>,
           \A t \in Sids \ {s} : logout'[t] = logout[t],
           clock >= born[s] + MaxAge \/ logout'[s] # "none",
           q.pc # "setex"
    PROVE  Healthy'
<1>1. req' = [req EXCEPT ![r] = q]
  BY NothingDetached
<1>2. ASSUME NEW p \in Reqs  PROVE Prudent(req[p])'
  <2>1. req'[p] = IF p = r THEN q ELSE req[p]
    BY <1>1 DEF Typed, TypeOK
  <2>2. Prudent(req'[p])
    BY <2>1 DEF Healthy
  <2>. QED
    BY <2>2 DEF Prudent
<1>3. ASSUME NEW t \in Sids  PROVE (mem[t] = None /\ Dated(t) /\ Promised(t))'
  <2>1. /\ mem' = [mem EXCEPT ![s] = None] /\ redis' = [redis EXCEPT ![s] = None]
        /\ mem[t] = None /\ Dated(t) /\ Promised(t)
    BY DEF StoreDelete, Healthy
  <2>2. CASE t = s
    <3>1. redis'[t] = None /\ mem'[t] = None
      BY <2>1, <2>2 DEF Typed, TypeOK
    <3>2. clock \in Nat /\ born[s] \in Nat
      BY DEF Typed, TypeOK
    <3>. QED
      BY <2>2, <3>1, <3>2, ConstantsAssumption DEF Dated, Promised
  <2>3. CASE t # s
    <3>1. redis'[t] = redis[t] /\ mem'[t] = mem[t] /\ logout'[t] = logout[t]
      BY <2>1, <2>3 DEF Typed, TypeOK
    <3>. QED
      BY <2>1, <3>1 DEF Dated, Promised
  <2>. QED
    BY <2>2, <2>3
<1>4. redisUp'
  BY DEF Healthy
<1>. QED
  BY <1>2, <1>3, <1>4 DEF Healthy

\* A session is stored with a TTL that reaches its age.
LEMMA PromiseSetex ==
    ASSUME Typed, Healthy, NEW r \in Reqs, NEW s \in Sids,
           NEW rec, rec.data \in Session, NEW ttl \in Nat,
           redis' = Setex(s, rec, ttl), mem' = mem,
           NEW q, q.pc # "get", Prudent(q), req' = [req EXCEPT ![r] = q],
           rec.created \in Nat, rec.created >= born[s], clock + ttl \in Nat,
           clock + ttl >= born[s] + MaxAge,
           UNCHANGED <<clock, redisUp, born, logout>>,
           \A t \in Sids \ {s} : issued'[t] = issued[t],
           issued[s] # None => issued'[s] # None
    PROVE  Healthy'
<1>1. ASSUME NEW p \in Reqs  PROVE Prudent(req[p])'
  <2>1. req'[p] = IF p = r THEN q ELSE req[p]
    BY DEF Typed, TypeOK
  <2>2. Prudent(req'[p])
    BY <2>1 DEF Healthy
  <2>3. req'[p].pc = "get" => issued'[req'[p].sid] # None
    <3>1. ASSUME p # r, req[p].pc = "get"  PROVE issued'[req[p].sid] # None
      <4>1. req[p].sid \in Sids
        BY <3>1, HeldByType DEF Held
      <4>2. issued[req[p].sid] # None
        BY <3>1 DEF Healthy, Prudent
      <4>. QED
        BY <4>1, <4>2
    <3>. QED
      BY <2>1, <3>1
  <2>. QED
    BY <2>2, <2>3 DEF Prudent
<1>2. ASSUME NEW t \in Sids  PROVE (mem[t] = None /\ Dated(t) /\ Promised(t))'
  <2>1. mem[t] = None /\ Dated(t) /\ Promised(t)
    BY DEF Healthy
  <2>2. CASE t = s
    <3>1. redis'[t] = [data |-> rec.data, created |-> rec.created, expires |-> clock + ttl]
      BY <2>2 DEF Setex, Typed, TypeOK
    <3>2. redis'[t] # None
      BY <3>1, ConstantsAssumption DEF RedisRec
    <3>. QED
      BY <2>1, <2>2, <3>1, <3>2 DEF Dated, Promised
  <2>3. CASE t # s
    <3>1. redis'[t] = redis[t] /\ issued'[t] = issued[t]
      BY <2>3 DEF Setex, Typed, TypeOK
    <3>. QED
      BY <2>1, <3>1 DEF Dated, Promised
  <2>. QED
    BY <2>2, <2>3
<1>3. redisUp'
  BY DEF Healthy
<1>. QED
  BY <1>1, <1>2, <1>3 DEF Healthy

\* The steps of the API that write.
LEMMA PromiseWrites ==
    ASSUME Typed, Healthy, ~ Faulty, NEW r \in Reqs,
           \/ ApiDeletesAged(r) \/ ApiRegetsFromMemory(r)
           \/ ApiWritesRedis(r) \/ ApiWritesMemory(r) \/ ApiLeavesMemory(r)
    PROVE  Healthy'
<1>. DEFINE s == req[r].sid
<1>0. /\ req[r] \in ReqRec /\ Held(req[r]) /\ Prudent(req[r])
      /\ clock \in Nat /\ born \in [Sids -> Nat]
  BY HeldByType DEF Typed, TypeOK, Healthy
<1>1. CASE ApiDeletesAged(r)
  <2>1. /\ s \in Sids /\ StoreDelete(s) /\ req' = [Detached(s, r) EXCEPT ![r] = Idle]
        /\ UNCHANGED <<clock, redisUp, issued, born, logout>>
        /\ clock >= born[s] + MaxAge
    BY <1>0, <1>1 DEF ApiDeletesAged, At, Held, Prudent
  <2>2. Idle.pc # "setex"
    BY DEF Idle
  <2>. QED
    BY <2>1, <2>2, PromiseDeletes, PrudentIdle
<1>2. CASE ApiRegetsFromMemory(r) \/ ApiWritesMemory(r) \/ ApiLeavesMemory(r)
  <2>1. req[r].pc = "reget" => s \in Sids
    BY <1>0 DEF Held
  <2>. QED
    BY <1>2, <2>1, LeavesMemory DEF ApiRegetsFromMemory, ApiWritesMemory, StoreFallsBack, At,
                                    Healthy
<1>3. CASE ApiWritesRedis(r)
  <2>. DEFINE rec == req[r].rec
              q == [req[r] EXCEPT !.pc = "audit", !.rec = None]
  <2>1. /\ s \in Sids /\ rec \in PendRec /\ redis' = Setex(s, rec, rec.ttl) /\ mem' = mem
        /\ req' = [req EXCEPT ![r] = q] /\ UNCHANGED Lives
    BY <1>0, <1>3 DEF ApiWritesRedis, StoreSet, At, Held, Lives
  <2>2. /\ rec.created \in Nat /\ rec.created >= born[s] /\ rec.ttl \in Nat
        /\ rec.data \in Session
        /\ clock + rec.ttl >= rec.created + MaxAge
    BY <1>0, <1>3, <2>1 DEF ApiWritesRedis, At, Prudent, PendRec
  <2>3. clock + rec.ttl >= born[s] + MaxAge /\ clock + rec.ttl \in Nat
    BY <1>0, <2>1, <2>2, ConstantsAssumption
  <2>4. Prudent(q)
    BY <1>0 DEF Prudent, ReqRec
  <2>5. issued[s] # None => issued'[s] # None
    BY <2>1 DEF Lives
  <2>6. q.pc # "get"
    BY <1>0 DEF ReqRec
  <2>. HIDE DEF rec, q
  <2>. QED
    BY <2>1, <2>2, <2>3, <2>4, <2>5, <2>6, PromiseSetex DEF Lives
<1>. QED
  BY <1>1, <1>2, <1>3

\* A login dates its session, and stores it for its whole age.
LEMMA PromiseLogin ==
    ASSUME Typed, AgeInv, Healthy, ~ Faulty, NEW r \in Reqs, Login(r)
    PROVE  Healthy'
<1>0. /\ req[r] \in ReqRec /\ Held(req[r]) /\ Prudent(req[r]) /\ InTime(req[r])
      /\ clock \in Nat /\ born \in [Sids -> Nat]
  BY HeldByType DEF Typed, TypeOK, Healthy, AgeInv
<1>1. ASSUME NEW s \in Sids, NEW k \in Sids, NEW client \in Clients, NEW cert \in Certs,
             NEW roles \in RoleSets, Callback(r, s, k, client, cert, roles)
      PROVE  Healthy'
  <2>. DEFINE q == [Idle EXCEPT !.pc = "cbset", !.sid = s, !.at = clock,
                                !.sess = NewSession(k, client, cert, roles)]
  <2>1. /\ req' = [req EXCEPT ![r] = q] /\ born' = [born EXCEPT ![s] = clock]
        /\ issued[s] = None /\ \A p \in Reqs : req[p].sid # s
        /\ UNCHANGED <<clock, redisUp, redis, mem, issued, logout>>
    BY <1>1 DEF Callback, NewSid, store
  <2>2. q.pc = "cbset" /\ q.sid = s /\ q.at = clock /\ ~ q.alias
    BY DEF Idle
  <2>. HIDE DEF q
  <2>3. born'[s] = clock /\ \A t \in Sids \ {s} : born'[t] = born[t]
    BY <1>0, <2>1
  <2>4. ASSUME NEW p \in Reqs  PROVE Prudent(req[p])'
    <3>1. CASE p = r
      <4>1. req'[p] = q
        BY <2>1, <3>1 DEF Typed, TypeOK
      <4>. QED
        BY <2>2, <2>3, <4>1 DEF Prudent
    <3>2. CASE p # r
      <4>1. req'[p] = req[p] /\ Prudent(req[p]) /\ Held(req[p]) /\ req[p].sid # s
        BY <2>1, <3>2, HeldByType DEF Typed, TypeOK, Healthy
      <4>2. req[p].pc # "idle" => born'[req[p].sid] = born[req[p].sid]
        BY <2>3, <4>1 DEF Held
      <4>. QED
        BY <2>1, <4>1, <4>2 DEF Prudent
    <3>. QED
      BY <3>1, <3>2
  <2>5. ASSUME NEW t \in Sids  PROVE (mem[t] = None /\ Dated(t) /\ Promised(t))'
    <3>1. mem[t] = None /\ Dated(t) /\ Promised(t)
      BY DEF Healthy
    <3>2. CASE t = s
      <4>1. redis[s] = None
        BY <2>1 DEF AgeInv, RecordsInTime
      <4>. QED
        BY <2>1, <3>1, <3>2, <4>1 DEF Dated, Promised
    <3>3. CASE t # s
      BY <2>1, <2>3, <3>1, <3>3 DEF Dated, Promised
    <3>. QED
      BY <3>2, <3>3
  <2>6. redisUp'
    BY <2>1 DEF Healthy
  <2>. QED
    BY <2>4, <2>5, <2>6 DEF Healthy
<1>2. CASE CallbackStores(r)
  <2>. DEFINE s == req[r].sid
              rec == [data |-> req[r].sess, created |-> req[r].at]
  <2>1. /\ s \in Sids /\ redis' = Setex(s, rec, MaxAge) /\ mem' = mem
        /\ req' = [req EXCEPT ![r] = Idle] /\ issued' = [issued EXCEPT ![s] = clock]
        /\ UNCHANGED <<clock, redisUp, born, logout>>
    BY <1>0, <1>2 DEF CallbackStores, Issue, StoreSet, At, Held
  <2>2. /\ rec.data \in Session /\ rec.created = req[r].at /\ rec.created \in Nat
        /\ rec.created = born[s] /\ born[s] <= clock
    BY <1>0, <1>2 DEF CallbackStores, At, Held, Prudent, InTime, ReqRec
  <2>3. rec.created >= born[s] /\ clock + MaxAge >= born[s] + MaxAge /\ clock + MaxAge \in Nat
        /\ MaxAge \in Nat
    BY <1>0, <2>1, <2>2, ConstantsAssumption
  <2>4. issued'[s] # None /\ \A t \in Sids \ {s} : issued'[t] = issued[t]
    BY <1>0, <2>1, ConstantsAssumption DEF Typed, TypeOK
  <2>5. Idle.pc # "get"
    BY DEF Idle
  <2>. HIDE DEF rec, s
  <2>. QED
    BY <2>1, <2>2, <2>3, <2>4, <2>5, PromiseSetex, PrudentIdle
<1>3. CASE CallbackFallsBack(r)
  BY <1>3 DEF CallbackFallsBack, StoreFallsBack
<1>. QED
  BY <1>1, <1>2, <1>3 DEF Login

LEMMA PromiseLogout ==
    ASSUME Typed, Healthy, NEW r \in Reqs, Logout(r)
    PROVE  Healthy'
<1>. DEFINE s == req[r].sid
<1>0. /\ req[r] \in ReqRec /\ Held(req[r]) /\ Prudent(req[r]) /\ ~ req[r].alias
      /\ clock \in Nat /\ born \in [Sids -> Nat]
  BY HeldByType DEF Typed, TypeOK, Healthy, Prudent
<1>1. ASSUME NEW t \in Sids, LogoutArrives(r, t)  PROVE Healthy'
  <2>. DEFINE q == [Idle EXCEPT !.pc = "lget", !.sid = t]
  <2>1. req' = [req EXCEPT ![r] = q] /\ UNCHANGED <<Lives, redis, mem>>
    BY <1>1 DEF LogoutArrives, store, Lives
  <2>2. Prudent(q)
    BY DEF Prudent, Idle
  <2>. HIDE DEF q
  <2>. QED
    BY <2>1, <2>2, PrudentSlot
<1>2. CASE LogoutReads(r)
  <2>. DEFINE q == [req[r] EXCEPT
                      !.pc   = IF ~ Found(s) THEN "ldel" ELSE IF TooOld(s) THEN "laged" ELSE "lkc",
                      !.sess = IF Admits(s) THEN FoundRec(s).data ELSE None]
  <2>1. /\ req' = [req EXCEPT ![r] = q] /\ s \in Sids /\ UNCHANGED <<Lives, redis, mem>>
    BY <1>0, <1>2 DEF LogoutReads, At, Held, store, Lives
  <2>2. q.pc = "laged" => Found(s) /\ TooOld(s)
    BY <1>0 DEF ReqRec
  <2>3. q.pc = "laged" => clock >= born[s] + MaxAge
    BY <1>0, <2>1, <2>2, HealthyFound, ConstantsAssumption DEF TooOld
  <2>4. q.pc \in {"ldel", "laged", "lkc"} /\ q.sid = s /\ ~ q.alias
    BY <1>0 DEF ReqRec
  <2>. HIDE DEF q
  <2>5. Prudent(q)
    BY <2>3, <2>4 DEF Prudent
  <2>. QED
    BY <2>1, <2>5, PrudentSlot
<1>3. CASE LogoutDeletesAged(r)
  <2>. DEFINE q == [req[r] EXCEPT !.pc = "ldel"]
  <2>1. /\ s \in Sids /\ StoreDelete(s) /\ req' = [Detached(s, r) EXCEPT ![r] = q]
        /\ UNCHANGED <<clock, redisUp, issued, born, logout>>
        /\ clock >= born[s] + MaxAge
    BY <1>0, <1>3 DEF LogoutDeletesAged, At, Held, Prudent
  <2>2. q.pc # "setex" /\ Prudent(q)
    BY <1>0 DEF Prudent, ReqRec
  <2>. HIDE DEF q
  <2>. QED
    BY <2>1, <2>2, PromiseDeletes
<1>4. CASE LogoutEndsSso(r)
  <2>. DEFINE q == [req[r] EXCEPT !.pc = "ldel", !.sess = None]
  <2>1. req' = [req EXCEPT ![r] = q] /\ UNCHANGED <<Lives, redis, mem>>
    BY <1>0, <1>4 DEF LogoutEndsSso, store, Lives
  <2>2. Prudent(q)
    BY <1>0 DEF Prudent, ReqRec
  <2>. HIDE DEF q
  <2>. QED
    BY <2>1, <2>2, PrudentSlot
<1>5. CASE LogoutClears(r)
  <2>1. CASE Valid(s)
    <3>1. /\ s \in Sids /\ StoreDelete(s) /\ req' = [Detached(s, r) EXCEPT ![r] = Idle]
          /\ UNCHANGED <<clock, redisUp, issued, born>>
          /\ \E how \in {"leaky", "clean"} : logout' = [logout EXCEPT ![s] = how]
      BY <1>0, <1>5, <2>1 DEF LogoutClears, At, Held
    <3>2. logout'[s] # "none" /\ \A t \in Sids \ {s} : logout'[t] = logout[t]
      BY <3>1 DEF Typed, TypeOK
    <3>3. Idle.pc # "setex"
      BY DEF Idle
    <3>. QED
      BY <3>1, <3>2, <3>3, PromiseDeletes, PrudentIdle
  <2>2. CASE ~ Valid(s)
    BY <1>5, <2>2, PrudentSlot, PrudentIdle DEF LogoutClears, store, Lives
  <2>. QED
    BY <2>1, <2>2
<1>. QED
  BY <1>1, <1>2, <1>3, <1>4, <1>5 DEF Logout

LEMMA PromiseEnvironment ==
    ASSUME Typed, Healthy, ~ Faulty, Environment \/ UNCHANGED vars
    PROVE  Healthy'
<1>1. /\ UNCHANGED <<redisUp, redis, mem, issued, born, logout, req>>
      /\ clock' = clock \/ clock' = clock + 1
  BY DEF Environment, Tick, RedisOutage, Restart, RevocationListChanges, SsoEnds, vars, store
<1>2. clock \in Nat /\ born \in [Sids -> Nat] /\ MaxAge \in Nat
  BY ConstantsAssumption DEF Typed, TypeOK
<1>3. ASSUME NEW p \in Reqs  PROVE Prudent(req[p])'
  <2>1. Prudent(req[p]) /\ Held(req[p])
    BY HeldByType DEF Healthy
  <2>2. /\ req[p].pc \in {"aged", "laged", "setex"} => born[req[p].sid] \in Nat
        /\ req[p].pc = "setex" => req[p].rec.ttl \in Nat /\ req[p].rec.created \in Nat
    BY <1>2, <2>1 DEF Held, PendRec
  <2>. QED
    BY <1>1, <1>2, <2>1, <2>2 DEF Prudent
<1>4. ASSUME NEW s \in Sids  PROVE (mem[s] = None /\ Dated(s) /\ Promised(s))'
  <2>1. mem[s] = None /\ Dated(s) /\ Promised(s) /\ born[s] \in Nat
    BY <1>2 DEF Healthy
  <2>. QED
    BY <1>1, <1>2, <2>1 DEF Dated, Promised
<1>5. redisUp'
  BY <1>1 DEF Healthy
<1>. QED
  BY <1>3, <1>4, <1>5 DEF Healthy

LEMMA PromiseStep == Typed /\ AgeInv /\ PromiseInv /\ [Next]_vars => PromiseInv'
<1>. SUFFICES ASSUME Typed, AgeInv, Healthy, ~ Faulty, [Next]_vars
              PROVE  Healthy'
  BY DEF PromiseInv
<1>1. ASSUME NEW r \in Reqs, ApiProxy(r)  PROVE Healthy'
  BY <1>1, PromiseReads, PromiseRefreshed, PromiseWrites DEF ApiProxy
<1>. QED
  BY <1>1, PromiseLogin, PromiseLogout, PromiseEnvironment DEF Next

LEMMA PromiseInit == Init => PromiseInv
BY PrudentIdle DEF Init, PromiseInv, Healthy, Dated, Promised

-----------------------------------------------------------------------------
(***************************************************************************)
(* The theorems.                                                           *)
(***************************************************************************)

IInv == Typed /\ AgeInv /\ LoginInv /\ TokenInv /\ CleanInv /\ PromiseInv

LEMMA IInvInit == Init => IInv
BY TypedInit, AgeInit, LoginInit, TokenInit, CleanInit, PromiseInit DEF IInv

LEMMA IInvStep == IInv /\ [Next]_vars => IInv'
BY TypedStep, AgeStep, LoginStep, TokenStep, CleanStep, PromiseStep DEF IInv

LEMMA BodyFit ==
    ASSUME IInv, NEW r \in Reqs, At(r, "body")
    PROVE  LET d == req[r].sess
           IN  /\ d \in Session /\ GoodAt(d, clock, kc, kcEnd)
               /\ clock < d.exp
               /\ IsSensitive(req[r].route.method, req[r].route.path) => d.acr = "high"
<1>. DEFINE d == req[r].sess
<1>1. /\ req[r].pc = "body" /\ req[r] \in ReqRec /\ ~ req[r].alias /\ d \in Session
  BY HeldByType DEF IInv, At, Held, Refreshing
<1>2. Fit(req[r], d, clock, kc, kcEnd)
  BY <1>1 DEF IInv, TokenInv, AllFit, HeldBy
<1>3. d.exp \in Nat /\ req[r].ref \in Nat /\ clock \in Nat
  BY <1>1 DEF Session, ReqRec, IInv, Typed, TypeOK
<1>. HIDE DEF d
<1>4. clock < d.exp
  BY <1>1, <1>2, <1>3, ConstantsAssumption DEF Fit, InSlack
<1>. QED
  BY <1>1, <1>2, <1>4 DEF d, Fit, Holding

\* A request that awaits its body does nothing else until it is sent.
LEMMA BodyWaits ==
    ASSUME Typed, [Next]_vars, NEW r \in Reqs, req[r].pc = "body", req'[r].pc = "body"
    PROVE  req'[r] = req[r]
<1>0. req[r] \in ReqRec /\ Held(req[r]) /\ ~ req[r].alias /\ req \in [Reqs -> ReqRec]
  BY HeldByType DEF Typed, TypeOK, Held, Refreshing
<1>1. Idle.pc = "idle"
  BY DEF Idle
<1>2. ASSUME NEW o \in Reqs, o # r, NEW q, req' = [req EXCEPT ![o] = q]  PROVE req'[r] = req[r]
  BY <1>0, <1>2
<1>3. ASSUME NEW o \in Reqs, o # r, NEW s \in Sids, NEW q, req' = [Detached(s, o) EXCEPT ![o] = q]
      PROVE  req'[r] = req[r]
  BY <1>0, <1>3 DEF Detached
<1>4. ASSUME NEW o \in Reqs, Login(o)  PROVE req'[r] = req[r]
  <2>1. (\E q : req' = [req EXCEPT ![o] = q]) /\ req[o].pc # "body"
    BY <1>4 DEF Login, Callback, CallbackStores, CallbackFallsBack, Issue, At
  <2>. QED
    BY <1>0, <2>1, <1>2
<1>5. ASSUME NEW o \in Reqs, Logout(o)  PROVE req'[r] = req[r]
  <2>1. req[o].pc # "body" /\ Held(req[o])
    BY <1>5, HeldByType DEF Logout, LogoutArrives, LogoutReads, LogoutEndsSso,
         LogoutDeletesAged, LogoutClears, At
  <2>2. ASSUME (\E t \in Sids : LogoutArrives(o, t)) \/ LogoutReads(o) \/ LogoutEndsSso(o)
        PROVE  req'[r] = req[r]
    BY <1>0, <2>1, <2>2 DEF LogoutArrives, LogoutReads, LogoutEndsSso
  <2>3. ASSUME LogoutDeletesAged(o)  PROVE req'[r] = req[r]
    BY <2>1, <2>3, <1>3 DEF LogoutDeletesAged, At, Held
  <2>4. ASSUME LogoutClears(o)  PROVE req'[r] = req[r]
    BY <2>1, <2>4, <1>2, <1>3 DEF LogoutClears, At, Held
  <2>. QED
    BY <1>5, <2>2, <2>3, <2>4 DEF Logout
<1>6. ASSUME NEW o \in Reqs, ApiProxy(o), o # r  PROVE req'[r] = req[r]
  <2>0. Held(req[o])
    BY HeldByType
  <2>1. ASSUME \/ \E t \in Sids, route \in Routes : Arrive(o, t, route)
               \/ ApiNoSession(o) \/ ApiFindsAged(o) \/ ApiAdmit(o) \/ ApiNeedsRefresh(o)
               \/ ApiRefreshFails(o) \/ ApiRegetsNothing(o) \/ ApiRegetsFromRedis(o)
               \/ ApiWritesRedis(o) \/ ApiLeavesMemory(o) \/ ApiAudited(o) \/ ApiSends(o)
        PROVE  req'[r] = req[r]
    BY <1>0, <1>6, <2>1 DEF Arrive, ApiNoSession, ApiFindsAged, ApiAdmit, ApiNeedsRefresh,
                ApiRefreshFails, ApiRegetsNothing, ApiRegetsFromRedis, ApiWritesRedis,
                ApiLeavesMemory, ApiAudited, ApiSends
  <2>2. ASSUME ApiRefreshed(o)  PROVE req'[r] = req[r]
    BY <1>0, <1>6, <2>2 DEF ApiRefreshed
  <2>3. ASSUME ApiDeletesAged(o)  PROVE req'[r] = req[r]
    BY <1>3, <1>6, <2>0, <2>3 DEF ApiDeletesAged, At, Held
  <2>4. ASSUME ApiRegetsFromMemory(o)  PROVE req'[r] = req[r]
    BY <1>3, <1>6, <2>0, <2>4 DEF ApiRegetsFromMemory, At, Held
  <2>5. ASSUME ApiWritesMemory(o)  PROVE req'[r] = req[r]
    BY <1>3, <1>6, <2>0, <2>5 DEF ApiWritesMemory, At, Held
  <2>. QED
    BY <1>6, <2>1, <2>2, <2>3, <2>4, <2>5 DEF ApiProxy
<1>7. ASSUME ApiProxy(r)  PROVE FALSE
  <2>1. ApiSends(r)
    BY <1>7 DEF ApiProxy, Arrive, ApiNoSession, ApiFindsAged, ApiDeletesAged, ApiAdmit,
         ApiNeedsRefresh, ApiRefreshFails, ApiRefreshed, ApiRegetsNothing,
         ApiRegetsFromRedis, ApiRegetsFromMemory, ApiWritesRedis, ApiWritesMemory,
         ApiLeavesMemory, ApiAudited, At
  <2>. QED
    BY <1>0, <1>1, <2>1 DEF ApiSends
<1>8. ASSUME Environment \/ UNCHANGED vars  PROVE req'[r] = req[r]
  BY <1>0, <1>1, <1>8 DEF Environment, Tick, RedisOutage, Restart, RevocationListChanges,
                          SsoEnds, vars
<1>. QED
  BY <1>4, <1>5, <1>6, <1>7, <1>8 DEF Next

\* The revocation list changes between the steps of requests, and dates a device
\* with the moment it is listed.
LEMMA ListMoves ==
    ASSUME Typed, [Next]_vars
    PROVE  \/ revoked' = revoked
           \/ /\ req' = req
              /\ \A d \in Revocable : revoked'[d] \in {None, revoked[d], clock}
<1>1. ASSUME NEW r \in Reqs, Login(r) \/ Logout(r)
      PROVE  revoked' = revoked
  BY <1>1 DEF Login, Callback, CallbackStores, CallbackFallsBack, Issue, Logout,
       LogoutArrives, LogoutReads, LogoutEndsSso, LogoutDeletesAged, LogoutClears, env
<1>2. ASSUME NEW r \in Reqs, ApiProxy(r)
      PROVE  revoked' = revoked
  BY <1>2 DEF ApiProxy, Arrive, ApiNoSession, ApiFindsAged, ApiDeletesAged, ApiAdmit,
       ApiNeedsRefresh, ApiRefreshFails, ApiRefreshed, ApiRegetsNothing,
       ApiRegetsFromRedis, ApiRegetsFromMemory, ApiWritesRedis, ApiWritesMemory,
       ApiLeavesMemory, ApiAudited, ApiSends, env
<1>3. CASE RevocationListChanges
  BY <1>3 DEF RevocationListChanges
<1>4. ASSUME Environment \/ UNCHANGED vars, ~ RevocationListChanges
      PROVE  revoked' = revoked
  BY <1>4 DEF Environment, Tick, RedisOutage, Restart, SsoEnds, vars, env
<1>. QED
  BY <1>1, <1>2, <1>3, <1>4 DEF Next

\* The inductive form of RevokedWriteBounded: the device of a write on its way
\* upstream was listed, if it is, after the token of the request was found fresh.
ListedInv ==
    \A r \in Reqs : req[r].pc = "body" /\ req[r].route.method \in WriteMethods =>
        LET device == req[r].sess.device
        IN  device \in RevokedIds => req[r].ref <= revoked[device]

LEMMA ListedStep == IInv /\ ListedInv /\ [Next]_vars => ListedInv'
<1>. SUFFICES ASSUME IInv, ListedInv, [Next]_vars, NEW r \in Reqs,
                     req'[r].pc = "body", req'[r].route.method \in WriteMethods,
                     req'[r].sess.device \in RevokedIds'
              PROVE  req'[r].ref <= revoked'[req'[r].sess.device]
  BY DEF ListedInv
<1>. DEFINE device == req'[r].sess.device
<1>0. Typed /\ TokenInv
  BY DEF IInv
<1>1. CASE req[r].pc = "body"
  <2>1. req'[r] = req[r]
    BY <1>0, <1>1, BodyWaits
  <2>2. device \in Revocable /\ revoked'[device] # None
    BY DEF RevokedIds
  <2>3. CASE revoked'[device] = revoked[device]
    BY <1>1, <2>1, <2>2, <2>3 DEF ListedInv, RevokedIds
  <2>4. CASE revoked'[device] = clock
    <3>1. InSlack(req[r], clock)
      BY <1>0, <1>1 DEF TokenInv, AllFit, Fit
    <3>. QED
      BY <2>1, <2>4, <3>1 DEF InSlack
  <2>. QED
    BY <1>0, <2>2, <2>3, <2>4, ListMoves
<1>2. CASE req[r].pc # "body"
  <2>1. PICK g \in ReqRec, d \in Session :
          /\ req'[r] = Gated(g, d)
          /\ g.route = req[r].route
          /\ GoodAt(d, clock, kc, kcEnd)
    BY <1>0, <1>2, ThroughTheGate
  <2>2. revoked' = revoked
    BY <1>0, <1>2, ListMoves
  <2>3. GateVerdict(d, RevokedIds, g.route.method, g.route.path) = "forward"
    BY <2>1 DEF Gated, Idle
  <2>4. req'[r].sess = d /\ req'[r].route = g.route
    BY <2>1, <2>3 DEF Gated, ReqRec
  <2>5. ~ LiveRevoked(d, RevokedIds) /\ d.trust # "suspicious"
    BY <2>3, <2>4 DEF GateVerdict
  <2>6. d.device \notin RevokedIds
    BY <2>1, <2>5 DEF LiveRevoked, GoodAt
  <2>. QED
    BY <2>2, <2>4, <2>6 DEF RevokedIds
<1>. QED
  BY <1>1, <1>2

\* The Keycloak token of a request that is about to go upstream has not expired,
\* for any number of requests that refresh, overwrite or delete the session
\* meanwhile, over outages of Redis and restarts.
THEOREM TokenAlive == Spec => []AccessTokenAlive
<1>1. IInv => AccessTokenAlive
  BY BodyFit DEF AccessTokenAlive
<1>. QED
  BY <1>1, IInvInit, IInvStep, PTL DEF Spec

\* A login that Keycloak has ended is of use for at most one more lifetime of
\* an access token, whatever a racing refresh or an outage puts back.
THEOREM EndedLogin == Spec => []EndedLoginBounded
<1>1. ASSUME IInv, NEW r \in Reqs, At(r, "body")
      PROVE  LET k == req[r].sess.kc
             IN  kc[k] = "live" \/ clock < kcEnd[k] + AccessTtl
  <2>. DEFINE d == req[r].sess
              k == d.kc
  <2>1. d \in Session /\ GoodAt(d, clock, kc, kcEnd) /\ clock < d.exp
    BY <1>1, BodyFit
  <2>2. k \in Sids /\ d.exp \in Nat
    BY <2>1 DEF Session
  <2>3. kc[k] \in {"unborn", "live", "ended"} /\ kcEnd[k] \in Nat /\ clock \in Nat
    BY <1>1, <2>2 DEF IInv, Typed, TypeOK
  <2>. QED
    BY <2>1, <2>2, <2>3, ConstantsAssumption DEF GoodAt
<1>2. IInv => EndedLoginBounded
  BY <1>1 DEF EndedLoginBounded
<1>. QED
  BY <1>2, IInvInit, IInvStep, PTL DEF Spec

\* A sensitive action goes upstream only on a session a step-up login created.
THEOREM StepUpOnly == Spec => []SensitiveOnlyStepUp
<1>1. IInv => SensitiveOnlyStepUp
  BY BodyFit DEF SensitiveOnlyStepUp, GoodAt
<1>. QED
  BY <1>1, IInvInit, IInvStep, PTL DEF Spec

\* Once a device is on the revocation list, its writes stop going upstream
\* within Slack, on the sessions it opened before as well, however many requests
\* of it were being refreshed or awaiting their body at that moment.
THEOREM RevokedWrites == Spec => []RevokedWriteBounded
<1>1. ASSUME IInv, ListedInv, NEW r \in Reqs, At(r, "body"), req[r].route.method \in WriteMethods,
             req[r].sess.device \in RevokedIds
      PROVE  clock <= revoked[req[r].sess.device] + Slack
  <2>. DEFINE since == revoked[req[r].sess.device]
  <2>1. req[r].ref <= since
    BY <1>1 DEF ListedInv, At
  <2>2. since \in Nat /\ clock \in Nat /\ req[r] \in ReqRec
    BY <1>1, HeldByType DEF RevokedIds, IInv, Typed, TypeOK
  <2>3. InSlack(req[r], clock) /\ req[r].ref \in Nat
    BY <1>1, <2>2, HeldByType DEF IInv, TokenInv, AllFit, Fit, At, ReqRec
  <2>. HIDE DEF since
  <2>. QED
    BY <2>1, <2>2, <2>3, ConstantsAssumption DEF InSlack, since
<1>2. IInv /\ ListedInv => RevokedWriteBounded
  BY <1>1 DEF RevokedWriteBounded
<1>3. Init => ListedInv
  BY DEF Init, ListedInv, RevokedIds
<1>. QED
  BY <1>2, <1>3, IInvInit, IInvStep, ListedStep, PTL DEF Spec

\* Refreshes that overwrite each other in Redis cost a session at most Slack of
\* the life of its token.
THEOREM RollbackBounded == Spec => RefreshRollbackBounded
<1>1. ASSUME IInv, [Next]_vars, NEW s \in Sids, redis[s] # None, redis'[s] # None
      PROVE  redis'[s].data.exp + Slack >= redis[s].data.exp
  <2>1. /\ redis[s].data \in Session /\ GoodAt(redis[s].data, clock, kc, kcEnd)
        /\ clock \in Nat
    BY <1>1 DEF IInv, Typed, TypeOK, RedisRec, TokenInv, RedisGood
  <2>2. redis[s].data.exp \in Nat /\ redis[s].data.exp <= clock + AccessTtl
    BY <2>1 DEF Session, GoodAt
  <2>3. CASE redis'[s] = redis[s]
    BY <2>2, <2>3, ConstantsAssumption
  <2>4. ASSUME NEW r \in Reqs, req[r].pc = "cbset", req[r].sid = s
        PROVE  FALSE
    BY <1>1, <2>4 DEF IInv, LoginInv, At, AgeInv, RecordsInTime
  <2>5. ASSUME NEW r \in Reqs, req[r].pc = "setex", redis'[s].data = req[r].rec.data
        PROVE  redis'[s].data.exp + Slack >= redis[s].data.exp
    <3>1. /\ req[r] \in ReqRec /\ Held(req[r])
          /\ Fit(req[r], HeldBy(req[r], mem), clock, kc, kcEnd)
      BY <1>1, HeldByType DEF IInv, TokenInv, AllFit
    <3>2. /\ req[r].rec.data.exp \in Nat /\ req[r].ref \in Nat
          /\ InSlack(req[r], clock)
          /\ req[r].rec.data.exp >= req[r].ref + AccessTtl
      BY <2>5, <3>1 DEF Held, PendRec, Session, ReqRec, Fit
    <3>. QED
      BY <2>1, <2>2, <2>5, <3>2, ConstantsAssumption DEF InSlack
  <2>. QED
    BY <1>1, <2>3, <2>4, <2>5, RedisMoves DEF IInv
<1>2. IInv /\ [Next]_vars =>
        [\A s \in Sids : redis[s] # None /\ redis'[s] # None
            => redis'[s].data.exp + Slack >= redis[s].data.exp]_vars
  BY <1>1
<1>. QED
  BY <1>2, IInvInit, IInvStep, PTL DEF Spec, RefreshRollbackBounded

\* A session that was logged out is in neither store again, unless at that
\* moment Redis was out while it held the session, or a refresh of it was
\* between reading the record back and writing it.
THEOREM LogoutHolds == Spec => []LoggedOutStaysOut
<1>1. IInv => LoggedOutStaysOut
  BY DEF IInv, CleanInv, Gone, LoggedOutStaysOut
<1>. QED
  BY <1>1, IInvInit, IInvStep, PTL DEF Spec

\* With Redis and the pod healthy, a client that is about to be answered "no
\* session" has logged out or has been logged in for SESSION_MAX_AGE, however many
\* refreshes, logins and other requests there were.
THEOREM EarlyDenial == Spec => []NoEarlyDenial
<1>1. ASSUME Typed, AgeInv, Healthy, NEW r \in Reqs, At(r, "get"), ~ Admits(req[r].sid)
      PROVE  logout[req[r].sid] # "none" \/ clock >= born[req[r].sid] + MaxAge
  <2>. DEFINE s == req[r].sid
  <2>1. s \in Sids /\ issued[s] # None
    BY <1>1, HeldByType DEF At, Held, Healthy, Prudent
  <2>2. /\ clock \in Nat /\ born[s] \in Nat /\ MaxAge \in Nat
        /\ redisUp /\ mem[s] = None /\ Promised(s)
    BY <1>1, <2>1, ConstantsAssumption DEF Typed, TypeOK, Healthy
  <2>3. SUFFICES ASSUME logout[s] = "none", clock < born[s] + MaxAge
                 PROVE  FALSE
    BY <2>2
  <2>4. redis[s] # None /\ redis[s].expires >= born[s] + MaxAge /\ redis[s].expires \in Nat
    BY <1>1, <2>1, <2>2, <2>3 DEF Promised, Typed, TypeOK, RedisRec
  <2>5. Found(s)
    BY <2>2, <2>3, <2>4 DEF Found, RedisHas
  <2>6. TooOld(s)
    BY <1>1, <2>5 DEF Admits
  <2>. QED
    BY <1>1, <2>1, <2>2, <2>3, <2>5, <2>6, HealthyFound DEF TooOld
<1>2. IInv => NoEarlyDenial
  BY <1>1 DEF IInv, PromiseInv, NoEarlyDenial
<1>. QED
  BY <1>2, IInvInit, IInvStep, PTL DEF Spec
=============================================================================
