----------------------------- MODULE BffSession -----------------------------
(***************************************************************************)
(* Sessions of the BFF (services/bff/main.py): login, logout and the API   *)
(* proxy as coroutines of one asyncio process, interleaved at every await, *)
(* over a session store that is Redis with an in-process fallback.         *)
(*                                                                         *)
(* Each request of Reqs is a slot a coroutine runs in; req[r].pc names the *)
(* await it is suspended at, and an action is the code from one await to   *)
(* the next, together with what the awaited service did.  Redis, Keycloak, *)
(* the clock, the mounted revocation list and the restarts of the pod are  *)
(* the environment.                                                        *)
(*                                                                         *)
(* Bounds: MaxTime caps the clock.  Slack is the longest a request takes   *)
(* from the moment its access token was found or made fresh to the moment  *)
(* it is sent upstream (two Redis calls, one Loki push of at most 3 s and  *)
(* the reading of its body).                                               *)
(***************************************************************************)
EXTENDS BffGate, Integers

CONSTANTS
    Reqs, Sids, None,
    Certs,       \* the device certificates clients come with
    Revocable,   \* the devices the revocation list may come to name
    Clients,     \* the OIDC clients logins go through: "bff", "stepup"
    RoleSets, Routes,
    MaxAge,      \* SESSION_MAX_AGE
    AccessTtl,   \* accessTokenLifespan of the realm
    CrapiTtl,    \* CRAPI_JWT_TTL
    Margin,      \* _REFRESH_MARGIN_S
    Slack, MaxTime,
    Faulty       \* whether Redis can fail and the pod restart

VARIABLES
    clock,
    redisUp,     \* Redis answers
    redis,       \* bff:session:<sid>, with the deadline SETEX gave it
    mem,         \* _sessions
    sharers,     \* the requests about to write back the very record in mem
    kc,          \* Keycloak's own SSO sessions
    kcEnd,       \* when each of them ended
    revoked,     \* since when _revoked_device_ids() has named each device
    issued,      \* when the cookie of a session was signed and sent
    born,        \* when Keycloak's code was exchanged for it (history)
    logout,      \* how the last logout of a session went (history)
    req

env   == <<kc, kcEnd, revoked>>
store == <<redis, mem, sharers>>
vars  == <<clock, redisUp, redis, mem, sharers, kc, kcEnd, revoked, issued, born, logout, req>>

Devices == {c.device : c \in Certs}

Session == [exp      : Nat,                 \* of access_token
            acr      : {"normal", "high"},
            kc       : Sids,                \* what refresh_token belongs to
            client   : Clients,
            crapiExp : Nat,                 \* crapi_token_exp
            device   : Devices \cup {NoDevice},
            trust    : {"trusted", "suspicious"},
            roles    : RoleSets]

MemRec   == [data : Session, created : Nat]
RedisRec == [data : Session, created : Nat, expires : Nat]
\* The record a refresh is about to write back: its JSON and its TTL.
PendRec  == [data : Session, created : Nat, ttl : Nat]

Pcs == {"idle", "get", "aged", "refresh", "reget", "setex", "audit", "body",
        "cbset", "lget", "laged", "lkc", "ldel"}

\* alias: the coroutine's session dict is the very object held in _sessions.
\* at: when _get_session admitted the session.  ref: when its access token was
\* last found or made fresh.
Idle == [pc |-> "idle", sid |-> None, route |-> None, sess |-> None,
         alias |-> FALSE, rec |-> None, at |-> 0, ref |-> 0]

ASSUME ConstantsAssumption ==
    /\ MaxAge \in Nat /\ AccessTtl \in Nat /\ CrapiTtl \in Nat
    /\ Margin \in Nat /\ Slack \in Nat /\ MaxTime \in Nat
    /\ Slack <= Margin /\ Margin < AccessTtl
    /\ Clients \subseteq {"bff", "stepup"}
    /\ \A r \in RoleSets : r \subseteq KnownRoles
    /\ Faulty \in BOOLEAN
    /\ None \notin Nat \cup MemRec \cup RedisRec

Init ==
    /\ clock = 0 /\ redisUp = TRUE
    /\ redis  = [s \in Sids |-> None]
    /\ mem    = [s \in Sids |-> None] /\ sharers = {}
    /\ kc     = [k \in Sids |-> "unborn"]
    /\ kcEnd  = [k \in Sids |-> 0]
    /\ revoked = [d \in Revocable |-> None]
    /\ issued = [s \in Sids |-> None]
    /\ born   = [s \in Sids |-> 0]
    /\ logout = [s \in Sids |-> "none"]
    /\ req    = [r \in Reqs |-> Idle]

-----------------------------------------------------------------------------
\* The session store.

MaxOf(a, b) == IF a >= b THEN a ELSE b

RedisHas(s) == redisUp /\ redis[s] # None /\ clock < redis[s].expires

\* What _session_store_get returns: the Redis copy, else (a miss or an error)
\* the one in memory.
Found(s)    == RedisHas(s) \/ mem[s] # None
FoundRec(s) == IF RedisHas(s)
               THEN [data |-> redis[s].data, created |-> redis[s].created]
               ELSE mem[s]

\* SETEX that Redis applies and acknowledges.
Setex(s, d, ttl) ==
    [redis EXCEPT ![s] = [data |-> d.data, created |-> d.created, expires |-> clock + ttl]]

StoreSet(s, d, ttl) == redisUp /\ redis' = Setex(s, d, ttl) /\ mem' = mem

\* The record of s leaves _sessions: a request that was about to write it back
\* holds it alone.  (If another one has put its dict in it since, the record is
\* taken to hold the request's own.)
Parted(s) == sharers' = {q \in sharers : req[q].sid # s}

\* SETEX raises, because Redis is out or because its reply was lost after it
\* was applied, and the record goes to _sessions.
StoreFallsBack(s, d, ttl, rec) ==
    /\ Faulty
    /\ redis' = IF redisUp THEN Setex(s, d, ttl) ELSE redis
    /\ mem'   = [mem EXCEPT ![s] = rec]

\* Mutant: returns once Redis has deleted, as _session_store_set does once
\* Redis has stored.
DeleteStopsAtRedis(s) ==
    /\ redis' = IF redisUp THEN [redis EXCEPT ![s] = None] ELSE redis
    /\ mem'   = IF redisUp THEN mem ELSE [mem EXCEPT ![s] = None]
    /\ Parted(s)

\* _session_store_del: best effort on Redis, always on memory.
StoreDelete(s) ==
    /\ redis' = IF redisUp THEN [redis EXCEPT ![s] = None] ELSE redis
    /\ mem'   = [mem EXCEPT ![s] = None]
    /\ Parted(s)

-----------------------------------------------------------------------------
\* Session dicts.  A record read from Redis is a private copy; one read from
\* _sessions is the shared object itself.

SessOf(r) == IF req[r].alias THEN mem[req[r].sid].data ELSE req[r].sess

\* Request r deletes the record of s from _sessions or puts its own dict there:
\* the other requests that hold the object in it, unless r holds the same one,
\* keep it as it was.
Detached(s, r) ==
    [q \in Reqs |-> IF q # r /\ ~ req[r].alias /\ req[q].alias /\ req[q].sid = s
                    THEN [req[q] EXCEPT !.alias = FALSE, !.sess = SessOf(q)]
                    ELSE req[q]]

At(r, pc) == req[r].pc = pc

Valid(s) == issued[s] # None /\ clock - issued[s] <= MaxAge
-----------------------------------------------------------------------------
\* api_proxy.  A client may present any cookie it was given, in any number of
\* requests at once.

Arrive(r, s, route) ==
    /\ At(r, "idle") /\ Valid(s)
    /\ req' = [req EXCEPT ![r] = [Idle EXCEPT !.pc = "get", !.sid = s, !.route = route]]
    /\ UNCHANGED <<clock, redisUp, store, env, issued, born, logout>>

\* _get_session finds nothing.
ApiNoSession(r) ==
    /\ At(r, "get") /\ ~ Found(req[r].sid)
    /\ req' = [req EXCEPT ![r] = Idle]
    /\ UNCHANGED <<clock, redisUp, store, env, issued, born, logout>>

\* Mutant: measures the session against the lifetime of its access token.
TooOldForToken(s) == clock - FoundRec(s).created >= AccessTtl

TooOld(s) == clock - FoundRec(s).created > MaxAge

\* _get_session finds a record past SESSION_MAX_AGE and goes on to delete it.
ApiFindsAged(r) ==
    /\ At(r, "get") /\ Found(req[r].sid) /\ TooOld(req[r].sid)
    /\ req' = [req EXCEPT ![r].pc = "aged"]
    /\ UNCHANGED <<clock, redisUp, store, env, issued, born, logout>>

ApiDeletesAged(r) ==
    /\ At(r, "aged")
    /\ StoreDelete(req[r].sid)
    /\ req' = [Detached(req[r].sid, r) EXCEPT ![r] = Idle]
    /\ UNCHANGED <<clock, redisUp, env, issued, born, logout>>

\* Mutant: no margin.
FreshToTheSecond(d) == d.exp > clock

Admits(s) == Found(s) /\ ~ TooOld(s)
Fresh(d)  == d.exp - clock > Margin

RevokedIds == {d \in Revocable : revoked[d] # None}

\* The tests after _ensure_fresh_access_token.  They end by building the
\* headers to inject, which fixes the tokens that will be sent.
Gated(q, d) ==
    LET verdict == GateVerdict(d, RevokedIds, q.route.method, q.route.path)
    IN  IF verdict = "forward"
        THEN [q EXCEPT !.pc = "body", !.sess = d, !.alias = FALSE, !.rec = None]
        ELSE Idle

\* The access token is fresh: no await between the store's answer and the
\* verdict.
ApiAdmit(r) ==
    LET s == req[r].sid
        d == FoundRec(s).data
    IN  /\ At(r, "get") /\ Admits(s) /\ Fresh(d)
        /\ req' = [req EXCEPT ![r] =
                     Gated([req[r] EXCEPT !.at = clock, !.ref = clock], d)]
        /\ UNCHANGED <<clock, redisUp, store, env, issued, born, logout>>

\* It is not: ask Keycloak for another one, if the cookie is still good.
ApiNeedsRefresh(r) ==
    LET s == req[r].sid
        d == FoundRec(s).data
    IN  /\ At(r, "get") /\ Admits(s) /\ ~ Fresh(d)
        /\ req' = [req EXCEPT ![r] =
                     IF Valid(s)
                     THEN [req[r] EXCEPT !.pc = "refresh", !.at = clock,
                                         !.alias = ~ RedisHas(s),
                                         !.sess = IF RedisHas(s) THEN d ELSE None]
                     ELSE Idle]
        /\ UNCHANGED <<clock, redisUp, store, env, issued, born, logout>>

\* Mutant: carries on with the token it has.
RefreshFailureIgnored(r) ==
    /\ At(r, "refresh")
    /\ req' = [req EXCEPT ![r].pc = "audit", ![r].ref = clock]
    /\ UNCHANGED <<clock, redisUp, store, env, issued, born, logout>>

\* Keycloak is unreachable, or answers anything but 200.
ApiRefreshFails(r) ==
    /\ At(r, "refresh")
    /\ req' = [req EXCEPT ![r] = Idle]
    /\ UNCHANGED <<clock, redisUp, store, env, issued, born, logout>>

\* Mutant: a refresh may leave the session the token it has.
RefreshMayKeepToken(r) ==
    LET s == req[r].sid
        d == SessOf(r)
    IN  /\ At(r, "refresh") /\ kc[d.kc] = "live"
        /\ \E exp \in {d.exp, clock + AccessTtl} :
             LET new == [d EXCEPT !.exp = exp]
             IN  /\ mem' = IF req[r].alias THEN [mem EXCEPT ![s].data = new] ELSE mem
                 /\ req' = [req EXCEPT ![r].pc = "reget", ![r].ref = clock,
                              ![r].sess = IF req[r].alias THEN None ELSE new]
        /\ UNCHANGED <<clock, redisUp, redis, sharers, env, issued, born, logout>>

\* Keycloak issues new tokens.  Their acr is the one of the login, or lower
\* once the level of authentication has lapsed; the dict is updated in place.
ApiRefreshed(r) ==
    LET s == req[r].sid
        d == SessOf(r)
    IN  /\ At(r, "refresh") /\ kc[d.kc] = "live"
        /\ \E acr \in {d.acr, "normal"} :
             LET new == [d EXCEPT !.exp = clock + AccessTtl, !.acr = acr]
             IN  /\ mem' = IF req[r].alias THEN [mem EXCEPT ![s].data = new] ELSE mem
                 /\ req' = [req EXCEPT ![r].pc = "reget", ![r].ref = clock,
                              ![r].sess = IF req[r].alias THEN None ELSE new]
        /\ UNCHANGED <<clock, redisUp, redis, sharers, env, issued, born, logout>>

TtlLeft(created) == MaxOf(1, MaxAge - (clock - created))

\* Mutant: the refreshed record is stamped with the time of the refresh.
PendingRenewed(d, created) ==
    [data |-> d, created |-> clock, ttl |-> TtlLeft(clock)]

Pending(d, created) == [data |-> d, created |-> created, ttl |-> TtlLeft(created)]

\* The record is read again so that created_at is kept.  It is gone: nothing
\* is written.
ApiRegetsNothing(r) ==
    /\ At(r, "reget") /\ ~ Found(req[r].sid)
    /\ req' = [req EXCEPT ![r].pc = "audit"]
    /\ UNCHANGED <<clock, redisUp, store, env, issued, born, logout>>

ApiRegetsFromRedis(r) ==
    LET s == req[r].sid
    IN  /\ At(r, "reget") /\ RedisHas(s)
        /\ req' = [req EXCEPT ![r].pc = "setex",
                              ![r].rec = Pending(SessOf(r), redis[s].created)]
        /\ UNCHANGED <<clock, redisUp, store, env, issued, born, logout>>

\* The record in memory is the object itself: rec["data"] = session puts this
\* coroutine's dict in _sessions before SETEX is even sent.
ApiRegetsFromMemory(r) ==
    LET s == req[r].sid
    IN  /\ At(r, "reget") /\ ~ RedisHas(s) /\ mem[s] # None
        /\ mem' = [mem EXCEPT ![s].data = SessOf(r)]
        /\ req' = [Detached(s, r) EXCEPT ![r] =
                     [req[r] EXCEPT !.pc = "setex", !.alias = TRUE, !.sess = None,
                                    !.rec = Pending(SessOf(r), mem[s].created)]]
        /\ sharers' = sharers \cup {r}
        /\ UNCHANGED <<clock, redisUp, redis, env, issued, born, logout>>

\* SETEX, then the audit of the refresh.
ApiWritesRedis(r) ==
    /\ At(r, "setex")
    /\ StoreSet(req[r].sid, req[r].rec, req[r].rec.ttl) /\ sharers' = sharers \ {r}
    /\ req' = [req EXCEPT ![r].pc = "audit", ![r].rec = None]
    /\ UNCHANGED <<clock, redisUp, env, issued, born, logout>>

\* SETEX raises: the record goes to _sessions, and with it this coroutine's
\* dict.
ApiWritesMemory(r) ==
    LET s == req[r].sid
    IN  /\ At(r, "setex") /\ r \notin sharers
        /\ StoreFallsBack(s, req[r].rec, req[r].rec.ttl,
                          [data |-> SessOf(r), created |-> req[r].rec.created])
        /\ Parted(s)
        /\ req' = [Detached(s, r) EXCEPT ![r] =
                     [req[r] EXCEPT !.pc = "audit", !.rec = None, !.alias = TRUE, !.sess = None]]
        /\ UNCHANGED <<clock, redisUp, env, issued, born, logout>>

\* SETEX raises and the record is the one _sessions holds, with the dict of
\* whoever refreshed last.
ApiLeavesMemory(r) ==
    LET s == req[r].sid
    IN  /\ At(r, "setex") /\ r \in sharers
        /\ StoreFallsBack(s, req[r].rec, req[r].rec.ttl, mem[s])
        /\ sharers' = sharers \ {r}
        /\ req' = [req EXCEPT ![r].pc = "audit", ![r].rec = None]
        /\ UNCHANGED <<clock, redisUp, env, issued, born, logout>>

ApiAudited(r) ==
    /\ At(r, "audit")
    /\ req' = [req EXCEPT ![r] = Gated(req[r], SessOf(r))]
    /\ UNCHANGED <<clock, redisUp, store, env, issued, born, logout>>

\* The body has been read: the request goes upstream with the headers built at
\* the gate.
ApiSends(r) ==
    /\ At(r, "body")
    /\ req' = [req EXCEPT ![r] = Idle]
    /\ UNCHANGED <<clock, redisUp, store, env, issued, born, logout>>

ApiProxy(r) ==
    \/ \E s \in Sids, route \in Routes : Arrive(r, s, route)
    \/ ApiNoSession(r) \/ ApiFindsAged(r) \/ ApiDeletesAged(r)
    \/ ApiAdmit(r) \/ ApiNeedsRefresh(r)
    \/ ApiRefreshFails(r) \/ ApiRefreshed(r)
    \/ ApiRegetsNothing(r) \/ ApiRegetsFromRedis(r) \/ ApiRegetsFromMemory(r)
    \/ ApiWritesRedis(r) \/ ApiWritesMemory(r) \/ ApiLeavesMemory(r)
    \/ ApiAudited(r) \/ ApiSends(r)
-----------------------------------------------------------------------------
\* auth_callback, the last leg of a login or of a step-up login: Keycloak
\* exchanges the code, the device is evaluated, the crAPI token is minted, and
\* a session of its own is stored.  The browser may still have a Keycloak
\* session (k), which the new tokens then belong to.

NewSid(s) == issued[s] = None /\ \A r \in Reqs : req[r].sid # s

NewSession(k, client, cert, roles) ==
    LET device == EvaluateDevice(cert, RevokedIds)
    IN  [exp |-> clock + AccessTtl, kc |-> k, client |-> client,
         acr |-> IF client = "stepup" THEN "high" ELSE "normal",
         crapiExp |-> clock + CrapiTtl,
         device |-> device.device, trust |-> device.trust, roles |-> roles]

Callback(r, s, k, client, cert, roles) ==
    /\ At(r, "idle") /\ NewSid(s)
    /\ kc[k] = "live" \/ (k = s /\ kc[k] = "unborn")
    /\ kc'  = [kc EXCEPT ![k] = "live"]
    /\ req' = [req EXCEPT ![r] = [Idle EXCEPT
                  !.pc = "cbset", !.sid = s, !.at = clock,
                  !.sess = NewSession(k, client, cert, roles)]]
    /\ born' = [born EXCEPT ![s] = clock]
    /\ UNCHANGED <<clock, redisUp, store, kcEnd, revoked, issued, logout>>

\* _set_session: created_at is read before SETEX is awaited, and again for the
\* record that goes to _sessions; the cookie is signed last.
Issue(r) ==
    /\ issued' = [issued EXCEPT ![req[r].sid] = clock]
    /\ req' = [req EXCEPT ![r] = Idle]
    /\ UNCHANGED <<clock, redisUp, env, born, logout>>

CallbackStores(r) ==
    /\ At(r, "cbset")
    /\ StoreSet(req[r].sid, [data |-> req[r].sess, created |-> req[r].at], MaxAge)
    /\ sharers' = sharers
    /\ Issue(r)

CallbackFallsBack(r) ==
    /\ At(r, "cbset")
    /\ StoreFallsBack(req[r].sid, [data |-> req[r].sess, created |-> req[r].at], MaxAge,
                      [data |-> req[r].sess, created |-> clock])
    /\ sharers' = sharers
    /\ Issue(r)

Login(r) ==
    \/ \E s, k \in Sids, client \in Clients, cert \in Certs, roles \in RoleSets :
          Callback(r, s, k, client, cert, roles)
    \/ CallbackStores(r) \/ CallbackFallsBack(r)

-----------------------------------------------------------------------------
\* logout.

LogoutArrives(r, s) ==
    /\ At(r, "idle") /\ Valid(s)
    /\ req' = [req EXCEPT ![r] = [Idle EXCEPT !.pc = "lget", !.sid = s]]
    /\ UNCHANGED <<clock, redisUp, store, env, issued, born, logout>>

LogoutReads(r) ==
    LET s == req[r].sid
    IN  /\ At(r, "lget")
        /\ req' = [req EXCEPT
             ![r].pc   = IF ~ Found(s) THEN "ldel" ELSE IF TooOld(s) THEN "laged" ELSE "lkc",
             ![r].sess = IF Admits(s) THEN FoundRec(s).data ELSE None]
        /\ UNCHANGED <<clock, redisUp, store, env, issued, born, logout>>

LogoutDeletesAged(r) ==
    /\ At(r, "laged")
    /\ StoreDelete(req[r].sid)
    /\ req' = [Detached(req[r].sid, r) EXCEPT ![r] = [req[r] EXCEPT !.pc = "ldel"]]
    /\ UNCHANGED <<clock, redisUp, env, issued, born, logout>>

\* The Keycloak logout always names the client crapi-bff, so Keycloak refuses
\* the refresh token of a step-up login; any failure is ignored.
LogoutEndsSso(r) ==
    LET d == req[r].sess
    IN  /\ At(r, "lkc")
        /\ \/ d.client = "bff" /\ kc[d.kc] = "live"
              /\ kc' = [kc EXCEPT ![d.kc] = "ended"]
              /\ kcEnd' = [kcEnd EXCEPT ![d.kc] = clock]
           \/ UNCHANGED <<kc, kcEnd>>
        /\ req' = [req EXCEPT ![r].pc = "ldel", ![r].sess = None]
        /\ UNCHANGED <<clock, redisUp, store, revoked, issued, born, logout>>

\* A refresh of s holds a record it is about to write back.
Rewriting(s) == \E q \in Reqs : At(q, "setex") /\ req[q].sid = s

\* _clear_session, unless the cookie has expired since the request arrived.
LogoutClears(r) ==
    LET s == req[r].sid
    IN  /\ At(r, "ldel")
        /\ IF Valid(s)
           THEN /\ StoreDelete(s)
                /\ logout' = [logout EXCEPT ![s] =
                     IF \/ Rewriting(s)
                        \/ ~ redisUp /\ redis[s] # None /\ clock < redis[s].expires
                     THEN "leaky" ELSE "clean"]
                /\ req' = [Detached(s, r) EXCEPT ![r] = Idle]
           ELSE /\ req' = [req EXCEPT ![r] = Idle]
                /\ UNCHANGED <<store, logout>>
        /\ UNCHANGED <<clock, redisUp, env, issued, born>>

Logout(r) ==
    \/ \E s \in Sids : LogoutArrives(r, s)
    \/ LogoutReads(r) \/ LogoutDeletesAged(r) \/ LogoutEndsSso(r) \/ LogoutClears(r)

-----------------------------------------------------------------------------
\* The environment.

Tick ==
    /\ clock < MaxTime
    /\ \A r \in Reqs : req[r].pc \in {"reget", "setex", "audit", "body"}
                          => clock - req[r].ref < Slack
    /\ clock' = clock + 1
    /\ UNCHANGED <<redisUp, store, env, issued, born, logout, req>>

\* Redis keeps its data over an outage (appendonly, on a volume).
RedisOutage ==
    /\ Faulty
    /\ redisUp' = ~ redisUp
    /\ UNCHANGED <<clock, store, env, issued, born, logout, req>>

\* The BFF pod restarts: what was in memory and every coroutine is gone, the
\* signing key (SESSION_SECRET) and so the cookies are not.
Restart ==
    /\ Faulty
    /\ mem' = [s \in Sids |-> None] /\ sharers' = {}
    /\ req' = [r \in Reqs |-> Idle]
    /\ UNCHANGED <<clock, redisUp, redis, env, issued, born, logout>>

\* A Keycloak session ends without the BFF: its lifetime, or an administrator.
SsoEnds(k) ==
    /\ kc[k] = "live"
    /\ kc' = [kc EXCEPT ![k] = "ended"]
    /\ kcEnd' = [kcEnd EXCEPT ![k] = clock]
    /\ UNCHANGED <<clock, redisUp, store, revoked, issued, born, logout, req>>

\* The mounted revocation list changes, or becomes unreadable, which reads as
\* an empty one.
RevocationListChanges ==
    /\ \E now \in SUBSET Revocable :
          revoked' = [d \in Revocable |-> IF d \notin now THEN None
                                         ELSE IF revoked[d] # None THEN revoked[d]
                                         ELSE clock]
    /\ UNCHANGED <<clock, redisUp, store, kc, kcEnd, issued, born, logout, req>>

Environment ==
    \/ Tick \/ RedisOutage \/ Restart \/ RevocationListChanges
    \/ \E k \in Sids : SsoEnds(k)

Next ==
    \/ \E r \in Reqs : Login(r) \/ ApiProxy(r) \/ Logout(r)
    \/ Environment

Spec == Init /\ [][Next]_vars
-----------------------------------------------------------------------------
(***************************************************************************)
(* Properties.                                                             *)
(***************************************************************************)

ReqRec == [pc : Pcs, sid : Sids \cup {None}, route : Routes \cup {None},
           sess : Session \cup {None}, alias : BOOLEAN, rec : PendRec \cup {None},
           at : Nat, ref : Nat]

\* Every variable has its type.
TypeOK ==
    /\ clock \in Nat /\ redisUp \in BOOLEAN /\ revoked \in [Revocable -> Nat \cup {None}]
    /\ redis \in [Sids -> RedisRec \cup {None}]
    /\ mem \in [Sids -> MemRec \cup {None}] /\ sharers \subseteq Reqs
    /\ kc \in [Sids -> {"unborn", "live", "ended"}] /\ kcEnd \in [Sids -> Nat]
    /\ issued \in [Sids -> Nat \cup {None}] /\ born \in [Sids -> Nat]
    /\ logout \in [Sids -> {"none", "clean", "leaky"}]
    /\ req \in [Reqs -> ReqRec]

\* What a coroutine holds at each await.
Refreshing == {"refresh", "reget", "setex", "audit"}

Held(q) ==
    /\ q.pc # "idle" => q.sid \in Sids
    /\ q.pc \in Refreshing \cup {"get", "body"} => q.route \in Routes
    /\ q.alias => q.pc \in Refreshing
    /\ q.pc \in {"cbset", "lkc", "body"} => q.sess \in Session
    /\ q.pc \in Refreshing /\ ~ q.alias => q.sess \in Session
    /\ q.pc = "setex" => q.rec \in PendRec

HeldOK ==
    \A r \in Reqs : Held(req[r]) /\ (req[r].alias => mem[req[r].sid] \in MemRec)

\* No request is let through on a session older than SESSION_MAX_AGE, counted
\* from the moment its cookie was issued, however often the tokens were
\* refreshed and through whichever copy of the record it was read
\* (_ensure_fresh_access_token keeps created_at).
SessionAgeBounded ==
    \A r \in Reqs : At(r, "body") => req[r].at - issued[req[r].sid] <= MaxAge

RecordsInTime ==
    \A s \in Sids :
        /\ issued[s] # None => issued[s] <= clock
        /\ redis[s] # None => issued[s] # None /\ redis[s].created <= issued[s]
        /\ mem[s] # None => issued[s] # None /\ mem[s].created <= issued[s]

InTime(q) ==
    /\ q.pc = "cbset" => q.at <= clock
    /\ q.pc = "setex" => q.rec.created <= issued[q.sid]
    /\ q.pc \in Refreshing \cup {"body"} =>
          issued[q.sid] # None /\ q.at - issued[q.sid] <= MaxAge

\* The inductive form of SessionAgeBounded: every copy of a record, in either
\* store or on its way back from a refresh, was created no later than its cookie
\* was issued, and every request that is being served was admitted in time.
AgeInv == RecordsInTime /\ \A r \in Reqs : InTime(req[r])

\* A request that is about to go upstream carries a Keycloak token that has not
\* expired, although another request may have refreshed, overwritten or deleted
\* the session since this one read it.
AccessTokenAlive ==
    \A r \in Reqs : At(r, "body") => clock < req[r].sess.exp

\* The crAPI token in the Authorization header has not expired either.
CrapiTokenAlive ==
    \A r \in Reqs : At(r, "body") => clock < req[r].sess.crapiExp

\* Once Keycloak has ended the login behind a session, by a logout through the
\* BFF or otherwise, the BFF lets requests through for at most the lifetime of
\* one access token, even if a racing refresh or an outage has put the session
\* back in the store.
EndedLoginBounded ==
    \A r \in Reqs : At(r, "body") =>
        LET k == req[r].sess.kc
        IN  kc[k] = "live" \/ clock < kcEnd[k] + AccessTtl

\* A session that was logged out is in neither store again, unless at that
\* moment Redis was out while it held the session, or a refresh of the session
\* was between reading the record back and writing it.
LoggedOutStaysOut ==
    \A s \in Sids : logout[s] = "clean" =>
        /\ mem[s] = None
        /\ redis[s] = None \/ clock >= redis[s].expires

\* A sensitive action goes upstream only on a session that a step-up login
\* created: neither a refresh nor a race between refreshes makes an ordinary
\* session a stepped-up one.
SensitiveOnlyStepUp ==
    \A r \in Reqs : At(r, "body") /\ IsSensitive(req[r].route.method, req[r].route.path)
        => req[r].sess.client = "stepup"

\* With Redis and the pod healthy, a client that is about to be answered "no
\* session" has logged out, or has been logged in for SESSION_MAX_AGE:
\* refreshes, TTLs and concurrent requests never drop a session early.
NoEarlyDenial ==
    ~ Faulty => \A r \in Reqs : LET s == req[r].sid IN
        At(r, "get") /\ ~ Admits(s) => logout[s] # "none" \/ clock >= born[s] + MaxAge

\* Once a device is on the revocation list, its writes stop going upstream
\* within Slack, on the sessions it opened before as well: a write that is about
\* to be sent passed the gate (which reads the list anew, main.py:707) before
\* the device was listed, and awaits nothing but its body since.
RevokedWriteBounded ==
    \A r \in Reqs : At(r, "body") /\ req[r].route.method \in WriteMethods =>
        LET device == req[r].sess.device
        IN  device \in RevokedIds => clock <= revoked[device] + Slack

\* Concurrent refreshes of one session may overwrite each other, but the token
\* Redis holds never loses more than Slack of its life by it.
RefreshRollbackBounded ==
    [][\A s \in Sids : redis[s] # None /\ redis'[s] # None
          => redis'[s].data.exp + Slack >= redis[s].data.exp]_vars
=============================================================================
