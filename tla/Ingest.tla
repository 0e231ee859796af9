------------------------------- MODULE Ingest -------------------------------
(***************************************************************************)
(* How an outside system opens a war room: the signed alert socket and the *)
(* per-room webhook (server/internal/api), the guards in front of them     *)
(* (internal/alert), the routing rules (internal/route), the ephemeral     *)
(* rooms they create (internal/ephemeral) and the configuration they are   *)
(* driven by (server/config).                                              *)
(*                                                                         *)
(* HTTP requests are lost, delayed and repeated by whoever sends them: a   *)
(* signed alert stays in "posted" and may be handled at any later time,    *)
(* any number of times.  A payload is the set of match conditions that     *)
(* hold of it.  Time is in whole steps; a limiter's level counts in        *)
(* fractions 1/period of a request, so that its refill is a whole number.  *)
(***************************************************************************)
EXTENDS Integers, FiniteSets, Sequences

CONSTANTS RawConfigs,    \* decoded TOML files: [sources, routes, rooms, webhook, window, skew, tls]
          Payloads,      \* SUBSET of match conditions: what a sender's payload satisfies
          Minute, Hour,  \* in steps
          MinTTL, MaxTTL,
          DefaultRate, DefaultSpawn, DefaultUnauth,   \* built-in caps
          DefaultWindow, DefaultSkew,                 \* built-in freshness
          MaxClock, MaxPosted, MaxRequests            \* bounds

ASSUME IngestAssumption ==
  /\ Minute \in Nat \ {0} /\ Hour \in Nat \ {0} /\ MinTTL \in Nat \ {0} /\ MaxTTL >= MinTTL
  /\ {DefaultRate, DefaultSpawn, DefaultUnauth, DefaultWindow} \subseteq Nat \ {0} /\ DefaultSkew \in Nat
  /\ MaxClock \in Nat /\ MaxPosted \in Nat /\ MaxRequests \in Nat
\* What the TOML decoder leaves: the sections, and counts that may be anything.
ASSUME ConfigsAssumption ==
  \A r \in RawConfigs :
    /\ r = [sources |-> r.sources, routes |-> r.routes, rooms |-> r.rooms, webhook |-> r.webhook,
            window |-> r.window, skew |-> r.skew, tls |-> r.tls]
    /\ \A s \in DOMAIN r.sources : r.sources[s].rate \in Int /\ r.sources[s].spawn \in Int
    /\ \A x \in DOMAIN r.rooms : r.rooms[x].rate \in Int /\ r.rooms[x].spawn \in Int /\ r.rooms[x].token \in STRING
    /\ r.webhook.rate \in Int /\ r.webhook.spawn \in Int /\ r.webhook.unauth \in Int

VARIABLES cfg,       \* the configuration in force
          clock,
          limiters,  \* Guards.rate and Guards.spawn: key -> [level, burst, period]
          warned,    \* Guards.warned
          posted,    \* alerts a source has signed or sent
          handled,   \* number of requests handled
          rooms,     \* Registry.rooms: [id, deadline, notice]
          invited,   \* join links handed out: [room, name, expires]
          notices,   \* what the intake room was told: "message" or "fired", in order
          spawned,   \* history: [id, at, key, alert] of each war room opened, alert 0 for a webhook
          served     \* history: [at, token, ok] of each webhook request with the right token
ingestVars == <<cfg, clock, limiters, warned, posted, handled, rooms, invited, notices, spawned, served>>

------------------------------------------------------------------------------
(* server/config *)

Positive(n, default) == IF n > 0 THEN n ELSE default
\* normalize: a non-positive value reverts to the built-in one.
normalize(raw) ==
  [raw EXCEPT !.webhook = [rate |-> Positive(@.rate, DefaultRate), spawn |-> Positive(@.spawn, DefaultSpawn),
                           unauth |-> Positive(@.unauth, DefaultUnauth)],
              !.window = Positive(@, DefaultWindow), !.skew = Positive(@, DefaultSkew)]
\* validate: a freshness mandate needs a signature, and TLS keys are refused.
validate(raw) == ~raw.tls /\ \A s \in DOMAIN raw.sources : raw.sources[s].requireFresh => raw.sources[s].hmac
\* resolveWebhookCap, for the room's rate and spawn overrides.
WebhookRate(room) == Positive(cfg.rooms[room].rate, cfg.webhook.rate)
WebhookSpawn(room) == Positive(cfg.rooms[room].spawn, cfg.webhook.spawn)

------------------------------------------------------------------------------
(* internal/alert *)

\* Mutation: the bucket is built anew for every request.
limiterFresh(ls, key, burst, period) == [level |-> burst * period, burst |-> burst, period |-> period]
\* A limiter is built full on first use, with the burst asked for then, and kept.
limiter(ls, key, burst, period) ==
  IF key \in DOMAIN ls THEN ls[key] ELSE [level |-> burst * period, burst |-> burst, period |-> period]
\* Limiter.Allow: one request is taken from the bucket when there is one.
Allow(ls, key, burst, period) == limiter(ls, key, burst, period).level >= period
Taken(ls, key, burst, period) ==
  LET l == limiter(ls, key, burst, period)
      left == IF l.level >= period THEN l.level - period ELSE l.level
  IN [k \in DOMAIN ls \cup {key} |-> IF k = key THEN [l EXCEPT !.level = left] ELSE ls[k]]

RateKey(s) == <<"source", s>>
SpawnKey(s) == <<"spawn", s>>
UnauthKey == <<"wh-unauth">>
HookRateKey(token) == <<"wh-rate", token>>
HookSpawnKey(token) == <<"wh-spawn", token>>
RateOf(s) == Positive(cfg.sources[s].rate, DefaultRate)
SpawnOf(s) == Positive(cfg.sources[s].spawn, DefaultSpawn)

\* Every credential the source declares must pass, and it must declare one.
Authenticate(s, a) ==
  /\ s.hmac => a.signed
  /\ s.token => a.token
  /\ s.hmac \/ s.token

\* The signed timestamp against the window; ts = 0 says there is none.
AllowFresh(s, ts) ==
  \/ ~s.hmac
  \/ ts = 0 /\ ~s.requireFresh
  \/ ts > 0 /\ clock <= ts + Positive(s.window, cfg.window) /\ ts <= clock + Positive(s.skew, cfg.skew)
Warns(s, ts) == s.hmac /\ ts = 0 /\ ~s.requireFresh

------------------------------------------------------------------------------
(* internal/route, internal/ephemeral *)

\* The first break-glass rule whose conditions all hold, or 0.
Match(payload) ==
  LET hit == {i \in DOMAIN cfg.routes : cfg.routes[i].action = "break-glass" /\ cfg.routes[i].match \subseteq payload}
  IN IF hit = {} THEN 0 ELSE CHOOSE i \in hit : \A j \in hit : i <= j
ClampTTL(d) == IF d < MinTTL THEN MinTTL ELSE IF d > MaxTTL THEN MaxTTL ELSE d

\* spawnWarRoom: a fresh room, and a link for each invitee that names one.
spawnWarRoom(rule, key, notice, a) ==
  LET id == Cardinality(spawned) + 1
      end == clock + ClampTTL(rule.ttl)
  IN /\ rooms' = rooms \cup {[id |-> id, deadline |-> end, notice |-> notice]}
     /\ invited' = invited \cup {[room |-> id, name |-> n, expires |-> end] : n \in rule.invite}
     /\ spawned' = spawned \cup {[id |-> id, at |-> clock, key |-> key, alert |-> a]}

------------------------------------------------------------------------------
(* internal/api: the alert socket *)

\* A source composes an alert; an HMAC source signs it with its time.
PostAlert(s, payload, ts, good) ==
  /\ Cardinality(posted) < MaxPosted
  /\ posted' = posted \cup {[source |-> s, payload |-> payload, ts |-> ts, n |-> Cardinality(posted) + 1,
                             signed |-> good, token |-> good]}
  /\ UNCHANGED <<cfg, clock, limiters, warned, handled, rooms, invited, notices, spawned, served>>

Request == handled < MaxRequests /\ handled' = handled + 1

\* Rejections before the rate limit: a body that does not parse, an unknown source.
AlertUnknown(a) ==
  /\ a \in posted /\ Request /\ a.source \notin DOMAIN cfg.sources
  /\ UNCHANGED <<cfg, clock, limiters, warned, posted, rooms, invited, notices, spawned, served>>

\* The handler from the rate limit on, in the order of the code: rate, credentials,
\* freshness, route, spawn cap, spawn.  Accepted is its 200.
Passes(a) ==
  LET s == cfg.sources[a.source]
  IN /\ Allow(limiters, RateKey(a.source), RateOf(a.source), Minute)
     /\ Authenticate(s, a) /\ AllowFresh(s, a.ts)
Opens(a) ==
  /\ Passes(a) /\ Match(a.payload) # 0
  /\ Allow(limiters, SpawnKey(a.source), SpawnOf(a.source), Hour)
Accepted(a) == a.source \in DOMAIN cfg.sources /\ Passes(a) /\ (Match(a.payload) = 0 \/ Opens(a))
alertHandled(a) ==
  LET rated == Taken(limiters, RateKey(a.source), RateOf(a.source), Minute)
      key == SpawnKey(a.source)
      idx == Match(a.payload)
  IN /\ limiters' = IF Passes(a) /\ idx # 0 THEN Taken(rated, key, SpawnOf(a.source), Hour) ELSE rated
     /\ warned' = IF Passes(a) /\ Warns(cfg.sources[a.source], a.ts) THEN warned \cup {a.source} ELSE warned
     /\ IF Opens(a) THEN spawnWarRoom(cfg.routes[idx], key, TRUE, a.n) ELSE UNCHANGED <<rooms, invited, spawned>>
     /\ UNCHANGED <<cfg, clock, posted, notices, served>>
alert(a) == a \in posted /\ Request /\ a.source \in DOMAIN cfg.sources /\ alertHandled(a)

------------------------------------------------------------------------------
(* internal/api: the webhook *)

TokenFits(room, token) == cfg.rooms[room].token # "" /\ token = cfg.rooms[room].token

\* A room without a webhook, or the wrong token: only the global ceiling is charged.
webhookRejected(room, token) ==
  /\ Request /\ (~cfg.rooms[room].webhook \/ ~TokenFits(room, token))
  /\ limiters' = Taken(limiters, UnauthKey, cfg.webhook.unauth, Minute)
  /\ UNCHANGED <<cfg, clock, warned, posted, rooms, invited, notices, spawned, served>>

\* The right token: its own rate, then the body (empty payload: one that is not an
\* object), then either a war room under the token's spawn cap or a plain message.
webhookAdmit(room, token, allowed, payload) ==
  LET rated == Taken(limiters, HookRateKey(token), WebhookRate(room), Minute)
      idx == Match(payload)
      key == HookSpawnKey(token)
      capped == allowed /\ payload # {} /\ idx # 0
      opens == capped /\ Allow(rated, key, WebhookSpawn(room), Hour)
  IN /\ limiters' = IF capped THEN Taken(rated, key, WebhookSpawn(room), Hour) ELSE rated
     /\ served' = Append(served, [at |-> clock, token |-> token, ok |-> allowed])
     /\ IF opens THEN spawnWarRoom(cfg.routes[idx], key, FALSE, 0) ELSE UNCHANGED <<rooms, invited, spawned>>
     /\ notices' = IF opens THEN Append(notices, <<room, "fired">>)
                   ELSE IF allowed /\ idx = 0 /\ "text" \in payload THEN Append(notices, <<room, "message">>)
                   ELSE notices
     /\ UNCHANGED <<cfg, clock, warned, posted>>
webhook(room, token, payload) ==
  /\ Request /\ cfg.rooms[room].webhook /\ TokenFits(room, token)
  /\ webhookAdmit(room, token, Allow(limiters, HookRateKey(token), WebhookRate(room), Minute), payload)

------------------------------------------------------------------------------
(* Time *)

\* A bucket gains its burst over one period.
Refilled(l) == [l EXCEPT !.level = IF @ + l.burst > l.burst * l.period THEN l.burst * l.period ELSE @ + l.burst]
Elapse ==
  /\ clock < MaxClock /\ clock' = clock + 1
  /\ limiters' = [k \in DOMAIN limiters |-> Refilled(limiters[k])]
  /\ UNCHANGED <<cfg, warned, posted, handled, rooms, invited, notices, spawned, served>>
sweep ==
  /\ \E r \in rooms : clock > r.deadline
  /\ rooms' = {r \in rooms : clock <= r.deadline}
  /\ UNCHANGED <<cfg, clock, limiters, warned, posted, handled, invited, notices, spawned, served>>

IngestInit ==
  /\ cfg \in {normalize(raw) : raw \in {r \in RawConfigs : validate(r)}}
  /\ clock = 1 /\ limiters = [k \in {} |-> 0] /\ warned = {} /\ posted = {} /\ handled = 0
  /\ rooms = {} /\ invited = {} /\ notices = <<>> /\ spawned = {} /\ served = <<>>

IngestNext ==
  \/ \E s \in DOMAIN cfg.sources \cup {"unknown"}, p \in Payloads, ts \in {0, clock}, good \in BOOLEAN :
       PostAlert(s, p, ts, good)
  \/ \E a \in posted : AlertUnknown(a) \/ (a.source \in DOMAIN cfg.sources /\ alert(a))
  \/ \E room \in DOMAIN cfg.rooms, token \in {cfg.rooms[r].token : r \in DOMAIN cfg.rooms} \cup {"wrong"} :
       webhookRejected(room, token) \/ \E p \in Payloads : webhook(room, token, p)
  \/ Elapse \/ sweep

------------------------------------------------------------------------------
(* Properties *)

OpenedBy(key, from, to) == {w \in spawned : w.key = key /\ from < w.at /\ w.at <= to}

\* However alerts and webhooks are repeated or mixed, one source or token never opens
\* more than twice its cap of war rooms within any hour: a full bucket, and what it
\* gains meanwhile (Guards.AllowSpawn, AllowWebhookSpawn).
SpawnsBounded ==
  \A w \in spawned : Cardinality(OpenedBy(w.key, IF w.at > Hour THEN w.at - Hour ELSE 0, w.at))
                       <= 2 * limiters[w.key].burst

\* A webhook sender with the right token is refused only for its own requests: the
\* bucket's worth of them in the minute before (AllowWebhookRequest; rejected requests
\* are charged elsewhere).
HolderServed ==
  \A i \in DOMAIN served : ~served[i].ok =>
    LET mine == {j \in 1..(i - 1) : /\ served[j].token = served[i].token /\ served[j].ok
                                    /\ served[j].at + Minute >= served[i].at}
    IN Cardinality(mine) >= limiters[HookRateKey(served[i].token)].burst

\* The buckets limit each caller by its own requests: no one opens more rooms than its
\* cap allows, and no one is refused for what others did.
LimitsFair == SpawnsBounded /\ HolderServed
=============================================================================
