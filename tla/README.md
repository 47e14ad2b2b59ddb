# Vanguard Sentinel in TLA+

A verification project for the gateway under `src/backend/app`: TLA+ modules of
its stateful parts, TLC runs on small instances, and theorems whose proofs TLAPS
checks. Every definition is translated from the Python source (or from the Lua
script inside it); `PROJECT.json` maps each definition to its lines.

## 1. The system

Vanguard Sentinel is a reverse proxy in front of a game server. Several replicas
(FastAPI, one event loop each) share their state through Redis; the docs call the
gateway stateless (`docs/ARCHITECTURE.md:61`). A request passes, in this order,
session token, blacklist, GeoIP, manual rules, replay guard, token bucket, AI
ensemble, and then goes upstream (`proxy.py:31-115`). Every outcome but one is
published as an event to the metrics, the dashboard, the report log and Kafka.

| component | state | operations | interacts through |
|---|---|---|---|
| Token bucket (`security/rate_limiter.py`) | Redis hash per client: tokens, last_refill, TTL | `allow`, `current_rate` | called by the proxy, twice or more per request; the Lua script is atomic, the clock reading is not part of it |
| Replay guard (`security/replay_guard.py`) | Redis key per text `client:nonce`, with TTL | `validate` | called by the proxy and the UDP and WebSocket gateways |
| Blacklist (`security/blacklist.py`) | violation counter and ban entry per address, with TTLs | `record_violation`, `ban`, `unban`, `is_banned`, `list_active` | called by the proxy, administrators, health loop |
| Proxy (`proxy.py`) | none of its own; one coroutine per request | `handle_request`, `_reject`, `_emit_event` | awaits all of the above |
| Rule engine (`admin/rule_engine.py`) | Redis hash of rules | create, list, delete, toggle, match | proxy, administrators |
| Admin API (`main.py`, `admin/rbac.py`, `admin/audit_log.py`, `admin/reports.py`) | audit list, event list in Redis | ban, unban, rules, audit, reports, login | all stores |
| AI (`ai/*.py`) | per-replica windows, model file, feature lists in Redis | score, append, retrain | proxy, protocol gateways, background task |
| Protocol gateways (`protocols/*.py`, `ai/cheat_detector.py`) | per-replica windows and histories | handle a datagram, a connection | replay guard, anomaly detector, broadcaster |
| Broadcaster, event stream, alerting (`websocket/`, `observability/`) | connection list, alert window and cooldown, per replica | connect, broadcast, publish, record_block | proxy, protocol gateways |
| Dashboard (`src/dashboard`) | React state | shows events, edits rules | WebSocket and admin API |

What is hard about it, and makes tests of little help:

* **Readings older than their use.** `allow` and `validate` read the replica's
  clock, then await Redis. Other coroutines and replicas run in between; Redis
  has another clock; keys expire on it.
* **Operations of several commands.** `record_violation`, `ban` and `unban` are
  sequences of commands with an await at each, interleaved with each other.
* **Failure between two commands.** A client disconnects, a connection to Redis
  fails or a replica stops at any await.
* **One resource, several users.** Rules and the general limit share one bucket
  per client; the proxy and the protocol gateways share the nonces.
* **Deliveries retried, duplicated and delayed** by clients and networks.
* **Order taken from the client.** Packets carry the timestamps that the cheat
  detector computes with, and arrive in any order, on several connections.
* **Memory next to Redis.** Windows and histories are those of one process; a
  restart or another replica knows nothing of them.

The properties that make each component correct: the bucket must keep its limit
over every window; the guard must accept a message that has a time at most once and
call a nonce reused only if it was; violations must add up to bans which end on time; the
proxy must let upstream only what all layers passed, and its counters must agree;
a packet must be judged once on whatever protocol, and no honest player accused;
the audit log must explain what administrators did.
`PROJECT.json` lists every hazard at its line with the properties aimed at it.

## 2. Modules

    TokenBucket   <-- MCTokenBucket, TokenBucketProofs
    AtMostOnce    <-- ReplayGuard        (refines it; MCReplayGuard, ReplayGuardProofs)
    Blacklist     <-- MCBlacklist, BlacklistProofs
    CheatDetector <-- CheatDetectorProofs
    BoundedLog
    SynFlood, Broadcaster, Alerting, Retrainer

    Gateway         = TokenBucket + ReplayGuard + Blacklist    (MCGateway, GatewayProofs
                      over TokenBucketProofs, ReplayGuardProofs, BlacklistProofs)
    PacketGateways  = ReplayGuard + CheatDetector + SynFlood   (MCPacketGateways,
                      PacketGatewaysProofs over ReplayGuardProofs, CheatDetectorProofs)
    Admin           = BoundedLog + rules and roles             (MCAdmin, AdminProofs)
    Observers       = Broadcaster + Alerting + Retrainer + BoundedLog
                      + requests, health loop, restarts        (MCObservers, ObserversProofs)

A composing module takes its parts with `INSTANCE` and conjoins their actions with
its own; `MC` modules only give values.

### Conventions

* A *caller*, *worker* or *request* is a coroutine of any replica. One action is
  what runs between two awaits: everything a coroutine does there is one step of
  the event loop, and a Redis command or script is atomic.
* `clock` is Redis's clock. A replica reads `clock + skew` with
  `skew \in -MaxSkew .. MaxSkew`, chosen anew at every reading, which covers
  replicas with different and drifting clocks (`SynFlood`, which never leaves its
  process, has a clock that does not run backwards). An awaited command runs at most
  `MaxDelay` ticks after the reading: `Tick` is disabled while one is due.
* A key with a TTL is a record with the last instant at which it exists;
  `Exists` is `clock <= expires`. Expiry is therefore not an action of its own. A
  missing key has the expiry -1.
* History variables (`granted`, `accepted`, `burnt`, `reused`, `streak`,
  `lostExpire`, `lostBan`, `checked`, `paid`, `forwarded`,
  `lifted`, `signals`, `passed`, `published`, `acked`, `ran`, `pushed`,
  `untrimmed`, `untrimmedRows`, `unexpired`, `recorded`, `alerts`, `trained`, and in
  `sends` the fields `reached` and `skips`) are written and never read by the guards,
  except for the bound on `streak` and for the rules an administrator may have seen
  listed (`ran`).
* A definition named for what it does wrong (`ForwardOnlyRefill`,
  `AboveThreshold`, `BlockCountedTwice`, ...), standing just before the definition
  it is a variant of, is a plausible mistake in that line. No specification uses
  it; the mutants of `PROJECT.json` put it in place to show that a property
  notices.

### TokenBucket (`security/rate_limiter.py`)

`Allow` is `allow` up to its await, with the override clamped as in
`capacity_override or self.capacity`. `RunScript` is the Lua script: `Refilled` is
its lines 17-23, including the clamp to the caller's capacity and an elapsed time
that may be negative, and the step writes `last_refill` and renews the expiry
whether or not a token was taken. `Drop` is a call that never reached Redis.
Tokens are fractions in Lua; here they are integers, `Unit` to a token, and a tick
refills `Refill` of them.

* `SlidingLimit`: between any two allowed calls of a client the calls allowed are at
  most a full bucket plus the refill between the two readings. It is not what the
  script computes but the reason for having it, and it has to survive scripts
  that run out of the order of their readings, clamping to other capacities and
  expiry.
* `RealTimeLimit`: the same on Redis's clock, where two readings may be off by
  `MaxDelay + 2 * MaxSkew`.
* `TypeOK`, with the fact that no bucket holds more than the largest capacity.

The limit of a rule is an `int` without bounds (`main.py:115`). `Overrides` has those that
are natural numbers, and `MaxCapacity` has to satisfy `ExpiryCoversRefill`: a negative
limit, which leaves a bucket below zero, and one above some 18000, which an expired
bucket gets back sooner than by its refill, are outside of what is checked and proved.

### ReplayGuard (`security/replay_guard.py`) and AtMostOnce

`Validate` is `validate` up to its await, enabled unless the reading `Drifts` from the
message's timestamp (the other answer changes nothing). The code rejects on
`drift > window`, and the timestamp is what `float()` or the packet codec makes of the
client's: for the float `NaN` the comparison is false and such a message, not `Timed`,
always passes. `Reply` runs the SET and returns, `ReplyLost` runs it and raises,
`Drop` never runs it. `KeyOf` is the text `client:nonce` with the colons inside the two
left as they are: a text is the sequence of the parts between its colons, so that
client `a:b` with nonce `c` and client `a` with nonce `b:c` have one key.

* `AtMostOnceSpec`: the guard implements `AtMostOnce` for the messages that have a time
  (`accepted`, restricted to `TimedMessages`). `NoSecondAcceptance` is the same as a state
  predicate, for the run with the deployed values: an accepted message is accepted again
  only if it is `Repeatable`, without a time and its nonce perhaps expired.
* `OncePerNonceLife`: what is left when the timestamp protects from nothing, for NaN or a
  window wider than the TTL: a message is accepted once in each life of its nonce.
* `AcceptedInWindow` (action property): acceptance of a message that has a time happens
  only within the window, widened by the skew on both sides and by the delay on the late one.
* `NoFalseReuse`: `nonce_reused` is answered only if a nonce was spent, by an accepted
  message or by one whose reply was lost: this nonce of this client (`Same`) if neither of
  the two contains a colon (`Plain`), otherwise at least one that reads the same.

### Blacklist (`security/blacklist.py`)

A worker's `proc` is the operation it is in and the command it awaits: `Incr`,
`Expire`, `BeginBan`, `SetBan` are `record_violation` and `ban`; `BanByAdmin` starts
`ban` alone with a count of 1; `Unban` and `DelViolations` are the two DELs. `Fail`
ends an operation between two commands. The count that `INCR` returned travels
in `proc`, as in the code. EXPIRE of a deleted key does nothing.

* `ThresholdBans`: a counter at the threshold means a ban that lasts as long as the
  counter, but for `MaxDelay`, or one of the named reasons why not: it is on its
  way, an unban is half done, or an operation was cut short.
* `CountersExpire`: a counter without TTL has an EXPIRE on its way or lost.
* `CountIsEarned`: a count never exceeds the violations recorded in a row.
* `AdvertisedExpiry`: `expires_at`, computed with the replica's clock (`Entry`), and the
  key's expiry, computed by Redis, differ by no more than the skew, and `expires_at` may be
  earlier by the delay of the SET as well.
* `UnbanLiftsEarlierBans`: refuted (section 4).

### Gateway (`proxy.py`, and `ban_ip`, `unban_ip` of `main.py`)

Each request goes through the awaits of `handle_request`; `pc` names the await.
The actions of the other modules are conjoined into the proxy's: `RuleReply` is
`RL!RunScript` and the rule loop's next decision, `ViolationStep` is the
blacklist's command and, when it returns, the rejection. A rule list is any
element of `RuleLists` for each request, since administrators change rules at
any time. GeoIP's answer, the ensemble's vote and the upstream server's behaviour
are free choices. `Fail` is an exception or a cancellation at any await, with
the pending command run or not. `Administer` is an administrator's ban or unban.

* `StrikesBan`: violations of concurrent requests add up to the ban.
* `UpstreamLimit`: any set of forwarded requests of a client fits a full bucket and
  the refill between two of their readings. `UpstreamOnce`: of two deliveries of a message
  one reaches upstream, unless the message has no time and its nonce has expired.
* `BanStopsLaterRequests`: a request is let past the check only if no ban set
  before the check is in force. A ban set between the check and the forwarding does not
  stop the request in the code, and the property does not say it does.
* `CountersAgree`: for every action, `BLOCKED_REQUESTS_COUNTER` against
  `REQUEST_COUNTER` and both against the answers; the allowed events against what
  upstream received.
* `EveryRequestEnds`: liveness. `RuleAdmitsItsLimit`: refuted.

### CheatDetector (`ai/cheat_detector.py`)

One object per replica, no await inside: `Evaluate` is a whole call of `evaluate`.
Positions are pairs of integers and distances are compared squared, which is what
`hypot(...) / elapsed > limit` decides. `Stamped` is the reason for most of what
can go wrong: `now` is the timestamp of the packet and not that of its arrival.
Timestamps and coordinates may be NaN, and no comparison with one accuses
(`SpeedChecked`, `Placed`, `TooSoon`); infinite ones and the rounding of floats are left
out. `Raises` is `float()` on coordinates that are no numbers, before anything is stored;
`RaisesLate` is `sorted()` of a payload whose keys have no order (strings and bytes), after
the position was stored. `Forget` is a new process.

* `HonestMoversNotAccused`: a player whose positions never need more than the allowed
  speed by their own timestamps is never accused of a speed hack, although late
  packets move the last position back and the detector of each replica sees a
  part of the packets.

### SynFlood (`SynFloodHeuristic` of `protocols/udp_gateway.py`)

`Registered` is the deque after the append and the `popleft` loop, which removes the
first `ExpiredFirst` events and stops at the first inside the window. That this is all
of what expired depends on the deque being in the order of time, which `FloodTypeOK`
states. A rejected packet stays registered, as in the code.

* `SessionsBounded`: since a replica started, the registrations it let pass hold at
  most `MaxNewSessions` sessions of an address in any window.

### PacketGateways (`protocols/udp_gateway.py`, `protocols/ws_gateway.py`)

A *delivery* is one sending of a packet: a datagram, which is a task of its own, or
a message at a place on a WebSocket, which is handled after those before it. `pc`
is the await the handler is at: `validate` (Redis) or `emit` (the broadcast).
`ReceiveDatagram` and `ReceiveMessage` run up to the first await, `DatagramValidated`
and `MessageValidated` from the reply to the second, with the synchronous cheat
detector inside for WebSockets only. Messages get lost (only
those of one element of `Sendings` are sent), repeated (several deliveries of a
packet), reordered and delayed; an exception other than a disconnect ends a WebSocket handler, and with it the
messages behind; `Restart` loses a replica's memory, broadcasts and connections but
not Redis. The anomaly score is a free choice.

* `OneVerdict`: of all deliveries of a packet one at most gets past the guard, unless the
  packet has no time and its nonce has expired (`Repeatable`).
* `AcksStand`: an acked packet was published as allowed before and, unless it is
  `Repeatable`, is acked once and is in no cheat signal.
* `MacrosWereOvertaken` (action property): a player who never repeats a payload within
  the interval, by the timestamps of those packets that have one, is accused of a macro
  only if one of his packets was overtaken by an equal later one. The negative interval of line 64 is
  therefore the only source of such an accusation, and duplicates are not.
* `HonestMoversNotAccused`, `SessionsBounded` behind the gateways.
* `AllowedMovesAreChecked`: refuted for datagrams (section 4).

### Admin (`main.py`, `admin/rule_engine.py`, `admin/rbac.py`, `admin/audit_log.py`) and BoundedLog

A request is refused, or goes through `action` (HSET, HDEL, or the blacklist's
commands), `push` (LPUSH) and `trim` (LTRIM), failing between any two with the
command run or not. The audit entry of a request is the request. `BoundedLog` is the
list with its LPUSH and LTRIM; `admin/reports.py:16-18` is the same pair with
another limit.

* `AuditExplainsRules`: a rule that stands was logged as created, one that is gone as
  deleted, unless that action is not logged yet or its request failed in between.
* `AnsweredIsLogged`: who was answered is in the log, until `Limit` newer entries push
  the entry out; no LTRIM of another request removes it earlier.
* `LogBounded`: lost LTRIMs are made up by the next one.

### Broadcaster (`websocket/broadcaster.py`, and `/ws/stats` of `main.py`)

`_connections` is a list that `broadcast` iterates over with an await at every send. The
iterator of a Python list is an index into the live list: `sends` holds, for each
coroutine in a broadcast, that index, the socket of the send and the list `dead`.
`Begin` is the call up to the first await, `Resume` a send that returned or raised and
what follows it up to the next await, the clean-up of the dead included. A socket is
`open`, `closed` (its dashboard left, the endpoint has not noticed) or `gone` (the
endpoint ended: by `Disconnect` with the removal, by `Abort`, an exception other than
`WebSocketDisconnect`, without it). `Without` is the list after a removal: who stays
(`Staying`) moves up to the place that its `Rank` among them gives.

* `MissedWereSkipped`: a connected dashboard is passed over only because others before it
  were removed during an await, one for each.
* `SentOnce` (action property): no dashboard gets an event twice.

### Alerting (`observability/alerting.py`)

No await inside: `RecordBlock` is `record_block` with `_maybe_send_alert`. Everything is
the memory of one process (`ForgetBlocks` at its end).

* `AlertsMatchAttacks`: every block that completes an attack has an alert within the
  cooldown that ends with it, no alert is sent without an attack, and two alerts are a
  cooldown apart. The attacks are computed from all the blocks ever recorded, not from
  the trimmed deque.

### Retrainer (`ai/feature_store.py`, `ai/online_trainer.py`, `ai/anomaly_detector.py`)

A feature list is its number of rows; storing a row is LPUSH, LTRIM and EXPIRE. A cycle
of the retrainer reads one list at a time and, with enough rows, fits and dumps the
model, which rewrites the file in place: an error or the end of the process inside the
dump leaves a torn file, with which no process starts (`StartTrainer`). `known` is in
memory. What the isolation forest computes is left out.

* `RowsAreKeptShort`: lists are longer than their limit only by pushes not trimmed yet,
  and without a TTL only while an EXPIRE is due or lost.
* `ModelIsRetrained` (liveness): while enough rows are stored under the addresses the
  retrainer knows, cycles retrain the model, unless the task ended.

### Observers (the end of `handle_request`, and the background tasks of `main.py`)

One process. A request is rejected early, or stores its features and then is answered 502
without an event, blocked or allowed; an event goes to the dashboards, to the report log
(`BoundedLog` again, now of `admin/reports.py`) and with `kafka_enabled` to Kafka, and
a rejection is recorded as a block afterwards. The awaits are actions of the request; the
health loop broadcasts too. Requests fail at any await with the command run or not, the
two background tasks end at the first exception (nothing catches it), dashboards come
and go, the process stops and starts again with Redis as it was. `Scenes` bounds what
happens together in one behaviour.

* `GoneIsRemoved` (liveness): a dashboard that left does not stay in the list, as long
  as the health loop lives.
* `SummariesAreComplete`: a report over any period counts each answered request of the
  period once, unless newer events pushed it out.
* The properties of the three components, in this composition.

## 3. Runs, bounds and fairness

| run | shows | bounds |
|---|---|---|
| `TokenBucket` | types, sliding limit, real-time limit, the inductive invariant | 1 client, 2 callers, capacities 2 and 1, half tokens, delay 2, 7 ticks, TTL 6 |
| `ReplayGuard` | types, the refinement of at-most-once, once per nonce life, window, reuse, the inductive invariant | 3 messages on 2 keys, one of them without a time, two with one key by their colons; 2 callers, window 1, skew 1, delay 1, TTL 5, 7 ticks |
| `Blacklist` | the five invariants | 1 address, 3 workers, threshold 2, TTL 2, delay 1, skew 1, 5 ticks, 3 violations in a row |
| `Gateway` | types, upstream once, counters, every request ends | 2 deliveries of a message, three rule lists, threshold 1, 2 ticks |
| `GatewayBan` | strikes, upstream limit, bans against requests | 2 requests, 1 administrator, half tokens, threshold 2, 2 ticks |
| `PacketGateways` | one verdict, acks, accusations, session window | eight sets of 3 deliveries (`Journeys`) of 2 players' 8 packets, one of them without time and place; 3 connections, 2 replicas, histories of length 1, window 1, delay 1, TTL 3, 4 ticks |
| `Admin` | rules and answers against the log, its bound | 7 requests (2 creations, 2 deletions, a ban, a login, an unban; one forbidden, one without a token), 2 rule ids, log limit 2 |
| `Observers` | dashboards, alerts, feature lists, retraining and reports, with two liveness properties | six scenes of at most 3 requests (2 at once) and 3 dashboards; window, threshold and cooldown 2, 3 ticks; lists of 2 rows, a cycle of 2 clients, one row read of each, 2 needed; report log of 2 |

Why these are enough to be of interest. Buckets, nonces and bans of different
clients share nothing but the clock, so one client suffices, except for the
nonce's key, for which two clients share a nonce and two messages a key. Two callers give
every order of two readings and two scripts; three workers let a violation, a ban
and an unban overlap. Every clock runs past the TTL in the runs of the single
components, so keys expire and are created again. The bounds are named constants:
`MaxTime` bounds the clock, `MaxStreak` the violations in a row, `MaxDelay` and
`MaxSkew` the environment. Capacities and TTLs are far below the deployed 20 and
3600 s; the relations between them (`ExpiryCoversRefill`, `NonceCoversWindow`)
are what the properties need, and the proofs cover all values. The run
`TokenBucket` has exact clocks, since skew and delay together exceed its size:
`ReplayGuard` has both, and the bucket's proofs cover any skew.

In `PacketGateways` the walking player moves at exactly the greatest speed and repeats
himself at exactly the shortest interval, so an error of one in either direction
accuses him; the other one teleports and sends garbage. Three deliveries are what
the properties need: a packet, one that overtakes it, and a repetition. `Journeys` has the
walk over two connections in three parts, repetitions on another connection and on the
other protocol, two datagrams of two sessions, the packet without a time by both protocols,
and the teleporting player with each of his two undigestible packets. The TTL is the
shortest that `NonceCoversWindow` allows and the clock passes it, so that nonces expire
under the repetitions. `Gateway` has one message, with a time. In `Admin` five requests of seven get as far as the log, with a limit of
two entries; the two rule ids are interchangeable (symmetry).

The scenes of `Observers` put together what shares state: three dashboards with the
health loop (three are what it takes for one to be passed over when another is removed);
two dashboards, a request and the health loop, so that two broadcasts overlap, with the
process stopping; three requests of two addresses that store features, one of them under
a name, with failing retrainer and process; three blocks over four instants, which
fill the window, miss it, and fall into the cooldown or out of it; three requests at a
report log of two; and two requests all the way to Kafka with a dashboard. What no scene joins
shares no variable but the clock.

Deadlock is checked in the bucket's and the blacklist's runs: an idle caller can
always start again. It is not checked for the replay guard, where at `MaxTime` every
message may be out of its window, for `Gateway`, `PacketGateways` and `Admin`,
whose requests and deliveries are handled once, and for `Observers`, which stops for
good when the model file is torn.

Fairness is assumed in two runs. In `Gateway` it is weak fairness of each request's
`Step`, the event loop resuming a coroutine whose await has completed. That an await
completes is justified by the timeout of 5 s of the upstream client
(`proxy.py:27`). For Redis it is an assumption about the environment, a server that answers or
a connection that breaks: the code configures no socket timeout. In `Observers` it is weak fairness of `HealthStep` and of `Retrain`, the two
tasks that `startup_event` creates: their awaits are sleeps, Redis commands, and sends to
dashboards, which end at the latest when the server's WebSocket ping gives the dashboard up.
No fairness is assumed of `Fail`, of requests in `Observers`, of administrators, dashboards,
restarts or the clock. Liveness is checked without symmetry.

## 4. Where the code and its descriptions differ

Each of these runs checks one statement and TLC refutes it.

| run | statement | what happens |
|---|---|---|
| `ReplayGuardDeployed` | a nonce is accepted once within the window (`README.md:21`) | with a TTL of exactly two windows, a SET one tick late finds the nonce expired |
| `BlacklistUnban` | `unban_ip` answers "unbanned" (`main.py:103`) | a ban decided earlier is written during the unban |
| `GatewayRule` | a rule is a limit for its endpoint (`ARCHITECTURE.md:41`) | rule and general limit share a bucket: a rule of 1 per second admits nothing |
| `PacketGatewaysUdp` | cheat detection is in the WebSocket and UDP layer (`ARCHITECTURE.md:45`) | the UDP gateway never calls the detector: a move sent as a datagram is allowed and acked unchecked |

The run of `ReplayGuardDeployed` has exact clocks, so the delay alone refutes it.

Read in the code, without a run: a request answered 502 (`proxy.py:109`) is not in
`REQUEST_COUNTER`, which `metrics.py:5` calls the total number of requests
(`CountersAgree` has that exception); `current_rate` (`rate_limiter.py:62`) is negative
after a rule with a limit above the default; `retention_days` (`audit_log.py:14`) is
stored and never used, only the number of entries is limited. And further:

* a rule's limit is called per second in the editor (`RuleManager.jsx:53`, `:66`) but is
  the capacity of the bucket, a burst: the refill stays 5/s (`rate_limiter.py:53`);
* features are stored under `X-Client-Id` (`proxy.py:85`) and read under the client's
  address (`proxy.py:38`), so a client that sends the header is not learnt from, where
  `ARCHITECTURE.md:70-71` has the retrainer use all traffic. `ModelIsRetrained` is about
  the rows that can be found; in its run one client sends a name;
* events are published inside the request (`proxy.py:142-143`): if Redis fails there, the
  answer is 500 after upstream has run the request;
* `joblib.dump` writes the model in place: a process killed inside it cannot start again;
* a message stamped NaN passes the timestamp check at any time, since `drift > window`
  (`replay_guard.py:18-20`) is false for it and neither `float(timestamp_header)`
  (`proxy.py:66`) nor the codec (`packet_codec.py:13`) refuses it. Only its nonce stops it,
  so it is accepted again after every TTL, against `README.md:21`; the properties on
  at-most-once have that exception (`Repeatable`, or `TimedMessages`), `OncePerNonceLife` has not;
* the key of a nonce (`replay_guard.py:14`) does not tell client `a:b` with nonce `c` from
  client `a` with nonce `b:c`, so one may be answered `nonce_reused` for the other's nonce
  (`NoFalseReuse` has that exception);
* `expires_at` of a ban is by the replica's clock, its TTL by Redis's (`blacklist.py:29-41`), so a
  ban may end before or after the time shown to administrators (`AdvertisedExpiry`);
* a rule may have a negative limit (`main.py:115`), which clamps the bucket below zero;
* an alert that Slack does not take still starts the cooldown (`alerting.py:33`), and each
  replica counts only its own blocks although the gateway is called stateless
  (`ARCHITECTURE.md:61`);
* a block by the UDP or the WebSocket gateway is not in alerts and reports: they broadcast
  an event and do neither `record_block` nor `record_event`.

## 5. Proofs

The theorems hold for any sets of clients, callers, messages and deliveries and any
values of the constants that satisfy the named assumptions.

**Token bucket.** Assumptions: `BucketAssumption` (types, capacities bounded by
`MaxCapacity`) and `ExpiryCoversRefill` (a bucket that stays idle for its TTL would
have filled up, skew and delay subtracted; deployed: 18000 tokens against 20, or against
the largest limit of a rule). Limits are natural numbers; negative ones break `NoDebt`.
`SlidingLimit` alone is not inductive. `BucketInv` adds

* `CallsInTime`: a call in flight read its clock recently;
* `NoDebt`: at its last run, refilled to Redis's clock plus the skew, a bucket is
  not negative: an old `now` takes back at most what a later one gave;
* `GrantsArePaid`: for each grant, what the bucket holds now is at most a full
  bucket, less one token for it and for each later grant, plus the refill since its
  reading. This telescopes over the scripts in whatever order they run, and with a
  token needed for the next grant it gives `SlidingLimit`. On expiry the bucket
  starts full, and `ExpiryCoversRefill` with `NoDebt` pays for that.
* `GrantsInTime`: readings and run times differ by skew and delay, from which
  `RealTimeLimit` follows.

Theorems: `TypeCorrect`, `Accounting`, `Limited`, `LimitedInRealTime`.

**Replay guard.** Assumption: `GuardAssumption` (types). `GuardInv` adds to the types
`CallsInTime` (a call in flight was in the window when it read its clock, if its message
has a time), `NonceKept` (the nonce of a message accepted n times has had n full lives when
it expires and, if the message has a time, expires no earlier than
`ts - Window - MaxSkew + NonceTTL`) and `NonceSpent` (an existing nonce was spent).
`Guarded`, `TypeCorrect`, `ReuseIsReal`, `InWindowOnly` and `OneAcceptancePerLife`, the last
for messages with and without a time, hold for every TTL.
`ImplementsAtMostOnce` and `AtMostOneAcceptance` speak of messages that have a time, or until the
first nonce can have expired, and have the hypothesis
`NonceCoversWindow`, `NonceTTL >= 2*Window + 2*MaxSkew + MaxDelay`: then any SET
that runs for a message accepted before runs no later than
`ts + Window + MaxSkew + MaxDelay`, when the nonce still exists (`FirstAcceptance`).
The deployed values satisfy it only with neither skew nor delay, which the run
`ReplayGuardDeployed` shows to matter.

**Cheat detector.** Assumption: `CheatAssumption` (types). `HonestMoversNotAccused` is not
inductive: an accusation is computed from the last position. `CheatInv` adds to the
types `LastIsOwn`, the last position is one of the player's own packets with its own
timestamp, so that the two packets compared are a pair `HonestMover` speaks of
(`SpeedingIsDishonest`). Theorems: `Detector`, `HonestMoversPass`.

**Packet gateways.** Assumption: `PacketAssumption`. The components are not proved again: a
step of the composition is a step of the replay guard and of the detectors or
leaves them alone (`GuardStep`, `DetectorStep`), so `GuardInv` and `CheatInv` hold by the
lemmas of their own proof modules, taken with `INSTANCE` (`SameGuard` and `SameDetector` say
that both instances define the same). That gives `HonestMoversPass`. For `JudgedOnce`,
`VerdictInv` adds `SetsMatch`, a pending SET is about its delivery's packet,
`JudgedWasAccepted`, a judged packet was counted in `accepted`, and
`JudgedTwiceWasTwiceAccepted`, two judged deliveries of a packet were counted twice. The
guard's `AtMostOneAcceptance` (`AcceptingGateways`) then gives, under `NonceCoversWindow`,
that the packet is `Repeatable`.
`AcksAreFinal` and `MacrosAreOvertakings` rest on that and on `AckInv`: a delivery is
decided once, before its broadcast (`DecidedOnce`), acked after it (`AckedWhenDone`), and
all a detector signals or remembers came by WebSocket and was judged (`SignalsJudged`,
`PayloadsJudged`). An acked datagram is judged itself, so no other delivery of its packet
reached a detector; and the remembered sample that makes a macro of a slow repeater's
packet is of another packet, at least the interval away, and not before it.

**Session window.** Assumption: `FloodAssumption`. `SessionsBounded` speaks of what passed,
the check of what is in the deque. `FloodInv` adds `PassedInDeque`: what passed within
the window of now is still in the deque, so the check of the last registration
counts it. For that the loop must not remove an event inside the window, which
holds without the order, and the order gives the types (`KeptEvents`). `FloodStep` shows
what a step of the gateways does to the windows, which gives `SessionsAreBounded` and,
with the invariants of the guard and the detectors, `TypeCorrect`.

**Blacklist.** Assumption: `BlacklistAssumption` (types, a threshold of at least 1). The
operations overlap, so what the properties say has to be known of the operations under
way as well. `BlacklistInv` adds `StepsInTime` (an operation waits at most `MaxDelay`,
and a violation whose EXPIRE is awaited was not recorded after the last one),
`CountersInTime` (a counter with a TTL does not outlive the last violation by more than
the TTL and the delay, so a counter still there continues its row), `LatestExpires`
(the EXPIRE awaited of a counter without a TTL is that of its last count),
`BannedSince` (a violation about to renew a counter at the threshold finds the address
banned since) and `Advertised`. Theorems: `Blacklisted` and one for each of the five
properties.

**Administration.** Assumption: `AdminAssumption`. `AdminInv` adds to the types
`LogIsRecent` and `LoggedInTime` (the entries that are left are the newest, and a request
past its LPUSH is among the logged), `TargetsAreProper` (no two
requests create one rule, and only created rules are deleted) and `RulesAreCreated` (the
rules are those created and not deleted). Theorems: `TypeCorrect`, `LogExplainsRules`,
`AnswersAreLogged`, `LogStaysBounded`.

**Gateway.** Assumption: `GatewayAssumption`, which contains those of the three components
and has the requests finite, no request an administrator and 0 (no override) among the
overrides. As with the packet gateways the components are not proved again: every step of
the pipeline is a step of the bucket, of the guard and of the blacklist, or leaves them
alone (`LimiterStep`, `GuardStep`, `BlacklistStep`), so with `Flow`, the types and what
an await says of the message and the rules left, `ComposedInv` holds (`Composed`). On it rest

* `BansAreRespected`: `CheckedInv` adds the awaits that only a checked request comes to,
  and that checks lie in the past; a ban set later expires a TTL after its SET.
* `OneReachesUpstream`: `OnceInv` says that a pending SET is about its request's message
  (`SetsMatch`), that the message of a request past the guard was accepted
  (`PastWereAccepted`) and that of two such requests was accepted twice
  (`PastTwiceWasTwiceAccepted`); with the guard's at-most-once (`AcceptingProxy`), which has
  the hypothesis `NonceCoversWindow`, such a message is `Repeatable`.
* `UpstreamIsLimited`: `PaidInv` keeps an injection of the forwarded requests into the
  bucket's grants, which `SlidingLimit` bounds between any two of them.
* `StrikesLeadToBan`: `StrikeInv` counts with the strikes of a client the recordings that
  will not ban it (`Low`): each has a count of its own below the threshold, so there are
  at most as many as the counter says (`FewStrikes`); `Remembered` says that within the
  first TTL no ban and no counter goes away but by an unban.
* `CountersAreExact`: its first two parts are inductive (`Tallies`); the third needs that
  upstream received every request with the verdict allowed (`AllowedWasForwarded`).
* `TypeCorrect`, for which the counters are at most the number of requests.

**Observers.** Assumption: `ObserversAssumption` (types; the sockets are finitely many, as
the dashboards that ever connect are). `ObserversInv` has a part for each component and
one for the requests; a lemma per component says which of its actions a step of the
process takes, with which awaits (`BroadcastEffect`, `AlertEffect`, `StoreEffect`,
`TrainerEffect`, `LogEffect`, `PcEffect`), so each part is shown inductive over its own
actions.

* `BroadcastsSendOnce` and `OnlySkippedAreMissed`. Neither property is inductive: both
  need to know where in the list the dashboards are that a broadcast has reached.
  `SendFits` says that none of them is ahead of the index, and that the index is at most
  the number of the reached that are still connected plus the removals behind it. So the
  next socket is a new one, and what lies behind the index without having been reached
  was skipped. A removal moves the list up while the index stays: by `Ranks` those who
  stay take places no later than before, one each (`RemovalList`), and the reached lose
  no more than were removed behind the index (`RemovalReached`). The last part of
  `SendFits`, removals, list and dashboards still to come are no more than there are
  sockets, bounds `skips` for the types.
* `AttacksAreReported`. `record_block` decides from a deque that it trims and from the
  last alert; the property speaks of all blocks ever recorded. `RecordedInOrder` says that
  the deque is the end of the blocks recorded and that those dropped are out of the
  window (`TrimmedBlocks`, for the `popleft` loop), so that the length of the deque is
  the number of blocks in the window (`RecordStep`). `AlertTypes` has the last alert
  remembered.
* `SummariesCorrect`. `LogIsRecent` says that the log is the newest part of what was
  pushed, at least `Limit` entries of it unless there are fewer, and `PushedInTime` that a
  request's event is pushed by its own LPUSH, once, before it is answered. An answered
  request is then in the log or pushed out by `Limit` others.
* `RowsBounded`, with `StoreTypes`: the property is inductive with the types.
* `TypeCorrect`, for which `SendsInBroadcast` says that only a request at the await of its
  broadcast is in one.

**Only model-checked**: the liveness properties `EveryRequestEnds`, `GoneIsRemoved` and
`ModelIsRetrained`, since fairness and ENABLED are outside the prover's reach. Every other
property of a passing run is stated by a theorem.

## 6. Not modelled, and the plan

Done: (1) token bucket, (2) replay guard with a refinement, (3) blacklist, (4) the gateway
composing them, (8) administration and audit log, (10) packet gateways with cheat
detector and session window; (6) broadcaster, (7) alerting, (9) feature store and
retrainer, composed in `Observers`; all of these with proofs, liveness by TLC. Left:

5. Rule engine: `match_rules` at the time of its read inside `Gateway` (a request's rules
   are a free choice now, which allows more), and the rule editor's refresh
   (`RuleManager.jsx:10`) with answers out of order. `toggle_rule` has no caller.

Theorems to prove next: that `Admin` and `Observers` implement a log that loses nothing
but its oldest entries, stated once for `BoundedLog` with the refinement.

Left out for good: the bytes of the packet codec, session tokens, mTLS and RBAC's token
format (stateless encoding and cryptography); the scores of the isolation forest and the
autoencoder (floating-point models, represented by a free vote); logging and
tracing; deployment files and scripts. Requests reach `Gateway` with a valid session token.
Within the modelled parts, left out are the texts of reasons and answers and the
sizes and names carried by events; a transparently repeated EVALSHA after a
missing script has no effect before the script runs, and redis-py 5.0.8 repeats no
command on its own.
