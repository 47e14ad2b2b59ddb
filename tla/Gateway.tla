------------------------------- MODULE Gateway -------------------------------
(***************************************************************************)
(* GatewayProxy.handle_request of app/proxy.py, composed with the token    *)
(* bucket, the replay guard and the blacklist it calls.                    *)
(*                                                                         *)
(* Each request is a coroutine that runs from one await to the next; the   *)
(* requests of all replicas and the administrators' bans interleave there. *)
(* Rules, countries, anomaly scores and the upstream server's behaviour    *)
(* are chosen freely.  Requests without a valid session token are answered *)
(* by auth_middleware and never come here.                                 *)
(***************************************************************************)
EXTENDS Integers, Sequences, FiniteSets

CONSTANTS
  Requests,   \* requests, each handled once
  Admins,     \* administrators calling ban_ip and unban_ip
  ClientOf,   \* the client address of each request
  MsgOf,      \* the message (client id, nonce, timestamp) of each request
  NoMsg,      \* a request without X-Nonce or X-Timestamp
  RuleLists,  \* what match_rules may return: sequences of rules
  NoLimit,    \* max_requests_per_sec is None
  Clients, Capacity, Overrides, MaxCapacity, Unit, Refill, BucketTTL,
  Messages, Parts, NaN, Window, NonceTTL,
  MaxViolations, BlacklistTTL, MaxStreak,
  MaxSkew, MaxDelay, MaxTime, NoCall

VARIABLES
  clock,
  bucket, scripts, granted,                           \* the rate limiter
  nonces, sets, accepted, burnt, reused,              \* the replay guard
  violations, bans, proc, streak, lostExpire, lostBan, \* the blacklist
  pc,         \* the await each request is at, or how it ended
  todo,       \* the matched rules still to apply to each request
  verdict,    \* the ActionType of each request's event
  counted,    \* REQUEST_COUNTER, by action
  blocked,    \* BLOCKED_REQUESTS_COUNTER, by reason
  checked,    \* history: when each request passed the blacklist check
  paid,       \* history: the reading of each request's general allow()
  forwarded,  \* history: requests that reached the upstream server
  lifted      \* history: clients that an administrator called unban_ip for

limiterVars == <<bucket, scripts, granted>>
guardVars == <<nonces, sets, accepted, burnt, reused>>
blacklistVars == <<violations, bans, proc, streak, lostExpire, lostBan>>
counterVars == <<counted, blocked>>
historyVars == <<checked, paid, forwarded>>
vars == <<clock, limiterVars, guardVars, blacklistVars, pc, todo, verdict,
          counterVars, historyVars, lifted>>

RL == INSTANCE TokenBucket WITH Callers <- Requests, call <- scripts
RG == INSTANCE ReplayGuard WITH Callers <- Requests, call <- sets
BL == INSTANCE Blacklist WITH IPs <- Clients, Workers <- Requests \cup Admins,
                              NoProc <- NoCall

Rule == [limit : Overrides \cup {NoLimit}, blocks : BOOLEAN]

ASSUME GatewayAssumption ==
  /\ RL!BucketAssumption /\ RL!ExpiryCoversRefill
  /\ RG!GuardAssumption /\ BL!BlacklistAssumption
  /\ IsFiniteSet(Requests) /\ Requests \cap Admins = {}
  /\ ClientOf \in [Requests -> Clients]
  /\ MsgOf \in [Requests -> Messages \cup {NoMsg}] /\ NoMsg \notin Messages
  /\ 0 \in Overrides /\ RuleLists \subseteq Seq(Rule)

Actions == {"allowed", "rate_limited", "blacklisted", "anomaly_blocked",
            "replay_blocked", "geo_blocked"}
Awaiting == {"start", "match_rules", "rules", "rule", "replay", "limit", "allow", "score",
             "violation", "recording", "forward", "upstream", "emit", "record"}
Ended == {"answered", "bad_gateway", "failed"}

TypeOK ==
  /\ RL!TypeOK /\ RG!TypeOK /\ BL!TypeOK
  /\ pc \in [Requests -> Awaiting \cup Ended]
  /\ todo \in [Requests -> Seq(Rule)]
  /\ verdict \in [Requests -> Actions \cup {"none"}]
  /\ counted \in [Actions -> 0 .. Cardinality(Requests)]
  /\ blocked \in [Actions \ {"allowed"} -> 0 .. Cardinality(Requests)]
  /\ checked \in [Requests -> Int] /\ paid \in [Requests -> Int]
  /\ forwarded \subseteq Requests /\ lifted \subseteq Clients

Init ==
  /\ RL!Init /\ RG!Init /\ BL!Init
  /\ pc = [r \in Requests |-> "start"]
  /\ todo = [r \in Requests |-> <<>>]
  /\ verdict = [r \in Requests |-> "none"]
  /\ counted = [a \in Actions |-> 0]
  /\ blocked = [a \in Actions \ {"allowed"} |-> 0]
  /\ checked = [r \in Requests |-> -1]
  /\ paid = [r \in Requests |-> -1]
  /\ forwarded = {} /\ lifted = {}

Goto(r, next) == pc' = [pc EXCEPT ![r] = next]
Reject(r, action) == Goto(r, "emit") /\ verdict' = [verdict EXCEPT ![r] = action]

(***************************************************************************)
(* is_banned, then the GeoIP filter, which has no await.                   *)
(***************************************************************************)
CheckGeoOnly(r) ==
  /\ pc[r] = "start"
  /\ checked' = [checked EXCEPT ![r] = clock]
  /\ \/ Reject(r, "geo_blocked")
     \/ Goto(r, "match_rules") /\ UNCHANGED verdict
  /\ UNCHANGED <<clock, limiterVars, guardVars, blacklistVars, todo, counterVars, paid, forwarded>>

Check(r) ==
  /\ pc[r] = "start"
  /\ IF BL!IsBanned(ClientOf[r])
     THEN Reject(r, "blacklisted") /\ UNCHANGED checked
     ELSE /\ checked' = [checked EXCEPT ![r] = clock]
          /\ \/ Reject(r, "geo_blocked")
             \/ Goto(r, "match_rules") /\ UNCHANGED verdict
  /\ UNCHANGED <<clock, limiterVars, guardVars, blacklistVars, todo, counterVars, paid, forwarded>>

(***************************************************************************)
(* match_rules reads the rules in force.                                   *)
(***************************************************************************)
MatchRules(r) ==
  /\ pc[r] = "match_rules"
  /\ \E rules \in RuleLists : todo' = [todo EXCEPT ![r] = rules]
  /\ Goto(r, "rules")
  /\ UNCHANGED <<clock, limiterVars, guardVars, blacklistVars, verdict, counterVars, historyVars>>

(***************************************************************************)
(* The rest of a rule after its limit let the request pass: its countries. *)
(***************************************************************************)
PassLimit(r) ==
  /\ todo' = [todo EXCEPT ![r] = Tail(@)]
  /\ IF Head(todo[r]).blocks
     THEN Reject(r, "geo_blocked")
     ELSE Goto(r, "rules") /\ UNCHANGED verdict

(***************************************************************************)
(* The next rule: call allow() with its limit, if it has one.              *)
(***************************************************************************)
ApplyRule(r) ==
  /\ pc[r] = "rules" /\ todo[r] # <<>>
  /\ LET limit == Head(todo[r]).limit IN
     IF limit = NoLimit
     THEN PassLimit(r) /\ UNCHANGED <<clock, limiterVars>>
     ELSE RL!Allow(r, ClientOf[r], limit) /\ Goto(r, "rule") /\ UNCHANGED <<todo, verdict>>
  /\ UNCHANGED <<guardVars, blacklistVars, counterVars, historyVars>>

RuleReply(r) ==
  /\ pc[r] = "rule"
  /\ RL!RunScript(r)
  /\ IF RL!Allowed(r) THEN PassLimit(r) ELSE Reject(r, "rate_limited") /\ UNCHANGED todo
  /\ UNCHANGED <<guardVars, blacklistVars, counterVars, historyVars>>

EndRules(r) ==
  /\ pc[r] = "rules" /\ todo[r] = <<>>
  /\ Goto(r, IF MsgOf[r] = NoMsg THEN "limit" ELSE "replay")
  /\ UNCHANGED <<clock, limiterVars, guardVars, blacklistVars, todo, verdict, counterVars, historyVars>>

(***************************************************************************)
(* The replay guard, for requests with a nonce and a timestamp.            *)
(***************************************************************************)
Validate(r) ==
  /\ pc[r] = "replay"
  /\ \/ RG!Validate(r, MsgOf[r]) /\ UNCHANGED <<pc, verdict>>
     \/ /\ sets[r] = NoCall
        /\ \E skew \in -MaxSkew .. MaxSkew : RG!Drifts(clock + skew, MsgOf[r])
        /\ Reject(r, "replay_blocked")
        /\ UNCHANGED <<clock, guardVars>>
  /\ UNCHANGED <<limiterVars, blacklistVars, todo, counterVars, historyVars>>

ReplayReplyIgnored(r) ==
  /\ pc[r] = "replay"
  /\ RG!Reply(r)
  /\ Goto(r, "limit")
  /\ UNCHANGED <<limiterVars, blacklistVars, todo, verdict, counterVars, historyVars>>

ReplayReply(r) ==
  /\ pc[r] = "replay"
  /\ RG!Reply(r)
  /\ IF RG!Exists(RG!KeyOf(MsgOf[r]))
     THEN Reject(r, "replay_blocked")
     ELSE Goto(r, "limit") /\ UNCHANGED verdict
  /\ UNCHANGED <<limiterVars, blacklistVars, todo, counterVars, historyVars>>

(***************************************************************************)
(* The general limit, on the same bucket as the rules' limits.             *)
(***************************************************************************)
Allow(r) ==
  /\ pc[r] = "limit"
  /\ RL!Allow(r, ClientOf[r], 0)
  /\ Goto(r, "allow")
  /\ UNCHANGED <<guardVars, blacklistVars, todo, verdict, counterVars, historyVars>>

AllowReplyIgnored(r) ==
  /\ pc[r] = "allow"
  /\ RL!RunScript(r)
  /\ paid' = [paid EXCEPT ![r] = scripts[r].now] /\ Goto(r, "score") /\ UNCHANGED verdict
  /\ UNCHANGED <<guardVars, blacklistVars, todo, counterVars, checked, forwarded>>

AllowReply(r) ==
  /\ pc[r] = "allow"
  /\ RL!RunScript(r)
  /\ IF RL!Allowed(r)
     THEN /\ paid' = [paid EXCEPT ![r] = scripts[r].now]
          /\ Goto(r, "score") /\ UNCHANGED verdict
     ELSE /\ verdict' = [verdict EXCEPT ![r] = "rate_limited"]
          /\ Goto(r, "violation") /\ UNCHANGED paid
  /\ UNCHANGED <<guardVars, blacklistVars, todo, counterVars, checked, forwarded>>

(***************************************************************************)
(* The ensemble's vote, with the append to the feature store that both     *)
(* outcomes wait for.                                                      *)
(***************************************************************************)
Score(r) ==
  /\ pc[r] = "score"
  /\ \/ /\ verdict' = [verdict EXCEPT ![r] = "anomaly_blocked"]
        /\ Goto(r, "violation")
     \/ Goto(r, "forward") /\ UNCHANGED verdict
  /\ UNCHANGED <<clock, limiterVars, guardVars, blacklistVars, todo, counterVars, historyVars>>

(***************************************************************************)
(* record_violation, and the rejection that waits for it.                  *)
(***************************************************************************)
RecordViolation(r) ==
  /\ pc[r] = "violation"
  /\ BL!Incr(r, ClientOf[r])
  /\ Goto(r, "recording")
  /\ UNCHANGED <<limiterVars, guardVars, todo, verdict, counterVars, historyVars>>

ViolationStepStuck(r) ==
  /\ pc[r] = "recording"
  /\ BL!Expire(r)
  /\ IF proc'[r] = NoCall THEN Goto(r, "emit") ELSE UNCHANGED pc
  /\ UNCHANGED <<limiterVars, guardVars, todo, verdict, counterVars, historyVars>>

ViolationStep(r) ==
  /\ pc[r] = "recording"
  /\ BL!Expire(r) \/ BL!BeginBan(r) \/ BL!SetBan(r)
  /\ IF proc'[r] = NoCall THEN Goto(r, "emit") ELSE UNCHANGED pc
  /\ UNCHANGED <<limiterVars, guardVars, todo, verdict, counterVars, historyVars>>

(***************************************************************************)
(* The upstream call: the server answers, or httpx raises a RequestError,  *)
(* before the server has the request or (a timeout) after.                 *)
(***************************************************************************)
Forward(r) ==
  /\ pc[r] = "forward"
  /\ forwarded' = forwarded \cup {r}
  /\ Goto(r, "upstream")
  /\ UNCHANGED <<clock, limiterVars, guardVars, blacklistVars, todo, verdict, counterVars, checked, paid>>

UpstreamReply(r) ==
  /\ pc[r] = "upstream"
  /\ Goto(r, "emit")
  /\ verdict' = [verdict EXCEPT ![r] = "allowed"]
  /\ UNCHANGED <<clock, limiterVars, guardVars, blacklistVars, todo, counterVars, historyVars>>

UpstreamError(r) ==
  /\ pc[r] \in {"forward", "upstream"}
  /\ Goto(r, "bad_gateway")
  /\ UNCHANGED <<clock, limiterVars, guardVars, blacklistVars, todo, verdict, counterVars, historyVars>>

(***************************************************************************)
(* _emit_event counts the event once current_rate has returned, then waits *)
(* for the dashboard, the report log and Kafka; _reject then counts the    *)
(* block.                                                                  *)
(***************************************************************************)
EmitEvent(r) ==
  /\ pc[r] = "emit"
  /\ counted' = [counted EXCEPT ![verdict[r]] = @ + 1]
  /\ Goto(r, "record")
  /\ UNCHANGED <<clock, limiterVars, guardVars, blacklistVars, todo, verdict, blocked, historyVars>>

BlockCountedTwice(r) ==
  /\ pc[r] = "record"
  /\ Goto(r, "answered")
  /\ blocked' = IF verdict[r] = "allowed" THEN blocked
                ELSE [blocked EXCEPT ![verdict[r]] = @ + 2]
  /\ UNCHANGED <<clock, limiterVars, guardVars, blacklistVars, todo, verdict, counted, historyVars>>

Answer(r) ==
  /\ pc[r] = "record"
  /\ Goto(r, "answered")
  /\ blocked' = IF verdict[r] = "allowed" THEN blocked
                ELSE [blocked EXCEPT ![verdict[r]] = @ + 1]
  /\ UNCHANGED <<clock, limiterVars, guardVars, blacklistVars, todo, verdict, counted, historyVars>>

(***************************************************************************)
(* An await raises, or the request is cancelled: Redis may or may not have *)
(* run the command.                                                        *)
(***************************************************************************)
Fail(r) ==
  /\ pc[r] \in Awaiting
  /\ Goto(r, "failed")
  /\ IF scripts[r] # NoCall
     THEN RL!RunScript(r) \/ RL!Drop(r)
     ELSE UNCHANGED <<clock, limiterVars>>
  /\ IF sets[r] # NoCall
     THEN RG!ReplyLost(r) \/ RG!Drop(r)
     ELSE UNCHANGED <<clock, guardVars>>
  /\ IF proc[r] # NoCall
     THEN BL!Fail(r)
     ELSE UNCHANGED <<clock, blacklistVars>>
  /\ UNCHANGED <<todo, verdict, counterVars, historyVars>>

(***************************************************************************)
(* What a coroutine does next when nothing fails; an administrator's call. *)
(***************************************************************************)
Step(r) ==
  \/ Check(r) \/ MatchRules(r) \/ ApplyRule(r) \/ RuleReply(r) \/ EndRules(r)
  \/ Validate(r) \/ ReplayReply(r) \/ Allow(r) \/ AllowReply(r) \/ Score(r)
  \/ RecordViolation(r) \/ ViolationStep(r)
  \/ Forward(r) \/ UpstreamReply(r) \/ UpstreamError(r) \/ EmitEvent(r) \/ Answer(r)

Administer(a) ==
  /\ \/ \E c \in Clients :
          \/ BL!BanByAdmin(a, c) /\ UNCHANGED lifted
          \/ BL!Unban(a, c) /\ lifted' = lifted \cup {c}
     \/ (BL!SetBan(a) \/ BL!DelViolations(a) \/ BL!Fail(a)) /\ UNCHANGED lifted
  /\ UNCHANGED <<limiterVars, guardVars, pc, todo, verdict, counterVars, historyVars>>

Tick ==
  /\ RL!Tick /\ RG!Tick /\ BL!Tick
  /\ UNCHANGED <<pc, todo, verdict, counterVars, historyVars, lifted>>

Next ==
  \/ \E r \in Requests : (Step(r) \/ Fail(r)) /\ UNCHANGED lifted
  \/ \E a \in Admins : Administer(a)
  \/ Tick

Spec == Init /\ [][Next]_vars

(***************************************************************************)
(* The event loop resumes every coroutine whose await has completed, and   *)
(* Redis and the upstream server answer or their clients raise.            *)
(***************************************************************************)
FairSpec == Spec /\ \A r \in Requests : WF_vars(Step(r) /\ UNCHANGED lifted)

-----------------------------------------------------------------------------
(***************************************************************************)
(* While no ban was lifted or has expired, a client that was told of       *)
(* MaxViolations violations, by the general limit or the ensemble, on      *)
(* whatever replicas, is banned: no violation is lost between concurrent   *)
(* requests.  A request stopped by a rule is no violation; it still has    *)
(* that rule in todo.                                                      *)
(***************************************************************************)
Strikes(c) == {r \in Requests : /\ ClientOf[r] = c /\ todo[r] = <<>>
                                /\ verdict[r] \in {"rate_limited", "anomaly_blocked"}
                                /\ pc[r] \in {"emit", "record", "answered"}}
StrikesBan ==
  clock <= BlacklistTTL =>
    \A c \in Clients \ lifted : Cardinality(Strikes(c)) >= MaxViolations => BL!IsBanned(c)

(***************************************************************************)
(* The requests of one client that reach the upstream server are at most a *)
(* full bucket plus the refill between the readings of two of them,        *)
(* whatever rules, failures and other requests do to the bucket.           *)
(***************************************************************************)
UpstreamLimit ==
  \A c \in Clients : \A S \in SUBSET {r \in forwarded : ClientOf[r] = c} :
    S # {} => \E r, s \in S :
      Unit * Cardinality(S) <= MaxCapacity * Unit + Refill * (paid[r] - paid[s])

(***************************************************************************)
(* Two requests that carry the same message never both reach the upstream  *)
(* server (README.md:21), for constants with RG!NonceCoversWindow, unless  *)
(* the message has no time and its nonce has had the time to expire.       *)
(***************************************************************************)
UpstreamOnce ==
  \A r, s \in forwarded :
    r # s /\ MsgOf[r] # NoMsg /\ MsgOf[r] = MsgOf[s] => RG!Repeatable(MsgOf[r])

(***************************************************************************)
(* A request is let through, and reaches the upstream server, only if it   *)
(* was checked, and a ban now in force on its client was set no earlier    *)
(* than that check: is_banned is stale only against later bans.            *)
(***************************************************************************)
BanStopsLaterRequests ==
  \A r \in Requests :
    /\ r \in forwarded => checked[r] >= 0
    /\ checked[r] >= 0 /\ BL!IsBanned(ClientOf[r])
         => bans[ClientOf[r]].expires - BlacklistTTL >= checked[r]

(***************************************************************************)
(* The two Prometheus counters agree, action by action: each block was     *)
(* counted as an event first, and an event lacks its block only while the  *)
(* reports wait, or if they failed; each answer was counted once, except   *)
(* the 502 of proxy.py:109, and nothing but answers and failures was; the  *)
(* allowed events are requests the upstream received.                      *)
(***************************************************************************)
Reached(a, ends) == Cardinality({r \in Requests : verdict[r] = a /\ pc[r] \in ends})
CountersAgree ==
  /\ \A a \in Actions \ {"allowed"} :
       /\ Reached(a, {"record"}) <= counted[a] - blocked[a]
       /\ counted[a] - blocked[a] <= Reached(a, {"record", "failed"})
  /\ \A a \in Actions :
       /\ Reached(a, {"record", "answered"}) <= counted[a]
       /\ counted[a] <= Reached(a, {"record", "answered", "failed"})
  /\ counted["allowed"] <= Cardinality(forwarded)

(***************************************************************************)
(* Every request is answered, or fails: no path of the pipeline waits for  *)
(* another request.                                                        *)
(***************************************************************************)
EveryRequestEnds == \A r \in Requests : <>(pc[r] \in Ended)

(***************************************************************************)
(* A rule limits the requests to an endpoint to max_requests_per_sec       *)
(* (ARCHITECTURE.md:41): a client that sends no more requests than the     *)
(* limits of its rules and the capacity is not rate limited.               *)
(***************************************************************************)
WithinLimits(c) ==
  /\ Cardinality({r \in Requests : ClientOf[r] = c}) <= Capacity
  /\ \A l \in RuleLists : \A i \in 1 .. Len(l) :
       l[i].limit = NoLimit \/ l[i].limit >= Cardinality({r \in Requests : ClientOf[r] = c})

RuleAdmitsItsLimit ==
  \A r \in Requests : WithinLimits(ClientOf[r]) => verdict[r] # "rate_limited"
=============================================================================
