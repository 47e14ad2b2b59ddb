----------------------------- MODULE GatewayProofs -----------------------------
(***************************************************************************)
(* Proofs about the proxy, for any requests, clients, rules and values of  *)
(* the constants that satisfy GatewayAssumption: what the token bucket,    *)
(* the replay guard and the blacklist guarantee, carried over to the       *)
(* pipeline that calls them, and the pipeline's own properties.            *)
(***************************************************************************)
EXTENDS Gateway, FiniteSetTheorems, TLAPS

RLP == INSTANCE TokenBucketProofs WITH Callers <- Requests, call <- scripts
RGP == INSTANCE ReplayGuardProofs WITH Callers <- Requests, call <- sets
BLP == INSTANCE BlacklistProofs WITH IPs <- Clients, Workers <- Requests \cup Admins,
                                     NoProc <- NoCall

(***************************************************************************)
(* RLP, RGP and BLP are the components of Gateway, with the theorems about *)
(* them.                                                                   *)
(***************************************************************************)
LEMMA SameLimiter ==
  /\ RLP!BucketAssumption /\ RLP!ExpiryCoversRefill
  /\ RL!Init => RLP!Init
  /\ [RL!Next]_(RL!vars) => [RLP!Next]_(RLP!vars)
<1>1. RLP!BucketAssumption /\ RLP!ExpiryCoversRefill
  BY GatewayAssumption DEF RL!BucketAssumption, RLP!BucketAssumption, RL!ExpiryCoversRefill,
       RLP!ExpiryCoversRefill, RL!CapacityFor, RLP!CapacityFor, RL!Call, RLP!Call
<1>2. RL!Init => RLP!Init
  BY DEF RL!Init, RLP!Init, RL!NoBucket, RLP!NoBucket
<1>3. RL!Next => RLP!Next
  BY DEF RL!Next, RLP!Next, RL!Allow, RLP!Allow, RL!CapacityFor, RLP!CapacityFor,
         RL!RunScript, RLP!RunScript, RL!Tokens, RLP!Tokens, RL!Allowed, RLP!Allowed,
         RL!Refilled, RLP!Refilled, RL!Exists, RLP!Exists, RL!RenewedExpiry,
         RLP!RenewedExpiry, RL!Drop, RLP!Drop, RL!Tick, RLP!Tick
<1>4. [RL!Next]_(RL!vars) => [RLP!Next]_(RLP!vars)
  BY <1>3 DEF RL!vars, RLP!vars
<1> QED BY <1>1, <1>2, <1>3, <1>4

LEMMA SameScript ==
  \A r \in Requests :
    /\ RL!RunScript(r) => RLP!RunScript(r)
    /\ RL!Allowed(r) <=> RLP!Allowed(r)
BY DEF RL!RunScript, RLP!RunScript, RL!Tokens, RLP!Tokens, RL!Allowed, RLP!Allowed,
       RL!Refilled, RLP!Refilled, RL!Exists, RLP!Exists, RL!RenewedExpiry, RLP!RenewedExpiry

LEMMA SameGuard ==
  /\ RGP!GuardAssumption
  /\ RG!Init => RGP!Init
  /\ [RG!Next]_(RG!vars) => [RGP!Next]_(RGP!vars)
  /\ RG!NonceCoversWindow => RGP!NonceCoversWindow
  /\ RGP!NoSecondAcceptance => RG!NoSecondAcceptance
<1>1. RGP!GuardAssumption
  BY GatewayAssumption DEF RG!GuardAssumption, RGP!GuardAssumption, RG!Call, RGP!Call
<1>2. RG!Init => RGP!Init
  BY DEF RG!Init, RGP!Init, RG!Keys, RGP!Keys, RG!KeyOf, RGP!KeyOf
<1>3. RG!Next => RGP!Next
  BY DEF RG!Next, RGP!Next, RG!Validate, RGP!Validate, RG!Reply, RGP!Reply, RG!ReplyLost,
         RGP!ReplyLost, RG!Drop, RGP!Drop, RG!Tick, RGP!Tick, RG!Drifts, RGP!Drifts,
         RG!Timed, RGP!Timed, RG!SetNX, RGP!SetNX, RG!Exists, RGP!Exists, RG!KeyOf, RGP!KeyOf
<1>4. [RG!Next]_(RG!vars) => [RGP!Next]_(RGP!vars)
  BY <1>3 DEF RG!vars, RGP!vars
<1>5. RG!NonceCoversWindow => RGP!NonceCoversWindow
  BY DEF RG!NonceCoversWindow, RGP!NonceCoversWindow
<1>6. RGP!NoSecondAcceptance => RG!NoSecondAcceptance
  BY DEF RG!NoSecondAcceptance, RGP!NoSecondAcceptance, RG!Repeatable, RGP!Repeatable,
         RG!Timed, RGP!Timed
<1> QED BY <1>1, <1>2, <1>3, <1>4, <1>5, <1>6

LEMMA SameBlacklist ==
  /\ BLP!BlacklistAssumption
  /\ BL!Init => BLP!Init
  /\ [BL!Next]_(BL!vars) => [BLP!Next]_(BLP!vars)
<1>1. BLP!BlacklistAssumption
  BY GatewayAssumption DEF BL!BlacklistAssumption, BLP!BlacklistAssumption, BL!Proc, BLP!Proc
<1>2. BL!Init => BLP!Init
  BY DEF BL!Init, BLP!Init
<1>3. ASSUME NEW w \in Requests \cup Admins, NEW ip \in Clients
      PROVE  /\ BL!Incr(w, ip) => BLP!Incr(w, ip)
             /\ BL!BanByAdmin(w, ip) => BLP!BanByAdmin(w, ip)
             /\ BL!Unban(w, ip) => BLP!Unban(w, ip)
  BY DEF BL!Incr, BLP!Incr, BL!BanByAdmin, BLP!BanByAdmin, BL!Unban, BLP!Unban,
         BL!Counted, BLP!Counted, BL!Exists, BLP!Exists, BL!Forever, BLP!Forever
<1>4. ASSUME NEW w \in Requests \cup Admins
      PROVE  /\ BL!Expire(w) => BLP!Expire(w)
             /\ BL!BeginBan(w) => BLP!BeginBan(w)
             /\ BL!SetBan(w) => BLP!SetBan(w)
             /\ BL!DelViolations(w) => BLP!DelViolations(w)
             /\ BL!Fail(w) => BLP!Fail(w)
  BY DEF BL!Expire, BLP!Expire, BL!BeginBan, BLP!BeginBan, BL!SetBan, BLP!SetBan,
         BL!DelViolations, BLP!DelViolations, BL!Fail, BLP!Fail, BL!At, BLP!At,
         BL!Goto, BLP!Goto, BL!Return, BLP!Return, BL!AtThreshold, BLP!AtThreshold,
         BL!Entry, BLP!Entry, BL!Exists, BLP!Exists
<1>5. BL!Tick => BLP!Tick
  BY DEF BL!Tick, BLP!Tick
<1>6. BL!Next => BLP!Next
  BY <1>3, <1>4, <1>5 DEF BL!Next, BLP!Next
<1>7. [BL!Next]_(BL!vars) => [BLP!Next]_(BLP!vars)
  BY <1>6 DEF BL!vars, BLP!vars
<1> QED BY <1>1, <1>2, <1>6, <1>7

-----------------------------------------------------------------------------
(***************************************************************************)
(* Types of the pipeline, and what a request's await says of its message   *)
(* and of the rules left.                                                  *)
(***************************************************************************)
Flow ==
  /\ pc \in [Requests -> Awaiting \cup Ended]
  /\ todo \in [Requests -> Seq(Rule)]
  /\ verdict \in [Requests -> Actions \cup {"none"}]
  /\ forwarded \subseteq Requests
  /\ \A r \in Requests : /\ pc[r] = "replay" => MsgOf[r] # NoMsg
                         /\ pc[r] = "rule" => todo[r] # <<>>

(***************************************************************************)
(* The head of a list of rules, and what is left of it.                    *)
(***************************************************************************)
LEMMA RulesLeft ==
  ASSUME NEW rules \in Seq(Rule), rules # <<>>
  PROVE  /\ Head(rules) \in Rule /\ Tail(rules) \in Seq(Rule)
         /\ Head(rules).limit # NoLimit => Head(rules).limit \in Overrides
<1>1. Head(rules) \in Rule /\ Tail(rules) \in Seq(Rule)
  OBVIOUS
<1> QED BY <1>1 DEF Rule

(***************************************************************************)
(* Every step of the pipeline is a step of the token bucket, or leaves it  *)
(* alone.                                                                  *)
(***************************************************************************)
LEMMA LimiterStep ==
  ASSUME Flow, [Next]_vars
  PROVE  [RL!Next]_(RL!vars)
<1>1. ASSUME NEW r \in Requests, ApplyRule(r)
      PROVE  [RL!Next]_(RL!vars)
  <2>1. Head(todo[r]).limit # NoLimit => Head(todo[r]).limit \in Overrides
    BY <1>1, RulesLeft DEF Flow, ApplyRule
  <2>2. ClientOf[r] \in Clients
    BY GatewayAssumption
  <2> QED BY <1>1, <2>1, <2>2 DEF ApplyRule, limiterVars, RL!vars, RL!Next
<1>2. ASSUME NEW r \in Requests, Allow(r)
      PROVE  [RL!Next]_(RL!vars)
  BY <1>2, GatewayAssumption DEF Allow, RL!Next
<1>3. ASSUME NEW r \in Requests, RuleReply(r) \/ AllowReply(r)
      PROVE  [RL!Next]_(RL!vars)
  BY <1>3 DEF RuleReply, AllowReply, RL!Next
<1>4. ASSUME NEW r \in Requests, Fail(r)
      PROVE  [RL!Next]_(RL!vars)
  BY <1>4 DEF Fail, RL!Next, RL!vars, limiterVars
<1>5. ASSUME NEW r \in Requests,
             \/ Check(r) \/ MatchRules(r) \/ EndRules(r) \/ Validate(r) \/ ReplayReply(r)
             \/ Score(r) \/ RecordViolation(r) \/ ViolationStep(r) \/ Forward(r)
             \/ UpstreamReply(r) \/ UpstreamError(r) \/ EmitEvent(r) \/ Answer(r)
      PROVE  UNCHANGED <<clock, limiterVars>>
  BY <1>5 DEF Check, MatchRules, EndRules, Validate, RG!Validate, ReplayReply, RG!Reply, Score,
       RecordViolation, BL!Incr, ViolationStep, BL!Expire, BL!BeginBan, BL!SetBan, Forward,
       UpstreamReply, UpstreamError, EmitEvent, Answer
<1>6. ASSUME NEW a \in Admins, Administer(a)
      PROVE  UNCHANGED <<clock, limiterVars>>
  BY <1>6 DEF Administer, BL!BanByAdmin, BL!Unban, BL!SetBan, BL!DelViolations, BL!Fail
<1>7. CASE Tick
  BY <1>7 DEF Tick, RL!Next
<1>8. CASE UNCHANGED vars
  BY <1>8 DEF vars, limiterVars, RL!vars
<1>9. CASE UNCHANGED <<clock, limiterVars>>
  BY <1>9 DEF limiterVars, RL!vars
<1> QED BY <1>1, <1>2, <1>3, <1>4, <1>5, <1>6, <1>7, <1>8, <1>9 DEF Next, Step

(***************************************************************************)
(* The same of the replay guard, whose calls are for the request's         *)
(* message.                                                                *)
(***************************************************************************)
LEMMA GuardStep ==
  ASSUME Flow, [Next]_vars
  PROVE  [RG!Next]_(RG!vars)
<1>1. ASSUME NEW r \in Requests, Validate(r)
      PROVE  [RG!Next]_(RG!vars)
  <2>1. MsgOf[r] \in Messages
    BY <1>1, GatewayAssumption DEF Flow, Validate
  <2> QED BY <1>1, <2>1 DEF Validate, guardVars, RG!vars, RG!Next
<1>2. ASSUME NEW r \in Requests, ReplayReply(r)
      PROVE  [RG!Next]_(RG!vars)
  BY <1>2 DEF ReplayReply, RG!Next
<1>3. ASSUME NEW r \in Requests, Fail(r)
      PROVE  [RG!Next]_(RG!vars)
  BY <1>3 DEF Fail, RG!Next, RG!vars, guardVars
<1>4. ASSUME NEW r \in Requests,
             \/ Check(r) \/ MatchRules(r) \/ ApplyRule(r) \/ RuleReply(r) \/ EndRules(r)
             \/ Allow(r) \/ AllowReply(r) \/ Score(r) \/ RecordViolation(r)
             \/ ViolationStep(r) \/ Forward(r) \/ UpstreamReply(r) \/ UpstreamError(r)
             \/ EmitEvent(r) \/ Answer(r)
      PROVE  UNCHANGED <<clock, guardVars>>
  BY <1>4 DEF Check, MatchRules, ApplyRule, RL!Allow, RuleReply, RL!RunScript, EndRules, Allow,
       AllowReply, Score, RecordViolation, BL!Incr, ViolationStep, BL!Expire, BL!BeginBan,
       BL!SetBan, Forward, UpstreamReply, UpstreamError, EmitEvent, Answer
<1>5. ASSUME NEW a \in Admins, Administer(a)
      PROVE  UNCHANGED <<clock, guardVars>>
  BY <1>5 DEF Administer, BL!BanByAdmin, BL!Unban, BL!SetBan, BL!DelViolations, BL!Fail
<1>6. CASE Tick
  BY <1>6 DEF Tick, RG!Next
<1>7. CASE UNCHANGED vars
  BY <1>7 DEF vars, guardVars, RG!vars
<1>8. CASE UNCHANGED <<clock, guardVars>>
  BY <1>8 DEF guardVars, RG!vars
<1> QED BY <1>1, <1>2, <1>3, <1>4, <1>5, <1>6, <1>7, <1>8 DEF Next, Step

(***************************************************************************)
(* The same of the blacklist, which requests and administrators use.       *)
(***************************************************************************)
LEMMA BlacklistStep ==
  ASSUME [Next]_vars
  PROVE  [BL!Next]_(BL!vars)
<1>1. ASSUME NEW r \in Requests, RecordViolation(r)
      PROVE  [BL!Next]_(BL!vars)
  BY <1>1, GatewayAssumption DEF RecordViolation, BL!Next
<1>2. ASSUME NEW r \in Requests, ViolationStep(r)
      PROVE  [BL!Next]_(BL!vars)
  BY <1>2 DEF ViolationStep, BL!Next
<1>3. ASSUME NEW r \in Requests, Fail(r)
      PROVE  [BL!Next]_(BL!vars)
  BY <1>3 DEF Fail, BL!Next, BL!vars, blacklistVars
<1>4. ASSUME NEW r \in Requests,
             \/ Check(r) \/ MatchRules(r) \/ ApplyRule(r) \/ RuleReply(r) \/ EndRules(r)
             \/ Validate(r) \/ ReplayReply(r) \/ Allow(r) \/ AllowReply(r) \/ Score(r)
             \/ Forward(r) \/ UpstreamReply(r) \/ UpstreamError(r) \/ EmitEvent(r) \/ Answer(r)
      PROVE  UNCHANGED <<clock, blacklistVars>>
  BY <1>4 DEF Check, MatchRules, ApplyRule, RL!Allow, RuleReply, RL!RunScript, EndRules,
       Validate, RG!Validate, ReplayReply, RG!Reply, Allow, AllowReply, Score, Forward,
       UpstreamReply, UpstreamError, EmitEvent, Answer
<1>5. ASSUME NEW a \in Admins, Administer(a)
      PROVE  [BL!Next]_(BL!vars)
  BY <1>5 DEF Administer, BL!Next
<1>6. CASE Tick
  BY <1>6 DEF Tick, BL!Next
<1>7. CASE UNCHANGED vars
  BY <1>7 DEF vars, blacklistVars, BL!vars
<1>8. CASE UNCHANGED <<clock, blacklistVars>>
  BY <1>8 DEF blacklistVars, BL!vars
<1> QED BY <1>1, <1>2, <1>3, <1>4, <1>5, <1>6, <1>7, <1>8 DEF Next, Step

(***************************************************************************)
(* A step of request r moves r alone, to an await, with a verdict.         *)
(***************************************************************************)
LEMMA FlowStep ==
  ASSUME Flow, [Next]_vars
  PROVE  Flow'
<1>1. ASSUME NEW r \in Requests, Step(r) \/ Fail(r)
      PROVE  /\ pc' \in [Requests -> Awaiting \cup Ended]
             /\ verdict' \in [Requests -> Actions \cup {"none"}]
             /\ forwarded' \subseteq Requests
             /\ \A s \in Requests \ {r} : pc'[s] = pc[s]
  BY <1>1 DEF Flow, Step, Fail, Awaiting, Ended, Actions, historyVars, Goto, Reject, PassLimit,
       Check, MatchRules, ApplyRule, RuleReply, EndRules, Validate, ReplayReply, Allow, AllowReply, Score,
       RecordViolation, ViolationStep, Forward, UpstreamReply, UpstreamError, EmitEvent, Answer
<1>2. ASSUME NEW r \in Requests, Step(r) \/ Fail(r)
      PROVE  /\ todo' \in [Requests -> Seq(Rule)]
             /\ \A s \in Requests \ {r} : todo'[s] = todo[s]
  <2>1. CASE PassLimit(r) /\ todo[r] # <<>>
    BY <2>1, RulesLeft DEF Flow, PassLimit
  <2>2. CASE MatchRules(r)
    BY <2>2, GatewayAssumption DEF Flow, MatchRules
  <2>3. CASE UNCHANGED todo
    BY <2>3 DEF Flow
  <2>4. ~(PassLimit(r) /\ todo[r] # <<>>) /\ ~MatchRules(r) => UNCHANGED todo
    BY <1>2 DEF Flow, Step, Fail, Check, ApplyRule, RuleReply, EndRules, Validate, ReplayReply,
         Allow, AllowReply, Score, RecordViolation, ViolationStep, Forward, UpstreamReply,
         UpstreamError, EmitEvent, Answer
  <2> QED BY <2>1, <2>2, <2>3, <2>4
<1>3. ASSUME NEW r \in Requests, Step(r) \/ Fail(r)
      PROVE  /\ pc'[r] = "replay" => MsgOf[r] # NoMsg
             /\ pc'[r] = "rule" => todo'[r] # <<>>
  BY <1>3 DEF Flow, Step, Fail, Goto, Reject, PassLimit, Check, MatchRules,
       ApplyRule, RuleReply, EndRules, Validate, ReplayReply, Allow, AllowReply, Score,
       RecordViolation, ViolationStep, Forward, UpstreamReply, UpstreamError, EmitEvent, Answer
<1>4. ASSUME NEW r \in Requests, Step(r) \/ Fail(r)
      PROVE  Flow'
  BY <1>1, <1>2, <1>3, <1>4 DEF Flow
<1>5. CASE (\E a \in Admins : Administer(a)) \/ Tick \/ UNCHANGED vars
  BY <1>5 DEF Flow, Administer, Tick, vars, historyVars
<1> QED BY <1>4, <1>5 DEF Next

(***************************************************************************)
(* The invariants of the three components hold in the pipeline.            *)
(***************************************************************************)
ComposedInv == Flow /\ RLP!BucketInv /\ RGP!GuardInv /\ BLP!BlacklistInv

LEMMA Composed == Spec => []ComposedInv
<1>1. Init => ComposedInv
  <2> SUFFICES ASSUME Init PROVE ComposedInv
    OBVIOUS
  <2>1. Flow
    BY DEF Init, Flow, Awaiting
  <2>2. RLP!BucketInv
    BY SameLimiter, RLP!InvInit DEF Init
  <2>3. RGP!GuardInv
    BY SameGuard, RGP!InvInit DEF Init
  <2>4. BLP!BlacklistInv
    BY SameBlacklist, BLP!BlacklistInit DEF Init
  <2> QED BY <2>1, <2>2, <2>3, <2>4 DEF ComposedInv
<1>2. ComposedInv /\ [Next]_vars => ComposedInv'
  <2> SUFFICES ASSUME ComposedInv, [Next]_vars PROVE ComposedInv'
    OBVIOUS
  <2>0. Flow
    BY DEF ComposedInv
  <2>1. RLP!BucketInv'
    BY <2>0, LimiterStep, SameLimiter, RLP!InvStep DEF ComposedInv
  <2>2. RGP!GuardInv'
    BY <2>0, GuardStep, SameGuard, RGP!InvStep DEF ComposedInv
  <2>3. BLP!BlacklistInv'
    BY BlacklistStep, SameBlacklist, BLP!BlacklistStep DEF ComposedInv
  <2> QED BY <2>0, <2>1, <2>2, <2>3, FlowStep DEF ComposedInv
<1> QED BY <1>1, <1>2, PTL DEF Spec

-----------------------------------------------------------------------------
(***************************************************************************)
(* BanStopsLaterRequests is inductive with the awaits that only a checked  *)
(* request comes to, and with checks that lie in the past.                 *)
(***************************************************************************)
PastCheck == {"match_rules", "rules", "rule", "replay", "limit", "allow", "score", "forward"}

CheckedInv ==
  /\ checked \in [Requests -> Int]
  /\ \A r \in Requests : /\ checked[r] <= clock
                         /\ pc[r] \in PastCheck => checked[r] >= 0
  /\ BanStopsLaterRequests

(***************************************************************************)
(* What a step does to a ban: nothing, or a SET, or a DEL.                 *)
(***************************************************************************)
LEMMA BanEffect ==
  ASSUME BLP!BlacklistInv, [Next]_vars
  PROVE  /\ clock' \in Nat /\ clock \in Nat /\ clock <= clock'
         /\ \A c \in Clients :
              bans'[c].expires \in {bans[c].expires, -1, clock + BlacklistTTL}
<1>1. clock \in Nat /\ bans \in [Clients -> BL!Ban]
  BY DEF BLP!BlacklistInv, BLP!TypeOK, BL!Ban, BLP!Ban
<1>2. [BL!Next]_(BL!vars)
  BY BlacklistStep
<1>3. clock' \in Nat /\ clock <= clock'
  <2>1. BL!Tick \/ UNCHANGED clock
    BY <1>2 DEF BL!Next, BL!vars, BL!Incr, BL!BanByAdmin, BL!Unban, BL!Expire, BL!BeginBan,
         BL!SetBan, BL!DelViolations, BL!Fail
  <2>2. clock' = clock + 1 \/ clock' = clock
    BY <2>1 DEF BL!Tick
  <2> QED BY <1>1, <2>2
<1>4. ASSUME NEW w \in Requests \cup Admins, BL!SetBan(w), NEW c \in Clients
      PROVE  bans'[c].expires \in {bans[c].expires, clock + BlacklistTTL}
  <2>1. bans'[c] = bans[c] \/ \E skew \in -MaxSkew .. MaxSkew : bans'[c] = BL!Entry(w, skew)
    BY <1>1, <1>4 DEF BL!SetBan
  <2>2. \A skew : BL!Entry(w, skew).expires = clock + BlacklistTTL
    BY DEF BL!Entry
  <2> QED BY <2>1, <2>2
<1>5. ASSUME NEW w \in Requests \cup Admins, NEW ip \in Clients, BL!Unban(w, ip), NEW c \in Clients
      PROVE  bans'[c].expires \in {bans[c].expires, -1}
  BY <1>1, <1>5 DEF BL!Unban
<1>6. \/ UNCHANGED bans
      \/ \E w \in Requests \cup Admins : BL!SetBan(w)
      \/ \E w \in Requests \cup Admins, ip \in Clients : BL!Unban(w, ip)
  BY <1>2 DEF BL!Next, BL!vars, BL!Incr, BL!BanByAdmin, BL!Expire, BL!BeginBan,
       BL!DelViolations, BL!Fail, BL!Tick
<1> QED BY <1>1, <1>3, <1>4, <1>5, <1>6

(***************************************************************************)
(* What a step does to the checks.                                         *)
(***************************************************************************)
LEMMA CheckEffect ==
  ASSUME Flow, checked \in [Requests -> Int], clock \in Int, [Next]_vars
  PROVE  /\ checked' \in [Requests -> Int]
         /\ \A r \in Requests :
              /\ \/ checked'[r] = checked[r]
                 \/ /\ checked'[r] = clock /\ ~BL!IsBanned(ClientOf[r])
                    /\ UNCHANGED <<clock, bans>>
              /\ pc'[r] \in PastCheck => pc[r] \in PastCheck \/ checked'[r] = clock
              /\ r \in forwarded' => r \in forwarded \/ pc[r] = "forward"
<1>1. ASSUME NEW r \in Requests, Check(r)
      PROVE  /\ checked' \in [Requests -> Int]
             /\ \A s \in Requests \ {r} : checked'[s] = checked[s] /\ pc'[s] = pc[s]
             /\ \/ checked'[r] = checked[r] /\ pc'[r] = "emit"
                \/ /\ checked'[r] = clock /\ ~BL!IsBanned(ClientOf[r])
                   /\ UNCHANGED <<clock, bans>>
             /\ UNCHANGED forwarded
  BY <1>1 DEF Flow, Check, Goto, Reject, blacklistVars
<1>2. ASSUME NEW r \in Requests, Step(r) \/ Fail(r), ~Check(r)
      PROVE  /\ UNCHANGED checked
             /\ forwarded' \subseteq forwarded \cup {s \in Requests : pc[s] = "forward"}
             /\ \A s \in Requests \ {r} : pc'[s] = pc[s]
             /\ pc'[r] \in PastCheck => pc[r] \in PastCheck
  BY <1>2 DEF Flow, Step, Fail, PastCheck, historyVars, Goto, Reject, PassLimit, MatchRules,
       ApplyRule, RuleReply, EndRules, Validate, ReplayReply, Allow, AllowReply, Score,
       RecordViolation, ViolationStep, Forward, UpstreamReply, UpstreamError, EmitEvent, Answer
<1>3. CASE (\E a \in Admins : Administer(a)) \/ Tick \/ UNCHANGED vars
  BY <1>3 DEF Administer, Tick, vars, historyVars
<1>4. CASE \E r \in Requests : Check(r)
  BY <1>1, <1>4 DEF PastCheck
<1>5. CASE \E r \in Requests : (Step(r) \/ Fail(r)) /\ ~Check(r)
  BY <1>2, <1>5
<1> QED BY <1>3, <1>4, <1>5 DEF Next

LEMMA CheckedStep ==
  ASSUME ComposedInv, CheckedInv, [Next]_vars
  PROVE  CheckedInv'
<1>1. /\ clock' \in Nat /\ clock \in Nat /\ clock <= clock' /\ BlacklistTTL \in Nat
      /\ \A c \in Clients :
           bans'[c].expires \in {bans[c].expires, -1, clock + BlacklistTTL}
  BY BanEffect, GatewayAssumption DEF ComposedInv, BL!BlacklistAssumption
<1>2. /\ checked' \in [Requests -> Int]
      /\ \A r \in Requests :
              /\ \/ checked'[r] = checked[r]
                 \/ /\ checked'[r] = clock /\ ~BL!IsBanned(ClientOf[r])
                    /\ UNCHANGED <<clock, bans>>
              /\ pc'[r] \in PastCheck => pc[r] \in PastCheck \/ checked'[r] = clock
              /\ r \in forwarded' => r \in forwarded \/ pc[r] = "forward"
  BY <1>1, CheckEffect DEF ComposedInv, CheckedInv
<1>3. \A c \in Clients : bans[c].expires \in Int
  BY DEF ComposedInv, BLP!BlacklistInv, BLP!TypeOK, BLP!Ban
<1>4. ASSUME NEW r \in Requests
      PROVE  /\ checked'[r] <= clock'
             /\ pc'[r] \in PastCheck => checked'[r] >= 0
             /\ r \in forwarded' => checked'[r] >= 0
             /\ checked'[r] >= 0 /\ clock' <= bans'[ClientOf[r]].expires
                  => bans'[ClientOf[r]].expires - BlacklistTTL >= checked'[r]
  <2> DEFINE c == ClientOf[r]
  <2>1. c \in Clients
    BY GatewayAssumption
  <2>2. /\ checked[r] \in Int /\ checked[r] <= clock
        /\ pc[r] \in PastCheck \/ r \in forwarded => checked[r] >= 0
        /\ checked[r] >= 0 /\ clock <= bans[c].expires
             => bans[c].expires - BlacklistTTL >= checked[r]
    BY DEF CheckedInv, BanStopsLaterRequests, BL!IsBanned, BL!Exists
  <2>3. pc[r] = "forward" => pc[r] \in PastCheck
    BY DEF PastCheck
  <2>4. CASE checked'[r] = checked[r]
    <3>1. bans'[c].expires \in {bans[c].expires, -1, clock + BlacklistTTL} /\ bans[c].expires \in Int
      BY <1>1, <1>3, <2>1
    <3>2. CASE bans'[c].expires = bans[c].expires
      BY <1>1, <1>2, <2>2, <2>3, <2>4, <3>1, <3>2
    <3>3. CASE bans'[c].expires = -1 \/ bans'[c].expires = clock + BlacklistTTL
      BY <1>1, <1>2, <2>2, <2>3, <2>4, <3>3
    <3> QED BY <3>1, <3>2, <3>3
  <2>5. CASE /\ checked'[r] = clock /\ ~BL!IsBanned(c) /\ UNCHANGED <<clock, bans>>
    BY <1>1, <1>3, <2>1, <2>5 DEF BL!IsBanned, BL!Exists
  <2> QED BY <1>2, <2>4, <2>5
<1>5. BanStopsLaterRequests'
  BY <1>4 DEF BanStopsLaterRequests, BL!IsBanned, BL!Exists
<1> QED BY <1>2, <1>4, <1>5 DEF CheckedInv

LEMMA CheckedInit == Init => CheckedInv
BY DEF Init, BL!Init, RL!Init, CheckedInv, BanStopsLaterRequests, PastCheck

(***************************************************************************)
(* is_banned (proxy.py:40) is stale only against bans set after it: no     *)
(* request gets past a ban that was in force when it was checked, and none *)
(* reaches the upstream server unchecked.                                  *)
(***************************************************************************)
THEOREM BansAreRespected == Spec => []BanStopsLaterRequests
<1>1. Init => CheckedInv
  BY CheckedInit
<1>2. ComposedInv /\ CheckedInv /\ [Next]_vars => CheckedInv'
  BY CheckedStep
<1>3. CheckedInv => BanStopsLaterRequests
  BY DEF CheckedInv
<1> QED BY <1>1, <1>2, <1>3, Composed, PTL DEF Spec

-----------------------------------------------------------------------------
(***************************************************************************)
(* A request is past the guard from its reply on, as many requests with a  *)
(* message as the guard accepted it times: the guard's own theorem bounds  *)
(* those.                                                                  *)
(***************************************************************************)
PastGuard(r) == r \in forwarded \/ pc[r] \in {"limit", "allow", "score", "forward"}

SetsMatch == \A r \in Requests : sets[r] # NoCall => sets[r].msg = MsgOf[r] /\ MsgOf[r] # NoMsg
PastWereAccepted ==
  \A r \in Requests : PastGuard(r) /\ MsgOf[r] # NoMsg => accepted[MsgOf[r]] > 0
PastTwiceWasTwiceAccepted ==
  \A r, s \in Requests :
    /\ r # s /\ PastGuard(r) /\ PastGuard(s) /\ MsgOf[r] # NoMsg /\ MsgOf[r] = MsgOf[s]
    => accepted[MsgOf[r]] > 1
OnceInv == SetsMatch /\ PastWereAccepted /\ PastTwiceWasTwiceAccepted

(***************************************************************************)
(* A request with a message gets past the guard only when the SET finds no *)
(* nonce.                                                                  *)
(***************************************************************************)
LEMMA PastEffect ==
  ASSUME Flow, [Next]_vars
  PROVE  \/ \A r \in Requests : PastGuard(r)' => PastGuard(r) \/ MsgOf[r] = NoMsg
         \/ \E r \in Requests : /\ RG!Reply(r) /\ ~RG!Exists(RG!KeyOf(MsgOf[r]))
                                /\ \A s \in Requests \ {r} : PastGuard(s)' => PastGuard(s)
<1>1. ASSUME NEW r \in Requests, Step(r) \/ Fail(r)
      PROVE  /\ \A s \in Requests \ {r} : pc'[s] = pc[s]
             /\ pc'[r] \in {"limit", "allow", "score", "forward"} =>
                  \/ pc[r] \in {"limit", "allow", "score"} \/ MsgOf[r] = NoMsg
                  \/ RG!Reply(r) /\ ~RG!Exists(RG!KeyOf(MsgOf[r]))
             /\ forwarded' = forwarded \/ (forwarded' = forwarded \cup {r} /\ pc[r] = "forward")
  <2>1. CASE ReplayReply(r)
    BY <2>1 DEF Flow, ReplayReply, historyVars, Goto, Reject
  <2>2. CASE EndRules(r)
    BY <2>2 DEF Flow, EndRules, historyVars, Goto
  <2>3. CASE Forward(r)
    BY <2>3 DEF Flow, Forward, Goto
  <2>4. CASE (Step(r) \/ Fail(r)) /\ ~ReplayReply(r) /\ ~EndRules(r) /\ ~Forward(r)
    BY <2>4 DEF Flow, Step, Fail, historyVars, Goto, Reject, PassLimit, Check, MatchRules,
         ApplyRule, RuleReply, Validate, Allow, AllowReply, Score, RecordViolation,
         ViolationStep, UpstreamReply, UpstreamError, EmitEvent, Answer
  <2> QED BY <1>1, <2>1, <2>2, <2>3, <2>4
<1>2. ASSUME NEW r \in Requests, Step(r) \/ Fail(r)
      PROVE  \/ \A s \in Requests : PastGuard(s)' => PastGuard(s) \/ MsgOf[s] = NoMsg
             \/ /\ RG!Reply(r) /\ ~RG!Exists(RG!KeyOf(MsgOf[r]))
                /\ \A s \in Requests \ {r} : PastGuard(s)' => PastGuard(s)
  BY <1>1, <1>2 DEF PastGuard
<1>3. CASE (\E a \in Admins : Administer(a)) \/ Tick \/ UNCHANGED vars
  BY <1>3 DEF Administer, Tick, vars, historyVars, PastGuard
<1> QED BY <1>2, <1>3 DEF Next

(***************************************************************************)
(* A call is set to the message of its request, or stays, or ends.         *)
(***************************************************************************)
LEMMA SetsStep ==
  ASSUME ComposedInv, SetsMatch, [Next]_vars
  PROVE  SetsMatch'
<1>1. sets \in [Requests -> RGP!Call \cup {NoCall}]
  BY DEF ComposedInv, RGP!GuardInv, RGP!TypeOK
<1>2. ASSUME NEW r \in Requests, Validate(r), RG!Validate(r, MsgOf[r])
      PROVE  SetsMatch'
  <2>1. MsgOf[r] # NoMsg
    BY <1>2 DEF ComposedInv, Flow, Validate
  <2>2. \A s \in Requests : sets'[s] = sets[s] \/ (s = r /\ sets'[s].msg = MsgOf[r])
    BY <1>1, <1>2 DEF RG!Validate
  <2> QED BY <2>1, <2>2 DEF SetsMatch
<1>3. ASSUME NEW r \in Requests, RG!Reply(r) \/ RG!ReplyLost(r) \/ RG!Drop(r)
      PROVE  SetsMatch'
  <2>1. \A s \in Requests : sets'[s] = sets[s] \/ sets'[s] = NoCall
    BY <1>1, <1>3 DEF RG!Reply, RG!ReplyLost, RG!Drop
  <2> QED BY <2>1 DEF SetsMatch
<1>4. CASE UNCHANGED sets
  BY <1>4 DEF SetsMatch
<1>5. \/ UNCHANGED sets
      \/ \E r \in Requests : Validate(r) /\ RG!Validate(r, MsgOf[r])
      \/ \E r \in Requests : RG!Reply(r) \/ RG!ReplyLost(r) \/ RG!Drop(r)
  BY DEF Next, Step, Fail, vars, guardVars, Check, MatchRules, ApplyRule, RuleReply, EndRules,
       Validate, ReplayReply, Allow, AllowReply, Score, RecordViolation, ViolationStep, Forward,
       UpstreamReply, UpstreamError, EmitEvent, Answer, Administer, Tick, RG!Tick
<1> QED BY <1>2, <1>3, <1>4, <1>5

(***************************************************************************)
(* What the guard has accepted stays accepted.                             *)
(***************************************************************************)
LEMMA AcceptedGrows ==
  ASSUME ComposedInv, [Next]_vars, NEW m \in Messages
  PROVE  accepted[m] \in Nat /\ accepted'[m] \in Nat /\ accepted'[m] >= accepted[m]
<1>1. accepted \in [Messages -> Nat] /\ sets \in [Requests -> RG!Call \cup {NoCall}]
  BY DEF ComposedInv, RGP!GuardInv, RGP!TypeOK, RG!Call, RGP!Call
<1>2. \/ UNCHANGED accepted
      \/ \E n \in Messages : accepted' = [accepted EXCEPT ![n] = @ + 1]
  <2>1. ASSUME NEW r \in Requests, RG!Reply(r)
        PROVE  UNCHANGED accepted \/ \E n \in Messages : accepted' = [accepted EXCEPT ![n] = @ + 1]
    <3>1. sets[r].msg \in Messages
      BY <1>1, <2>1 DEF RG!Reply, RG!Call
    <3> QED BY <2>1, <3>1 DEF RG!Reply
  <2> QED BY <2>1, GuardStep DEF ComposedInv, RG!Next, RG!vars, RG!Validate, RG!ReplyLost,
       RG!Drop, RG!Tick
<1> QED BY <1>1, <1>2

(***************************************************************************)
(* Each step keeps as many acceptances as requests past the guard: one     *)
(* gets past it when the guard accepts its message once more.              *)
(***************************************************************************)
LEMMA OnceStep ==
  ASSUME ComposedInv, OnceInv, [Next]_vars
  PROVE  OnceInv'
<1>1. SetsMatch' /\ PastWereAccepted /\ PastTwiceWasTwiceAccepted
  BY SetsStep DEF OnceInv
<1>2. \A r \in Requests : MsgOf[r] # NoMsg => MsgOf[r] \in Messages
  BY GatewayAssumption
<1>3. CASE \A r \in Requests : PastGuard(r)' => PastGuard(r) \/ MsgOf[r] = NoMsg
  <2>1. PastWereAccepted'
    <3>1. ASSUME NEW r \in Requests, PastGuard(r)', MsgOf[r] # NoMsg
          PROVE  accepted'[MsgOf[r]] > 0
      <4>1. MsgOf[r] \in Messages /\ accepted[MsgOf[r]] > 0
        BY <1>1, <1>2, <1>3, <3>1 DEF PastWereAccepted
      <4> QED BY <4>1, AcceptedGrows
    <3> QED BY <3>1 DEF PastWereAccepted
  <2>2. PastTwiceWasTwiceAccepted'
    <3>1. ASSUME NEW r \in Requests, NEW s \in Requests, r # s, PastGuard(r)', PastGuard(s)',
                 MsgOf[r] # NoMsg, MsgOf[r] = MsgOf[s]
          PROVE  accepted'[MsgOf[r]] > 1
      <4>1. MsgOf[r] \in Messages /\ accepted[MsgOf[r]] > 1
        BY <1>1, <1>2, <1>3, <3>1 DEF PastTwiceWasTwiceAccepted
      <4> QED BY <4>1, AcceptedGrows
    <3> QED BY <3>1 DEF PastTwiceWasTwiceAccepted
  <2> QED BY <1>1, <2>1, <2>2 DEF OnceInv
<1>4. ASSUME NEW r \in Requests,
             RG!Reply(r), ~RG!Exists(RG!KeyOf(MsgOf[r])),
             \A s \in Requests \ {r} : PastGuard(s)' => PastGuard(s)
      PROVE  OnceInv'
  <2>1. sets[r] # NoCall /\ sets[r].msg = MsgOf[r] /\ MsgOf[r] # NoMsg /\ MsgOf[r] \in Messages
    BY <1>2, <1>4 DEF RG!Reply, OnceInv, SetsMatch
  <2>2. accepted[MsgOf[r]] \in Nat /\ accepted'[MsgOf[r]] = accepted[MsgOf[r]] + 1
    <3>1. accepted \in [Messages -> Nat]
      BY DEF ComposedInv, RGP!GuardInv, RGP!TypeOK
    <3>2. accepted' = [accepted EXCEPT ![MsgOf[r]] = @ + 1]
      BY <1>4, <2>1 DEF RG!Reply
    <3> QED BY <2>1, <3>1, <3>2
  <2>3. ASSUME NEW s \in Requests \ {r}, PastGuard(s)', MsgOf[s] # NoMsg
        PROVE  PastGuard(s) /\ accepted[MsgOf[s]] > 0 /\ accepted'[MsgOf[s]] > 0
    <3>1. PastGuard(s) /\ MsgOf[s] \in Messages /\ accepted[MsgOf[s]] > 0
      BY <1>1, <1>2, <1>4, <2>3 DEF PastWereAccepted
    <3> QED BY <3>1, AcceptedGrows
  <2>4. PastWereAccepted'
    <3>1. accepted'[MsgOf[r]] > 0
      BY <2>2
    <3> QED BY <2>3, <3>1 DEF PastWereAccepted
  <2>5. PastTwiceWasTwiceAccepted'
    <3>1. ASSUME NEW s \in Requests, NEW t \in Requests, s # t, PastGuard(s)', PastGuard(t)',
                 MsgOf[s] # NoMsg, MsgOf[s] = MsgOf[t]
          PROVE  accepted'[MsgOf[s]] > 1
      <4>1. CASE s # r /\ t # r
        <5>1. MsgOf[s] \in Messages /\ accepted[MsgOf[s]] > 1
          BY <1>1, <1>2, <2>3, <3>1, <4>1 DEF PastTwiceWasTwiceAccepted
        <5> QED BY <5>1, AcceptedGrows
      <4>2. CASE s = r \/ t = r
        <5>1. accepted[MsgOf[r]] > 0 /\ MsgOf[s] = MsgOf[r]
          BY <2>3, <3>1, <4>2
        <5> QED BY <2>2, <5>1
      <4> QED BY <4>1, <4>2
    <3> QED BY <3>1 DEF PastTwiceWasTwiceAccepted
  <2> QED BY <1>1, <2>4, <2>5 DEF OnceInv
<1> QED BY <1>3, <1>4, PastEffect DEF ComposedInv

(***************************************************************************)
(* The guard accepts in the pipeline what it accepts alone: a message      *)
(* once, but one without a time after the life of its nonce.               *)
(***************************************************************************)
LEMMA AcceptingProxy == RG!NonceCoversWindow /\ Spec => []RG!NoSecondAcceptance
<1> SUFFICES ASSUME RG!NonceCoversWindow
             PROVE  Spec => []RG!NoSecondAcceptance
  OBVIOUS
<1>1. Init => RGP!Init
  BY SameGuard DEF Init
<1>2. ComposedInv /\ [Next]_vars => [RGP!Next]_(RGP!vars)
  BY GuardStep, SameGuard DEF ComposedInv
<1>3. RGP!Spec => []RGP!NoSecondAcceptance
  BY RGP!AtMostOneAcceptance, SameGuard
<1>4. RGP!NoSecondAcceptance => RG!NoSecondAcceptance
  BY SameGuard
<1> QED BY <1>1, <1>2, <1>3, <1>4, Composed, PTL DEF Spec, RGP!Spec

(***************************************************************************)
(* Replay protection of the proxy (README.md:21): of all deliveries of a   *)
(* message one at most reaches the upstream server, whatever rules, limits *)
(* and failures the others meet, if nonces outlive window, skew and delay; *)
(* and of one without a time, another only when nonces have expired.       *)
(***************************************************************************)
THEOREM OneReachesUpstream == RG!NonceCoversWindow /\ Spec => []UpstreamOnce
<1>1. Init => OnceInv
  <2> SUFFICES ASSUME Init PROVE OnceInv
    OBVIOUS
  <2>1. \A r \in Requests : ~PastGuard(r) /\ sets[r] = NoCall
    BY DEF Init, RG!Init, PastGuard
  <2> QED BY <2>1 DEF OnceInv, SetsMatch, PastWereAccepted, PastTwiceWasTwiceAccepted
<1>2. ComposedInv /\ OnceInv /\ [Next]_vars => OnceInv'
  BY OnceStep
<1>3. ComposedInv /\ OnceInv /\ RG!NoSecondAcceptance => UpstreamOnce
  <2> SUFFICES ASSUME ComposedInv, OnceInv, RG!NoSecondAcceptance,
                      NEW r \in forwarded, NEW s \in forwarded, r # s,
                      MsgOf[r] # NoMsg, MsgOf[r] = MsgOf[s]
               PROVE  RG!Repeatable(MsgOf[r])
    BY DEF UpstreamOnce
  <2>1. r \in Requests /\ s \in Requests /\ MsgOf[r] \in Messages
    BY GatewayAssumption DEF ComposedInv, Flow
  <2>2. accepted[MsgOf[r]] > 1
    BY <2>1 DEF OnceInv, PastTwiceWasTwiceAccepted, PastGuard
  <2> QED BY <2>1, <2>2 DEF RG!NoSecondAcceptance
<1> QED BY <1>1, <1>2, <1>3, Composed, AcceptingProxy, PTL DEF Spec

-----------------------------------------------------------------------------
(***************************************************************************)
(* A request has paid from the reply of its general allow() on.  Whoever   *)
(* paid did so by a grant of its own: a request's grant is the index of    *)
(* its reading among the grants of its client.                             *)
(***************************************************************************)
HasPaid(r) == r \in forwarded \/ pc[r] \in {"score", "forward"}

GrantOf(index) ==
  \A r \in Requests : HasPaid(r) =>
    /\ index[r] \in 1 .. Len(granted[ClientOf[r]])
    /\ granted[ClientOf[r]][index[r]].now = paid[r]
    /\ \A s \in Requests :
         r # s /\ HasPaid(s) /\ ClientOf[r] = ClientOf[s] => index[r] # index[s]

CallsMatch == \A r \in Requests : scripts[r] # NoCall => scripts[r].client = ClientOf[r]

PaidInv ==
  /\ paid \in [Requests -> Int] /\ CallsMatch
  /\ \E index \in [Requests -> Nat] : GrantOf(index)

(***************************************************************************)
(* A call of allow() is for the client of its request.                     *)
(***************************************************************************)
LEMMA CallsMatchStep ==
  ASSUME ComposedInv, CallsMatch, [Next]_vars
  PROVE  CallsMatch'
<1>1. scripts \in [Requests -> RLP!Call \cup {NoCall}]
  BY DEF ComposedInv, RLP!BucketInv, RLP!TypeOK
<1>2. ASSUME NEW r \in Requests, NEW limit, RL!Allow(r, ClientOf[r], limit)
      PROVE  CallsMatch'
  <2>1. \A s \in Requests : \/ scripts'[s] = scripts[s]
                            \/ s = r /\ scripts'[s].client = ClientOf[r]
    BY <1>1, <1>2 DEF RL!Allow
  <2> QED BY <2>1 DEF CallsMatch
<1>3. ASSUME NEW r \in Requests, RL!RunScript(r) \/ RL!Drop(r)
      PROVE  CallsMatch'
  <2>1. \A s \in Requests : scripts'[s] = scripts[s] \/ scripts'[s] = NoCall
    BY <1>1, <1>3 DEF RL!RunScript, RL!Drop
  <2> QED BY <2>1 DEF CallsMatch
<1>4. CASE UNCHANGED scripts
  BY <1>4 DEF CallsMatch
<1>5. \/ UNCHANGED scripts
      \/ \E r \in Requests : \E limit : RL!Allow(r, ClientOf[r], limit)
      \/ \E r \in Requests : RL!RunScript(r) \/ RL!Drop(r)
  BY DEF Next, Step, Fail, vars, limiterVars, Check, MatchRules, ApplyRule, RuleReply, EndRules,
       Validate, ReplayReply, Allow, AllowReply, Score, RecordViolation, ViolationStep, Forward,
       UpstreamReply, UpstreamError, EmitEvent, Answer, Administer, Tick, RL!Tick
<1> QED BY <1>2, <1>3, <1>4, <1>5

(***************************************************************************)
(* The grants of a client stay where they are, and a script that allows    *)
(* appends one with its reading.                                           *)
(***************************************************************************)
LEMMA GrantsGrow ==
  ASSUME ComposedInv, [Next]_vars
  PROVE  /\ \A c \in Clients :
              /\ Len(granted[c]) \in Nat /\ Len(granted'[c]) \in Nat
              /\ Len(granted[c]) <= Len(granted'[c])
              /\ \A i \in 1 .. Len(granted[c]) : granted'[c][i] = granted[c][i]
         /\ \A r \in Requests : RL!RunScript(r) /\ RL!Allowed(r) =>
              LET c == scripts[r].client
                  n == Len(granted[c])
              IN  Len(granted'[c]) = n + 1 /\ granted'[c][n + 1].now = scripts[r].now
<1>1. granted \in [Clients -> Seq(RLP!Grant)]
  BY DEF ComposedInv, RLP!BucketInv, RLP!TypeOK
<1>2. \A c \in Clients : Len(granted[c]) \in Nat
  BY <1>1
<1>3. ASSUME NEW r \in Requests, RL!RunScript(r)
      PROVE  LET c == scripts[r].client
                 n == Len(granted[c])
             IN  /\ c \in Clients
                 /\ ~RL!Allowed(r) => granted'[c] = granted[c]
                 /\ RL!Allowed(r) => /\ Len(granted'[c]) = n + 1
                                     /\ \A i \in 1 .. n : granted'[c][i] = granted[c][i]
                                     /\ granted'[c][n + 1].now = scripts[r].now
                 /\ \A d \in Clients \ {c} : granted'[d] = granted[d]
  <2>1. RLP!RunScript(r) /\ (RLP!Allowed(r) <=> RL!Allowed(r))
    BY <1>3, SameScript
  <2>2. RLP!TypeOK /\ RLP!CallsInTime /\ RLP!BucketAssumption
    BY SameLimiter DEF ComposedInv, RLP!BucketInv
  <2>3. RLP!ExpiryCoversRefill
    BY SameLimiter
  <2> DEFINE c == scripts[r].client
             n == Len(granted[c])
  <2>4. /\ c \in Clients
        /\ ~RLP!Allowed(r) => granted'[c] = granted[c]
        /\ RLP!Allowed(r) => /\ Len(granted'[c]) = n + 1
                             /\ \A i \in 1 .. n : granted'[c][i] = granted[c][i]
                             /\ granted'[c][n + 1] = [now |-> scripts[r].now, run |-> clock]
        /\ \A d \in Clients \ {c} : granted'[d] = granted[d]
    BY <2>1, <2>2, <2>3, RLP!ScriptEffect
  <2> QED BY <2>1, <2>4
<1>4. CASE \E r \in Requests : RL!RunScript(r)
  <2> PICK r \in Requests : RL!RunScript(r)
    BY <1>4
  <2>1. ASSUME NEW c \in Clients
        PROVE  /\ Len(granted[c]) \in Nat /\ Len(granted'[c]) \in Nat
               /\ Len(granted[c]) <= Len(granted'[c])
               /\ \A i \in 1 .. Len(granted[c]) : granted'[c][i] = granted[c][i]
    BY <1>2, <1>3
  <2> QED BY <1>3, <2>1
<1>5. CASE ~\E r \in Requests : RL!RunScript(r)
  <2>1. UNCHANGED granted
    BY <1>5, LimiterStep DEF ComposedInv, RL!Next, RL!vars, RL!Allow, RL!Drop, RL!Tick
  <2> QED BY <1>2, <1>5, <2>1
<1> QED BY <1>4, <1>5

(***************************************************************************)
(* A request comes to have paid only by an allowed general call.           *)
(***************************************************************************)
LEMMA PaidEffect ==
  ASSUME Flow, paid \in [Requests -> Int], [Next]_vars
  PROVE  \/ UNCHANGED paid /\ \A s \in Requests : HasPaid(s)' => HasPaid(s)
         \/ \E r \in Requests :
              /\ RL!RunScript(r) /\ RL!Allowed(r)
              /\ paid' = [paid EXCEPT ![r] = scripts[r].now]
              /\ \A s \in Requests \ {r} : HasPaid(s)' => HasPaid(s)
<1>1. ASSUME NEW r \in Requests, AllowReply(r), RL!Allowed(r)
      PROVE  /\ RL!RunScript(r) /\ RL!Allowed(r)
             /\ paid' = [paid EXCEPT ![r] = scripts[r].now]
             /\ \A s \in Requests \ {r} : HasPaid(s)' => HasPaid(s)
  BY <1>1 DEF Flow, AllowReply, Goto, HasPaid
<1>2. ASSUME NEW r \in Requests, Step(r) \/ Fail(r), ~(AllowReply(r) /\ RL!Allowed(r))
      PROVE  UNCHANGED paid /\ \A s \in Requests : HasPaid(s)' => HasPaid(s)
  <2>1. CASE Forward(r)
    BY <2>1 DEF Flow, Forward, Goto, HasPaid
  <2>2. CASE ~Forward(r)
    <3>1. UNCHANGED <<paid, forwarded>>
      BY <1>2, <2>2 DEF Step, Fail, historyVars, Check, MatchRules, ApplyRule, RuleReply,
           EndRules, Validate, ReplayReply, Allow, AllowReply, Score, RecordViolation,
           ViolationStep, UpstreamReply, UpstreamError, EmitEvent, Answer
    <3>2. /\ \A s \in Requests \ {r} : pc'[s] = pc[s]
          /\ pc'[r] \in {"score", "forward"} => pc[r] \in {"score", "forward"}
      BY <1>2, <2>2 DEF Flow, Step, Fail, Goto, Reject, PassLimit, Check, MatchRules,
           ApplyRule, RuleReply, EndRules, Validate, ReplayReply, Allow, AllowReply, Score,
           RecordViolation, ViolationStep, UpstreamReply, UpstreamError, EmitEvent, Answer
    <3> QED BY <3>1, <3>2 DEF HasPaid
  <2> QED BY <2>1, <2>2
<1>3. CASE (\E a \in Admins : Administer(a)) \/ Tick \/ UNCHANGED vars
  BY <1>3 DEF Administer, Tick, vars, historyVars, HasPaid
<1> QED BY <1>1, <1>2, <1>3 DEF Next

LEMMA PaidStep ==
  ASSUME ComposedInv, PaidInv, [Next]_vars
  PROVE  PaidInv'
<1>1. CallsMatch'
  BY CallsMatchStep DEF PaidInv
<1>2. PICK index \in [Requests -> Nat] : GrantOf(index)
  BY DEF PaidInv
<1>3. \A c \in Clients :
        /\ Len(granted[c]) \in Nat /\ Len(granted'[c]) \in Nat
        /\ Len(granted[c]) <= Len(granted'[c])
        /\ \A i \in 1 .. Len(granted[c]) : granted'[c][i] = granted[c][i]
  BY GrantsGrow
<1>4. ClientOf \in [Requests -> Clients]
  BY GatewayAssumption
<1>5. CASE UNCHANGED paid /\ \A s \in Requests : HasPaid(s)' => HasPaid(s)
  <2>1. GrantOf(index)'
    BY <1>2, <1>3, <1>4, <1>5 DEF GrantOf
  <2> QED BY <1>1, <1>5, <2>1 DEF PaidInv
<1>6. ASSUME NEW r \in Requests,
             RL!RunScript(r), RL!Allowed(r), paid' = [paid EXCEPT ![r] = scripts[r].now],
             \A s \in Requests \ {r} : HasPaid(s)' => HasPaid(s)
      PROVE  PaidInv'
  <2> DEFINE c == ClientOf[r]
             n == Len(granted[c])
  <2>1. scripts[r].client = c /\ c \in Clients /\ n \in Nat
    BY <1>3, <1>4, <1>6 DEF RL!RunScript, PaidInv, CallsMatch
  <2>2. Len(granted'[c]) = n + 1 /\ granted'[c][n + 1].now = scripts[r].now
    BY <1>6, <2>1, GrantsGrow
  <2>3. scripts[r].now \in Int
    BY <1>6 DEF RL!RunScript, ComposedInv, RLP!BucketInv, RLP!TypeOK, RLP!Call
  <2>4. paid' \in [Requests -> Int]
    BY <1>6, <2>1, <2>3 DEF PaidInv
  <2>5. paid'[r] = scripts[r].now /\ \A s \in Requests \ {r} : paid'[s] = paid[s]
    BY <1>6 DEF PaidInv
  <2>6. PICK newIndex \in [Requests -> Nat] :
          newIndex[r] = n + 1 /\ \A s \in Requests \ {r} : newIndex[s] = index[s]
    <3>1. [index EXCEPT ![r] = n + 1] \in [Requests -> Nat]
      BY <2>1
    <3> QED BY <3>1
  <2>7. \A s \in Requests : HasPaid(s) /\ ClientOf[s] = c => index[s] \in 1 .. n
    BY <1>2 DEF GrantOf
  <2>8. ASSUME NEW s \in Requests, HasPaid(s)'
        PROVE  /\ newIndex[s] \in 1 .. Len(granted'[ClientOf[s]])
               /\ granted'[ClientOf[s]][newIndex[s]].now = paid'[s]
               /\ \A t \in Requests :
                    s # t /\ HasPaid(t)' /\ ClientOf[s] = ClientOf[t] => newIndex[s] # newIndex[t]
    <3>1. CASE s = r
      BY <1>6, <2>1, <2>2, <2>5, <2>6, <2>7, <3>1
    <3>2. CASE s # r
      <4>1. HasPaid(s)
        BY <1>6, <2>8, <3>2
      <4>2. /\ index[s] \in 1 .. Len(granted[ClientOf[s]])
            /\ granted[ClientOf[s]][index[s]].now = paid[s]
        BY <1>2, <4>1 DEF GrantOf
      <4>3. /\ newIndex[s] \in 1 .. Len(granted'[ClientOf[s]])
            /\ granted'[ClientOf[s]][newIndex[s]].now = paid'[s]
        BY <1>3, <1>4, <2>5, <2>6, <3>2, <4>2
      <4>4. ASSUME NEW t \in Requests, s # t, HasPaid(t)', ClientOf[s] = ClientOf[t]
            PROVE  newIndex[s] # newIndex[t]
        <5>1. CASE t = r
          BY <2>1, <2>6, <2>7, <3>2, <4>1, <4>4, <5>1
        <5>2. CASE t # r
          BY <1>2, <1>6, <2>6, <3>2, <4>1, <4>4, <5>2 DEF GrantOf
        <5> QED BY <5>1, <5>2
      <4> QED BY <4>3, <4>4
    <3> QED BY <3>1, <3>2
  <2>9. GrantOf(newIndex)'
    BY <2>8 DEF GrantOf
  <2> QED BY <1>1, <2>4, <2>9 DEF PaidInv
<1> QED BY <1>5, <1>6, PaidEffect DEF ComposedInv, PaidInv

(***************************************************************************)
(* A set of indices has a smallest and a largest one.                      *)
(***************************************************************************)
LEMMA SmallestIndex ==
  ASSUME NEW n \in Nat, NEW T, T \subseteq 1 .. n, T # {}
  PROVE  \E i \in T : \A k \in T : i <= k
<1> DEFINE upTo(k) == {j \in T : j <= k}
           prefixes == {upTo(k) : k \in T}
           subsets == FiniteSubsetsOf(1 .. n)
<1>1. IsWellFoundedOn(StrictSubsetOrdering(1 .. n), subsets)
  BY FS_StrictSubsetOrderingWellFounded
<1>2. IsFiniteSet(1 .. n)
  BY FS_Interval
<1>3. prefixes \subseteq subsets
  BY <1>2, FS_Subset DEF FiniteSubsetsOf
<1>4. prefixes # {}
  OBVIOUS
<1>5. PICK P \in prefixes : \A Q \in prefixes : <<Q, P>> \notin StrictSubsetOrdering(1 .. n)
  <2> HIDE DEF prefixes, subsets
  <2> QED BY <1>1, <1>3, <1>4, WFMin
<1>6. PICK i \in T : P = upTo(i)
  OBVIOUS
<1>7. ASSUME NEW k \in T, k < i
      PROVE  FALSE
  <2>1. i \in Int /\ k \in Int /\ \A j \in T : j \in Int
    OBVIOUS
  <2>4. upTo(k) \subseteq upTo(i)
    <3>1. ASSUME NEW j \in T, j <= k
          PROVE  j <= i
      BY <1>7, <2>1, <3>1
    <3> QED BY <3>1
  <2>5. i \in upTo(i) /\ i \notin upTo(k)
    BY <1>7, <2>1
  <2>2. <<upTo(k), P>> \in StrictSubsetOrdering(1 .. n)
    <3>1. upTo(k) \subseteq 1 .. n /\ upTo(i) \subseteq 1 .. n
      OBVIOUS
    <3> HIDE DEF upTo
    <3> QED BY <1>6, <2>4, <2>5, <3>1 DEF StrictSubsetOrdering
  <2>3. upTo(k) \in prefixes
    OBVIOUS
  <2> QED BY <1>5, <2>2, <2>3
<1>8. i \in Int /\ \A k \in T : k \in Int
  OBVIOUS
<1> QED BY <1>7, <1>8

LEMMA LargestIndex ==
  ASSUME NEW n \in Nat, NEW T, T \subseteq 1 .. n, T # {}
  PROVE  \E j \in T : \A k \in T : k <= j
<1> DEFINE mirrored == {n + 1 - k : k \in T}
<1>1. mirrored \subseteq 1 .. n /\ mirrored # {}
  <2>1. \A k \in T : n + 1 - k \in 1 .. n
    OBVIOUS
  <2> QED BY <2>1
<1>2. PICK m \in mirrored : \A k \in mirrored : m <= k
  <2> HIDE DEF mirrored
  <2> QED BY <1>1, SmallestIndex
<1>3. PICK j \in T : m = n + 1 - j
  OBVIOUS
<1>4. ASSUME NEW k \in T
      PROVE  k <= j
  <2>1. m <= n + 1 - k
    BY <1>2
  <2> QED BY <1>3, <2>1
<1> QED BY <1>4

(***************************************************************************)
(* Requests with grants of their own are no more than the grants between   *)
(* the first and the last of them.                                         *)
(***************************************************************************)
LEMMA PaidImpliesLimit ==
  ASSUME ComposedInv, PaidInv
  PROVE  UpstreamLimit
<1> SUFFICES ASSUME NEW c \in Clients, NEW S \in SUBSET {r \in forwarded : ClientOf[r] = c},
                    S # {}
             PROVE  \E r, s \in S :
                      Unit * Cardinality(S) <= MaxCapacity * Unit + Refill * (paid[r] - paid[s])
  BY DEF UpstreamLimit
<1>1. PICK index \in [Requests -> Nat] : GrantOf(index)
  BY DEF PaidInv
<1>2. S \subseteq Requests /\ \A r \in S : HasPaid(r) /\ ClientOf[r] = c
  BY DEF ComposedInv, Flow, HasPaid
<1>3. \A r \in S : /\ index[r] \in 1 .. Len(granted[c])
                   /\ granted[c][index[r]].now = paid[r]
                   /\ \A s \in S : r # s => index[r] # index[s]
  BY <1>1, <1>2 DEF GrantOf
<1>4. Len(granted[c]) \in Nat
  <2>1. granted[c] \in Seq(RLP!Grant)
    BY DEF ComposedInv, RLP!BucketInv, RLP!TypeOK
  <2> QED BY <2>1
<1> DEFINE T == {index[r] : r \in S}
<1>5. T \subseteq 1 .. Len(granted[c]) /\ T # {}
  BY <1>3
<1>6. PICK i \in T : \A k \in T : i <= k
  <2> HIDE DEF T
  <2> QED BY <1>4, <1>5, SmallestIndex
<1>7. PICK j \in T : \A k \in T : k <= j
  <2> HIDE DEF T
  <2> QED BY <1>4, <1>5, LargestIndex
<1>8. i \in Nat /\ j \in Nat /\ i <= j /\ i \in 1 .. Len(granted[c]) /\ j \in 1 .. Len(granted[c])
  <2>1. i \in 1 .. Len(granted[c]) /\ j \in 1 .. Len(granted[c]) /\ i <= j
    <3> HIDE DEF T
    <3> QED BY <1>5, <1>6, <1>7
  <2> QED BY <1>4, <2>1
<1>9. Cardinality(S) \in Nat /\ Cardinality(S) <= j - i + 1
  <2> DEFINE place == [r \in S |-> index[r]]
  <2>1. \A r \in S : index[r] \in i .. j
    <3>1. ASSUME NEW r \in S
          PROVE  index[r] \in i .. j
      <4>1. index[r] \in T /\ index[r] \in Nat
        BY <1>2
      <4> QED BY <1>6, <1>7, <1>8, <4>1
    <3> QED BY <3>1
  <2>2. place \in [S -> i .. j]
    BY <2>1
  <2>3. IsInjective(place)
    BY <1>3 DEF IsInjective
  <2>4. place \in Injection(S, i .. j)
    BY <2>2, <2>3 DEF Injection
  <2>5. IsFiniteSet(i .. j) /\ Cardinality(i .. j) = j - i + 1
    BY <1>8, FS_Interval
  <2>6. IsFiniteSet(S) /\ Cardinality(S) <= Cardinality(i .. j)
    <3> HIDE DEF place
    <3> QED BY <2>4, <2>5, FS_Injection
  <2> QED BY <2>5, <2>6, FS_CardinalityType
<1>10. PICK s \in S : index[s] = i
  BY <1>6
<1>11. PICK r \in S : index[r] = j
  BY <1>7
<1>12. granted[c][i].now = paid[s] /\ granted[c][j].now = paid[r]
  BY <1>3, <1>10, <1>11
<1>13. Unit * (j - i + 1) <= MaxCapacity * Unit + Refill * (paid[r] - paid[s])
  <2>1. Unit * (j - i + 1)
          <= MaxCapacity * Unit + Refill * (granted[c][j].now - granted[c][i].now)
    BY <1>8 DEF ComposedInv, RLP!BucketInv, RLP!SlidingLimit
  <2> QED BY <1>12, <2>1
<1>14. /\ Unit \in Nat /\ MaxCapacity \in Nat /\ Refill \in Nat
       /\ paid[r] \in Int /\ paid[s] \in Int
  BY <1>2, SameLimiter DEF RLP!BucketAssumption, PaidInv
<1>15. Unit * Cardinality(S) <= Unit * (j - i + 1)
  BY <1>8, <1>9, <1>14, RLP!ProductMonotonic
<1>16. Unit * Cardinality(S) <= MaxCapacity * Unit + Refill * (paid[r] - paid[s])
  <2> DEFINE left == Unit * Cardinality(S)
             middle == Unit * (j - i + 1)
             right == MaxCapacity * Unit + Refill * (paid[r] - paid[s])
  <2>1. left \in Int /\ middle \in Int /\ right \in Int
    BY <1>8, <1>9, <1>14
  <2>2. left <= middle /\ middle <= right
    BY <1>13, <1>15
  <2> HIDE DEF left, middle, right
  <2>3. left <= right
    BY <2>1, <2>2
  <2> QED BY <2>3 DEF left, right
<1> QED BY <1>16

LEMMA PaidInit == Init => PaidInv
<1> SUFFICES ASSUME Init PROVE PaidInv
  OBVIOUS
<1>1. \A r \in Requests : ~HasPaid(r) /\ scripts[r] = NoCall
  BY DEF Init, RL!Init, HasPaid
<1>2. [r \in Requests |-> 0] \in [Requests -> Nat]
  OBVIOUS
<1>3. paid \in [Requests -> Int]
  BY DEF Init
<1> QED BY <1>1, <1>2, <1>3 DEF PaidInv, CallsMatch, GrantOf

(***************************************************************************)
(* The limit the pipeline promises its upstream server (proxy.py:72): what *)
(* it receives from one client fits the bucket and its refill, although    *)
(* rules use the same bucket, clocks differ, and requests fail anywhere.   *)
(***************************************************************************)
THEOREM UpstreamIsLimited == Spec => []UpstreamLimit
<1>1. Init => PaidInv
  BY PaidInit
<1>2. ComposedInv /\ PaidInv /\ [Next]_vars => PaidInv'
  BY PaidStep
<1>3. ComposedInv /\ PaidInv => UpstreamLimit
  BY PaidImpliesLimit
<1> QED BY <1>1, <1>2, <1>3, Composed, PTL DEF Spec

-----------------------------------------------------------------------------
(***************************************************************************)
(* CountersAgree is inductive, its first two parts by themselves, and the  *)
(* last because the server received whatever was given the verdict         *)
(* "allowed".                                                              *)
(***************************************************************************)
Tallies ==
  /\ counted \in [Actions -> Nat] /\ blocked \in [Actions \ {"allowed"} -> Nat]
  /\ \A a \in Actions \ {"allowed"} :
       /\ Reached(a, {"record"}) <= counted[a] - blocked[a]
       /\ counted[a] - blocked[a] <= Reached(a, {"record", "failed"})
  /\ \A a \in Actions :
       /\ Reached(a, {"record", "answered"}) <= counted[a]
       /\ counted[a] <= Reached(a, {"record", "answered", "failed"})
AllowedWasForwarded ==
  \A r \in Requests : verdict[r] = "allowed" \/ pc[r] = "upstream" => r \in forwarded

(***************************************************************************)
(* How the number of requests with a verdict at some ends changes when one *)
(* request moves.                                                          *)
(***************************************************************************)
LEMMA ReachedMoves ==
  ASSUME NEW a, NEW ends, NEW r \in Requests, UNCHANGED verdict,
         \A s \in Requests \ {r} : pc'[s] = pc[s]
  PROVE  /\ Reached(a, ends) \in Nat
         /\ Reached(a, ends)' =
              Reached(a, ends)
                + (IF verdict[r] = a /\ pc[r] \notin ends /\ pc'[r] \in ends THEN 1 ELSE 0)
                - (IF verdict[r] = a /\ pc[r] \in ends /\ pc'[r] \notin ends THEN 1 ELSE 0)
<1> DEFINE before == {s \in Requests : verdict[s] = a /\ pc[s] \in ends}
           after == {s \in Requests : verdict'[s] = a /\ pc'[s] \in ends}
<1>1. IsFiniteSet(before) /\ IsFiniteSet(after)
  BY GatewayAssumption, FS_Subset
<1>2. Cardinality(before) \in Nat
  BY <1>1, FS_CardinalityType
<1>3. CASE verdict[r] = a /\ pc[r] \notin ends /\ pc'[r] \in ends
  <2>1. after = before \cup {r} /\ r \notin before
    BY <1>3
  <2>2. Cardinality(after) = Cardinality(before) + 1
    <3> HIDE DEF before, after
    <3> QED BY <1>1, <2>1, FS_AddElement
  <2> QED BY <1>2, <1>3, <2>2 DEF Reached
<1>4. CASE verdict[r] = a /\ pc[r] \in ends /\ pc'[r] \notin ends
  <2>1. before = after \cup {r} /\ r \notin after
    BY <1>4
  <2>2. Cardinality(before) = Cardinality(after) + 1 /\ Cardinality(after) \in Nat
    <3> HIDE DEF before, after
    <3> QED BY <1>1, <2>1, FS_AddElement, FS_CardinalityType
  <2> QED BY <1>2, <1>4, <2>2 DEF Reached
<1>5. CASE ~(verdict[r] = a /\ pc[r] \notin ends /\ pc'[r] \in ends)
           /\ ~(verdict[r] = a /\ pc[r] \in ends /\ pc'[r] \notin ends)
  <2>1. after = before
    BY <1>5
  <2>2. Reached(a, ends)' = Reached(a, ends) /\ Reached(a, ends) \in Nat
    BY <1>2, <2>1 DEF Reached
  <2> QED BY <1>5, <2>2
<1> QED BY <1>3, <1>4, <1>5

(***************************************************************************)
(* Only what is counted or has failed is at an end.                        *)
(***************************************************************************)
LEMMA OtherMoves ==
  ASSUME Flow, NEW r \in Requests, Step(r), ~EmitEvent(r), ~Answer(r)
  PROVE  /\ \A s \in Requests \ {r} : pc'[s] = pc[s] /\ verdict'[s] = verdict[s]
         /\ pc[r] \notin {"record", "answered", "failed"}
         /\ pc'[r] \notin {"record", "answered", "failed"}
         /\ UNCHANGED counterVars
BY DEF Flow, Step, Goto, Reject, PassLimit, Check, MatchRules, ApplyRule, RuleReply, EndRules,
       Validate, ReplayReply, Allow, AllowReply, Score, RecordViolation, ViolationStep, Forward,
       UpstreamReply, UpstreamError

LEMMA TalliesStep ==
  ASSUME Flow, Tallies, [Next]_vars
  PROVE  Tallies'
<1>1. ASSUME NEW r \in Requests, EmitEvent(r) \/ Answer(r) \/ Fail(r)
      PROVE  Tallies'
  <2> DEFINE v == verdict[r]
  <2>1. /\ UNCHANGED verdict
        /\ \A s \in Requests \ {r} : pc'[s] = pc[s]
        /\ \/ /\ pc[r] = "emit" /\ pc'[r] = "record"
              /\ counted' = [counted EXCEPT ![v] = @ + 1] /\ blocked' = blocked
           \/ /\ pc[r] = "record" /\ pc'[r] = "answered"
              /\ counted' = counted
              /\ blocked' = IF v = "allowed" THEN blocked ELSE [blocked EXCEPT ![v] = @ + 1]
           \/ /\ pc[r] \in Awaiting /\ pc'[r] = "failed"
              /\ counted' = counted /\ blocked' = blocked
    BY <1>1 DEF EmitEvent, Answer, Fail, Goto, Flow, counterVars
  <2>2. counted' \in [Actions -> Nat] /\ blocked' \in [Actions \ {"allowed"} -> Nat]
    BY <2>1 DEF Tallies
  <2>3. \A a, ends : /\ Reached(a, ends) \in Nat
                     /\ Reached(a, ends)' =
                          Reached(a, ends)
                            + (IF v = a /\ pc[r] \notin ends /\ pc'[r] \in ends THEN 1 ELSE 0)
                            - (IF v = a /\ pc[r] \in ends /\ pc'[r] \notin ends THEN 1 ELSE 0)
    BY <2>1, ReachedMoves
  <2>4. ASSUME NEW a \in Actions \ {"allowed"}
        PROVE  /\ Reached(a, {"record"})' <= counted'[a] - blocked'[a]
               /\ counted'[a] - blocked'[a] <= Reached(a, {"record", "failed"})'
    <3>1. /\ counted[a] \in Int /\ blocked[a] \in Int
          /\ Reached(a, {"record"}) <= counted[a] - blocked[a]
          /\ counted[a] - blocked[a] <= Reached(a, {"record", "failed"})
      BY DEF Tallies
    <3> QED BY <2>1, <2>3, <3>1 DEF Tallies
  <2>5. ASSUME NEW a \in Actions
        PROVE  /\ Reached(a, {"record", "answered"})' <= counted'[a]
               /\ counted'[a] <= Reached(a, {"record", "answered", "failed"})'
    <3>1. /\ counted[a] \in Int
          /\ Reached(a, {"record", "answered"}) <= counted[a]
          /\ counted[a] <= Reached(a, {"record", "answered", "failed"})
      BY DEF Tallies
    <3> QED BY <2>1, <2>3, <3>1 DEF Tallies
  <2> QED BY <2>2, <2>4, <2>5 DEF Tallies
<1>2. ASSUME NEW r \in Requests, Step(r), ~EmitEvent(r), ~Answer(r)
      PROVE  Tallies'
  <2>1. UNCHANGED counterVars
    BY <1>2, OtherMoves
  <2>2. \A a : \A ends \in SUBSET {"record", "answered", "failed"} :
          Reached(a, ends)' = Reached(a, ends)
    <3> SUFFICES ASSUME NEW a, NEW ends \in SUBSET {"record", "answered", "failed"}
                 PROVE  {s \in Requests : verdict'[s] = a /\ pc'[s] \in ends}
                          = {s \in Requests : verdict[s] = a /\ pc[s] \in ends}
      BY DEF Reached
    <3> QED BY <1>2, OtherMoves
  <2> QED BY <2>1, <2>2 DEF Tallies, counterVars
<1>3. CASE (\E a \in Admins : Administer(a)) \/ Tick \/ UNCHANGED vars
  BY <1>3 DEF Administer, Tick, vars, counterVars, Tallies, Reached
<1> QED BY <1>1, <1>2, <1>3 DEF Next

LEMMA AllowedStep ==
  ASSUME Flow, AllowedWasForwarded, [Next]_vars
  PROVE  AllowedWasForwarded'
<1>1. ASSUME NEW r \in Requests, Step(r) \/ Fail(r)
      PROVE  /\ forwarded \subseteq forwarded'
             /\ \A s \in Requests \ {r} : pc'[s] = pc[s] /\ verdict'[s] = verdict[s]
             /\ verdict'[r] = "allowed" => verdict[r] = "allowed" \/ pc[r] = "upstream"
             /\ pc'[r] = "upstream" => r \in forwarded'
  BY <1>1 DEF Flow, Step, Fail, historyVars, Goto, Reject, PassLimit, Check, MatchRules,
       ApplyRule, RuleReply, EndRules, Validate, ReplayReply, Allow, AllowReply, Score,
       RecordViolation, ViolationStep, Forward, UpstreamReply, UpstreamError, EmitEvent, Answer
<1>2. CASE \E r \in Requests : Step(r) \/ Fail(r)
  BY <1>1, <1>2 DEF AllowedWasForwarded
<1>3. CASE (\E a \in Admins : Administer(a)) \/ Tick \/ UNCHANGED vars
  BY <1>3 DEF Administer, Tick, vars, historyVars, AllowedWasForwarded
<1> QED BY <1>2, <1>3 DEF Next

LEMMA TalliesInit == Init => Tallies
<1> SUFFICES ASSUME Init PROVE Tallies
  OBVIOUS
<1>1. ASSUME NEW a, NEW ends \in SUBSET {"record", "answered", "failed"}
      PROVE  Reached(a, ends) = 0
  <2>1. {s \in Requests : verdict[s] = a /\ pc[s] \in ends} = {}
    BY DEF Init
  <2> QED BY <2>1, FS_EmptySet DEF Reached
<1> QED BY <1>1 DEF Init, Tallies

(***************************************************************************)
(* REQUEST_COUNTER and BLOCKED_REQUESTS_COUNTER (metrics.py) agree with    *)
(* each other, with the answers and with what the upstream server got.     *)
(***************************************************************************)
THEOREM CountersAreExact == Spec => []CountersAgree
<1>1. Init => Tallies /\ AllowedWasForwarded
  BY TalliesInit DEF Init, AllowedWasForwarded
<1>2. ComposedInv /\ Tallies /\ AllowedWasForwarded /\ [Next]_vars
      => (Tallies /\ AllowedWasForwarded)'
  BY TalliesStep, AllowedStep DEF ComposedInv
<1>3. ComposedInv /\ Tallies /\ AllowedWasForwarded => CountersAgree
  <2> SUFFICES ASSUME ComposedInv, Tallies, AllowedWasForwarded PROVE CountersAgree
    OBVIOUS
  <2> DEFINE allowed == {r \in Requests :
                           verdict[r] = "allowed" /\ pc[r] \in {"record", "answered", "failed"}}
  <2>1. allowed \subseteq forwarded
    BY DEF AllowedWasForwarded
  <2>2. IsFiniteSet(forwarded)
    BY GatewayAssumption, FS_Subset DEF ComposedInv, Flow
  <2>3. /\ Cardinality(allowed) <= Cardinality(forwarded)
        /\ Cardinality(allowed) \in Nat /\ Cardinality(forwarded) \in Nat
    <3> HIDE DEF allowed
    <3> QED BY <2>1, <2>2, FS_Subset, FS_CardinalityType
  <2>4. counted["allowed"] \in Int /\ counted["allowed"] <= Cardinality(allowed)
    BY DEF Tallies, Reached, Actions
  <2>5. counted["allowed"] <= Cardinality(forwarded)
    BY <2>3, <2>4
  <2> QED BY <2>5 DEF Tallies, CountersAgree
<1> QED BY <1>1, <1>2, <1>3, Composed, PTL DEF Spec

-----------------------------------------------------------------------------
(***************************************************************************)
(* Only clients are lifted.                                                *)
(***************************************************************************)
LEMMA LiftedStep ==
  ASSUME lifted \subseteq Clients, [Next]_vars
  PROVE  lifted' \subseteq Clients
BY DEF Next, Administer, Tick, vars

(***************************************************************************)
(* The remaining histories have their types, too.                          *)
(***************************************************************************)
LEMMA PipelineTyped ==
  Spec => [](ComposedInv /\ CheckedInv /\ PaidInv /\ Tallies /\ lifted \subseteq Clients)
<1>1. Init => CheckedInv /\ PaidInv /\ Tallies /\ lifted \subseteq Clients
  BY CheckedInit, PaidInit, TalliesInit DEF Init
<1>2. ComposedInv /\ (CheckedInv /\ PaidInv /\ Tallies /\ lifted \subseteq Clients) /\ [Next]_vars
        => (CheckedInv /\ PaidInv /\ Tallies /\ lifted \subseteq Clients)'
  BY CheckedStep, PaidStep, TalliesStep, LiftedStep DEF ComposedInv
<1> QED BY <1>1, <1>2, Composed, PTL DEF Spec

(***************************************************************************)
(* The pipeline, its counters and its parts have their types, and no       *)
(* action is counted more often than there are requests.                   *)
(***************************************************************************)
THEOREM TypeCorrect == Spec => []TypeOK
<1>1. ComposedInv /\ CheckedInv /\ PaidInv /\ Tallies /\ lifted \subseteq Clients => TypeOK
  <2> SUFFICES ASSUME ComposedInv, CheckedInv, PaidInv, Tallies, lifted \subseteq Clients
               PROVE  TypeOK
    OBVIOUS
  <2>1. RL!TypeOK
    BY DEF ComposedInv, RLP!BucketInv, RLP!TypeOK, RL!TypeOK, RLP!Bucket, RL!Bucket, RLP!Call, RL!Call,
           RLP!Grant, RL!Grant
  <2>2. RG!TypeOK
    BY DEF ComposedInv, RGP!GuardInv, RGP!TypeOK, RG!TypeOK, RGP!Keys, RG!Keys, RGP!KeyOf, RG!KeyOf,
           RGP!Call, RG!Call
  <2>3. BL!TypeOK
    BY DEF ComposedInv, BLP!BlacklistInv, BLP!TypeOK, BL!TypeOK, BLP!Count, BL!Count, BLP!Ban, BL!Ban,
           BLP!Proc, BL!Proc
  <2>4. \A a, ends : Reached(a, ends) \in Nat /\ Reached(a, ends) <= Cardinality(Requests)
    <3> SUFFICES ASSUME NEW a, NEW ends
                 PROVE  Reached(a, ends) \in Nat /\ Reached(a, ends) <= Cardinality(Requests)
      OBVIOUS
    <3> DEFINE reached == {r \in Requests : verdict[r] = a /\ pc[r] \in ends}
    <3>1. reached \subseteq Requests /\ IsFiniteSet(Requests)
      BY GatewayAssumption
    <3>2. Cardinality(reached) \in Nat /\ Cardinality(reached) <= Cardinality(Requests)
      <4> HIDE DEF reached
      <4> QED BY <3>1, FS_Subset, FS_CardinalityType
    <3> QED BY <3>2 DEF Reached
  <2>5. Cardinality(Requests) \in Nat
    BY GatewayAssumption, FS_CardinalityType
  <2>6. ASSUME NEW a \in Actions
        PROVE  counted[a] \in 0 .. Cardinality(Requests)
    <3>1. counted[a] \in Nat /\ counted[a] <= Reached(a, {"record", "answered", "failed"})
      BY DEF Tallies
    <3> QED BY <2>4, <2>5, <3>1
  <2>7. ASSUME NEW a \in Actions \ {"allowed"}
        PROVE  blocked[a] \in 0 .. Cardinality(Requests)
    <3>1. blocked[a] \in Nat /\ Reached(a, {"record"}) <= counted[a] - blocked[a]
      BY DEF Tallies
    <3> QED BY <2>4, <2>5, <2>6, <3>1
  <2>8. /\ counted \in [Actions -> 0 .. Cardinality(Requests)]
        /\ blocked \in [Actions \ {"allowed"} -> 0 .. Cardinality(Requests)]
    BY <2>6, <2>7 DEF Tallies
  <2> QED BY <2>1, <2>2, <2>3, <2>8 DEF TypeOK, ComposedInv, Flow, CheckedInv, PaidInv
<1> QED BY <1>1, PipelineTyped, PTL

-----------------------------------------------------------------------------
(***************************************************************************)
(* StrikesBan counts violations of the past.  While a client is not        *)
(* banned, its strikes and the recordings that will not ban it are at most *)
(* its counter, and fewer than the threshold: each got a count of its own  *)
(* below it.  Within the first TTL, and unless an administrator unbans,    *)
(* neither the counter nor a ban goes away.                                *)
(***************************************************************************)
Recording ==
  /\ \A r \in Requests :
       /\ pc[r] = "recording" => proc[r] # NoCall
       /\ proc[r] # NoCall => proc[r].ip = ClientOf[r] /\ proc[r].pc # "DEL"
  /\ \A a \in Admins : proc[a] # NoCall /\ proc[a].pc = "DEL" => proc[a].ip \in lifted

Remembered ==
  \A c \in Clients \ lifted :
    /\ bans[c].expires = -1 \/ bans[c].expires >= BlacklistTTL
    /\ violations[c].expires = -1 \/ violations[c].expires >= BlacklistTTL

LowRecordings(c) == {r \in Requests : /\ ClientOf[r] = c /\ pc[r] = "recording"
                                      /\ proc[r].count < MaxViolations}
Low(c) == Strikes(c) \cup LowRecordings(c)

FewStrikes ==
  clock <= BlacklistTTL =>
    \A c \in Clients \ lifted : ~BL!IsBanned(c) =>
      Cardinality(Low(c)) <= BL!Counted(c) /\ Cardinality(Low(c)) < MaxViolations

StrikeInv == Recording /\ Remembered /\ FewStrikes

(***************************************************************************)
(* Types of the blacklist in terms of Gateway.                             *)
(***************************************************************************)
LEMMA BlacklistTypes ==
  ASSUME ComposedInv
  PROVE  /\ clock \in Nat /\ clock <= MaxTime /\ MaxTime \in Nat /\ BlacklistTTL \in Nat
         /\ MaxViolations \in Nat \ {0}
         /\ proc \in [Requests \cup Admins -> BL!Proc \cup {NoCall}] /\ NoCall \notin BL!Proc
         /\ bans \in [Clients -> BL!Ban] /\ violations \in [Clients -> BL!Count]
BY GatewayAssumption DEF BL!BlacklistAssumption, ComposedInv, BLP!BlacklistInv, BLP!TypeOK, BLP!Count,
   BL!Count, BLP!Ban, BL!Ban, BLP!Proc, BL!Proc

(***************************************************************************)
(* What a step of request r does to the operations under way: it begins,   *)
(* continues or ends that of r, and a recording lasts as long as its       *)
(* operation.                                                              *)
(***************************************************************************)
LEMMA RequestProc ==
  ASSUME ComposedInv, Recording, NEW r \in Requests, Step(r) \/ Fail(r)
  PROVE  /\ \A w \in (Requests \cup Admins) \ {r} : proc'[w] = proc[w]
         /\ \A s \in Requests \ {r} : pc'[s] = pc[s]
         /\ proc'[r] # NoCall => proc'[r].ip = ClientOf[r] /\ proc'[r].pc # "DEL"
         /\ pc'[r] = "recording" =>
              /\ proc'[r] # NoCall
              /\ \/ pc[r] = "recording" /\ proc'[r].count = proc[r].count
                 \/ RecordViolation(r)
<1>1. proc \in [Requests \cup Admins -> BL!Proc \cup {NoCall}] /\ NoCall \notin BL!Proc
  BY BlacklistTypes
<1>2. /\ Requests \cap Admins = {} /\ ClientOf[r] \in Clients
      /\ pc \in [Requests -> Awaiting \cup Ended]
  BY GatewayAssumption DEF ComposedInv, Flow
<1>3. /\ pc[r] = "recording" => proc[r] # NoCall
      /\ proc[r] # NoCall => proc[r].ip = ClientOf[r] /\ proc[r].pc # "DEL"
  BY DEF Recording
<1>4. CASE RecordViolation(r)
  <2> DEFINE new == [pc |-> "EXPIRE", ip |-> ClientOf[r],
                     count |-> BL!Counted(ClientOf[r]) + 1, at |-> clock]
  <2>1. proc' = [proc EXCEPT ![r] = new]
    BY <1>4 DEF RecordViolation, BL!Incr
  <2>2. new \in BL!Proc
    <3>1. BL!Counted(ClientOf[r]) \in Nat /\ clock \in Nat
      BY <1>2, BlacklistTypes DEF BL!Counted, BL!Count
    <3> QED BY <1>2, <3>1 DEF BL!Proc
  <2>3. new.ip = ClientOf[r] /\ new.pc = "EXPIRE"
    OBVIOUS
  <2> HIDE DEF new
  <2>4. \A s \in Requests \ {r} : pc'[s] = pc[s]
    BY <1>2, <1>4 DEF RecordViolation, Goto
  <2> QED BY <1>1, <1>4, <2>1, <2>2, <2>3, <2>4
<1>5. CASE ViolationStep(r)
  <2>1. pc[r] = "recording"
    BY <1>5 DEF ViolationStep
  <2>2. CASE proc' = [proc EXCEPT ![r] = NoCall]
    <3>1. proc'[r] = NoCall /\ \A w \in (Requests \cup Admins) \ {r} : proc'[w] = proc[w]
      BY <1>1, <2>2
    <3>2. pc' = [pc EXCEPT ![r] = "emit"]
      BY <1>5, <3>1 DEF ViolationStep, Goto
    <3> QED BY <1>2, <3>1, <3>2
  <2>3. ASSUME NEW next \in {"ban", "SET"}, BLP!Goto(r, next)
        PROVE  /\ proc'[r] # NoCall /\ proc'[r].pc = next /\ proc'[r].ip = proc[r].ip
               /\ proc'[r].count = proc[r].count
               /\ \A w \in Requests \cup Admins : w # r => proc'[w] = proc[w]
    BY <1>3, <2>1, <2>3, SameBlacklist, BLP!ProcGoto DEF ComposedInv, BLP!BlacklistInv
  <2>4. proc' = [proc EXCEPT ![r] = NoCall] \/ BLP!Goto(r, "ban") \/ BLP!Goto(r, "SET")
    BY <1>5 DEF ViolationStep, BL!Expire, BL!BeginBan, BL!SetBan, BL!Return, BL!Goto, BLP!Goto
  <2>5. ASSUME NEW next \in {"ban", "SET"}, BLP!Goto(r, next)
        PROVE  UNCHANGED pc
    BY <1>5, <2>3, <2>5 DEF ViolationStep
  <2> QED BY <1>3, <2>1, <2>2, <2>3, <2>4, <2>5
<1>6. CASE Fail(r)
  <2>1. proc' = proc \/ proc' = [proc EXCEPT ![r] = NoCall]
    BY <1>6 DEF Fail, blacklistVars, BL!Fail, BL!Return
  <2>2. pc' = [pc EXCEPT ![r] = "failed"]
    BY <1>6 DEF Fail, Goto
  <2> QED BY <1>1, <1>2, <1>3, <2>1, <2>2
<1>7. CASE Step(r) /\ ~RecordViolation(r) /\ ~ViolationStep(r)
  <2>1. proc' = proc
    BY <1>7 DEF Step, Check, MatchRules, ApplyRule, RuleReply, EndRules, Validate, ReplayReply,
         Allow, AllowReply, Score, Forward, UpstreamReply, UpstreamError, EmitEvent, Answer,
         blacklistVars
  <2>2. pc'[r] # "recording" /\ \A s \in Requests \ {r} : pc'[s] = pc[s]
    BY <1>2, <1>7 DEF Step, Check, MatchRules, ApplyRule, RuleReply, EndRules, Validate,
         ReplayReply, Allow, AllowReply, Score, Forward, UpstreamReply, UpstreamError,
         EmitEvent, Answer, Goto, Reject, PassLimit
  <2> QED BY <1>1, <1>3, <2>1, <2>2
<1> QED BY <1>4, <1>5, <1>6, <1>7

(***************************************************************************)
(* The same of an administrator's step, which deletes a counter only in an *)
(* unban.                                                                  *)
(***************************************************************************)
LEMMA AdminProc ==
  ASSUME ComposedInv, NEW a \in Admins, Administer(a)
  PROVE  /\ \A w \in (Requests \cup Admins) \ {a} : proc'[w] = proc[w]
         /\ proc'[a] # NoCall /\ proc'[a].pc = "DEL" => proc'[a].ip \in lifted'
         /\ UNCHANGED <<clock, pc, todo, verdict>> /\ lifted \subseteq lifted'
<1>1. proc \in [Requests \cup Admins -> BL!Proc \cup {NoCall}] /\ NoCall \notin BL!Proc
  BY BlacklistTypes
<1>2. UNCHANGED <<clock, pc, todo, verdict>> /\ lifted \subseteq lifted'
  BY DEF Administer, BL!BanByAdmin, BL!Unban, BL!SetBan, BL!DelViolations, BL!Fail
<1>3. ASSUME NEW c \in Clients, BL!Unban(a, c), lifted' = lifted \cup {c}
      PROVE  /\ \A w \in (Requests \cup Admins) \ {a} : proc'[w] = proc[w]
             /\ proc'[a].ip \in lifted'
  BY <1>1, <1>3 DEF BL!Unban
<1>4. ASSUME NEW c \in Clients, BL!BanByAdmin(a, c)
      PROVE  /\ \A w \in (Requests \cup Admins) \ {a} : proc'[w] = proc[w]
             /\ proc'[a].pc = "SET"
  BY <1>1, <1>4 DEF BL!BanByAdmin
<1>5. CASE proc' = [proc EXCEPT ![a] = NoCall]
  BY <1>1, <1>2, <1>5
<1>6. \/ \E c \in Clients : BL!Unban(a, c) /\ lifted' = lifted \cup {c}
      \/ \E c \in Clients : BL!BanByAdmin(a, c)
      \/ proc' = [proc EXCEPT ![a] = NoCall]
  BY DEF Administer, BL!SetBan, BL!DelViolations, BL!Fail, BL!Return
<1> QED BY <1>2, <1>3, <1>4, <1>5, <1>6

LEMMA RecordingStep ==
  ASSUME ComposedInv, Recording, [Next]_vars
  PROVE  Recording'
<1>1. Requests \cap Admins = {}
  BY GatewayAssumption
<1>2. ASSUME NEW r \in Requests, Step(r) \/ Fail(r), UNCHANGED lifted
      PROVE  Recording'
  BY <1>1, <1>2, RequestProc DEF Recording
<1>3. ASSUME NEW a \in Admins, Administer(a)
      PROVE  Recording'
  BY <1>1, <1>3, AdminProc DEF Recording
<1>4. CASE Tick \/ UNCHANGED vars
  BY <1>4 DEF Recording, Tick, BL!Tick, vars, blacklistVars
<1> QED BY <1>2, <1>3, <1>4 DEF Next

(***************************************************************************)
(* A step of request r adds no other request to Low; it adds r only when   *)
(* it records a violation below the threshold, or sets the ban.            *)
(***************************************************************************)
LEMMA LowMoves ==
  ASSUME ComposedInv, Recording, NEW r \in Requests, Step(r) \/ Fail(r), NEW c \in Clients
  PROVE  \/ Low(c)' \subseteq Low(c)
         \/ /\ ClientOf[r] = c /\ Low(c)' \subseteq Low(c) \cup {r}
            /\ \/ RecordViolation(r) /\ proc'[r].count < MaxViolations
               \/ BL!SetBan(r)
<1>1. /\ pc \in [Requests -> Awaiting \cup Ended] /\ todo \in [Requests -> Seq(Rule)]
      /\ verdict \in [Requests -> Actions \cup {"none"}]
      /\ pc[r] = "rule" => todo[r] # <<>>
  BY DEF ComposedInv, Flow
<1>2. /\ \A s \in (Requests \cup Admins) \ {r} : proc'[s] = proc[s]
      /\ \A s \in Requests \ {r} : pc'[s] = pc[s]
      /\ pc'[r] = "recording" =>
           \/ pc[r] = "recording" /\ proc'[r].count = proc[r].count
           \/ RecordViolation(r)
  BY RequestProc
<1>3. \A s \in Requests \ {r} : todo'[s] = todo[s] /\ verdict'[s] = verdict[s]
  <2>1. \A s \in Requests \ {r} : verdict'[s] = verdict[s]
    BY <1>1 DEF Step, Fail, Reject, PassLimit, Check, MatchRules, ApplyRule, RuleReply, EndRules,
         Validate, ReplayReply, Allow, AllowReply, Score, RecordViolation, ViolationStep, Forward,
         UpstreamReply, UpstreamError, EmitEvent, Answer
  <2>2. \/ UNCHANGED todo
        \/ todo' = [todo EXCEPT ![r] = Tail(@)]
        \/ \E rules \in RuleLists : todo' = [todo EXCEPT ![r] = rules]
    BY DEF Step, Fail, PassLimit, Check, MatchRules, ApplyRule, RuleReply, EndRules,
         Validate, ReplayReply, Allow, AllowReply, Score, RecordViolation, ViolationStep, Forward,
         UpstreamReply, UpstreamError, EmitEvent, Answer
  <2> QED BY <1>1, <2>1, <2>2
<1>4. \A s \in Requests \ {r} : s \in Low(c)' => s \in Low(c)
  BY <1>2, <1>3 DEF Low, Strikes, LowRecordings
<1>5. CASE RecordViolation(r)
  <2>1. pc'[r] = "recording"
    BY <1>1, <1>5 DEF RecordViolation, Goto
  <2>2. r \in Low(c)' => ClientOf[r] = c /\ proc'[r].count < MaxViolations
    BY <2>1 DEF Low, Strikes, LowRecordings
  <2> QED BY <1>4, <1>5, <2>2 DEF Low, Strikes, LowRecordings
<1>6. CASE ViolationStep(r) /\ BL!SetBan(r)
  <2>1. r \in Low(c)' => ClientOf[r] = c
    BY DEF Low, Strikes, LowRecordings
  <2> QED BY <1>4, <1>6, <2>1 DEF Low, Strikes, LowRecordings
<1>7. CASE ViolationStep(r) /\ ~BL!SetBan(r)
  <2>1. pc[r] = "recording" /\ (pc'[r] = "recording" \/ (pc'[r] = "emit" /\ proc'[r] = NoCall))
    BY <1>1, <1>7 DEF ViolationStep, Goto
  <2>2. CASE pc'[r] = "recording"
    <3>1. proc'[r].count = proc[r].count
      BY <1>2, <2>1, <2>2 DEF RecordViolation
    <3>2. r \in Low(c)' => r \in Low(c)
      BY <2>1, <2>2, <3>1 DEF Low, Strikes, LowRecordings
    <3> QED BY <1>4, <3>2 DEF Low, Strikes, LowRecordings
  <2>3. CASE proc'[r] = NoCall
    <3>1. ~BLP!Goto(r, "ban") /\ ~BLP!Goto(r, "SET")
      BY <2>1, <2>3, SameBlacklist, BLP!ProcGoto DEF ComposedInv, BLP!BlacklistInv, Recording
    <3>2. BL!Expire(r) /\ ~BL!AtThreshold(proc[r].count)
      BY <1>7, <3>1 DEF ViolationStep, BL!Expire, BL!BeginBan, BL!Goto, BLP!Goto
    <3>3. proc[r] \in BL!Proc
      BY <3>2, BlacklistTypes DEF BL!Expire, BL!At
    <3>4. proc[r].count < MaxViolations
      BY <3>2, <3>3, BlacklistTypes DEF BL!AtThreshold, BL!Proc
    <3>5. r \in Low(c)' => r \in Low(c)
      BY <2>1, <3>4 DEF Low, Strikes, LowRecordings
    <3> QED BY <1>4, <3>5 DEF Low, Strikes, LowRecordings
  <2> QED BY <2>1, <2>2, <2>3
<1>8. CASE Fail(r)
  <2>1. pc'[r] = "failed"
    BY <1>1, <1>8 DEF Fail, Goto
  <2> QED BY <1>4, <2>1 DEF Low, Strikes, LowRecordings
<1>9. CASE Step(r) /\ ~RecordViolation(r) /\ ~ViolationStep(r)
  <2>1. /\ pc'[r] # "recording"
        /\ /\ pc'[r] \in {"emit", "record", "answered"}
           /\ verdict'[r] \in {"rate_limited", "anomaly_blocked"} /\ todo'[r] = <<>>
           => /\ pc[r] \in {"emit", "record", "answered"}
              /\ verdict'[r] = verdict[r] /\ todo'[r] = todo[r]
    BY <1>1, <1>9 DEF Step, Check, MatchRules, ApplyRule, RuleReply, EndRules, Validate,
         ReplayReply, Allow, AllowReply, Score, Forward, UpstreamReply, UpstreamError,
         EmitEvent, Answer, Goto, Reject, PassLimit
  <2>2. r \in Low(c)' => r \in Low(c)
    BY <2>1 DEF Low, Strikes, LowRecordings
  <2> QED BY <1>4, <2>2 DEF Low, Strikes, LowRecordings
<1> QED BY <1>5, <1>6, <1>7, <1>8, <1>9

(***************************************************************************)
(* What a step does to the ban and the counter of a client that no         *)
(* administrator unbans: they stay while time passes; a SET renews the     *)
(* ban, and INCR and EXPIRE only raise or renew the counter.               *)
(***************************************************************************)
LEMMA BlacklistEffect ==
  ASSUME ComposedInv, Recording, [Next]_vars, NEW c \in Clients \ lifted'
  PROVE  /\ c \notin lifted
         /\ \/ clock' = clock
            \/ clock' = clock + 1 /\ UNCHANGED <<bans, violations>>
         /\ bans'[c].expires \in {bans[c].expires, clock + BlacklistTTL}
         /\ \/ violations'[c] = violations[c]
            \/ /\ clock' = clock /\ violations'[c].count >= BL!Counted(c)
               /\ \/ violations'[c].expires >= clock + BlacklistTTL
                  \/ clock <= violations[c].expires /\ violations'[c].expires = violations[c].expires
<1>1. /\ clock \in Nat /\ clock <= MaxTime /\ MaxTime \in Nat /\ BlacklistTTL \in Nat
      /\ proc \in [Requests \cup Admins -> BL!Proc \cup {NoCall}] /\ NoCall \notin BL!Proc
      /\ bans \in [Clients -> BL!Ban] /\ violations \in [Clients -> BL!Count]
      /\ ClientOf \in [Requests -> Clients]
  BY BlacklistTypes, GatewayAssumption
<1>2. c \notin lifted
  BY AdminProc DEF Next, Tick, vars
<1>3. /\ violations[c].count \in Nat /\ violations[c].expires \in Int
      /\ BL!Counted(c) \in Nat
  BY <1>1 DEF BL!Counted, BL!Count
<1>4. ASSUME NEW r \in Requests, RecordViolation(r)
      PROVE  /\ UNCHANGED <<clock, bans>>
             /\ \/ violations'[c] = violations[c]
                \/ /\ violations'[c].count >= BL!Counted(c)
                   /\ \/ violations'[c].expires >= clock + BlacklistTTL
                      \/ /\ clock <= violations[c].expires
                         /\ violations'[c].expires = violations[c].expires
  <2>1. UNCHANGED <<clock, bans>>
    BY <1>4 DEF RecordViolation, BL!Incr
  <2>2. CASE c # ClientOf[r]
    BY <1>1, <1>4, <2>1, <2>2 DEF RecordViolation, BL!Incr
  <2>3. CASE c = ClientOf[r]
    <3>1. /\ violations'[c].count = BL!Counted(c) + 1
          /\ violations'[c].expires
               = IF clock <= violations[c].expires THEN violations[c].expires ELSE BL!Forever
      BY <1>1, <1>4, <2>3 DEF RecordViolation, BL!Incr, BL!Exists
    <3>2. BL!Forever >= clock + BlacklistTTL
      BY <1>1 DEF BL!Forever
    <3> QED BY <1>3, <2>1, <3>1, <3>2
  <2> QED BY <2>2, <2>3
<1>5. ASSUME NEW w \in Requests \cup Admins, BL!Expire(w)
      PROVE  /\ UNCHANGED <<clock, bans>>
             /\ \/ violations'[c] = violations[c]
                \/ /\ violations'[c].count >= BL!Counted(c)
                   /\ violations'[c].expires >= clock + BlacklistTTL
  <2>1. UNCHANGED <<clock, bans>>
    BY <1>5 DEF BL!Expire
  <2>2. \/ violations'[c] = violations[c]
        \/ /\ violations'[c].count = violations[c].count
           /\ violations'[c].expires = clock + BlacklistTTL
    BY <1>1, <1>5 DEF BL!Expire, BL!Count
  <2>3. violations[c].count >= BL!Counted(c)
    BY <1>3 DEF BL!Counted
  <2> QED BY <1>1, <2>1, <2>2, <2>3
<1>6. ASSUME NEW w \in Requests \cup Admins, BL!SetBan(w)
      PROVE  /\ UNCHANGED <<clock, violations>>
             /\ bans'[c].expires \in {bans[c].expires, clock + BlacklistTTL}
  <2>1. bans'[c] = bans[c] \/ \E skew \in -MaxSkew .. MaxSkew : bans'[c] = BL!Entry(w, skew)
    BY <1>1, <1>6 DEF BL!SetBan
  <2> QED BY <1>6, <2>1 DEF BL!SetBan, BL!Entry
<1>7. ASSUME NEW a \in Admins, Administer(a)
      PROVE  \/ BL!SetBan(a)
             \/ UNCHANGED clock /\ bans'[c] = bans[c] /\ violations'[c] = violations[c]
  <2>1. UNCHANGED clock /\ lifted \subseteq lifted'
    BY <1>7, AdminProc
  <2>2. CASE \E d \in Clients : BL!Unban(a, d) /\ lifted' = lifted \cup {d}
    BY <1>1, <2>1, <2>2 DEF BL!Unban
  <2>3. CASE BL!DelViolations(a)
    <3>1. proc[a].ip \in lifted
      BY <2>3 DEF BL!DelViolations, BL!At, Recording
    <3> QED BY <1>1, <1>2, <2>1, <2>3, <3>1 DEF BL!DelViolations
  <2> QED BY <1>7, <2>1, <2>2, <2>3 DEF Administer, BL!BanByAdmin, BL!Fail
<1>8. ASSUME NEW r \in Requests, Step(r) \/ Fail(r),
             ~RecordViolation(r), ~BL!Expire(r), ~BL!SetBan(r)
      PROVE  UNCHANGED <<clock, bans, violations>>
  BY <1>8 DEF Step, Fail, Check, MatchRules, ApplyRule, RL!Allow, RuleReply, RL!RunScript,
       EndRules, Validate, RG!Validate, ReplayReply, RG!Reply, Allow, AllowReply, Score,
       ViolationStep, BL!BeginBan, BL!Fail, RL!Drop, RG!ReplyLost, RG!Drop, Forward,
       UpstreamReply, UpstreamError, EmitEvent, Answer, blacklistVars
<1>9. CASE Tick \/ UNCHANGED vars
  BY <1>2, <1>9 DEF Tick, BL!Tick, vars, blacklistVars
<1> QED BY <1>2, <1>4, <1>5, <1>6, <1>7, <1>8, <1>9 DEF Next

LEMMA RememberedStep ==
  ASSUME ComposedInv, Recording, Remembered, [Next]_vars
  PROVE  Remembered'
<1>1. clock \in Nat /\ BlacklistTTL \in Nat
  BY BlacklistTypes
<1>2. ASSUME NEW c \in Clients \ lifted'
      PROVE  /\ bans'[c].expires = -1 \/ bans'[c].expires >= BlacklistTTL
             /\ violations'[c].expires = -1 \/ violations'[c].expires >= BlacklistTTL
  <2>1. /\ c \notin lifted
        /\ bans'[c].expires \in {bans[c].expires, clock + BlacklistTTL}
        /\ \/ violations'[c] = violations[c]
           \/ violations'[c].expires >= clock + BlacklistTTL
           \/ clock <= violations[c].expires /\ violations'[c].expires = violations[c].expires
    BY <1>2, BlacklistEffect
  <2>2. /\ bans[c].expires = -1 \/ bans[c].expires >= BlacklistTTL
        /\ violations[c].expires = -1 \/ violations[c].expires >= BlacklistTTL
    BY <1>2, <2>1 DEF Remembered
  <2>3. violations'[c] \in BL!Count
    <3>1. [BLP!Next]_(BLP!vars)
      BY BlacklistStep, SameBlacklist
    <3>2. BLP!BlacklistInv'
      BY <3>1, SameBlacklist, BLP!BlacklistStep DEF ComposedInv
    <3> QED BY <3>2 DEF BLP!BlacklistInv, BLP!TypeOK, BLP!Count, BL!Count
  <2>4. violations'[c].expires \in Int
    BY <2>3 DEF BL!Count
  <2> QED BY <1>1, <2>1, <2>2, <2>4
<1> QED BY <1>2 DEF Remembered

(***************************************************************************)
(* Within the first TTL neither a ban nor a count goes away.               *)
(***************************************************************************)
LEMMA CountsStay ==
  ASSUME ComposedInv, Recording, Remembered, [Next]_vars, clock' <= BlacklistTTL,
         NEW c \in Clients \ lifted'
  PROVE  /\ clock <= BlacklistTTL /\ c \notin lifted
         /\ BL!IsBanned(c) => BL!IsBanned(c)'
         /\ BL!Counted(c) \in Nat /\ BL!Counted(c)' \in Nat
         /\ BL!Counted(c) <= BL!Counted(c)'
<1>1. /\ clock \in Nat /\ BlacklistTTL \in Nat
      /\ bans[c].expires \in Int /\ violations[c] \in BL!Count
  BY BlacklistTypes DEF BL!Ban
<1>2. violations'[c] \in BL!Count
  <2>1. [BLP!Next]_(BLP!vars)
    BY BlacklistStep, SameBlacklist
  <2>2. BLP!BlacklistInv'
    BY <2>1, SameBlacklist, BLP!BlacklistStep DEF ComposedInv
  <2> QED BY <2>2 DEF BLP!BlacklistInv, BLP!TypeOK, BLP!Count, BL!Count
<1>3. /\ c \notin lifted
      /\ clock' = clock \/ (clock' = clock + 1 /\ UNCHANGED <<bans, violations>>)
      /\ bans'[c].expires \in {bans[c].expires, clock + BlacklistTTL}
      /\ \/ violations'[c] = violations[c]
         \/ /\ clock' = clock /\ violations'[c].count >= BL!Counted(c)
            /\ \/ violations'[c].expires >= clock + BlacklistTTL
               \/ clock <= violations[c].expires /\ violations'[c].expires = violations[c].expires
  BY BlacklistEffect
<1>4. /\ violations[c].count \in Nat /\ violations[c].expires \in Int
      /\ violations'[c].count \in Nat /\ violations'[c].expires \in Int
  BY <1>1, <1>2 DEF BL!Count
<1>5. /\ bans[c].expires = -1 \/ bans[c].expires >= BlacklistTTL
      /\ violations[c].expires = -1 \/ violations[c].expires >= BlacklistTTL
  BY <1>3 DEF Remembered
<1>6. clock <= BlacklistTTL
  BY <1>1, <1>3
<1>7. clock <= bans[c].expires => clock' <= bans'[c].expires
  BY <1>1, <1>3, <1>5
<1>8. /\ BL!Counted(c) = IF clock <= violations[c].expires THEN violations[c].count ELSE 0
      /\ BL!Counted(c)' = IF clock' <= violations'[c].expires THEN violations'[c].count ELSE 0
  BY DEF BL!Counted, BL!Exists
<1>9. BL!Counted(c) <= BL!Counted(c)'
  <2>1. CASE violations'[c] = violations[c]
    <3>1. clock <= violations[c].expires => clock' <= violations[c].expires
      BY <1>1, <1>3, <1>4, <1>5
    <3> QED BY <1>4, <1>8, <2>1, <3>1
  <2>2. CASE /\ clock' = clock /\ violations'[c].count >= BL!Counted(c)
             /\ \/ violations'[c].expires >= clock + BlacklistTTL
                \/ /\ clock <= violations[c].expires
                   /\ violations'[c].expires = violations[c].expires
    <3>1. clock' <= violations'[c].expires
      BY <1>1, <1>4, <2>2
    <3> QED BY <1>4, <1>8, <2>2, <3>1
  <2> QED BY <1>3, <2>1, <2>2
<1> QED BY <1>3, <1>4, <1>6, <1>7, <1>8, <1>9 DEF BL!IsBanned, BL!Exists

-----------------------------------------------------------------------------
(***************************************************************************)
(* The sizes of sets with at most one element more.                        *)
(***************************************************************************)
LEMMA OneMore ==
  ASSUME NEW T, NEW S, NEW x, IsFiniteSet(T)
  PROVE  /\ Cardinality(T) \in Nat
         /\ S \subseteq T => Cardinality(S) \in Nat /\ Cardinality(S) <= Cardinality(T)
         /\ S \subseteq T \cup {x} =>
              Cardinality(S) \in Nat /\ Cardinality(S) <= Cardinality(T) + 1
<1>1. Cardinality(T) \in Nat
  BY FS_CardinalityType
<1>2. ASSUME S \subseteq T
      PROVE  Cardinality(S) \in Nat /\ Cardinality(S) <= Cardinality(T)
  BY <1>2, FS_Subset, FS_CardinalityType
<1>3. ASSUME S \subseteq T \cup {x}
      PROVE  Cardinality(S) \in Nat /\ Cardinality(S) <= Cardinality(T) + 1
  <2>1. IsFiniteSet(T \cup {x}) /\ Cardinality(T \cup {x}) <= Cardinality(T) + 1
    BY <1>1, FS_AddElement
  <2>2. Cardinality(T \cup {x}) \in Nat
    BY <2>1, FS_CardinalityType
  <2>3. Cardinality(S) \in Nat /\ Cardinality(S) <= Cardinality(T \cup {x})
    BY <1>3, <2>1, FS_Subset, FS_CardinalityType
  <2> QED BY <1>1, <2>1, <2>2, <2>3
<1> QED BY <1>1, <1>2, <1>3

LEMMA LowIsFinite ==
  ASSUME NEW c
  PROVE  IsFiniteSet(Low(c))
<1>1. Low(c) \subseteq Requests
  BY DEF Low, Strikes, LowRecordings
<1> QED BY <1>1, GatewayAssumption, FS_Subset

(***************************************************************************)
(* A recording below the threshold has a count of its own, one above those *)
(* before it.                                                              *)
(***************************************************************************)
LEMMA FewStep ==
  ASSUME ComposedInv, StrikeInv, [Next]_vars
  PROVE  FewStrikes'
<1> SUFFICES ASSUME clock' <= BlacklistTTL, NEW c \in Clients \ lifted', ~BL!IsBanned(c)'
             PROVE  /\ Cardinality(Low(c)') <= BL!Counted(c)'
                    /\ Cardinality(Low(c)') < MaxViolations
  BY DEF FewStrikes
<1>1. /\ clock <= BlacklistTTL /\ c \notin lifted /\ ~BL!IsBanned(c)
      /\ BL!Counted(c) \in Nat /\ BL!Counted(c)' \in Nat
      /\ BL!Counted(c) <= BL!Counted(c)'
  BY CountsStay DEF StrikeInv
<1>2. /\ Cardinality(Low(c)) <= BL!Counted(c) /\ Cardinality(Low(c)) < MaxViolations
      /\ IsFiniteSet(Low(c)) /\ Cardinality(Low(c)) \in Nat /\ MaxViolations \in Nat
  BY <1>1, LowIsFinite, FS_CardinalityType, BlacklistTypes DEF StrikeInv, FewStrikes
<1>3. CASE Low(c)' \subseteq Low(c)
  <2>1. Cardinality(Low(c)') \in Nat /\ Cardinality(Low(c)') <= Cardinality(Low(c))
    BY <1>2, <1>3, OneMore
  <2> QED BY <1>1, <1>2, <2>1
<1>4. ASSUME NEW r \in Requests, RecordViolation(r), ClientOf[r] = c,
             proc'[r].count < MaxViolations, Low(c)' \subseteq Low(c) \cup {r}
      PROVE  /\ Cardinality(Low(c)') <= BL!Counted(c)'
             /\ Cardinality(Low(c)') < MaxViolations
  <2>1. Cardinality(Low(c)') \in Nat /\ Cardinality(Low(c)') <= Cardinality(Low(c)) + 1
    BY <1>2, <1>4, OneMore
  <2>2. /\ proc \in [Requests \cup Admins -> BL!Proc \cup {NoCall}]
        /\ violations \in [Clients -> BL!Count]
        /\ clock \in Nat /\ clock <= MaxTime /\ BlacklistTTL \in Nat /\ MaxTime \in Nat
    BY BlacklistTypes
  <2>3. /\ proc'[r].count = BL!Counted(c) + 1
        /\ UNCHANGED clock /\ violations'[c].count = BL!Counted(c) + 1
        /\ violations'[c].expires
             = IF clock <= violations[c].expires THEN violations[c].expires ELSE BL!Forever
    BY <1>4, <2>2 DEF RecordViolation, BL!Incr, BL!Exists
  <2>4. clock' <= violations'[c].expires
    BY <2>2, <2>3 DEF BL!Forever
  <2>5. BL!Counted(c)' = BL!Counted(c) + 1
    BY <2>3, <2>4 DEF BL!Counted, BL!Exists
  <2> QED BY <1>1, <1>2, <1>4, <2>1, <2>3, <2>5
<1>5. ASSUME NEW r \in Requests, BL!SetBan(r), ClientOf[r] = c
      PROVE  FALSE
  <2>1. proc[r] # NoCall /\ proc[r].ip = c
    BY <1>5 DEF BL!SetBan, BL!At, StrikeInv, Recording
  <2>2. bans'[c].expires = clock + BlacklistTTL /\ UNCHANGED clock
    BY <1>5, <2>1, BlacklistTypes DEF BL!SetBan, BL!Entry
  <2>3. clock' <= bans'[c].expires
    BY <2>2, BlacklistTypes
  <2> QED BY <2>3 DEF BL!IsBanned, BL!Exists
<1>6. ASSUME NEW r \in Requests, Step(r) \/ Fail(r)
      PROVE  /\ Cardinality(Low(c)') <= BL!Counted(c)'
             /\ Cardinality(Low(c)') < MaxViolations
  BY <1>3, <1>4, <1>5, <1>6, LowMoves DEF StrikeInv
<1>7. ASSUME NEW a \in Admins, Administer(a)
      PROVE  Low(c)' \subseteq Low(c)
  <2>1. UNCHANGED <<pc, todo, verdict>> /\ \A r \in Requests : proc'[r] = proc[r]
    BY <1>7, AdminProc, GatewayAssumption
  <2> QED BY <2>1 DEF Low, Strikes, LowRecordings
<1>8. CASE Tick \/ UNCHANGED vars
  <2>1. UNCHANGED <<pc, todo, verdict, proc>>
    BY <1>8 DEF Tick, BL!Tick, vars, blacklistVars
  <2>2. Low(c)' \subseteq Low(c)
    BY <2>1 DEF Low, Strikes, LowRecordings
  <2> QED BY <1>3, <2>2
<1> QED BY <1>3, <1>6, <1>7, <1>8 DEF Next

(***************************************************************************)
(* However the violations of a client overlap, on whatever replicas, they  *)
(* add up to its ban (proxy.py:74, blacklist.py:19-24).                    *)
(***************************************************************************)
THEOREM StrikesLeadToBan == Spec => []StrikesBan
<1>1. Init => StrikeInv
  <2> SUFFICES ASSUME Init PROVE StrikeInv
    OBVIOUS
  <2>1. Recording /\ Remembered
    BY DEF Init, BL!Init, Recording, Remembered
  <2>2. \A c \in Clients : Low(c) = {}
    BY DEF Init, Low, Strikes, LowRecordings
  <2>3. \A c \in Clients : BL!Counted(c) = 0
    BY DEF Init, BL!Init, BL!Counted, BL!Exists
  <2>4. MaxViolations \in Nat \ {0}
    BY GatewayAssumption DEF BL!BlacklistAssumption
  <2> QED BY <2>1, <2>2, <2>3, <2>4, FS_EmptySet DEF StrikeInv, FewStrikes
<1>2. ComposedInv /\ StrikeInv /\ [Next]_vars => StrikeInv'
  BY RecordingStep, RememberedStep, FewStep DEF StrikeInv
<1>3. ComposedInv /\ StrikeInv => StrikesBan
  <2> SUFFICES ASSUME ComposedInv, StrikeInv, clock <= BlacklistTTL, NEW c \in Clients \ lifted,
                      ~BL!IsBanned(c), Cardinality(Strikes(c)) >= MaxViolations
               PROVE  FALSE
    BY DEF StrikesBan
  <2>1. Cardinality(Low(c)) < MaxViolations /\ MaxViolations \in Nat
    BY BlacklistTypes DEF StrikeInv, FewStrikes
  <2>2. IsFiniteSet(Low(c)) /\ Strikes(c) \subseteq Low(c)
    BY LowIsFinite DEF Low
  <2>3. /\ Cardinality(Low(c)) \in Nat /\ Cardinality(Strikes(c)) \in Nat
        /\ Cardinality(Strikes(c)) <= Cardinality(Low(c))
    BY <2>2, OneMore
  <2> QED BY <2>1, <2>3
<1> QED BY <1>1, <1>2, <1>3, Composed, PTL DEF Spec
=============================================================================
