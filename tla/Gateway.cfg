\* Two deliveries of one message, rules of every kind, a ban at the first
\* violation; time passes while they wait.
CONSTANTS
  c1 = c1
  r1 = r1
  r2 = r2
  a1 = a1
  NoCall = NoCall
  NoMsg = NoMsg
  NoLimit = NoLimit
  Clients <- OneClient
  Requests <- TwoRequests
  Admins <- NoAdmin
  ClientOf <- AllOfOneClient
  Messages <- OneMessage
  Parts <- OneClient
  NaN = NaN
  MsgOf <- Duplicates
  RuleLists <- AnyRules
  Capacity = 2
  Overrides = {0, 1}
  MaxCapacity = 2
  Unit = 1
  Refill = 1
  BucketTTL = 3
  Window = 1
  NonceTTL = 3
  MaxViolations = 1
  BlacklistTTL = 2
  MaxStreak = 2
  MaxSkew = 0
  MaxDelay = 1
  MaxTime = 2
SPECIFICATION FairSpec
INVARIANTS TypeOK UpstreamOnce CountersAgree
PROPERTY EveryRequestEnds
CHECK_DEADLOCK FALSE
