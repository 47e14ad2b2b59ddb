\* Two plain requests and an administrator on one client, half tokens: the
\* second request needs two ticks of refill or is the second violation.
CONSTANTS
  c1 = c1
  r1 = r1
  r2 = r2
  a1 = a1
  NoCall = NoCall
  NoMsg = NoMsg
  NoLimit = NoLimit
  Clients <- OneClient
  Requests <- TwoRequests
  Admins <- OneAdmin
  ClientOf <- AllOfOneClient
  Messages <- OneMessage
  Parts <- OneClient
  NaN = NaN
  MsgOf <- NoMessages
  RuleLists <- NoRules
  Capacity = 1
  Overrides = {0}
  MaxCapacity = 1
  Unit = 2
  Refill = 1
  BucketTTL = 3
  Window = 1
  NonceTTL = 3
  MaxViolations = 2
  BlacklistTTL = 2
  MaxStreak = 2
  MaxSkew = 0
  MaxDelay = 1
  MaxTime = 2
SPECIFICATION Spec
INVARIANTS StrikesBan UpstreamLimit BanStopsLaterRequests
SYMMETRY Symmetry
CHECK_DEADLOCK FALSE
