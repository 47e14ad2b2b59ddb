\* One request, under a rule of one request per second.
CONSTANTS
  c1 = c1
  r1 = r1
  r2 = r2
  a1 = a1
  NoCall = NoCall
  NoMsg = NoMsg
  NoLimit = NoLimit
  Clients <- OneClient
  Requests <- OneRequest
  Admins <- NoAdmin
  ClientOf <- AllOfOneClient
  Messages <- OneMessage
  Parts <- OneClient
  NaN = NaN
  MsgOf <- NoMessages
  RuleLists <- RuleOfOne
  Capacity = 2
  Overrides = {0, 1}
  MaxCapacity = 2
  Unit = 1
  Refill = 1
  BucketTTL = 3
  Window = 1
  NonceTTL = 3
  MaxViolations = 1
  BlacklistTTL = 2
  MaxStreak = 2
  MaxSkew = 0
  MaxDelay = 1
  MaxTime = 2
SPECIFICATION Spec
CHECK_DEADLOCK FALSE
INVARIANT RuleAdmitsItsLimit
