\* One client, two concurrent calls, a rule that clamps the bucket to one
\* token, half tokens, and a bucket that can expire within MaxTime.
CONSTANTS
  c1 = c1
  k1 = k1
  k2 = k2
  NoCall = NoCall
  Clients <- OneClient
  Callers <- TwoCallers
  Capacity = 2
  Overrides = {0, 1}
  MaxCapacity = 2
  Unit = 2
  Refill = 1
  BucketTTL = 6
  MaxSkew = 0
  MaxDelay = 2
  MaxTime = 7
SPECIFICATION Spec
INVARIANTS TypeOK SlidingLimit RealTimeLimit BucketInv
SYMMETRY CallerSymmetry
