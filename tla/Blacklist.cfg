\* Three workers on one address, a threshold of two violations, a TTL short
\* enough for counters and bans to expire and to be written again, and clocks
\* that differ.
CONSTANTS
  i1 = i1
  w1 = w1
  w2 = w2
  w3 = w3
  NoProc = NoProc
  IPs <- OneIP
  Workers <- ThreeWorkers
  MaxViolations = 2
  BlacklistTTL = 2
  MaxSkew = 1
  MaxDelay = 1
  MaxTime = 5
  MaxStreak = 3
SPECIFICATION Spec
INVARIANTS TypeOK ThresholdBans CountersExpire CountIsEarned AdvertisedExpiry
SYMMETRY WorkerSymmetry
