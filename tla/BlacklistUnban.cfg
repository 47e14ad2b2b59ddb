\* An administrator unbans while a recorded violation is on its way to a ban.
CONSTANTS
  i1 = i1
  w1 = w1
  w2 = w2
  w3 = w3
  NoProc = NoProc
  IPs <- OneIP
  Workers <- TwoWorkers
  MaxViolations = 2
  BlacklistTTL = 3
  MaxSkew = 0
  MaxDelay = 1
  MaxTime = 4
  MaxStreak = 3
SPECIFICATION Spec
PROPERTY UnbanLiftsEarlierBans
