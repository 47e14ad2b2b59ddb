\* The deployed ratio: the nonce lives for twice the window (60 s and 30 s),
\* exact clocks, and a SET that reaches Redis one tick after the reading.
CONSTANTS
  a = a
  b = b
  n = n
  NaN = NaN
  Parts = {a, b, n}
  k1 = k1
  k2 = k2
  NoCall = NoCall
  Messages <- OneMessage
  Callers <- TwoCallers
  Window = 2
  NonceTTL = 4
  MaxSkew = 0
  MaxDelay = 1
  MaxTime = 6
SPECIFICATION Spec
INVARIANT NoSecondAcceptance
CHECK_DEADLOCK FALSE
