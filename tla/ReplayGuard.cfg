\* The shortest safe TTL, 2 * Window + 2 * MaxSkew + MaxDelay = 5, and a clock
\* that runs until a nonce spent at 0 has expired and been used again.
CONSTANTS
  a = a
  b = b
  n = n
  NaN = NaN
  Parts = {a, b, n}
  k1 = k1
  k2 = k2
  NoCall = NoCall
  Messages <- ThreeMessages
  Callers <- TwoCallers
  Window = 1
  NonceTTL = 5
  MaxSkew = 1
  MaxDelay = 1
  MaxTime = 7
SPECIFICATION Spec
INVARIANTS TypeOK OncePerNonceLife NoFalseReuse GuardInv
PROPERTIES AcceptedInWindow AtMostOnceSpec
CHECK_DEADLOCK FALSE
