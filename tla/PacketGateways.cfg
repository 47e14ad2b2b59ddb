\* Eight journeys of three deliveries: a player at the limits of speed and
\* repetition, with retries on another connection, replica and protocol and a
\* packet without a time, and one that cheats; the shortest safe TTL,
\* 2 * Window + MaxDelay = 3, and a clock that runs past it.
CONSTANTS
  a = a
  b = b
  i1 = i1
  s1 = s1
  s2 = s2
  r1 = r1
  r2 = r2
  w1 = w1
  w2 = w2
  w3 = w3
  d1 = d1
  d2 = d2
  d3 = d3
  d4 = d4
  d5 = d5
  d6 = d6
  d7 = d7
  d8 = d8
  d9 = d9
  d10 = d10
  d11 = d11
  d12 = d12
  d13 = d13
  NaN = NaN
  Undecodable = Undecodable
  Garbled = Garbled
  Nowhere = Nowhere
  NoCall = NoCall
  Deliveries <- WalkAndRetry
  Info <- InfoOf
  Messages <- EightMessages
  Parts <- TextParts
  Window = 1
  NonceTTL = 3
  Sendings <- Journeys
  MaxSkew = 0
  MaxDelay = 1
  MaxTime = 4
  Replicas = {r1, r2}
  Players <- TwoPlayers
  Times <- FourTimes
  MaxSpeed = 5
  MinRepeat = 1
  MinElapsed = 1
  HistoryLength = 1
  Addresses = {i1}
  Sessions = {s1, s2}
  FloodWindow = 0
  MaxNewSessions = 1
SPECIFICATION Spec
INVARIANTS TypeOK OneVerdict AcksStand HonestMoversNotAccused SessionsBounded
PROPERTY MacrosWereOvertaken
CHECK_DEADLOCK FALSE
