CONSTANTS
  q1 = q1
  q2 = q2
  q3 = q3
  q4 = q4
  q5 = q5
  q6 = q6
  a1 = a1
  a2 = a2
  name = name
  w1 = w1
  w2 = w2
  w3 = w3
  Health = Health
  NoSend = NoSend
  Requests = {q1, q2, q3, q4, q5, q6}
  AddressOf <- Address
  IdOf <- Id
  Sockets = {w1, w2, w3}
  Scenes <- SixScenes
  Limit = 2
  AlertWindow = 2
  Threshold = 2
  Cooldown = 2
  RowsKept = 2
  MinClients = 2
  MaxClients = 2
  ReadLimit = 1
  MinRows = 2
SPECIFICATION Spec
INVARIANTS TypeOK MissedWereSkipped AlertsMatchAttacks RowsAreKeptShort SummariesAreComplete
PROPERTIES SentOnce GoneIsRemoved ModelIsRetrained
CHECK_DEADLOCK FALSE
