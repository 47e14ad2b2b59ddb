CONSTANTS
  q1 = q1
  q2 = q2
  q3 = q3
  q4 = q4
  q5 = q5
  q6 = q6
  q7 = q7
  ada = ada
  ann = ann
  u1 = u1
  u2 = u2
  Nobody = Nobody
  NoRule = NoRule
  Requests = {q1, q2, q3, q4, q5, q6, q7}
  KindOf <- Kind
  UserOf <- User
  RoleOf <- Role
  RuleIds = {u1, u2}
  Limit = 2
SPECIFICATION Spec
INVARIANTS TypeOK AuditExplainsRules AnsweredIsLogged LogBounded
SYMMETRY Uuids
CHECK_DEADLOCK FALSE
