CONSTANTS
  users = users
  auth = auth
  Grpc = {users, auth}
  Redis = redis
  Checks <- MCChecks
SPECIFICATION Spec
INVARIANTS
  IInv
  AnswerJustified
  BlameIsFair
PROPERTIES
  ProbeEnds
