SPECIFICATION LiveSpec
CONSTANTS
  Call = {c1, c2}
  Token = {k1, k2, k3, k4}
  NoToken = NoToken
  MaxRetry = 1
  RefreshHours = 1
INVARIANTS
  TypeOK
  RetryUsesNewToken
PROPERTIES
  CallComesToAnEnd
  LoginsDieDown
