SPECIFICATION Spec
CONSTANTS
  Req = {r1, r2}
  NoReq = NoReq
  Token = {k1}
  Input <- Inputs
  Text <- SomeText
  Useful <- UsefulInputs
  Totals <- SomeTotals
  TokenExpire = 1
  CacheExpire = 2
  ReplyDelay = 1
SYMMETRY ReqSymmetry
INVARIANTS
  TypeOK
  ChargesAccountedFor
  AdmittedWhileActive
  NothingLost
  KeyAndDataAgree
PROPERTIES
  QuotaKept
  TokenExpires
  ImplementsLedger
