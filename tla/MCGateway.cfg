SPECIFICATION FairGatewaySpec
CONSTANTS
  Life = 2
  Threshold = 3
  MaxClients = 2
  Nil = Nil
INVARIANTS
  GatewayTypeOK
  NoExpiredTokenIsSent
PROPERTIES
  OutageGetsItsBudget
  SameAdvice
  RotatedTokenIsUsed
  OutageIsReported
