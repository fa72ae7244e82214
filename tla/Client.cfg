CONSTANTS
  p1 = p1 p2 = p2
  Proc = {p1, p2}
  Operation <- Operations
  OptionList <- OptionLists
  AllowInsecure = TRUE
  Answer <- Answers
  Version <- Versions
SPECIFICATION FairSpec
INVARIANTS TypeOK OneVerdict Compatible PayloadDelivered ErrorsAsDocumented
           SecretsLetGo ResultMeansCaptured  FailedLoginLeavesNothing
PROPERTY PingReturns
