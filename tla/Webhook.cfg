CONSTANTS
  r1 = r1 r2 = r2 e1 = e1 e2 = e2
  Request = {r1, r2}
  Event = {e1, e2}
  Cap = 1
  MaxSkew = 3
  Offset <- NearClock
  MaxDelay = 1
  Wide = 16
  MaxTime = 8
  MaxSigned = 1
  NoDelivery = NoDelivery
  NoId = NoId
SPECIFICATION Spec
SYMMETRY Symmetric
INVARIANTS TypeOK AcceptedOnce AcceptedWithinSkew
CHECK_DEADLOCK FALSE
