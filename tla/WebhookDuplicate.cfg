CONSTANTS
  r1 = r1 r2 = r2 e1 = e1 e2 = e2
  Request = {r1, r2}
  Event = {e1, e2}
  Cap = 2
  MaxSkew = 2
  Offset <- FarClock
  MaxDelay = 1
  Wide = 16
  MaxTime = 6
  MaxSigned = 2
  NoDelivery = NoDelivery
  NoId = NoId
SPECIFICATION Spec
INVARIANT AcceptedOnce
CHECK_DEADLOCK FALSE
