CONSTANTS
  e1 = e1 e2 = e2 e3 = e3 e4 = e4
  Event = {e1, e2, e3, e4}
  Cap = 2
  Ttl = 2
  MaxLag = 1
  MaxTime = 4
SPECIFICATION Spec
SYMMETRY Symmetric
INVARIANT TypeOK
PROPERTIES ImplementsContract EvictsLeastRecent
CHECK_DEADLOCK FALSE
