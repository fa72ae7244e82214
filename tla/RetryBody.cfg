CONSTANTS Layers = 1 MaxGET = 2 MaxWrite = 1 Caller = "raw"
SPECIFICATION Spec
INVARIANT ExecutedWhole
CHECK_DEADLOCK FALSE
