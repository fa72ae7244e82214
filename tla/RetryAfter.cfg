CONSTANTS Layers = 1 MaxGET = 2 MaxWrite = 1 Caller = "typed"
SPECIFICATION Spec
INVARIANT RetryAfterApplied
CHECK_DEADLOCK FALSE
