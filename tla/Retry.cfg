CONSTANTS Layers = 2 MaxGET = 2 MaxWrite = 1 Caller = "typed"
SPECIFICATION Spec
INVARIANTS TypeOK SendsBounded ExecutedOnce ExecutedWhole NothingLeftOpen CancelCostsOneBackoff
PROPERTY ResentOnlyWhenSafe
CHECK_DEADLOCK FALSE
