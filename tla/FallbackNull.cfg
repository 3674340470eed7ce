SPECIFICATION Spec
CONSTANTS
    Providers = {P1}
    Calls = {C1}
    TakesNull = {}
    Handlers = {H1}
    NextProvider = NextProvider
    MaxProviders = 2
INVARIANTS SuccessReturned
CHECK_DEADLOCK FALSE
