\* Two calls that share the main queue, a list of two changing under them.
SPECIFICATION Spec
CONSTANTS
    Providers = {P1}
    Calls = {C1, C2}
    TakesNull = {C2}
    Handlers = {H1, H2}
    NextProvider = NextProvider
    MaxProviders = 2
INVARIANTS HandlersInOrder AskedInTurn
PROPERTIES HandlersCalled AnswersAsPromised
CHECK_DEADLOCK FALSE
