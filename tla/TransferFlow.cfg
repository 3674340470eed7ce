SPECIFICATION Spec
CONSTANTS
    Tokens = {T, U}
    WithDecimals = {T}
    ETH = ETH
    NoToken = NoToken
    Prices = {1, 2}
    MaxAmount = 2
    GasLimit = 1
    MaxNonce = 1
INVARIANTS RegisteredFirst NoncesDistinct SentOnChain CoveredAsChecked
PROPERTIES HudGoes
CHECK_DEADLOCK FALSE
