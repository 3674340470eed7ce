SPECIFICATION IdSpec
CONSTANTS
    Ids = {I1, I2, I3, I4}
    NoId = NoId
INVARIANTS OneId
PROPERTIES Settled KeychainKept
