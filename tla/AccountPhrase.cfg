SPECIFICATION Spec
CONSTANTS
    K12 = K12
    K24 = K24
    P = P
    Q = Q
    Keys = {K12, K24}
    NoKey = NoKey
    Passwords = {P, Q}
    Jobs = {J1, J2}
    PhraseBytes <- MCPhraseBytes
    ForeignFiles <- MCForeignFiles
INVARIANTS PhraseKept
CHECK_DEADLOCK FALSE
